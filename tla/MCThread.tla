------------------------------ MODULE MCThread ------------------------------
(* The thread actor on small instances: each configuration turns up what   *)
(* its properties are about and leaves the rest low.                       *)
EXTENDS ThreadProperties
=============================================================================
