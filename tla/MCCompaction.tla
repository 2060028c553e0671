---------------------------- MODULE MCCompaction ----------------------------
(* A tool that reads much and one that writes much, the figures scaled down   *)
(* so that a thread of three short turns meets every rule.                    *)
EXTENDS Compaction

MCArgsOf == [t \in Tools |-> IF t = "write" THEN 3 ELSE 1]
MCResultOf == [t \in Tools |-> IF t = "read" THEN 4 ELSE 1]
Target == [keep |-> 1, lastCalls |-> 1, target |-> 7, above |-> 5, percent |-> 25]
NoTarget == [keep |-> 0, lastCalls |-> 1, target |-> 0, above |-> 0, percent |-> 25]
MCSettings == {Target, NoTarget}
=============================================================================
