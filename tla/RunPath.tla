------------------------------ MODULE RunPath -------------------------------
(***************************************************************************)
(* What a run promises the people who follow it: it works until it asks or *)
(* ends, an ask stands until somebody answers and nothing is written past  *)
(* it, each comment is posted once and only while the run works, and a run *)
(* that has ended does nothing more.  Crashes and restarts do not show.    *)
(***************************************************************************)
EXTENDS Naturals, Sequences

VARIABLES
  phase,     \* "working", "asking" or "over"
  moves,     \* what the run wrote on its own
  answers,   \* what people answered
  posted     \* the comments, in their order
vars == <<phase, moves, answers, posted>>

Range(seq) == {seq[i] : i \in DOMAIN seq}

Init == phase = "working" /\ moves = 1 /\ answers = 0 /\ posted = <<>>

Moves(to) ==
    /\ phase = "working" /\ phase' = to
    /\ moves' = moves + 1 /\ UNCHANGED <<answers, posted>>
Work == Moves("working")
Ask == Moves("asking")
End == Moves("over")
Answer ==
    /\ phase = "asking" /\ phase' = "working"
    /\ answers' = answers + 1 /\ UNCHANGED <<moves, posted>>
Post ==
    /\ phase = "working"
    /\ \E tag \in Range(posted') \ Range(posted) : posted' = Append(posted, tag)
    /\ UNCHANGED <<phase, moves, answers>>

Next == Work \/ Ask \/ Answer \/ End \/ Post

Spec == Init /\ [][Next]_vars
=============================================================================
