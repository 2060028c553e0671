---------------------------- MODULE RunnerProofs -----------------------------
(***************************************************************************)
(* What holds of a run for every workflow, whatever people answer and      *)
(* wherever the daemon dies: a writing step works, and its push leaves,    *)
(* under the repository's write lock; what people see of the run is what   *)
(* RunPath promises them; no push goes out on checks that did not pass;    *)
(* and the attempts of a step never run into each other.                   *)
(***************************************************************************)
EXTENDS RunnerInvariants, FiniteSetTheorems, SequenceTheorems, TLAPS, WellFoundedInduction

-----------------------------------------------------------------------------
(* Sequences and greatest places                                           *)

LEMMA SeqSelf ==
  ASSUME NEW S, NEW q \in Seq(S)
  PROVE  IsSeq(q) /\ Range(q) \subseteq S /\ DOMAIN q = 1 .. Len(q) /\ Len(q) \in Nat
<1>1. DOMAIN q = 1 .. Len(q) /\ Len(q) \in Nat /\ \A i \in 1 .. Len(q) : q[i] \in S
  BY SeqDef
<1>2. Range(q) \subseteq S
  BY <1>1 DEF Range
<1>3. q \in [1 .. Len(q) -> Range(q)]
  BY <1>1 DEF Range
<1> QED BY <1>1, <1>2, <1>3, SeqDef DEF IsSeq

LEMMA Places ==
  ASSUME NEW q, IsSeq(q)
  PROVE  /\ Len(q) \in Nat /\ DOMAIN q = 1 .. Len(q)
         /\ \A i \in 1 .. Len(q) : q[i] \in Range(q)
         /\ \A e \in Range(q) : \E i \in 1 .. Len(q) : q[i] = e
BY SeqSelf DEF IsSeq, Range

LEMMA Few ==
  ASSUME NEW a, NEW b
  PROVE  /\ IsSeq(<<>>) /\ Range(<<>>) = {}
         /\ IsSeq(<<a>>) /\ Range(<<a>>) = {a}
         /\ IsSeq(<<a, b>>) /\ Range(<<a, b>>) = {a, b}
<1>1. <<>> \in Seq({}) /\ <<a>> \in Seq({a}) /\ <<a, b>> \in Seq({a, b})
  OBVIOUS
<1>2. Range(<<a>>) = {a} /\ Range(<<a, b>>) = {a, b} /\ Range(<<>>) = {}
  BY DEF Range
<1> QED BY <1>1, <1>2 DEF IsSeq

LEMMA Joined ==
  ASSUME NEW p, NEW q, IsSeq(p), IsSeq(q)
  PROVE  IsSeq(p \o q) /\ Range(p \o q) \subseteq Range(p) \union Range(q)
<1> DEFINE S == Range(p) \union Range(q)
<1>1. p \in Seq(S) /\ q \in Seq(S)
  <2>1. \A A, B : A \subseteq B => Seq(A) \subseteq Seq(B)
    BY SeqDef
  <2> QED BY <2>1 DEF IsSeq
<1>2. p \o q \in Seq(S)
  BY <1>1
<1> QED BY <1>2, SeqSelf

LEMMA Rest ==
  ASSUME NEW q, IsSeq(q), q # <<>>
  PROVE  /\ Head(q) \in Range(q) /\ q[1] = Head(q)
         /\ IsSeq(Tail(q)) /\ Range(Tail(q)) \subseteq Range(q)
<1>1. q \in Seq(Range(q))
  BY DEF IsSeq
<1>2. Tail(q) \in Seq(Range(q)) /\ Head(q) \in Range(q) /\ Head(q) = q[1]
  BY <1>1
<1> QED BY <1>2, SeqSelf

LEMMA Added ==
  ASSUME NEW q, NEW e, IsSeq(q)
  PROVE  /\ IsSeq(Append(q, e)) /\ Range(Append(q, e)) = Range(q) \union {e}
<1> DEFINE S == Range(q) \union {e}
           r == Append(q, e)
<1>1. q \in Seq(S)
  BY SeqDef DEF IsSeq
<1>2. r \in Seq(S) /\ Len(r) = Len(q) + 1 /\ r[Len(q) + 1] = e
      /\ \A i \in 1 .. Len(q) : r[i] = q[i]
  BY <1>1
<1>3. IsSeq(r) /\ Range(r) \subseteq S /\ DOMAIN r = 1 .. Len(r)
  BY <1>2, SeqSelf
<1>4. S \subseteq Range(r)
  <2>1. Len(q) \in Nat /\ Range(q) \subseteq {q[i] : i \in 1 .. Len(q)}
    BY Places
  <2>2. \A i \in 1 .. Len(r) : r[i] \in Range(r)
    BY <1>3, Places
  <2> HIDE DEF r
  <2> QED BY <2>1, <2>2, <1>2
<1> QED BY <1>3, <1>4

LEMMA Edited ==
  ASSUME NEW q, NEW i, NEW e, IsSeq(q)
  PROVE  LET r == [q EXCEPT ![i] = e]
         IN  IsSeq(r) /\ Range(r) \subseteq Range(q) \union {e}
<1> DEFINE r == [q EXCEPT ![i] = e]
<1>1. q \in Seq(Range(q) \union {e})
  BY SeqDef DEF IsSeq
<1>2. r \in Seq(Range(q) \union {e})
  <2>1. CASE i \in DOMAIN q
    BY <1>1, <2>1
  <2>2. CASE i \notin DOMAIN q
    <3>1. r = q
      BY <1>1, <2>2
    <3> QED BY <1>1, <3>1
  <2> QED BY <2>1, <2>2
<1> HIDE DEF r
<1>3. IsSeq(r) /\ Range(r) \subseteq Range(q) \union {e}
  BY <1>2, SeqSelf
<1> QED BY <1>3 DEF r

LEMMA LeastNat ==
  ASSUME NEW S \in SUBSET Nat, S # {}
  PROVE  \E m \in S : \A n \in S : m <= n
<1>1. PICK m \in S : \A n \in S : ~ (<<n, m>> \in OpToRel(<, Nat))
  BY NatLessThanWellFounded, WFMin
<1>2. \A n \in S : ~ (n < m)
  BY <1>1 DEF OpToRel
<1> QED BY <1>2

LEMMA Greatest ==
  ASSUME NEW n \in Nat, NEW S \in SUBSET (0 .. n), S # {}
  PROVE  Max(S) \in S
<1> DEFINE T == {n - x : x \in S}
<1>1. T \in SUBSET Nat /\ T # {}
  <2>1. \A x \in S : x \in Nat /\ x <= n /\ n - x \in Nat
    OBVIOUS
  <2> QED BY <2>1
<1>2. PICK m \in T : \A t \in T : m <= t
  BY <1>1, LeastNat
<1>3. PICK x \in S : m = n - x
  BY <1>2
<1>4. \A y \in S : x >= y
  BY <1>2, <1>3
<1> QED BY <1>4 DEF Max

(* The newest of the records, or events, that pass a test.                 *)
LEMMA NewestPasses ==
  ASSUME NEW q, IsSeq(q), NEW A \in SUBSET DOMAIN q, A # {}
  PROVE  Max(A) \in A /\ q[Max(A)] \in Range(q)
<1>1. A \in SUBSET (0 .. Len(q)) /\ Len(q) \in Nat
  BY Places
<1>2. Max(A) \in A
  BY <1>1, Greatest
<1> QED BY <1>2 DEF Range

LEMMA NewestFound ==
  ASSUME NEW f, IsSeq(f.steps), NEW s
  PROVE  /\ Newest(f, s) \in {0} \union DOMAIN f.steps
         /\ Newest(f, s) # 0 => f.steps[Newest(f, s)] \in Range(f.steps)
<1> DEFINE A == {0} \union {i \in DOMAIN f.steps : f.steps[i].step = s}
<1>1. A \in SUBSET (0 .. Len(f.steps)) /\ A # {} /\ Len(f.steps) \in Nat
  BY Places
<1>2. Max(A) \in A
  BY <1>1, Greatest
<1> QED BY <1>2 DEF Newest, Range

-----------------------------------------------------------------------------
(* The fold stays sound                                                    *)

(* A record that changes, but not in its step, not back to open and not to *)
(* having no checks, leaves what the fold promises of the others.          *)
LEMMA RecordChanged ==
  ASSUME NEW f, FoldSound(f), NEW i \in DOMAIN f.steps, NEW r,
         RecordShape(r), r.step = f.steps[i].step,
         f.steps[i].status # "open" => r.status # "open",
         f.steps[i].checks # None => r.checks # None
  PROVE  LET q == [f.steps EXCEPT ![i] = r]
         IN  /\ IsSeq(q)
             /\ \A x \in Range(q) : RecordShape(x) /\ x.step \in Steps
             /\ r \in Range(q)
             /\ Reached(f, "step_finished") => \E x \in Range(q) : x.status # "open"
             /\ Reached(f, "checks_run") => \E x \in Range(q) : x.checks # None
<1> DEFINE q == [f.steps EXCEPT ![i] = r]
<1>1. IsSeq(f.steps) /\ \A x \in Range(f.steps) : RecordShape(x) /\ x.step \in Steps
  BY DEF FoldSound
<1>2. /\ Len(f.steps) \in Nat /\ DOMAIN f.steps = 1 .. Len(f.steps)
      /\ \A j \in 1 .. Len(f.steps) : f.steps[j] \in Range(f.steps)
      /\ \A x \in Range(f.steps) : \E j \in 1 .. Len(f.steps) : f.steps[j] = x
  BY <1>1, Places
<1>4. DOMAIN q = DOMAIN f.steps
      /\ q[i] = r /\ \A j \in DOMAIN f.steps : j # i => q[j] = f.steps[j]
  BY <1>2
<1>5. IsSeq(q) /\ Range(q) \subseteq Range(f.steps) \union {r}
  BY <1>1, Edited
<1> HIDE DEF q
<1>6. \A j \in DOMAIN f.steps : q[j] \in Range(q)
  BY <1>4 DEF Range
<1>7. r.step \in Steps /\ r \in Range(q)
  BY <1>1, <1>2, <1>4, <1>6
<1>8. ASSUME Reached(f, "step_finished") PROVE \E x \in Range(q) : x.status # "open"
  <2>1. PICK j \in DOMAIN f.steps : f.steps[j].status # "open"
    <3>1. \E x \in Range(f.steps) : x.status # "open"
      BY <1>8 DEF FoldSound
    <3> QED BY <3>1, <1>2
  <2>2. q[j].status # "open"
    BY <2>1, <1>4
  <2> QED BY <2>2, <1>6
<1>9. ASSUME Reached(f, "checks_run") PROVE \E x \in Range(q) : x.checks # None
  <2>1. PICK j \in DOMAIN f.steps : f.steps[j].checks # None
    <3>1. \E x \in Range(f.steps) : x.checks # None
      BY <1>9 DEF FoldSound
    <3> QED BY <3>1, <1>2
  <2>2. q[j].checks # None
    BY <2>1, <1>4
  <2> QED BY <2>2, <1>6
<1> QED BY <1>1, <1>5, <1>7, <1>8, <1>9 DEF q

LEMMA StartedSound ==
  ASSUME NEW f, FoldSound(f), NEW e, e.kind = "step_started", e.step \in Steps
  PROVE  FoldSound(Started(f, e))
<1>1. CASE OpenStep(f)
  BY <1>1 DEF Started, Broken, FoldSound, FoldShape, FoldFields, Reached
<1>2. CASE ~OpenStep(f)
  <2> DEFINE figure == IF Newest(f, e.step) # 0 /\ e.attempt > 1
                       THEN Larger(f.steps[Newest(f, e.step)].figure, e.declared)
                       ELSE e.declared
             r == [step |-> e.step, attempt |-> e.attempt,
                   child |-> e.child, declared |-> e.declared,
                   figure |-> figure, status |-> "open",
                   reason |-> None, cost |-> 0, report |-> 0,
                   checks |-> None, pushed |-> FALSE]
             g == [f EXCEPT !.errored = FALSE, !.last = e.kind, !.steps = Append(@, r)]
  <2>1. Started(f, e) = g
    BY <1>2 DEF Started
  <2>2. RecordShape(r) /\ r.step \in Steps
    BY DEF RecordShape, RecordFields
  <2> HIDE DEF r
  <2>3. /\ IsSeq(Append(f.steps, r))
        /\ Range(Append(f.steps, r)) = Range(f.steps) \union {r}
    BY Added DEF FoldSound
  <2>4. /\ FoldShape(g) /\ g.last = "step_started" /\ g.steps = Append(f.steps, r)
        /\ g.atBudget = f.atBudget /\ g.atStep = f.atStep /\ g.broken = f.broken
    <3>1. FoldShape(f)
      BY DEF FoldSound
    <3> QED BY <3>1 DEF FoldShape, FoldFields
  <2> HIDE DEF g
  <2>5. FoldSound(g)
    BY <2>2, <2>3, <2>4 DEF FoldSound, Reached, Decisive
  <2> QED BY <2>1, <2>5
<1> QED BY <1>1, <1>2

(* A report closes the attempt that is open.                               *)
LEMMA FinishFold ==
  ASSUME NEW f, FoldSound(f), NEW e, OpenStep(f), Last(f.steps).step = e.step
  PROVE  LET n == Len(f.steps)
             r == [f.steps[n] EXCEPT !.status = e.status, !.reason = e.reason,
                                     !.cost = e.cost, !.report = e.report]
         IN  /\ n \in DOMAIN f.steps /\ f.steps[n] \in Range(f.steps) /\ e.step = f.steps[n].step
             /\ Finished(f, e) = [f EXCEPT !.last = e.kind, !.cost = @ + e.cost,
                                           !.steps = [f.steps EXCEPT ![n] = r]]
<1> DEFINE n == Len(f.steps)
           r == [f.steps[n] EXCEPT !.status = e.status, !.reason = e.reason,
                                   !.cost = e.cost, !.report = e.report]
           q == [f.steps EXCEPT ![n] = r]
           g == [f EXCEPT !.last = e.kind, !.cost = @ + e.cost, !.steps = q]
<1>1. n \in DOMAIN f.steps /\ f.steps[n] \in Range(f.steps) /\ e.step = f.steps[n].step
  <2>1. IsSeq(f.steps) /\ f.steps # <<>>
    BY DEF FoldSound, OpenStep
  <2>2. n \in Nat /\ n # 0
    BY <2>1 DEF IsSeq
  <2> QED BY <2>1, <2>2, Places DEF Last
<1>2. RecordShape(f.steps[n])
  BY <1>1 DEF FoldSound
<1>3. Finished(f, e) = g
  <2>1. /\ FoldShape(f) /\ f.steps \in Seq(Range(f.steps)) /\ n \in 1 .. Len(f.steps)
    BY <1>1, Places DEF FoldSound, IsSeq
  <2> DEFINE h == Finished(f, e)
             edited == [f.steps EXCEPT ![n].status = e.status, ![n].reason = e.reason,
                                       ![n].cost = e.cost, ![n].report = e.report]
  <2>2. /\ h = [x \in FoldFields |-> h[x]]
        /\ \A x \in FoldFields \ {"last", "cost", "steps"} : h[x] = f[x]
        /\ h.last = e.kind /\ h.cost = f.cost + e.cost
    <3> DEFINE f1 == [f EXCEPT !.last = e.kind, !.cost = @ + e.cost]
               f2 == [f1 EXCEPT !.steps[n].status = e.status]
               f3 == [f2 EXCEPT !.steps[n].reason = e.reason]
               f4 == [f3 EXCEPT !.steps[n].cost = e.cost]
               f5 == [f4 EXCEPT !.steps[n].report = e.report]
               same(x, y) == /\ x = [z \in FoldFields |-> x[z]]
                             /\ \A z \in FoldFields \ {"steps"} : x[z] = y[z]
    <3>1. h = f5
      BY DEF Finished
    <3>2. /\ f1 = [x \in FoldFields |-> f1[x]]
          /\ \A x \in FoldFields \ {"last", "cost", "steps"} : f1[x] = f[x]
          /\ f1.last = e.kind /\ f1.cost = f.cost + e.cost
      BY <2>1 DEF FoldShape, FoldFields
    <3> HIDE DEF f1, h
    <3>3. same(f2, f1)
      BY <3>2 DEF FoldFields
    <3> HIDE DEF f2
    <3>4. same(f3, f2)
      BY <3>3 DEF FoldFields
    <3> HIDE DEF f3
    <3>5. same(f4, f3)
      BY <3>4 DEF FoldFields
    <3> HIDE DEF f4
    <3>6. same(f5, f4)
      BY <3>5 DEF FoldFields
    <3> HIDE DEF f5
    <3> QED BY <3>1, <3>2, <3>3, <3>4, <3>5, <3>6 DEF FoldFields
  <2>3. h.steps = edited
    BY <2>1 DEF Finished, FoldShape, FoldFields
  <2>4. edited = q
    BY <1>2, <2>1 DEF RecordShape, RecordFields
  <2> HIDE DEF h, edited, q
  <2>5. /\ g = [x \in FoldFields |-> g[x]]
        /\ \A x \in FoldFields \ {"last", "cost", "steps"} : g[x] = f[x]
        /\ g.last = e.kind /\ g.cost = f.cost + e.cost /\ g.steps = q
    BY <2>1 DEF FoldShape, FoldFields
  <2> HIDE DEF g
  <2>6. \A x \in FoldFields : h[x] = g[x]
    BY <2>2, <2>3, <2>4, <2>5 DEF FoldFields
  <2>7. h = g
    BY <2>2, <2>5, <2>6
  <2> QED BY <2>7 DEF h
<1> QED BY <1>1, <1>3

LEMMA FinishedSound ==
  ASSUME NEW f, FoldSound(f), NEW e, e.kind = "step_finished", e.status # "open"
  PROVE  /\ FoldSound(Finished(f, e))
         /\ Finished(f, e).broken \/ e.step \in Steps
<1>1. CASE ~OpenStep(f) \/ Last(f.steps).step # e.step
  <2> DEFINE g == Broken(f)
  <2>1. Finished(f, e) = g
    BY <1>1 DEF Finished
  <2>2. FoldShape(f)
    BY DEF FoldSound
  <2>3. /\ g.broken /\ FoldShape(g)
        /\ \A x \in FoldFields \ {"broken"} : g[x] = f[x]
    BY <2>2 DEF Broken, FoldShape, FoldFields
  <2> HIDE DEF g
  <2>4. FoldSound(g)
    BY <2>3 DEF FoldSound, FoldFields, Reached
  <2> QED BY <2>1, <2>3, <2>4
<1>2. CASE OpenStep(f) /\ Last(f.steps).step = e.step
  <2> DEFINE n == Len(f.steps)
             r == [f.steps[n] EXCEPT !.status = e.status, !.reason = e.reason,
                                     !.cost = e.cost, !.report = e.report]
             q == [f.steps EXCEPT ![n] = r]
             g == [f EXCEPT !.last = e.kind, !.cost = @ + e.cost, !.steps = q]
  <2>1. n \in DOMAIN f.steps /\ f.steps[n] \in Range(f.steps) /\ e.step = f.steps[n].step
    <3>1. IsSeq(f.steps) /\ f.steps # <<>>
      BY <1>2 DEF FoldSound, OpenStep
    <3>2. n \in Nat /\ n # 0
      BY <3>1 DEF IsSeq
    <3> QED BY <3>1, <3>2, <1>2, Places DEF Last
  <2>2. RecordShape(f.steps[n]) /\ f.steps[n].step \in Steps
    BY <2>1 DEF FoldSound
  <2>3. RecordShape(r) /\ r.step = f.steps[n].step /\ r.status = e.status
        /\ r.checks = f.steps[n].checks
    BY <2>2 DEF RecordShape, RecordFields
  <2>4. Finished(f, e) = g
    BY <1>2, FinishFold
  <2> HIDE DEF n, r
  <2>5. /\ IsSeq(q)
        /\ \A x \in Range(q) : RecordShape(x) /\ x.step \in Steps
        /\ r \in Range(q)
        /\ Reached(f, "checks_run") => \E x \in Range(q) : x.checks # None
    BY <2>1, <2>3, RecordChanged
  <2> HIDE DEF q
  <2>6. /\ FoldShape(g) /\ g.last = "step_finished" /\ g.steps = q
        /\ g.atBudget = f.atBudget /\ g.atStep = f.atStep /\ g.broken = f.broken
    <3>1. FoldShape(f)
      BY DEF FoldSound
    <3> QED BY <3>1 DEF FoldShape, FoldFields
  <2> HIDE DEF g
  <2>7. FoldSound(g)
    BY <2>3, <2>5, <2>6 DEF FoldSound, Reached, Decisive
  <2> QED BY <2>1, <2>2, <2>4, <2>7
<1> QED BY <1>1, <1>2

LEMMA CheckedSound ==
  ASSUME NEW f, FoldSound(f), NEW e, e.kind = "checks_run", e.outcome # None
  PROVE  FoldSound(Checked(f, e))
<1>1. CASE Newest(f, e.step) = 0
  BY <1>1 DEF Checked, Broken, FoldSound, FoldShape, FoldFields, Reached
<1>2. CASE Newest(f, e.step) # 0
  <2> DEFINE n == Newest(f, e.step)
             r == [f.steps[n] EXCEPT !.checks = e.outcome]
             q == [f.steps EXCEPT ![n] = r]
             g == [f EXCEPT !.last = e.kind, !.steps = q]
  <2>1. n \in DOMAIN f.steps /\ f.steps[n] \in Range(f.steps)
    BY <1>2, NewestFound DEF FoldSound
  <2>2. RecordShape(f.steps[n]) /\ f.steps[n].step \in Steps
    BY <2>1 DEF FoldSound
  <2>3. RecordShape(r) /\ r.step = f.steps[n].step /\ r.status = f.steps[n].status
        /\ r.checks = e.outcome
    BY <2>2 DEF RecordShape, RecordFields
  <2>4. Checked(f, e) = g
    BY <1>2, <2>1, <2>2 DEF Checked, FoldSound, FoldShape, FoldFields, RecordShape, RecordFields
  <2> HIDE DEF n, r
  <2>5. /\ IsSeq(q)
        /\ \A x \in Range(q) : RecordShape(x) /\ x.step \in Steps
        /\ r \in Range(q)
        /\ Reached(f, "step_finished") => \E x \in Range(q) : x.status # "open"
    BY <2>1, <2>3, RecordChanged
  <2> HIDE DEF q
  <2>6. /\ FoldShape(g) /\ g.last = "checks_run" /\ g.steps = q
        /\ g.atBudget = f.atBudget /\ g.atStep = f.atStep /\ g.broken = f.broken
    <3>1. FoldShape(f)
      BY DEF FoldSound
    <3> QED BY <3>1 DEF FoldShape, FoldFields
  <2> HIDE DEF g
  <2>7. FoldSound(g)
    BY <2>3, <2>5, <2>6 DEF FoldSound, Reached, Decisive
  <2> QED BY <2>4, <2>7
<1> QED BY <1>1, <1>2

LEMMA PushedSound ==
  ASSUME NEW f, FoldSound(f), NEW e, e.kind = "pushed"
  PROVE  FoldSound(Pushed(f, e))
<1>1. CASE f.steps = <<>>
  BY <1>1 DEF Pushed, Broken, FoldSound, FoldShape, FoldFields, Reached
<1>2. CASE f.steps # <<>>
  <2> DEFINE n == Len(f.steps)
             r == [f.steps[n] EXCEPT !.pushed = TRUE]
             q == [f.steps EXCEPT ![n] = r]
             g == [f EXCEPT !.last = e.kind, !.steps = q]
  <2>1. n \in DOMAIN f.steps /\ f.steps[n] \in Range(f.steps)
    <3>1. IsSeq(f.steps)
      BY DEF FoldSound
    <3>2. n \in Nat /\ n # 0
      BY <3>1, <1>2 DEF IsSeq
    <3> QED BY <3>1, <3>2, Places
  <2>2. RecordShape(f.steps[n]) /\ f.steps[n].step \in Steps
    BY <2>1 DEF FoldSound
  <2>3. RecordShape(r) /\ r.step = f.steps[n].step /\ r.status = f.steps[n].status
        /\ r.checks = f.steps[n].checks
    BY <2>2 DEF RecordShape, RecordFields
  <2>4. Pushed(f, e) = g
    BY <1>2, <2>1, <2>2 DEF Pushed, FoldSound, FoldShape, FoldFields, RecordShape, RecordFields
  <2> HIDE DEF n, r
  <2>5. /\ IsSeq(q)
        /\ \A x \in Range(q) : RecordShape(x) /\ x.step \in Steps
        /\ Reached(f, "step_finished") => \E x \in Range(q) : x.status # "open"
        /\ Reached(f, "checks_run") => \E x \in Range(q) : x.checks # None
    BY <2>1, <2>3, RecordChanged
  <2> HIDE DEF q
  <2>6. /\ FoldShape(g) /\ g.last = "pushed" /\ g.steps = q
        /\ g.atBudget = f.atBudget /\ g.atStep = f.atStep /\ g.broken = f.broken
    <3>1. FoldShape(f)
      BY DEF FoldSound
    <3> QED BY <3>1 DEF FoldShape, FoldFields
  <2> HIDE DEF g
  <2>7. FoldSound(g)
    BY <2>5, <2>6 DEF FoldSound, Reached, Decisive
  <2> QED BY <2>4, <2>7
<1> QED BY <1>1, <1>2

LEMMA RaisedSound ==
  ASSUME NEW f, FoldSound(f), NEW e
  PROVE  FoldSound(Raised(f, e))
<1>1. CASE e.step = None
  BY <1>1 DEF Raised, Broken, FoldSound, FoldShape, FoldFields, Reached, None
<1>2. CASE e.step # None /\ (Newest(f, e.step) = 0 \/ f.atStep = None)
  BY <1>2 DEF Raised, Broken, FoldSound, FoldShape, FoldFields, Reached
<1>3. CASE e.step # None /\ Newest(f, e.step) # 0 /\ f.atStep # None
  <2> DEFINE n == Newest(f, e.step)
             r == [f.steps[n] EXCEPT !.figure = e.usd]
             q == [f.steps EXCEPT ![n] = r]
             g == [f EXCEPT !.steps = q, !.last = f.atStep, !.atStep = None]
  <2>1. n \in DOMAIN f.steps /\ f.steps[n] \in Range(f.steps)
    BY <1>3, NewestFound DEF FoldSound
  <2>2. RecordShape(f.steps[n]) /\ f.steps[n].step \in Steps
    BY <2>1 DEF FoldSound
  <2>3. RecordShape(r) /\ r.step = f.steps[n].step /\ r.status = f.steps[n].status
        /\ r.checks = f.steps[n].checks
    BY <2>2 DEF RecordShape, RecordFields
  <2>4. Raised(f, e) = g
    BY <1>3, <2>1, <2>2 DEF Raised, FoldSound, FoldShape, FoldFields, RecordShape, RecordFields
  <2> HIDE DEF n, r
  <2>5. /\ IsSeq(q)
        /\ \A x \in Range(q) : RecordShape(x) /\ x.step \in Steps
        /\ Reached(f, "step_finished") => \E x \in Range(q) : x.status # "open"
        /\ Reached(f, "checks_run") => \E x \in Range(q) : x.checks # None
    BY <2>1, <2>3, RecordChanged
  <2> HIDE DEF q
  <2>6. /\ FoldShape(g) /\ g.last = f.atStep /\ g.steps = q
        /\ g.atBudget = f.atBudget /\ g.atStep = None /\ g.broken = f.broken
    <3>1. FoldShape(f)
      BY DEF FoldSound
    <3> QED BY <3>1 DEF FoldShape, FoldFields
  <2> HIDE DEF g
  <2>7. FoldSound(g)
    BY <1>3, <2>5, <2>6 DEF FoldSound, Reached, Decisive, None
  <2> QED BY <2>4, <2>7
<1> QED BY <1>1, <1>2, <1>3

(* What one more event does to the fold, whichever it is.                  *)
Follows(f, e, g) ==
    /\ FoldSound(g)
    /\ f.broken => g.broken
    /\ e.kind = "step_finished" => g.broken \/ e.step \in Steps
    /\ Reached(g, "checks_run") => Reached(f, "checks_run") \/ e.kind = "checks_run"
    /\ \/ g.pending \in {f.pending, None}
       \/ e.kind = "checkpoint_asked" /\ g.pending = e.gate
    /\ g.answered = f.answered \/ g.answered.gate = f.pending

LEMMA BrokenFollows ==
  ASSUME NEW f, NEW e, FoldSound(f)
  PROVE  Follows(f, e, Broken(f))
BY DEF Follows, FoldSound, Broken, FoldShape, FoldFields, Reached

LEMMA OthersFollow ==
  ASSUME NEW f, NEW e, FoldSound(f), EventSound(e), ~f.broken,
         e.kind \notin {"step_started", "step_finished", "checks_run", "pushed", "budget_raised"}
  PROVE  Follows(f, e, After(f, e))
<1> DEFINE g == After(f, e)
<1>1. FoldShape(f)
  BY DEF FoldSound
<1>2. f.last # None
  BY DEF FoldSound, Decisive, None
<1>3. CASE e.kind = "run_started"
  <2>1. g = Broken(f)
    BY <1>2, <1>3 DEF After
  <2> QED BY <2>1, BrokenFollows
<1>4. CASE e.kind = "route_taken"
  <2>1. g = [f EXCEPT !.last = e.kind,
                      !.budget = IF e.usd = 0 THEN @ ELSE e.usd,
                      !.route = [proposed |-> e.proposed, taken |-> e.taken]]
    BY <1>2, <1>4 DEF After
  <2>2. /\ FoldShape(g) /\ g.last = "route_taken" /\ g.steps = f.steps
        /\ g.atBudget = f.atBudget /\ g.atStep = f.atStep /\ g.broken = f.broken
        /\ g.pending = f.pending /\ g.answered = f.answered
    BY <1>1, <1>4, <2>1 DEF FoldShape, FoldFields
  <2> QED BY <1>4, <2>2 DEF Follows, FoldSound, Reached, Decisive
<1>5. CASE e.kind = "checkpoint_asked"
  <2>1. g = Asked(f, e)
    BY <1>2, <1>5 DEF After
  <2>2. /\ FoldShape(g) /\ g.last = "checkpoint_asked" /\ g.steps = f.steps
        /\ g.atBudget \in {f.atBudget, f.last} /\ g.atStep \in {f.atStep, f.last}
        /\ g.broken = f.broken /\ g.pending = e.gate /\ g.answered = f.answered
    BY <1>1, <1>5, <2>1 DEF Asked, FoldShape, FoldFields
  <2> HIDE DEF g
  <2>3. \A kind : kind # "checkpoint_asked" /\ Reached(g, kind) => Reached(f, kind)
    BY <2>2 DEF Reached
  <2>4. FoldSound(g)
    BY <2>2, <2>3 DEF FoldSound, Decisive
  <2>5. Follows(f, e, g)
    BY <1>5, <2>2, <2>3, <2>4 DEF Follows
  <2> QED BY <2>5 DEF g
<1>6. CASE e.kind = "checkpoint_answered"
  <2>1. g = Answered(f, e)
    BY <1>2, <1>6 DEF After
  <2>2. CASE f.pending = None
    BY <2>1, <2>2, BrokenFollows DEF Answered
  <2>3. CASE f.pending # None
    <3> DEFINE a == [gate |-> f.pending, answer |-> e.answer, usd |-> e.usd]
    <3>2. g = [f EXCEPT !.last = e.kind, !.pending = None, !.answered = a]
      BY <2>1, <2>3 DEF Answered
    <3>3. a.gate = f.pending
      OBVIOUS
    <3> HIDE DEF g, a
    <3>1. /\ FoldShape(g) /\ g.last = "checkpoint_answered" /\ g.steps = f.steps
          /\ g.atBudget = f.atBudget /\ g.atStep = f.atStep /\ g.broken = f.broken
          /\ g.pending = None /\ g.answered.gate = f.pending
      BY <1>1, <1>6, <3>2, <3>3 DEF FoldShape, FoldFields
    <3>4. Follows(f, e, g)
      BY <1>6, <3>1 DEF Follows, FoldSound, Reached, Decisive
    <3> QED BY <3>4 DEF g
  <2> QED BY <2>2, <2>3
<1>7. CASE e.kind = "run_finished"
  <2>1. g = [f EXCEPT !.last = e.kind, !.outcome = e.outcome, !.errored = FALSE]
    BY <1>2, <1>7 DEF After
  <2>2. /\ FoldShape(g) /\ g.last = "run_finished" /\ g.steps = f.steps
        /\ g.atBudget = f.atBudget /\ g.atStep = f.atStep /\ g.broken = f.broken
        /\ g.pending = f.pending /\ g.answered = f.answered
    BY <1>1, <1>7, <2>1 DEF FoldShape, FoldFields
  <2> QED BY <1>7, <2>2 DEF Follows, FoldSound, Reached, Decisive
<1>8. CASE e.kind = "run_errored"
  <2>1. g = [f EXCEPT !.errored = TRUE]
    BY <1>2, <1>8 DEF After
  <2>2. /\ FoldShape(g) /\ g.last = f.last /\ g.steps = f.steps
        /\ g.atBudget = f.atBudget /\ g.atStep = f.atStep /\ g.broken = f.broken
        /\ g.pending = f.pending /\ g.answered = f.answered
    BY <1>1, <1>8, <2>1 DEF FoldShape, FoldFields
  <2> QED BY <1>8, <2>2 DEF Follows, FoldSound, Reached
<1> QED BY <1>3, <1>4, <1>5, <1>6, <1>7, <1>8 DEF EventSound, Decisive

LEMMA AfterFollows ==
  ASSUME NEW f, NEW e, FoldSound(f), EventSound(e)
  PROVE  Follows(f, e, After(f, e))
<1> DEFINE g == After(f, e)
<1>1. FoldShape(f) /\ f.last # None
  BY DEF FoldSound, Decisive, None
<1>2. CASE f.broken
  BY <1>2 DEF After, Follows
<1>3. CASE ~f.broken /\ e.kind = "step_started"
  <2>1. g = Started(f, e) /\ e.step \in Steps
    BY <1>1, <1>3 DEF After, EventSound
  <2>2. g.pending = f.pending /\ g.answered = f.answered
        /\ g.last \in {f.last, e.kind, f.atBudget, f.atStep}
        /\ g.atBudget \in {f.atBudget, None} /\ g.atStep \in {f.atStep, None}
    BY <1>1, <2>1 DEF Started, Broken, FoldShape, FoldFields
  <2>3. Reached(g, "checks_run") => Reached(f, "checks_run") \/ e.kind = "checks_run"
    BY <2>2 DEF Reached, None
  <2> QED BY <1>3, <2>1, <2>2, <2>3, StartedSound DEF Follows
<1>4. CASE ~f.broken /\ e.kind = "step_finished"
  <2>1. g = Finished(f, e) /\ e.status # "open"
    BY <1>1, <1>4 DEF After, EventSound
  <2>2. g.pending = f.pending /\ g.answered = f.answered
        /\ g.last \in {f.last, e.kind, f.atBudget, f.atStep}
        /\ g.atBudget \in {f.atBudget, None} /\ g.atStep \in {f.atStep, None}
    BY <1>1, <2>1 DEF Finished, Broken, FoldShape, FoldFields
  <2>3. Reached(g, "checks_run") => Reached(f, "checks_run") \/ e.kind = "checks_run"
    BY <2>2 DEF Reached, None
  <2> QED BY <1>4, <2>1, <2>2, <2>3, FinishedSound DEF Follows
<1>5. CASE ~f.broken /\ e.kind = "checks_run"
  <2>1. g = Checked(f, e) /\ e.outcome # None
    BY <1>1, <1>5 DEF After, EventSound
  <2>2. g.pending = f.pending /\ g.answered = f.answered
        /\ g.last \in {f.last, e.kind, f.atBudget, f.atStep}
        /\ g.atBudget \in {f.atBudget, None} /\ g.atStep \in {f.atStep, None}
    BY <1>1, <2>1 DEF Checked, Broken, FoldShape, FoldFields
  <2>3. Reached(g, "checks_run") => Reached(f, "checks_run") \/ e.kind = "checks_run"
    BY <2>2 DEF Reached, None
  <2> QED BY <1>5, <2>1, <2>2, <2>3, CheckedSound DEF Follows
<1>6. CASE ~f.broken /\ e.kind = "pushed"
  <2>1. g = Pushed(f, e)
    BY <1>1, <1>6 DEF After
  <2>2. g.pending = f.pending /\ g.answered = f.answered
        /\ g.last \in {f.last, e.kind, f.atBudget, f.atStep}
        /\ g.atBudget \in {f.atBudget, None} /\ g.atStep \in {f.atStep, None}
    BY <1>1, <2>1 DEF Pushed, Broken, FoldShape, FoldFields
  <2>3. Reached(g, "checks_run") => Reached(f, "checks_run") \/ e.kind = "checks_run"
    BY <2>2 DEF Reached, None
  <2> QED BY <1>6, <2>1, <2>2, <2>3, PushedSound DEF Follows
<1>7. CASE ~f.broken /\ e.kind = "budget_raised"
  <2>1. g = Raised(f, e)
    BY <1>1, <1>7 DEF After
  <2>2. g.pending = f.pending /\ g.answered = f.answered
        /\ g.last \in {f.last, e.kind, f.atBudget, f.atStep}
        /\ g.atBudget \in {f.atBudget, None} /\ g.atStep \in {f.atStep, None}
    BY <1>1, <2>1 DEF Raised, Broken, FoldShape, FoldFields
  <2>3. Reached(g, "checks_run") => Reached(f, "checks_run") \/ e.kind = "checks_run"
    BY <2>2 DEF Reached, None
  <2> QED BY <1>7, <2>1, <2>2, <2>3, RaisedSound DEF Follows
<1> QED BY <1>2, <1>3, <1>4, <1>5, <1>6, <1>7, OthersFollow

(* What may be appended to the log leaves it sound, and what it had.       *)
LEMMA AppendSound ==
  ASSUME LogSound, wf' = wf, NEW e, EventSound(e),
         e.kind = "checkpoint_asked" => AskSound(e.gate, e.options),
         lead' = Append(lead, e), st' = After(st, e)
  PROVE  /\ LogSound' /\ Has(e.kind)'
         /\ \A kind : Has(kind) => Has(kind)'
<1> PICK f : f = st
  OBVIOUS
<1> PICK g : g = After(f, e)
  OBVIOUS
<1>1. Follows(f, e, g)
  BY AfterFollows DEF LogSound
<1>2. IsSeq(lead') /\ Range(lead') = Range(lead) \union {e}
  BY Added DEF LogSound, LeadSound
<1>3. Has(e.kind)' /\ \A kind : Has(kind) => Has(kind)'
  BY <1>2 DEF Has
<1>4. FoldSound(st)'
  BY <1>1 DEF Follows, FoldSound, Steps
<1>5. LeadSound'
  <2>1. ASSUME NEW d \in Range(lead') PROVE EventSound(d)'
    <3>1. EventSound(d)
      BY <1>2 DEF LogSound, LeadSound
    <3> QED BY <3>1 DEF EventSound, Steps
  <2>2. ASSUME NEW d \in Range(lead'), d.kind = "checkpoint_asked"
        PROVE  AskSound(d.gate, d.options)'
    <3>1. AskSound(d.gate, d.options)
      BY <1>2, <2>2 DEF LogSound, LeadSound
    <3> QED BY <3>1, <1>3 DEF AskSound
  <2>3. ASSUME NEW d \in Range(lead'), d.kind = "step_finished"
        PROVE  st'.broken \/ d.step \in Steps'
    <3>1. CASE d \in Range(lead)
      BY <2>3, <3>1, <1>1 DEF LogSound, LeadSound, Follows, Steps
    <3>2. CASE d = e
      BY <2>3, <3>2, <1>1 DEF Follows, Steps
    <3> QED BY <1>2, <3>1, <3>2
  <2> QED BY <1>2, <2>1, <2>2, <2>3 DEF LeadSound
<1>6. GatesSound'
  <2>3. CASE Reached(g, "checks_run")
    <3>1. Has("checks_run") \/ e.kind = "checks_run"
      BY <1>1, <2>3 DEF Follows, LogSound, GatesSound
    <3> QED BY <3>1, <1>3 DEF GatesSound
  <2>1. CASE g.pending = "checks_failed"
    <3>1. Has("checks_run")
      BY <1>1, <2>1 DEF Follows, LogSound, GatesSound, AskSound, None
    <3> QED BY <3>1, <1>3 DEF GatesSound
  <2>2. CASE g.answered.gate = "checks_failed"
    <3>1. Has("checks_run")
      BY <1>1, <2>2 DEF Follows, LogSound, GatesSound
    <3> QED BY <3>1, <1>3 DEF GatesSound
  <2> QED BY <2>1, <2>2, <2>3 DEF GatesSound
<1> QED BY <1>3, <1>4, <1>5, <1>6 DEF LogSound

LEMMA LogUnread ==
  ASSUME LogSound, UNCHANGED <<wf, lead, st>>
  PROVE  LogSound'
BY DEF LogSound, LeadSound, EventSound, Steps, AskSound, Has, FoldSound, GatesSound

-----------------------------------------------------------------------------
(* What the moves decide                                                   *)

(* An effect that needs no lock and offers no retry.                       *)
Still(e) == EffectSound(e) /\ ~Retries(e) /\ ~Needs(e)
Tame(q) == IsSeq(q) /\ \A e \in Range(q) : Still(e)
(* A list that may follow the taking of the lock.                          *)
Under(q) ==
    IsSeq(q) /\ \A e \in Range(q) : EffectSound(e) /\ ~Retries(e) /\ ~Releases(e)
Fits(q) == PlanSound(q) /\ Guarded(q)

LEMMA TameFits ==
  ASSUME NEW q, Tame(q)
  PROVE  Fits(q)
BY DEF Tame, Still, Fits, PlanSound, Guarded, Calm

LEMMA TameFew ==
  /\ Tame(<<>>)
  /\ \A a : Still(a) => Tame(<<a>>)
  /\ \A a, b : Still(a) /\ Still(b) => Tame(<<a, b>>)
<1>1. IsSeq(<<>>) /\ Range(<<>>) = {}
  BY Few
<1>2. ASSUME NEW a, Still(a) PROVE Tame(<<a>>)
  <2>1. IsSeq(<<a>>) /\ Range(<<a>>) = {a}
    BY Few
  <2> QED BY <2>1, <1>2 DEF Tame
<1>3. ASSUME NEW a, NEW b, Still(a), Still(b) PROVE Tame(<<a, b>>)
  <2>1. IsSeq(<<a, b>>) /\ Range(<<a, b>>) = {a, b}
    BY Few
  <2> QED BY <2>1, <1>3 DEF Tame
<1> QED BY <1>1, <1>2, <1>3 DEF Tame

LEMMA TameJoined ==
  ASSUME NEW p, NEW q, Tame(p), Tame(q)
  PROVE  Tame(p \o q)
<1>1. IsSeq(p \o q) /\ Range(p \o q) \subseteq Range(p) \union Range(q)
  BY Joined DEF Tame
<1> QED BY <1>1 DEF Tame

LEMMA UnderJoined ==
  ASSUME NEW p, NEW q, Under(p), Under(q)
  PROVE  Under(p \o q)
<1>1. IsSeq(p \o q) /\ Range(p \o q) \subseteq Range(p) \union Range(q)
  BY Joined DEF Under
<1> QED BY <1>1 DEF Under

(* A list that takes the lock at its head.                                 *)
LEMMA LockedFits ==
  ASSUME NEW e, NEW q, e.do = "lock", EffectSound(e), Under(q)
  PROVE  Fits(<<e>> \o q)
<1> DEFINE p == <<e>> \o q
<1>1. Under(<<e>>)
  <2>1. IsSeq(<<e>>) /\ Range(<<e>>) = {e}
    BY Few
  <2> QED BY <2>1 DEF Under, Retries, Releases
<1>2. Under(p)
  BY <1>1, UnderJoined
<1>3. p # <<>> /\ Head(p) = e
  <2>1. q \in Seq(Range(q))
    BY DEF Under, IsSeq
  <2>2. q \in Seq(Range(q) \union {e})
    BY <2>1, SeqDef
  <2> QED BY <2>2
<1> HIDE DEF p
<1>4. Fits(p)
  BY <1>2, <1>3 DEF Fits, PlanSound, Guarded, Keeps, Under
<1> QED BY <1>4 DEF p

(* The effects that stand in no need of the lock.                          *)
LEMMA StillEffects ==
  /\ \A gate, options : gate # "checks_failed" /\ (gate # StepStop \/ "retry" \notin options)
       => Still(Ask(gate, options))
  /\ \A gate : gate # "checks_failed" => Still(Escalate(gate))
  /\ \A outcome : Still(Finish(outcome))
  /\ \A tag : Still(Comment(tag))
  /\ Still(Fail)
  /\ \A word, taken, usd : Still(Write(Route(word, taken, usd)))
  /\ \A word, usd : Still(Write(AnsweredEvent(word, usd)))
  /\ \A usd, s : Still(Write(RaisedEvent(usd, s)))
  /\ \A what, s, n, c : what \in {"lock", "create", "apply", "approve", "ci", "close"}
       => Still(Do(what, s, n, c))
BY DEF Still, EffectSound, EventSound, Retries, Needs, Ask, Escalate, Finish, Comment, Fail,
       Write, Route, AnsweredEvent, RaisedEvent, Do, StepStop, Decisive

LEMMA LockForTame ==
  ASSUME NEW s
  PROVE  Tame(LockFor(s))
BY TameFew, StillEffects DEF LockFor

LEMMA Parks == Tame(ParkAtBudget) /\ Tame(ParkAtStepStop) /\ \A room : Tame(ParkSpent(room))
BY TameFew, StillEffects DEF ParkAtBudget, ParkAtStepStop, ParkSpent, BudgetGate, StepStop

LEMMA StartStepTame ==
  ASSUME LogSound, WorkflowsLoad, NEW s \in Steps, NEW n, NEW c
  PROVE  Tame(StartStep(s, n, c))
<1> DEFINE child == IF c = 0 THEN NewChild ELSE c
           started == <<Write(StartedEvent(s, n, child))>>
           created == IF c = 0 THEN <<Do("create", s, n, child)>> ELSE <<>>
           asked == <<Ask(s, {"go", "amend", "stop"})>>
           word == IF AnswersItself(s) THEN <<Write(AnsweredEvent("go", 0))>> ELSE <<>>
<1>1. Still(Write(StartedEvent(s, n, child)))
  BY DEF Still, EffectSound, EventSound, Retries, Needs, Write, StartedEvent, Decisive
<1>2. Tame(started) /\ Tame(created) /\ Tame(word)
  BY <1>1, TameFew, StillEffects
<1>3. Tame(LockFor(s) \o started \o created)
  BY <1>2, LockForTame, TameJoined
<1>4. wf.steps[s].checkpoint => Tame(asked \o word)
  <2> HAVE wf.steps[s].checkpoint
  <2>1. s # "checks_failed"
    BY DEF LogSound, WorkflowsLoad, Steps
  <2>2. Tame(asked)
    BY <2>1, TameFew, StillEffects
  <2> QED BY <2>2, <1>2, TameJoined
<1> HIDE DEF started, created, asked, word
<1>5. \/ StartStep(s, n, c) \in {ParkAtBudget, ParkAtStepStop, LockFor(s) \o started \o created}
      \/ wf.steps[s].checkpoint /\ StartStep(s, n, c) = asked \o word
  BY DEF StartStep, started, created, asked, word
<1> QED BY <1>3, <1>4, <1>5, Parks

LEMMA FollowNextTame ==
  ASSUME NEW s
  PROVE  Tame(FollowNext(s))
BY TameFew, StillEffects DEF FollowNext

LEMMA TakeRouteTame ==
  ASSUME NEW s, NEW report
  PROVE  Tame(TakeRoute(s, report))
<1> DEFINE over == wf.ceiling > 0 /\ report.usd > wf.ceiling
           route == <<Write(Route(report.word, wf.steps[s].routes[report.word],
                                  IF over THEN st.budget ELSE report.usd))>>
           park == IF over THEN ParkAtBudget ELSE <<>>
<1>1. Tame(route) /\ Tame(park) /\ Tame(<<Escalate("route_escalate")>>)
  BY TameFew, StillEffects, Parks
<1>2. Tame(route \o park)
  BY <1>1, TameJoined
<1> QED BY <1>1, <1>2 DEF TakeRoute

LEMMA AfterPushedTame ==
  ASSUME NEW s
  PROVE  Tame(AfterPushed(s))
<1> DEFINE ci == IF wf.steps[s].ci THEN <<Do("ci", s, 0, 0)>> ELSE <<>>
           close == <<Comment(<<"close", 0>>), Do("close", s, 0, 0), Finish("closed")>>
           rest == IF wf.steps[s].next = "done" THEN close ELSE FollowNext(s)
<1>1. Tame(ci)
  BY TameFew, StillEffects
<1>2. Tame(close)
  <2>1. Tame(<<Comment(<<"close", 0>>), Do("close", s, 0, 0)>>) /\ Tame(<<Finish("closed")>>)
    BY TameFew, StillEffects
  <2>2. close = <<Comment(<<"close", 0>>), Do("close", s, 0, 0)>> \o <<Finish("closed")>>
    OBVIOUS
  <2> QED BY <2>1, <2>2, TameJoined
<1>3. Tame(rest)
  BY <1>2, FollowNextTame
<1> HIDE DEF ci, rest
<1>4. Tame(LockFor(s) \o ci \o rest)
  BY <1>1, <1>3, LockForTame, TameJoined
<1> QED BY <1>4 DEF AfterPushed, ci, rest

LEMMA ReAwaitFits ==
  ASSUME NEW s, NEW n, NEW c
  PROVE  Fits(ReAwait(s, n, c))
<1> DEFINE rest == (IF PromptDue(s, n, c)
                    THEN <<Do("create", s, n, c), Do("prompt", s, n, c)>>
                    ELSE IF AttemptReported(c, n) THEN <<>> ELSE <<Do("resume", s, n, c)>>)
           apply == <<Do("apply", s, n, c)>>
           parks == {ParkAtBudget, ParkAtStepStop}
<1>1. \/ ReAwait(s, n, c) \in parks
      \/ ReAwait(s, n, c) = LockFor(s) \o rest \o apply
  BY DEF ReAwait, ParkSpent
<1>2. ASSUME NEW q \in parks PROVE Fits(q)
  BY Parks, TameFits
<1>3. Tame(apply)
  BY TameFew, StillEffects
<1>4. IsSeq(rest) /\ Range(rest) \subseteq {Do(what, s, n, c) : what \in {"create", "prompt", "resume"}}
  <2> DEFINE a == Do("create", s, n, c)
             b == Do("prompt", s, n, c)
             d == Do("resume", s, n, c)
  <2>1. {a, b, d} \subseteq {Do(what, s, n, c) : what \in {"create", "prompt", "resume"}}
    OBVIOUS
  <2>2. rest \in {<<a, b>>, <<>>, <<d>>}
    OBVIOUS
  <2> HIDE DEF a, b, d, rest
  <2>3. /\ IsSeq(<<>>) /\ Range(<<>>) = {}
        /\ IsSeq(<<a, b>>) /\ Range(<<a, b>>) = {a, b}
        /\ IsSeq(<<d>>) /\ Range(<<d>>) = {d}
    BY Few
  <2> QED BY <2>1, <2>2, <2>3
<1>5. \A what \in {"create", "prompt", "resume"} :
        LET e == Do(what, s, n, c)
        IN  EffectSound(e) /\ ~Retries(e) /\ ~Releases(e) /\ (~wf.steps[s].writes => ~Needs(e))
  BY DEF Do, EffectSound, Retries, Releases, Needs
<1> HIDE DEF rest
<1>6. CASE wf.steps[s].writes
  <2> DEFINE e == Do("lock", s, 0, 0)
  <2>1. Under(rest) /\ Under(apply)
    <3>1. Under(rest)
      BY <1>4, <1>5 DEF Under
    <3>2. IsSeq(apply) /\ Range(apply) = {Do("apply", s, n, c)}
      BY Few
    <3> QED BY <3>1, <3>2 DEF Under, Do, EffectSound, Retries, Releases
  <2>2. Under(rest \o apply)
    BY <2>1, UnderJoined
  <2>3. e.do = "lock" /\ EffectSound(e)
    BY DEF Do, EffectSound
  <2> HIDE DEF e
  <2>4. Fits(<<e>> \o (rest \o apply))
    BY <2>2, <2>3, LockedFits
  <2>5. <<e>> \o (rest \o apply) = LockFor(s) \o rest \o apply
    <3> DEFINE S == Range(rest) \union Range(apply) \union {e}
    <3>1. <<e>> \in Seq(S) /\ rest \in Seq(S) /\ apply \in Seq(S)
      BY <2>1, SeqDef DEF Under, IsSeq
    <3>2. LockFor(s) = <<e>>
      BY <1>6 DEF LockFor, e
    <3> HIDE DEF apply, S
    <3> QED BY <3>1, <3>2
  <2> QED BY <1>1, <1>2, <2>4, <2>5
<1>7. CASE ~wf.steps[s].writes
  <2>1. Tame(rest)
    BY <1>4, <1>5, <1>7 DEF Tame, Still
  <2>2. Tame(LockFor(s) \o rest \o apply)
    BY <2>1, <1>3, LockForTame, TameJoined
  <2> QED BY <1>1, <1>2, <2>2, TameFits
<1> QED BY <1>6, <1>7

(* A push is weighed in the list of a move that has taken the lock.        *)
LEMMA PushUnder ==
  ASSUME NEW s, NEW n
  PROVE  Under(PushAndInstall(s, n))
<1> DEFINE weigh == <<Do("weigh", s, n, 0)>>
           install == IF wf.steps[s].install THEN <<Do("install", s, n, 0)>> ELSE <<>>
           pushed == <<Write([kind |-> "pushed", step |-> s, after |-> head])>>
<1>1. Under(weigh)
  <2>1. IsSeq(weigh) /\ Range(weigh) = {Do("weigh", s, n, 0)}
    BY Few
  <2> QED BY <2>1 DEF Under, Do, EffectSound, Retries, Releases
<1>2. Under(install)
  <2>1. IsSeq(install) /\ Range(install) \subseteq {Do("install", s, n, 0)}
    BY Few
  <2> QED BY <2>1 DEF Under, Do, EffectSound, Retries, Releases
<1>3. Under(pushed)
  <2>1. IsSeq(pushed) /\ Range(pushed) = {Write([kind |-> "pushed", step |-> s, after |-> head])}
    BY Few
  <2> QED BY <2>1 DEF Under, Write, EffectSound, EventSound, Decisive, Retries, Releases
<1> HIDE DEF weigh, install, pushed
<1>4. Under(weigh \o install \o pushed)
  BY <1>1, <1>2, <1>3, UnderJoined
<1> QED BY <1>4 DEF PushAndInstall, weigh, install, pushed

LEMMA PushTame ==
  ASSUME NEW s, NEW n, ~PushesGuarded
  PROVE  Tame(PushAndInstall(s, n))
<1>1. Under(PushAndInstall(s, n)) /\ \A e \in Range(PushAndInstall(s, n)) : ~Needs(e)
  <2> DEFINE weigh == <<Do("weigh", s, n, 0)>>
             install == IF wf.steps[s].install THEN <<Do("install", s, n, 0)>> ELSE <<>>
             pushed == <<Write([kind |-> "pushed", step |-> s, after |-> head])>>
             calm(q) == IsSeq(q) /\ Calm(q)
  <2>1. ASSUME NEW a, ~Needs(a) PROVE calm(<<a>>)
    <3>1. IsSeq(<<a>>) /\ Range(<<a>>) = {a}
      BY Few
    <3> QED BY <2>1, <3>1 DEF Calm
  <2>2. ~Needs(Do("weigh", s, n, 0)) /\ ~Needs(Do("install", s, n, 0))
        /\ ~Needs(Write([kind |-> "pushed", step |-> s, after |-> head]))
    BY DEF Needs, Do, Write
  <2>3. calm(weigh) /\ calm(install) /\ calm(pushed)
    BY <2>1, <2>2, Few DEF Calm
  <2>4. ASSUME NEW p, NEW q, calm(p), calm(q) PROVE calm(p \o q)
    BY <2>4, Joined DEF Calm
  <2> HIDE DEF weigh, install, pushed, calm
  <2>5. calm(weigh \o install \o pushed)
    BY <2>3, <2>4
  <2> QED BY <2>5, PushUnder DEF PushAndInstall, Calm, weigh, install, pushed, calm
<1> QED BY <1>1 DEF Under, Tame, Still

LEMMA AfterStepTame ==
  ASSUME LogSound, WorkflowsLoad, NEW s \in Steps, NEW n,
         NEW outcome, outcome # None
  PROVE  Tame(AfterStep(s, n, outcome))
<1> DEFINE step == wf.steps[s]
           report == CHOOSE r \in ReportOf(s, n) : TRUE
           routed == TakeRoute(s, report)
           checked == <<Write([kind |-> "checks_run", step |-> s, outcome |-> outcome])>>
           said == <<Comment(<<s, n>>)>>
           again == StartStep(s, n + 1, st.steps[RecordOf(st, s, n)].child)
           push == PushAndInstall(s, n)
<1>1. PushesGuarded => (step.push => step.checks)
  BY DEF LogSound, PushesGuarded, Steps
<1>2. Tame(<<Escalate(StepStop)>>) /\ Tame(<<Escalate("checks_error")>>) /\ Tame(said)
  BY TameFew, StillEffects DEF StepStop
<1>3. Still(Write([kind |-> "checks_run", step |-> s, outcome |-> outcome]))
  BY DEF Still, EffectSound, EventSound, Retries, Needs, Write, Decisive
<1>4. Tame(checked) /\ Tame(routed) /\ Tame(again) /\ Tame(FollowNext(s))
  BY <1>3, TameFew, TakeRouteTame, StartStepTame, FollowNextTame
<1> HIDE DEF report, routed, checked, said, again, push
<1>5. /\ Tame(said \o routed) /\ Tame(said \o <<Escalate("checks_error")>>)
      /\ Tame(said \o checked) /\ Tame(said \o FollowNext(s))
      /\ ~PushesGuarded => Tame(said \o push)
  BY <1>2, <1>4, PushTame, TameJoined DEF push
<1>6. \/ AfterStep(s, n, outcome) \in
           {<<Escalate(StepStop)>>, said \o routed, said \o <<Escalate("checks_error")>>,
            said \o checked, said \o FollowNext(s), again}
      \/ ~PushesGuarded /\ AfterStep(s, n, outcome) = said \o push
  <2>1. step.push \/ step.checks =>
          \/ Handover(s, n, outcome) \in {<<Escalate("checks_error")>>, checked}
          \/ ~PushesGuarded /\ Handover(s, n, outcome) = push
    BY <1>1 DEF Handover, checked, push
  <2> QED BY <2>1 DEF AfterStep, report, routed, said, again
<1> QED BY <1>2, <1>4, <1>5, <1>6

LEMMA ChecksDoneFits ==
  ASSUME LogSound, WorkflowsLoad, NEW s \in Steps, NEW n,
         st.last = "checks_run"
  PROVE  Fits(ChecksDone(s, n))
<1> DEFINE again == StartStep(s, n + 1, st.steps[RecordOf(st, s, n)].child)
           asked == <<Ask("checks_failed", {"retry", "stop"})>>
           stopped == <<Escalate("no_push")>>
           push == PushAndInstall(s, n)
           plan == ChecksDone(s, n)
<1>1. Has("checks_run")
  BY DEF LogSound, GatesSound, Reached
<1>2. Tame(asked)
  <2>1. Still(Ask("checks_failed", {"retry", "stop"}))
    BY <1>1 DEF Still, EffectSound, Retries, Needs, Ask, StepStop
  <2> QED BY <2>1, TameFew
<1>3. Tame(stopped)
  BY TameFew, StillEffects
<1>4. Tame(again)
  BY StartStepTame
<1> HIDE DEF again, asked, stopped, push
<1>5. \/ plan \in {LockFor(s) \o again, LockFor(s) \o asked, LockFor(s) \o stopped}
      \/ wf.steps[s].push /\ plan = LockFor(s) \o push
  BY DEF ChecksDone, again, asked, stopped, push
<1>6. CASE plan \in {LockFor(s) \o again, LockFor(s) \o asked, LockFor(s) \o stopped}
  <2>1. Tame(plan)
    BY <1>2, <1>3, <1>4, <1>6, LockForTame, TameJoined
  <2> QED BY <2>1, TameFits
<1>7. CASE ~PushesGuarded /\ plan = LockFor(s) \o push
  <2>1. Tame(plan)
    BY <1>7, PushTame, LockForTame, TameJoined DEF push
  <2> QED BY <2>1, TameFits
<1>8. CASE PushesGuarded /\ wf.steps[s].push /\ plan = LockFor(s) \o push
  <2> DEFINE e == Do("lock", s, 0, 0)
  <2>1. LockFor(s) = <<e>>
    BY <1>8 DEF LogSound, PushesGuarded, Steps, LockFor
  <2>2. e.do = "lock" /\ EffectSound(e)
    BY DEF Do, EffectSound
  <2>3. Under(push)
    BY PushUnder DEF push
  <2> HIDE DEF e, plan
  <2>4. Fits(<<e>> \o push)
    BY <2>2, <2>3, LockedFits
  <2> QED BY <1>8, <2>1, <2>4 DEF plan
<1> QED BY <1>5, <1>6, <1>7, <1>8

LEMMA FollowRouteTame ==
  ASSUME LogSound, WorkflowsLoad
  PROVE  Tame(FollowRoute)
<1> DEFINE s == st.route.taken
           approve == IF st.route.proposed = "approve" THEN <<Do("approve", None, 0, 0)>> ELSE <<>>
           done == approve \o <<Finish("closed")>>
<1>1. Tame(<<Escalate("route")>>) /\ Tame(<<Escalate("route_escalate")>>)
      /\ Tame(approve) /\ Tame(<<Finish("closed")>>)
  BY TameFew, StillEffects
<1>2. Tame(done)
  BY <1>1, TameJoined
<1>3. s \in Steps => Tame(StartStep(s, 1, 0))
  BY StartStepTame
<1> HIDE DEF done
<1> QED BY <1>1, <1>2, <1>3 DEF FollowRoute, Steps, done

(* An answer at a gate finds in the log what the gate was about.           *)
LEMMA NewestOfKind ==
  ASSUME LogSound, NEW kind, Has(kind)
  PROVE  LET e == lead[Max(LeadHas(LAMBDA d : d.kind = kind))]
         IN  e \in Range(lead) /\ e.kind = kind
<1> DEFINE A == LeadHas(LAMBDA d : d.kind = kind)
<1>1. A \in SUBSET DOMAIN lead /\ \A i \in A : lead[i].kind = kind
  BY DEF LeadHas
<1>2. A # {}
  BY DEF LeadHas, Has, Range
<1>3. IsSeq(lead)
  BY DEF LogSound, LeadSound
<1> HIDE DEF A
<1>4. Max(A) \in A /\ lead[Max(A)] \in Range(lead)
  BY <1>1, <1>2, <1>3, NewestPasses
<1> QED BY <1>1, <1>4 DEF A

(* A retry starts a step of the workflow, or fails.                        *)
LEMMA RetryStarts ==
  ASSUME LogSound, ~st.broken
  PROVE  /\ st.answered.gate = "checks_failed" =>
              \E s \in Steps : \E n, c : RetryAttempt = StartStep(s, n, c)
         /\ Offered(StepStop, "retry") =>
              \/ RetryFailedStep = <<Fail>>
              \/ \E s \in Steps : \E n, c : RetryFailedStep = StartStep(s, n, c)
<1>1. ASSUME st.answered.gate = "checks_failed"
      PROVE  \E s \in Steps : \E n, c : RetryAttempt = StartStep(s, n, c)
  <2> DEFINE e == lead[Max(LeadHas(LAMBDA d : d.kind = "checks_run"))]
             record == st.steps[Newest(st, e.step)]
  <2>1. e \in Range(lead) /\ e.kind = "checks_run"
    BY <1>1, NewestOfKind DEF LogSound, GatesSound
  <2>2. RetryAttempt = StartStep(e.step, record.attempt + 1, record.child)
    BY DEF RetryAttempt
  <2> HIDE DEF e
  <2>3. e.step \in Steps
    BY <2>1 DEF LogSound, LeadSound, EventSound
  <2> QED BY <2>2, <2>3
<1>2. ASSUME Offered(StepStop, "retry")
      PROVE  \/ RetryFailedStep = <<Fail>>
             \/ \E s \in Steps : \E n, c : RetryFailedStep = StartStep(s, n, c)
  <2> DEFINE A == LeadHas(LAMBDA e : e.kind = "checkpoint_asked" /\ e.gate = StepStop)
             ask == lead[Max(A)]
             e == lead[Max(LeadHas(LAMBDA d : d.kind = "step_finished"))]
             n == st.steps[Newest(st, e.step)].attempt + 1
  <2>1. A # {} /\ "retry" \in ask.options
    BY <1>2 DEF Offered
  <2>2. A \in SUBSET DOMAIN lead
        /\ \A i \in A : lead[i].kind = "checkpoint_asked" /\ lead[i].gate = StepStop
    BY DEF LeadHas
  <2>3. IsSeq(lead)
    BY DEF LogSound, LeadSound
  <2> HIDE DEF A
  <2>4. Max(A) \in A /\ ask \in Range(lead)
    BY <2>1, <2>2, <2>3, NewestPasses
  <2>5. ask.kind = "checkpoint_asked" /\ ask.gate = StepStop
    BY <2>2, <2>4
  <2>6. Has("step_finished")
    BY <2>1, <2>4, <2>5 DEF LogSound, LeadSound, AskSound
  <2>7. e \in Range(lead) /\ e.kind = "step_finished"
    BY <2>6, NewestOfKind
  <2>8. RetryFailedStep \in {<<Fail>>, StartStep(e.step, n, 0)}
    BY DEF RetryFailedStep
  <2> HIDE DEF e, n
  <2>9. e.step \in Steps
    BY <2>7 DEF LogSound, LeadSound
  <2> QED BY <2>8, <2>9
<1> QED BY <1>1, <1>2

(* What an answer makes of the run, gate by gate.                          *)
LEMMA AnswerMoves ==
  \/ ActOnAnswer \in {<<Fail>>, <<Finish("stopped")>>}
  \/ \E usd, s : /\ ActOnAnswer = <<Write(RaisedEvent(usd, s))>>
                 /\ st.answered.gate = IF s = None THEN BudgetGate ELSE StepStop
  \/ /\ st.answered.gate \in Steps /\ wf.steps[st.answered.gate].checkpoint
     /\ ActOnAnswer = FollowNext(st.answered.gate)
  \/ st.answered.gate = "checks_failed" /\ ActOnAnswer = RetryAttempt
  \/ Offered(StepStop, "retry") /\ ActOnAnswer = RetryFailedStep
<1>1. PICK word, gate, usd, s, clears, clearsStep, offersRaise, offersRetry, checkpoint,
           raiseBudget, raiseStep, follow, attempt, failed, fail, finish :
         /\ word = st.answered.answer /\ gate = st.answered.gate /\ usd = st.answered.usd
         /\ s = ParkedStep(st) /\ clears = ClearsBudget(usd)
         /\ clearsStep = (s # None /\ usd > StepSpend(st, s))
         /\ offersRaise = Offered(StepStop, "raise") /\ offersRetry = Offered(StepStop, "retry")
         /\ checkpoint = (gate \in DOMAIN wf.steps /\ wf.steps[gate].checkpoint)
         /\ raiseBudget = <<Write(RaisedEvent(usd, None))>>
         /\ raiseStep = <<Write(RaisedEvent(usd, s))>>
         /\ follow = FollowNext(gate) /\ attempt = RetryAttempt /\ failed = RetryFailedStep
         /\ fail = <<Fail>> /\ finish = <<Finish("stopped")>>
  OBVIOUS
<1>2. ActOnAnswer =
        CASE word = "stop" -> finish
          [] word = "raise" /\ gate = BudgetGate -> IF clears THEN raiseBudget ELSE fail
          [] gate = StepStop /\ word = "raise" /\ offersRaise ->
               IF clearsStep THEN raiseStep ELSE fail
          [] word # "stop" /\ checkpoint -> follow
          [] word = "retry" /\ gate = "checks_failed" -> attempt
          [] word = "retry" /\ gate = StepStop /\ offersRetry -> failed
          [] OTHER -> fail
  BY <1>1, Zenon DEF ActOnAnswer
<1>3. \/ ActOnAnswer \in {fail, finish}
      \/ checkpoint /\ ActOnAnswer = follow
      \/ gate = BudgetGate /\ ActOnAnswer = raiseBudget
      \/ gate = StepStop /\ clearsStep /\ ActOnAnswer = raiseStep
      \/ gate = "checks_failed" /\ ActOnAnswer = attempt
      \/ offersRetry /\ ActOnAnswer = failed
  BY <1>2
<1>4. CASE gate = BudgetGate /\ ActOnAnswer = raiseBudget
  BY <1>1, <1>4
<1>5. CASE gate = StepStop /\ clearsStep /\ ActOnAnswer = raiseStep
  <2>1. /\ ActOnAnswer = <<Write(RaisedEvent(usd, s))>>
        /\ st.answered.gate = IF s = None THEN BudgetGate ELSE StepStop
    BY <1>1, <1>5
  <2> QED BY <2>1
<1>6. CASE checkpoint /\ ActOnAnswer = follow
  BY <1>1, <1>6 DEF Steps
<1> QED BY <1>1, <1>3, <1>4, <1>5, <1>6

LEMMA AnswerPlans ==
  ASSUME LogSound, ~st.broken
  PROVE  \/ ActOnAnswer \in {<<Fail>>, <<Finish("stopped")>>}
         \/ \E usd, s : /\ ActOnAnswer = <<Write(RaisedEvent(usd, s))>>
                        /\ st.answered.gate = IF s = None THEN BudgetGate ELSE StepStop
         \/ \E s : ActOnAnswer = FollowNext(s)
         \/ \E s \in Steps : \E n, c : ActOnAnswer = StartStep(s, n, c)
BY AnswerMoves, RetryStarts

LEMMA ActOnAnswerTame ==
  ASSUME LogSound, WorkflowsLoad, ~st.broken
  PROVE  Tame(ActOnAnswer)
<1>1. /\ Tame(<<Fail>>) /\ Tame(<<Finish("stopped")>>) /\ \A s : Tame(FollowNext(s))
      /\ \A usd, s : Tame(<<Write(RaisedEvent(usd, s))>>)
  BY TameFew, StillEffects, FollowNextTame
<1> QED BY <1>1, AnswerPlans, StartStepTame

LEMMA ReportClosed ==
  ASSUME ChildrenSound, NEW c, NEW n, LastSince(c, n, "report") # 0
  PROVE  Child(c)[LastSince(c, n, "report")].status # "open"
<1> DEFINE q == Child(c)
           k == "report"
           prompts == {0} \union {i \in Prompts(c) : Cardinality({j \in Prompts(c) : j <= i}) = n}
           since == {0} \union Since(c, n, k)
<1>1. IsSeq(q) /\ \A e \in Range(q) : ChildEventSound(e)
  <2>1. IsSeq(<<>>) /\ Range(<<>>) = {}
    BY Few
  <2>2. c \in DOMAIN children => children[c] \in Range(children)
    BY DEF Range
  <2> QED BY <2>1, <2>2 DEF Child, ChildrenSound
<1>2. Len(q) \in Nat /\ DOMAIN q = 1 .. Len(q) /\ \A i \in 1 .. Len(q) : q[i] \in Range(q)
  BY <1>1, Places
<1>3. PromptAt(c, n) \in 0 .. Len(q)
  <2>1. prompts \in SUBSET (0 .. Len(q)) /\ prompts # {}
    BY <1>2 DEF Prompts
  <2> QED BY <1>2, <2>1, Greatest DEF PromptAt
<1>4. since \in SUBSET (0 .. Len(q)) /\ since # {}
      /\ \A i \in since \ {0} : i \in 1 .. Len(q) /\ q[i].k = k
  BY <1>2, <1>3 DEF Since
<1> HIDE DEF since
<1>5. Max(since) \in since
  BY <1>2, <1>4, Greatest
<1>6. LastSince(c, n, k) \in since
  BY <1>5 DEF LastSince, since
<1> QED BY <1>1, <1>2, <1>4, <1>6 DEF ChildEventSound

(* An attempt's end is written, and then asked about.                      *)
LEMMA EndOfFits ==
  ASSUME ChildrenSound, NEW s, NEW n, NEW c
  PROVE  Fits(EndOf(s, n, c))
<1> DEFINE finished(as, why, r) ==
             Write([kind |-> "step_finished", step |-> s, status |-> as,
                    reason |-> why, cost |-> SpentSince(c, n), report |-> r])
           ask(options) == Ask(StepStop, options)
           report == LastSince(c, n, "report")
<1>1. ASSUME NEW as, NEW why, NEW r, as # "open"
      PROVE  Still(finished(as, why, r)) /\ Finishes(finished(as, why, r))
  <2> DEFINE d == [kind |-> "step_finished", step |-> s, status |-> as,
                   reason |-> why, cost |-> SpentSince(c, n), report |-> r]
  <2>1. EventSound(d) /\ d.kind = "step_finished"
    BY <1>1 DEF EventSound, Decisive
  <2> HIDE DEF d
  <2>2. finished(as, why, r) = Write(d)
    BY DEF d
  <2> HIDE DEF finished
  <2> QED BY <2>1, <2>2 DEF Still, EffectSound, Retries, Needs, Write, Finishes
<1>2. \A options : EffectSound(ask(options)) /\ ~Needs(ask(options))
  BY DEF EffectSound, Needs, Ask, StepStop
<1> HIDE DEF finished, ask
<1>3. \A as, why, r : as # "open" => Fits(<<finished(as, why, r)>>)
  BY <1>1, TameFew, TameFits
<1>4. ASSUME NEW as, NEW why, NEW r, NEW options, as # "open"
      PROVE  Fits(<<finished(as, why, r), ask(options)>>)
  <2> DEFINE a == finished(as, why, r)
             b == ask(options)
             q == <<a, b>>
  <2>1. IsSeq(q) /\ Range(q) = {a, b} /\ q[1] = a
    BY Few
  <2> HIDE DEF a, b, q
  <2>2. Still(a) /\ Finishes(a)
    BY <1>1, <1>4 DEF a
  <2>3. EffectSound(b) /\ ~Needs(b)
    BY <1>2 DEF b
  <2>4. Fits(q)
    BY <2>1, <2>2, <2>3 DEF Fits, PlanSound, Guarded, Calm, Still
  <2> QED BY <2>4 DEF q, a, b
<1>5. Fits(<<Fail>>)
  BY TameFew, StillEffects, TameFits
<1>6. \/ EndOf(s, n, c) = <<Fail>>
      \/ \E as, why, r : as # "open" /\ EndOf(s, n, c) = <<finished(as, why, r)>>
      \/ \E why, options : EndOf(s, n, c) = <<finished("failed", why, 0), ask(options)>>
  <2> DEFINE status == Child(c)[report].status
             reason == Child(c)[LastSince(c, n, "end")].reason
             options == IF reason = "fault" THEN {"retry", "stop"} ELSE {"stop"}
  <2>1. report # 0 => status # "open"
    BY ReportClosed
  <2>2. \/ EndOf(s, n, c) = <<finished("partial", "empty report", 0)>>
        \/ report # 0 /\ EndOf(s, n, c) = <<finished(status, "reported", report)>>
        \/ EndOf(s, n, c) = <<Fail>>
        \/ EndOf(s, n, c) = <<finished("partial", reason, 0)>>
        \/ EndOf(s, n, c) = <<finished("failed", reason, 0), ask(options)>>
    BY DEF EndOf, finished, ask
  <2> QED BY <2>1, <2>2
<1> QED BY <1>3, <1>4, <1>5, <1>6

LEMMA ChildGrows ==
  ASSUME ChildrenSound, NEW c, NEW e, ChildEventSound(e),
         children' = [children EXCEPT ![c] = Append(@, e)]
  PROVE  ChildrenSound'
<1>1. CASE c \in DOMAIN children
  <2> DEFINE q == Append(children[c], e)
  <2>1. children[c] \in Range(children)
    BY <1>1 DEF Range
  <2>2. IsSeq(q) /\ Range(q) = Range(children[c]) \union {e}
    BY <2>1, Added DEF ChildrenSound
  <2>3. \A d \in Range(q) : ChildEventSound(d)
    BY <2>1, <2>2 DEF ChildrenSound
  <2> HIDE DEF q
  <2>4. IsSeq(children') /\ Range(children') \subseteq Range(children) \union {q}
    BY Edited DEF ChildrenSound, q
  <2> QED BY <2>2, <2>3, <2>4 DEF ChildrenSound
<1>2. CASE c \notin DOMAIN children
  <2>1. children \in Seq(Range(children))
    BY DEF ChildrenSound, IsSeq
  <2>2. children' = children
    BY <1>2, <2>1
  <2> QED BY <2>2 DEF ChildrenSound
<1> QED BY <1>1, <1>2

-----------------------------------------------------------------------------
(* What a step must see to                                                 *)

LEMMA PlanCarries ==
  ASSUME NEW q, PlanSound(q), wf' = wf, todo' = q, \A kind : Has(kind) => Has(kind)'
  PROVE  PlanSound(todo)'
<1>1. \A e : EventSound(e) => EventSound(e)'
  BY DEF EventSound, Steps
<1>2. \A e : EffectSound(e) => EffectSound(e)'
  BY <1>1 DEF EffectSound
<1> QED BY <1>2 DEF PlanSound

LEMMA GuardCarries ==
  ASSUME NEW q, Guarded(q), wf' = wf, todo' = q, held => held'
  PROVE  Guarded(todo)'
BY DEF Guarded, Calm, Keeps, Needs

(* A list that needs no lock fits whoever has it.                          *)
LEMMA CalmCarries ==
  ASSUME NEW q, Calm(q), wf' = wf, todo' = q
  PROVE  Guarded(todo)'
BY DEF Guarded, Calm, Needs

LEMMA NothingToDo ==
  ASSUME todo' = <<>>
  PROVE  PlanSound(todo)' /\ Guarded(todo)'
<1>1. IsSeq(<<>>) /\ Range(<<>>) = {}
  BY Few
<1> QED BY <1>1 DEF PlanSound, Guarded, Calm

(* A move is decided, or given up for another.                             *)
LEMMA PlanMade ==
  ASSUME LockInv, NEW q, Fits(q), todo' = q,
         UNCHANGED <<wf, lead, st, children, held, lock, turn>>
  PROVE  LockInv'
<1>1. LogSound'
  BY LogUnread DEF LockInv
<1>2. ChildrenSound'
  BY DEF LockInv, ChildrenSound
<1>3. PlanSound(todo)'
  BY PlanCarries DEF Fits, Has
<1>4. LockSound'
  BY GuardCarries DEF Fits, LockInv, LockSound
<1> QED BY <1>1, <1>2, <1>3, <1>4 DEF LockInv

(* What is left when the head is done.                                     *)
LEMMA TailFits ==
  ASSUME NEW q, PlanSound(q), Guarded(q), q # <<>>
  PROVE  /\ Head(q).do # "write" => PlanSound(Tail(q))
         /\ Head(q).do # "lock" => Guarded(Tail(q))
         /\ Head(q).do = "lock" => Calm(Tail(q)) \/ Keeps(Tail(q))
         /\ Releases(Head(q)) => Calm(Tail(q))
<1>1. /\ IsSeq(q) /\ Head(q) \in Range(q) /\ q[1] = Head(q)
      /\ IsSeq(Tail(q)) /\ Range(Tail(q)) \subseteq Range(q)
  BY Rest DEF PlanSound
<1>2. Head(q).do # "write" => PlanSound(Tail(q))
  BY <1>1 DEF PlanSound, Finishes
<1>3. Calm(q) => Calm(Tail(q))
  BY <1>1 DEF Calm
<1>4. Keeps(q) => Keeps(Tail(q)) /\ ~Releases(Head(q))
  BY <1>1 DEF Keeps
<1> QED BY <1>2, <1>3, <1>4 DEF Guarded

(* An effect that writes nothing in the log is done.                       *)
LEMMA EffectDone ==
  ASSUME LockInv, todo # <<>>, Head(todo).do # "write", todo' = Tail(todo),
         UNCHANGED <<wf, lead, st>>, ChildrenSound',
         held => held', Head(todo).do = "lock" => held',
         held' => lock' = "mine", "step" \in DOMAIN turn',
         turn' # NoTurn /\ wf.steps[turn'.step].writes => held'
  PROVE  LockInv'
<1> PICK q : q = todo
  OBVIOUS
<1> PICK r : r = Tail(q)
  OBVIOUS
<1>1. LogSound'
  BY LogUnread DEF LockInv
<1>2. PlanSound(q) /\ Guarded(q)
  BY DEF LockInv, LockSound
<1>3. PlanSound(todo)'
  <2>1. PlanSound(r)
    BY <1>2, TailFits
  <2> QED BY <2>1, PlanCarries DEF Has
<1>4. Guarded(todo)'
  <2>1. CASE Head(q).do # "lock"
    <3>1. Guarded(r)
      BY <1>2, <2>1, TailFits
    <3> QED BY <3>1, GuardCarries
  <2>2. CASE Head(q).do = "lock"
    <3>1. Calm(r) \/ Keeps(r)
      BY <1>2, <2>2, TailFits
    <3>2. CASE Calm(r)
      BY <3>2, CalmCarries
    <3>3. CASE Keeps(r)
      BY <2>2, <3>3 DEF Guarded, Keeps
    <3> QED BY <3>1, <3>2, <3>3
  <2> QED BY <2>1, <2>2
<1>5. LockSound'
  BY <1>4 DEF LockSound
<1> QED BY <1>1, <1>3, <1>5 DEF LockInv

(* An effect is done that is an event of the log.                          *)
LEMMA EventDone ==
  ASSUME LockInv, NEW e, EventSound(e),
         e.kind = "checkpoint_asked" => AskSound(e.gate, e.options),
         lead' = Append(lead, e), st' = After(st, e),
         todo # <<>>, todo' = Tail(todo), Head(todo).do # "lock",
         Finishes(Head(todo)) => e.kind = "step_finished",
         UNCHANGED <<wf, children, turn>>, turn = NoTurn,
         \/ UNCHANGED <<held, lock>>
         \/ Releases(Head(todo)) /\ held' = FALSE
  PROVE  LockInv'
<1> PICK q : q = todo
  OBVIOUS
<1> PICK r : r = Tail(q)
  OBVIOUS
<1>1. LogSound' /\ Has(e.kind)' /\ \A kind : Has(kind) => Has(kind)'
  BY AppendSound DEF LockInv
<1>2. ChildrenSound'
  BY DEF LockInv, ChildrenSound
<1>3. PlanSound(q) /\ Guarded(q)
  BY DEF LockInv, LockSound
<1>4. PlanSound(todo)'
  <2>1. /\ q[1] = Head(q) /\ IsSeq(r) /\ Range(r) \subseteq Range(q)
    BY <1>3, Rest DEF PlanSound
  <2>2. \A d : EffectSound(d) => EffectSound(d)'
    BY <1>1 DEF EffectSound, EventSound, Steps
  <2>3. ASSUME NEW d \in Range(r), Retries(d) PROVE Has("step_finished")'
    <3>1. Has("step_finished") \/ Finishes(q[1])
      BY <1>3, <2>1, <2>3 DEF PlanSound
    <3> QED BY <1>1, <2>1, <3>1
  <2> QED BY <1>3, <2>1, <2>2, <2>3 DEF PlanSound
<1>5. Guarded(todo)'
  <2>1. CASE UNCHANGED <<held, lock>>
    <3>1. Guarded(r)
      BY <1>3, TailFits
    <3> QED BY <2>1, <3>1, GuardCarries
  <2>2. CASE Releases(Head(q))
    <3>1. Calm(r)
      BY <1>3, <2>2, TailFits
    <3> QED BY <3>1, CalmCarries
  <2> QED BY <2>1, <2>2
<1>6. LockSound'
  BY <1>5 DEF LockInv, LockSound
<1> QED BY <1>1, <1>2, <1>4, <1>6 DEF LockInv

(* The log is noted in, or is not.                                         *)
LEMMA NotesSound ==
  ASSUME LogSound, Notes, wf' = wf
  PROVE  LogSound'
<1> DEFINE e == [kind |-> "run_errored"]
<1>1. CASE UNCHANGED log
  BY <1>1, LogUnread DEF log
<1>2. CASE Appends(e)
  <2>1. EventSound(e) /\ e.kind # "checkpoint_asked"
    BY DEF EventSound
  <2>2. lead' = Append(lead, e) /\ st' = After(st, e)
    BY <1>2 DEF Appends
  <2> HIDE DEF e
  <2> QED BY <2>1, <2>2, AppendSound
<1> QED BY <1>1, <1>2 DEF Notes

(* The task ends, by itself or by a crash.                                 *)
LEMMA TaskEnds ==
  ASSUME LogSound', ChildrenSound', todo' = <<>>, turn' = NoTurn, held' = FALSE
  PROVE  LockInv'
<1>1. LockSound'
  BY NothingToDo DEF LockSound, NoTurn
<1> QED BY <1>1, NothingToDo DEF LockInv

(* A step beside the task: the child's turn, people, rivals.               *)
LEMMA Beside ==
  ASSUME LockInv, UNCHANGED <<wf, lead, st, held, todo>>, ChildrenSound',
         held => lock' = lock, "step" \in DOMAIN turn',
         turn' # NoTurn => turn # NoTurn /\ turn'.step = turn.step
  PROVE  LockInv'
<1>1. LogSound'
  BY LogUnread DEF LockInv
<1>2. PlanSound(todo)' /\ Guarded(todo)'
  BY PlanCarries, GuardCarries DEF LockInv, LockSound, Has
<1>3. LockSound'
  BY <1>2 DEF LockInv, LockSound
<1> QED BY <1>1, <1>2, <1>3 DEF LockInv

-----------------------------------------------------------------------------
(* Each action                                                             *)

LEMMA InitSound == Init /\ WorkflowsLoad => LockInv
<1> SUFFICES ASSUME Init, WorkflowsLoad PROVE LockInv
  OBVIOUS
<1> DEFINE e == [kind |-> "run_started", budget |-> wf.budget]
<1>1. IsSeq(lead) /\ Range(lead) = {e}
  BY Few DEF Init
<1>2. EventSound(e) /\ e.kind = "run_started"
  BY DEF EventSound, Decisive
<1>3. LeadSound
  BY <1>1, <1>2 DEF LeadSound
<1>4. st = [Zero EXCEPT !.last = "run_started", !.budget = e.budget]
  <2>1. lead[1] = e /\ st = After(Zero, e)
    BY DEF Init
  <2>2. ~Zero.broken /\ Zero.last = None
    BY DEF Zero
  <2> QED BY <2>1, <2>2 DEF After
<1>5. /\ FoldShape(st) /\ st.broken = FALSE /\ st.last = "run_started"
      /\ st.atBudget = None /\ st.atStep = None /\ st.steps = <<>>
      /\ st.pending = None /\ st.answered.gate = None
  BY <1>4 DEF Zero, FoldShape, FoldFields
<1>6. IsSeq(<<>>) /\ Range(<<>>) = {}
  BY Few
<1>7. FoldSound(st) /\ GatesSound
  BY <1>5, <1>6 DEF FoldSound, GatesSound, Reached, Decisive, None
<1>8. PlanSound(todo) /\ Guarded(todo) /\ ChildrenSound
  BY <1>6 DEF Init, PlanSound, Guarded, Calm, ChildrenSound
<1>9. LockSound
  BY <1>8 DEF Init, LockSound, NoTurn
<1> QED BY <1>3, <1>7, <1>8, <1>9 DEF LockInv, LogSound, Init

(* Which record the move after a step, or after its checks, is about.      *)
LEMMA MoveDue ==
  ASSUME NEW f, f.last \in Decisive,
         NEW m, m = NextMove(f), m.do \in {"AfterStep", "ChecksDone"}
  PROVE  LET ended == {i \in DOMAIN f.steps : f.steps[i].status # "open"}
             checked == {i \in DOMAIN f.steps : f.steps[i].checks # None}
         IN  \/ f.last = "step_finished" /\ m = Move("AfterStep", f.steps[Max(ended)])
             \/ f.last = "checks_run" /\ m = Move("ChecksDone", f.steps[Max(checked)])
<1> DEFINE ended == {i \in DOMAIN f.steps : f.steps[i].status # "open"}
           checked == {i \in DOMAIN f.steps : f.steps[i].checks # None}
<1>1. \A do, r : Move(do, r).do = do
  BY DEF Move
<1>2. CASE f.last = "step_finished"
  <2>1. m = Move("AfterStep", f.steps[Max(ended)])
    BY <1>2 DEF NextMove, None
  <2> QED BY <1>2, <2>1
<1>3. CASE f.last = "checks_run"
  <2>1. m = Move("ChecksDone", f.steps[Max(checked)])
    BY <1>3 DEF NextMove, None
  <2> QED BY <1>3, <2>1
<1>4. CASE f.last \in {"run_started", "step_started", "pushed", "route_taken",
                     "checkpoint_asked", "checkpoint_answered", "run_finished"}
  <2> DEFINE opened == {i \in DOMAIN f.steps : f.steps[i].status = "open"}
             pushes == {i \in DOMAIN f.steps : f.steps[i].pushed}
             other(last, do, r) ==
                 f.last = last => m = Move(do, r) /\ do \notin {"AfterStep", "ChecksDone"}
  <2>1. other("run_started", "StartFirstStep", NoRecord)
    BY DEF NextMove, None
  <2>2. other("step_started", "ReAwait", f.steps[Max(opened)])
    BY DEF NextMove, None
  <2>3. other("pushed", "Pushed", f.steps[Max(pushes)])
    BY DEF NextMove, None
  <2>4. other("route_taken", "FollowRoute", NoRecord)
    BY DEF NextMove, None
  <2>5. other("checkpoint_asked", "AwaitingCheckpoint", NoRecord)
    BY DEF NextMove, None
  <2>6. other("checkpoint_answered", "Answered", NoRecord)
    BY DEF NextMove, None
  <2>7. other("run_finished", "Done", NoRecord)
    BY DEF NextMove, None
  <2> HIDE DEF opened, pushes
  <2> QED BY <1>1, <1>4, <2>1, <2>2, <2>3, <2>4, <2>5, <2>6, <2>7
<1> QED BY <1>2, <1>3, <1>4 DEF Decisive

(* The record a move is about is one of the run's.                         *)
LEMMA MoveRead ==
  ASSUME LogSound, NEW m, m = NextMove(st), m.do \in {"AfterStep", "ChecksDone"}
  PROVE  m.step \in Steps /\ (m.do = "ChecksDone" => st.last = "checks_run")
<1> DEFINE ended == {i \in DOMAIN st.steps : st.steps[i].status # "open"}
           checked == {i \in DOMAIN st.steps : st.steps[i].checks # None}
<1>1. IsSeq(st.steps) /\ \A r \in Range(st.steps) : r.step \in Steps
  BY DEF LogSound, FoldSound
<1>2. \/ st.last = "step_finished" /\ m = Move("AfterStep", st.steps[Max(ended)])
      \/ st.last = "checks_run" /\ m = Move("ChecksDone", st.steps[Max(checked)])
  BY MoveDue DEF LogSound, FoldSound
<1>3. CASE st.last = "step_finished" /\ m = Move("AfterStep", st.steps[Max(ended)])
  <2>1. ended # {} /\ ended \in SUBSET DOMAIN st.steps
    BY <1>3 DEF LogSound, FoldSound, Reached, Range
  <2> HIDE DEF ended
  <2>2. st.steps[Max(ended)] \in Range(st.steps)
    BY <1>1, <2>1, NewestPasses
  <2> QED BY <1>1, <1>3, <2>2 DEF Move
<1>4. CASE st.last = "checks_run" /\ m = Move("ChecksDone", st.steps[Max(checked)])
  <2>1. checked # {} /\ checked \in SUBSET DOMAIN st.steps
    BY <1>4 DEF LogSound, FoldSound, Reached, Range
  <2> HIDE DEF checked
  <2>2. st.steps[Max(checked)] \in Range(st.steps)
    BY <1>1, <2>1, NewestPasses
  <2> QED BY <1>1, <1>4, <2>2 DEF Move
<1> QED BY <1>2, <1>3, <1>4

LEMMA MovesSound ==
  ASSUME LockInv, WorkflowsLoad, Moves
  PROVE  LockInv'
<1> USE DEF LockInv
<1>1. ASSUME NEW q, Fits(q), Decide(q) PROVE LockInv'
  <2>1. todo' = q /\ UNCHANGED <<wf, lead, st, children, held, lock, turn>>
    BY <1>1 DEF Decide, log, world
  <2> QED BY <1>1, <2>1, PlanMade
<1>2. CASE StartFirstStep
  <2>1. wf.first \in Steps
    BY DEF LogSound, WorkflowsLoad, Steps
  <2>2. Fits(StartStep(wf.first, 1, 0))
    BY <2>1, StartStepTame, TameFits
  <2> QED BY <1>1, <1>2, <2>2 DEF StartFirstStep
<1>3. CASE ReAwaitChild
  BY <1>1, <1>3, ReAwaitFits DEF ReAwaitChild
<1>4. CASE EndStep
  <2>1. PICK m \in Due("AfterStep"),
             outcome \in {"pass", "fail"} \union (IF "checks" \in Faults THEN {"error"} ELSE {}) :
                Decide(AfterStep(m.step, m.attempt, outcome))
    BY <1>4 DEF EndStep
  <2>2. m.step \in Steps /\ outcome # None
    BY MoveRead DEF Due, None
  <2>3. Fits(AfterStep(m.step, m.attempt, outcome))
    BY <2>2, AfterStepTame, TameFits
  <2> QED BY <1>1, <2>1, <2>3
<1>5. CASE Follow
  BY <1>1, <1>5, FollowRouteTame, TameFits DEF Follow
<1>6. CASE ActOnChecks
  <2>1. PICK m \in Due("ChecksDone") : Decide(ChecksDone(m.step, m.attempt))
    BY <1>6 DEF ActOnChecks
  <2>2. m.step \in Steps /\ st.last = "checks_run"
    BY MoveRead DEF Due
  <2>3. Fits(ChecksDone(m.step, m.attempt))
    BY <2>2, ChecksDoneFits
  <2> QED BY <1>1, <2>1, <2>3
<1>7. CASE ActOnPush
  BY <1>1, <1>7, AfterPushedTame, TameFits DEF ActOnPush
<1>8. CASE ActOnWord
  <2>1. ~st.broken
    BY <1>8 DEF ActOnWord, At, Due
  <2> QED BY <1>1, <1>8, <2>1, ActOnAnswerTame, TameFits DEF ActOnWord
<1> QED BY <1>2, <1>3, <1>4, <1>5, <1>6, <1>7, <1>8 DEF Moves

LEMMA EventsSound ==
  ASSUME LockInv, WriteEvent \/ AskPerson \/ FinishRun
  PROVE  LockInv'
<1> PICK h : h = Head(todo)
  OBVIOUS
<1>1. todo # <<>> => EffectSound(h) /\ (Retries(h) => Has("step_finished") \/ Finishes(h))
  <2> HAVE todo # <<>>
  <2> QED BY Rest DEF LockInv, PlanSound
<1>2. CASE WriteEvent
  <2> PICK e : e = h.event
    OBVIOUS
  <2>1. /\ todo # <<>> /\ h.do = "write" /\ turn = NoTurn /\ todo' = Tail(todo)
        /\ lead' = Append(lead, e) /\ st' = After(st, e)
        /\ UNCHANGED <<wf, children, turn>> /\ UNCHANGED <<held, lock>>
    BY <1>2 DEF WriteEvent, Doing, Appends, world
  <2>2. EventSound(e) /\ e.kind # "checkpoint_asked" /\ (Finishes(h) => e.kind = "step_finished")
    BY <1>1, <2>1 DEF EffectSound, Finishes
  <2> QED BY <2>1, <2>2, EventDone
<1>3. CASE AskPerson
  <2> DEFINE e == [kind |-> "checkpoint_asked", gate |-> h.gate, options |-> h.options]
  <2>1. /\ todo # <<>> /\ h.do = "ask" /\ turn = NoTurn /\ todo' = Tail(todo)
        /\ lead' = Append(lead, e) /\ st' = After(st, e)
        /\ UNCHANGED <<wf, children, turn>> /\ held' = FALSE
    BY <1>3 DEF AskPerson, Doing, Appends, Unlock, world
  <2>2. EventSound(e) /\ AskSound(e.gate, e.options) /\ ~Finishes(h) /\ Releases(h)
    BY <1>1, <2>1 DEF EventSound, Decisive, AskSound, EffectSound, Retries, Finishes, Releases
  <2> HIDE DEF e
  <2> QED BY <2>1, <2>2, EventDone
<1>4. CASE FinishRun
  <2> DEFINE e == [kind |-> "run_finished", outcome |-> h.outcome]
  <2>1. /\ todo # <<>> /\ h.do = "finish" /\ turn = NoTurn /\ todo' = Tail(todo)
        /\ lead' = Append(lead, e) /\ st' = After(st, e)
        /\ UNCHANGED <<wf, children, turn>> /\ held' = FALSE
    BY <1>4 DEF FinishRun, Doing, Appends, Unlock, world
  <2>2. EventSound(e) /\ e.kind # "checkpoint_asked" /\ ~Finishes(h) /\ Releases(h)
    BY <2>1 DEF EventSound, Decisive, Finishes, Releases
  <2> HIDE DEF e
  <2> QED BY <2>1, <2>2, EventDone
<1> QED BY <1>2, <1>3, <1>4

(* A move is given up for an ask.                                          *)
LEMMA Escalated ==
  ASSUME LockInv, NEW gate, gate # "checks_failed", todo' = <<Escalate(gate)>>,
         UNCHANGED <<wf, lead, st, children, held, lock, turn>>
  PROVE  LockInv'
<1>1. Fits(<<Escalate(gate)>>)
  BY StillEffects, TameFew, TameFits
<1> QED BY <1>1, PlanMade

LEMMA LockTaken ==
  ASSUME LockInv, TakeWriteLock
  PROVE  LockInv'
<1>1. /\ todo # <<>> /\ Head(todo).do = "lock" /\ turn = NoTurn
      /\ UNCHANGED <<wf, lead, st, turn>> /\ ChildrenSound'
  BY DEF TakeWriteLock, Doing, log, world, LockInv, ChildrenSound
<1>2. CASE held' = TRUE /\ lock' = "mine" /\ todo' = Tail(todo)
  BY <1>1, <1>2, EffectDone DEF LockInv, LockSound
<1>3. CASE todo' = <<Escalate("write_lock")>> /\ UNCHANGED <<held, lock>>
  <2>1. UNCHANGED children
    BY DEF TakeWriteLock, world
  <2> QED BY <1>1, <1>3, <2>1, Escalated
<1> QED BY <1>2, <1>3 DEF TakeWriteLock

LEMMA ChildMade ==
  ASSUME LockInv, CreateChild
  PROVE  LockInv'
<1>1. /\ todo # <<>> /\ Head(todo).do = "create" /\ turn = NoTurn /\ todo' = Tail(todo)
      /\ UNCHANGED <<wf, lead, st, turn, held, lock>>
  BY DEF CreateChild, Doing, log
<1>2. ChildrenSound'
  <2>1. IsSeq(<<>>) /\ Range(<<>>) = {}
    BY Few
  <2>2. /\ IsSeq(Append(children, <<>>))
        /\ Range(Append(children, <<>>)) = Range(children) \union {<<>>}
    BY Added DEF LockInv, ChildrenSound
  <2>3. children' \in {children, Append(children, <<>>)}
    BY DEF CreateChild
  <2>4. IsSeq(children') /\ Range(children') \subseteq Range(children) \union {<<>>}
    BY <2>2, <2>3 DEF LockInv, ChildrenSound
  <2> QED BY <2>1, <2>4 DEF LockInv, ChildrenSound
<1> QED BY <1>1, <1>2, EffectDone DEF LockInv, LockSound

(* A turn begins: its step has the lock if it writes.                      *)
LEMMA TurnBegins ==
  ASSUME LockInv, todo # <<>>, Head(todo).do \in {"prompt", "resume"}
  PROVE  wf.steps[Head(todo).step].writes => held
<1>1. Head(todo) \in Range(todo)
  BY Rest DEF LockInv, PlanSound
<1> QED BY <1>1 DEF LockInv, LockSound, Guarded, Calm, Needs

LEMMA PromptPosted ==
  ASSUME LockInv, PostPrompt
  PROVE  LockInv'
<1>1. /\ todo # <<>> /\ Head(todo).do = "prompt" /\ todo' = Tail(todo)
      /\ UNCHANGED <<wf, lead, st, held, lock>>
  BY DEF PostPrompt, Doing, log
<1>2. ChildrenSound'
  <2> DEFINE e == [k |-> "prompt"]
  <2>1. ChildEventSound(e)
    BY DEF ChildEventSound
  <2>2. children' = [children EXCEPT ![Head(todo).child] = Append(@, e)]
    BY DEF PostPrompt
  <2> HIDE DEF e
  <2> QED BY <2>1, <2>2, ChildGrows DEF LockInv
<1>3. "step" \in DOMAIN turn' /\ turn'.step = Head(todo).step
  BY DEF PostPrompt, Begin
<1> QED BY <1>1, <1>2, <1>3, TurnBegins, EffectDone DEF LockInv, LockSound

LEMMA ChildResumed ==
  ASSUME LockInv, ResumeChild
  PROVE  LockInv'
<1>1. /\ todo # <<>> /\ Head(todo).do = "resume" /\ turn = NoTurn
      /\ UNCHANGED <<wf, lead, st, held, lock, children>>
  BY DEF ResumeChild, Doing, log, world
<1>2. ChildrenSound'
  BY <1>1 DEF LockInv, ChildrenSound
<1>3. CASE todo' = Tail(todo) /\ UNCHANGED turn
  BY <1>1, <1>2, <1>3, EffectDone DEF LockInv, LockSound
<1>4. CASE todo' = Tail(todo) /\ Begin(Head(todo))
  <2>1. "step" \in DOMAIN turn' /\ turn'.step = Head(todo).step
    BY <1>4 DEF Begin
  <2> QED BY <1>1, <1>2, <1>4, <2>1, TurnBegins, EffectDone DEF LockInv, LockSound
<1>5. ASSUME NEW room, todo' = ParkSpent(room), UNCHANGED turn PROVE LockInv'
  <2>1. Fits(ParkSpent(room))
    BY Parks, TameFits
  <2> QED BY <1>1, <1>5, <2>1, PlanMade
<1> QED BY <1>3, <1>4, <1>5 DEF ResumeChild

LEMMA EndApplied ==
  ASSUME LockInv, ApplyEnd
  PROVE  LockInv'
<1> PICK e : e = Head(todo)
  OBVIOUS
<1>1. Fits(EndOf(e.step, e.attempt, e.child))
  BY EndOfFits DEF LockInv
<1>2. todo' = EndOf(e.step, e.attempt, e.child)
      /\ UNCHANGED <<wf, lead, st, children, held, lock, turn>>
  BY DEF ApplyEnd, log, world
<1> QED BY <1>1, <1>2, PlanMade

(* What a call to the world leaves of the run.                             *)
LEMMA CallDone ==
  ASSUME LockInv, todo # <<>>, Head(todo).do \notin {"write", "lock"}, todo' = Tail(todo),
         UNCHANGED <<wf, lead, st, children, held, lock, turn>>, turn = NoTurn
  PROVE  LockInv'
<1>1. ChildrenSound'
  BY DEF LockInv, ChildrenSound
<1> QED BY <1>1, EffectDone DEF LockInv, LockSound

LEMMA CallsSound ==
  ASSUME LockInv, PostComment \/ InstallBinary \/ WaitForCi \/ CloseIssue
  PROVE  LockInv'
<1>1. UNCHANGED <<wf, lead, st, children, held, lock, turn>> /\ turn = NoTurn
      /\ todo # <<>> /\ Head(todo).do \in {"comment", "install", "ci", "close", "approve"}
  BY DEF PostComment, InstallBinary, WaitForCi, CloseIssue, Doing, log, world
<1>2. CASE todo' = Tail(todo)
  BY <1>1, <1>2, CallDone
<1>3. ASSUME NEW gate \in {"install_mismatch", "ci_failed", "ci_missing", "ci_timeout"},
             todo' = <<Escalate(gate)>>
      PROVE  LockInv'
  BY <1>1, <1>3, Escalated
<1> QED BY <1>2, <1>3 DEF PostComment, InstallBinary, WaitForCi, CloseIssue

LEMMA PushSound ==
  ASSUME LockInv, WeighPush \/ PushBranch
  PROVE  LockInv'
<1> PICK q : q = todo
  OBVIOUS
<1>1. UNCHANGED <<wf, lead, st, children, held, lock, turn>> /\ turn = NoTurn
      /\ q # <<>> /\ Head(q).do \in {"weigh", "push"}
  BY DEF WeighPush, PushBranch, Doing, log, world
<1>2. CASE todo' = Tail(q)
  BY <1>1, <1>2, CallDone
<1>3. ASSUME NEW gate \in {"remote_moved", "push_error"}, todo' = <<Escalate(gate)>>
      PROVE  LockInv'
  BY <1>1, <1>3, Escalated
<1>4. CASE todo' = <<[Head(q) EXCEPT !.do = "push"]>> \o Tail(q) /\ Head(q).do = "weigh"
  <2> DEFINE e == Head(q)
             d == [e EXCEPT !.do = "push"]
             p == <<d>> \o Tail(q)
  <2>1. PlanSound(q) /\ Guarded(q)
    BY DEF LockInv, LockSound
  <2>2. e \in Range(q) /\ q[1] = e /\ IsSeq(Tail(q)) /\ Range(Tail(q)) \subseteq Range(q)
    BY <1>1, <2>1, Rest DEF PlanSound
  <2>3. d.do = "push"
    <3>1. e = Do("weigh", e.step, e.attempt, e.child)
      BY <1>4, <2>1, <2>2 DEF PlanSound, EffectSound
    <3> HIDE DEF e
    <3> QED BY <3>1 DEF Do
  <2>4. (held /\ Keeps(q)) \/ (~PushesGuarded /\ Calm(q))
    BY <1>1, <1>4, <2>1, <2>2 DEF Guarded, Calm, Needs
  <2> HIDE DEF e, d
  <2>5. IsSeq(p) /\ Range(p) \subseteq Range(Tail(q)) \union {d}
    <3>1. IsSeq(<<d>>) /\ Range(<<d>>) = {d}
      BY Few
    <3> QED BY <2>2, <3>1, Joined
  <2> HIDE DEF p
  <2>6. PlanSound(p)
    <3>1. EffectSound(d) /\ ~Retries(d)
      BY <2>3 DEF EffectSound, Retries
    <3>2. \A x \in Range(q) : EffectSound(x) /\ (Retries(x) => Has("step_finished"))
      BY <1>4, <2>1, <2>2 DEF PlanSound, Finishes, e
    <3> QED BY <2>2, <2>5, <3>1, <3>2 DEF PlanSound
  <2>7. Guarded(p)
    <3>1. CASE held /\ Keeps(q)
      BY <2>2, <2>3, <2>5, <3>1 DEF Guarded, Keeps, Releases
    <3>2. CASE ~PushesGuarded /\ Calm(q)
      BY <2>2, <2>3, <2>5, <3>2 DEF Guarded, Calm, Needs
    <3> QED BY <2>4, <3>1, <3>2
  <2>8. Fits(p)
    BY <2>6, <2>7 DEF Fits
  <2>9. todo' = p
    BY <1>4 DEF p, d, e
  <2> QED BY <1>1, <2>8, <2>9, PlanMade
<1> QED BY <1>2, <1>3, <1>4 DEF WeighPush, PushBranch, Doing

LEMMA GivenUp ==
  ASSUME LockInv, FailMove \/ CallFails \/ StopUnreadable \/ LeaveFinished \/ Crash
  PROVE  LockInv'
<1>1. wf' = wf /\ ChildrenSound'
  BY DEF FailMove, CallFails, StopUnreadable, LeaveFinished, Crash, world, LockInv, ChildrenSound
<1>2. LogSound'
  <2>1. Notes \/ UNCHANGED <<lead, st>>
    BY DEF FailMove, CallFails, StopUnreadable, LeaveFinished, Crash, log
  <2> QED BY <1>1, <2>1, NotesSound, LogUnread DEF LockInv
<1>3. todo' = <<>> /\ turn' = NoTurn /\ held' = FALSE
  BY DEF FailMove, CallFails, StopUnreadable, LeaveFinished, Crash, Ends, Unlock
<1> QED BY <1>1, <1>2, <1>3, TaskEnds

LEMMA RenderSound ==
  ASSUME LockInv, RenderFails
  PROVE  LockInv'
<1>1. todo' = <<Escalate("render_failed")>>
      /\ UNCHANGED <<wf, lead, st, children, held, lock, turn>>
  BY DEF RenderFails, log, world
<1> QED BY <1>1, Escalated

LEMMA TurnSound ==
  ASSUME LockInv, ChildCalls \/ ChildReports \/ ChildEnds \/ ChildDies
  PROVE  LockInv'
<1>1. ASSUME NEW e, ChildEventSound(e), Adds(e) PROVE ChildrenSound'
  BY <1>1, ChildGrows DEF Adds, LockInv
<1>2. "step" \in DOMAIN turn /\ turn # NoTurn
  BY DEF LockInv, LockSound, ChildCalls, ChildReports, ChildEnds, ChildDies
<1>3. CASE ChildCalls
  <2>1. ChildEventSound([k |-> "call"])
    BY DEF ChildEventSound
  <2>2. ChildrenSound'
    BY <1>1, <1>3, <2>1 DEF ChildCalls
  <2>3. UNCHANGED <<wf, lead, st, held, lock, todo>>
        /\ turn' = [turn EXCEPT !.left = IF turn.capped THEN @ - 5 ELSE @]
    BY <1>3 DEF ChildCalls, log
  <2>4. "step" \in DOMAIN turn' /\ turn'.step = turn.step
    BY <1>2, <2>3
  <2> QED BY <1>2, <2>2, <2>3, <2>4, Beside
<1>4. CASE ChildReports
  <2>1. PICK e \in Reports(turn.step) : Adds(e)
    BY <1>4 DEF ChildReports
  <2>2. ChildEventSound(e)
    <3> DEFINE report(status, word, usd, go) ==
                 [k |-> "report", status |-> status, word |-> word, usd |-> usd, go |-> go]
               short == {report(status, None, 0, FALSE) : status \in {"partial", "empty"}}
               routed == DOMAIN wf.steps[turn.step].routes # {}
               decides == \E d \in DOMAIN wf.steps : wf.steps[d].decidedBy = turn.step
               words == IF routed THEN DOMAIN wf.steps[turn.step].routes \union {"other"}
                                  ELSE {None}
               figures == IF routed THEN Proposals ELSE {0}
               goes == IF decides THEN BOOLEAN ELSE {FALSE}
               full == {report("done", word, usd, go) :
                           word \in words, usd \in figures, go \in goes}
    <3>1. Reports(turn.step) = short \union full
      BY DEF Reports
    <3>2. \A r \in short : r.status \in {"partial", "empty"}
      OBVIOUS
    <3> HIDE DEF short, words, figures, goes
    <3>3. \A r \in full : r.status = "done"
      OBVIOUS
    <3> HIDE DEF full
    <3> QED BY <2>1, <3>1, <3>2, <3>3 DEF ChildEventSound
  <2>3. UNCHANGED <<wf, lead, st, held, lock, todo, turn>>
    BY <1>4 DEF ChildReports, log
  <2> QED BY <1>1, <1>2, <2>1, <2>2, <2>3, Beside
<1>5. ASSUME NEW reason, Adds([k |-> "end", reason |-> reason]) PROVE ChildrenSound'
  <2>1. ChildEventSound([k |-> "end", reason |-> reason])
    BY DEF ChildEventSound
  <2> QED BY <1>1, <1>5, <2>1
<1>6. CASE ChildEnds
  <2>1. ChildrenSound'
    BY <1>5, <1>6 DEF ChildEnds
  <2>2. UNCHANGED <<wf, lead, st, held, lock, todo>> /\ turn' = NoTurn
    BY <1>6 DEF ChildEnds, log
  <2> QED BY <2>1, <2>2, Beside DEF NoTurn
<1>7. CASE ChildDies
  <2>1. ChildrenSound'
    BY <1>5, <1>7 DEF ChildDies
  <2>2. wf' = wf /\ Notes /\ todo' = <<>> /\ turn' = NoTurn /\ held' = FALSE
    BY <1>7 DEF ChildDies, Ends, Unlock
  <2> QED BY <2>1, <2>2, NotesSound, TaskEnds DEF LockInv
<1> QED BY <1>3, <1>4, <1>6, <1>7

LEMMA WorldSound ==
  ASSUME LockInv, Start \/ RivalLocks \/ RemoteMoves
  PROVE  LockInv'
<1>1. UNCHANGED <<wf, lead, st, held, todo, turn>> /\ ChildrenSound'
  BY DEF Start, RivalLocks, RemoteMoves, log, world, LockInv, ChildrenSound
<1>2. held => lock' = lock
  BY DEF Start, RivalLocks, RemoteMoves, LockInv, LockSound
<1> QED BY <1>1, <1>2, Beside DEF LockInv, LockSound

LEMMA AnswerSound ==
  ASSUME LockInv, Answer
  PROVE  LockInv'
<1>1. PICK word, usd : Appends(AnsweredEvent(word, usd))
  BY DEF Answer
<1>2. /\ todo = <<>> /\ turn = NoTurn /\ UNCHANGED <<wf, held, lock, todo, turn, children>>
  BY DEF Answer, At, Due, Idle, world
<1> PICK e : e = AnsweredEvent(word, usd)
  OBVIOUS
<1>3. EventSound(e) /\ e.kind # "checkpoint_asked"
  BY DEF EventSound, AnsweredEvent, Decisive
<1>4. LogSound'
  BY <1>1, <1>2, <1>3, AppendSound DEF Appends, LockInv
<1>5. ChildrenSound'
  BY <1>2 DEF LockInv, ChildrenSound
<1>6. LockSound'
  BY <1>2, NothingToDo DEF LockInv, LockSound
<1> QED BY <1>2, <1>4, <1>5, <1>6, NothingToDo DEF LockInv

LEMMA StepSound ==
  ASSUME WorkflowsLoad, LockInv, [Next]_vars
  PROVE  LockInv'
<1>1. CASE Next
  BY <1>1, MovesSound, EventsSound, GivenUp, LockTaken, ChildMade, PromptPosted, ChildResumed,
     EndApplied, CallsSound, PushSound, RenderSound, TurnSound, WorldSound, AnswerSound
     DEF Next, Effects, Turns, Stops, Environment
<1>2. CASE UNCHANGED vars
  <2>1. ChildrenSound' /\ UNCHANGED <<wf, lead, st, held, lock, todo, turn>>
    BY <1>2 DEF vars, LockInv, ChildrenSound
  <2> QED BY <2>1, Beside DEF LockInv, LockSound
<1> QED BY <1>1, <1>2

THEOREM LockInvAlways ==
  ASSUME WorkflowsLoad PROVE Spec => []LockInv
<1>1. LockInv /\ [Next]_vars => LockInv'
  BY StepSound
<1> QED BY <1>1, InitSound, PTL DEF Spec

(* A writing step's turn runs under the repository's write lock, wherever  *)
(* the daemon dies, and whatever is retried, raised or picked up again     *)
(* (runner/mod.rs: start_step and re_await take WRITE_LOCKS before the     *)
(* first effect that needs it, and no move gives it back before its ask or *)
(* the run's end).                                                         *)
THEOREM TurnsUnderLockAlways ==
  ASSUME WorkflowsLoad
  PROVE  Spec => [](turn # NoTurn /\ wf.steps[turn.step].writes => lock = "mine")
<1>1. LockInv => (turn # NoTurn /\ wf.steps[turn.step].writes => lock = "mine")
  BY DEF LockInv, LockSound
<1> QED BY <1>1, LockInvAlways, PTL

(* So does its push leave, where workflows push from writing steps that    *)
(* name checks (runner/mod.rs: checks_done takes the lock again before it  *)
(* hands a checked step to the push).                                      *)
THEOREM WritesUnderLockAlways ==
  ASSUME WorkflowsLoad, PushesGuarded PROVE Spec => []WritesUnderLock
<1>1. LockInv => WritesUnderLock
  <2> SUFFICES ASSUME LockInv, todo # <<>>, Head(todo).do = "push" PROVE held
    BY DEF LockInv, LockSound, WritesUnderLock
  <2>1. Head(todo) \in Range(todo)
    BY Rest DEF LockInv, PlanSound
  <2> QED BY <2>1 DEF LockInv, LockSound, Guarded, Calm, Needs
<1> QED BY <1>1, LockInvAlways, PTL
-----------------------------------------------------------------------------
(* The run as people follow it                                             *)

(* Lists that go on, and lists that may stop at their end.                 *)
Flows(q) == AllNamed(q) /\ \A e \in Range(q) : ~Says(e) /\ ~Halts(e)
Closes(q) == AllNamed(q) /\ OneStop(q)
Shaped(q) == AllNamed(q) /\ (OneStop(q) \/ SaysItself(q))

LEMMA JoinedPlaces ==
  ASSUME NEW p, NEW q, IsSeq(p), IsSeq(q)
  PROVE  /\ Len(p \o q) = Len(p) + Len(q) /\ Len(p) \in Nat /\ Len(q) \in Nat
         /\ \A i \in 1 .. Len(p) : (p \o q)[i] = p[i]
         /\ \A i \in 1 .. Len(q) : (p \o q)[Len(p) + i] = q[i]
<1> DEFINE S == Range(p) \union Range(q)
<1>1. p \in Seq(S) /\ q \in Seq(S)
  BY SeqDef DEF IsSeq
<1> HIDE DEF S
<1> QED BY <1>1

LEMMA PairJoined ==
  ASSUME NEW a, NEW b
  PROVE  <<a>> \o <<b>> = <<a, b>>
<1> DEFINE S == {a, b}
           r == <<a>> \o <<b>>
<1>1. <<a>> \in Seq(S) /\ <<b>> \in Seq(S) /\ <<a, b>> \in Seq(S)
  OBVIOUS
<1> HIDE DEF S
<1>2. r \in Seq(S) /\ Len(r) = 2 /\ r[1] = a /\ r[2] = b
  <2>1. r \in Seq(S) /\ Len(r) = 2
    BY <1>1
  <2>2. r[1] = a
    BY <1>1
  <2>3. r[2] = b
    BY <1>1
  <2> QED BY <2>1, <2>2, <2>3
<1>3. Len(<<a, b>>) = 2 /\ <<a, b>>[1] = a /\ <<a, b>>[2] = b
  OBVIOUS
<1> HIDE DEF r
<1>4. r = <<a, b>>
  <2>1. \A i \in 1 .. 2 : r[i] = <<a, b>>[i]
    BY <1>2, <1>3
  <2> QED BY <1>1, <1>2, <1>3, <2>1, SeqEqual
<1> QED BY <1>4 DEF r

LEMMA FewFlow ==
  /\ Flows(<<>>)
  /\ \A a : Named(a) /\ ~Says(a) => Closes(<<a>>)
  /\ \A a : Named(a) /\ ~Says(a) /\ ~Halts(a) => Flows(<<a>>)
<1>1. Flows(<<>>)
  BY Few DEF Flows, AllNamed
<1>2. ASSUME NEW a, Named(a), ~Says(a) PROVE Closes(<<a>>) /\ (~Halts(a) => Flows(<<a>>))
  <2>1. IsSeq(<<a>>) /\ Range(<<a>>) = {a} /\ Len(<<a>>) = 1 /\ <<a>>[1] = a
    BY Few
  <2> QED BY <2>1, <1>2 DEF Closes, OneStop, Flows, AllNamed
<1> QED BY <1>1, <1>2

LEMMA NamedJoined ==
  ASSUME NEW p, NEW q, AllNamed(p), AllNamed(q)
  PROVE  AllNamed(p \o q)
<1>1. IsSeq(p \o q) /\ Range(p \o q) \subseteq Range(p) \union Range(q)
  BY Joined DEF AllNamed
<1> QED BY <1>1 DEF AllNamed

LEMMA FlowsJoined ==
  ASSUME NEW p, NEW q, Flows(p), Flows(q)
  PROVE  Flows(p \o q)
<1>1. IsSeq(p \o q) /\ Range(p \o q) \subseteq Range(p) \union Range(q)
  BY Joined DEF Flows, AllNamed
<1> QED BY <1>1 DEF Flows, AllNamed

LEMMA FlowsToEnd ==
  ASSUME NEW p, NEW q, Flows(p), Closes(q)
  PROVE  Closes(p \o q)
<1> DEFINE r == p \o q
<1>1. /\ Len(r) = Len(p) + Len(q) /\ Len(p) \in Nat /\ Len(q) \in Nat
      /\ \A i \in 1 .. Len(p) : r[i] = p[i]
      /\ \A i \in 1 .. Len(q) : r[Len(p) + i] = q[i]
  BY JoinedPlaces DEF Flows, Closes, AllNamed
<1>2. \A i \in 1 .. Len(p) : p[i] \in Range(p)
  BY Places DEF Flows, AllNamed
<1> HIDE DEF r
<1>3. ASSUME NEW i \in 1 .. Len(r) PROVE ~Says(r[i]) /\ (Halts(r[i]) => i = Len(r))
  <2>1. CASE i \in 1 .. Len(p)
    BY <1>1, <1>2, <2>1 DEF Flows
  <2>2. CASE i \notin 1 .. Len(p)
    <3>1. i - Len(p) \in 1 .. Len(q) /\ i = Len(p) + (i - Len(p))
      BY <1>1, <2>2
    <3>2. r[i] = q[i - Len(p)]
      BY <1>1, <3>1
    <3> QED BY <1>1, <3>1, <3>2 DEF Closes, OneStop
  <2> QED BY <2>1, <2>2
<1>4. AllNamed(r)
  BY NamedJoined DEF Flows, Closes, r
<1> QED BY <1>3, <1>4 DEF Closes, OneStop, r

LEMMA FlowsEnd ==
  ASSUME NEW q, Flows(q)
  PROVE  Closes(q)
<1>1. \A i \in 1 .. Len(q) : q[i] \in Range(q)
  BY Places DEF Flows, AllNamed
<1> QED BY <1>1 DEF Flows, Closes, OneStop

LEMMA ClosesShaped ==
  ASSUME NEW q, Closes(q)
  PROVE  Shaped(q)
BY DEF Closes, Shaped

LEMMA NamedEffects ==
  /\ \A gate, options : gate # None =>
       Named(Ask(gate, options)) /\ ~Says(Ask(gate, options))
  /\ \A gate : gate # None => Named(Escalate(gate)) /\ ~Says(Escalate(gate))
  /\ \A outcome : outcome # None => Named(Finish(outcome)) /\ ~Says(Finish(outcome))
  /\ \A tag : Named(Comment(tag)) /\ ~Says(Comment(tag)) /\ ~Halts(Comment(tag))
  /\ Named(Fail) /\ ~Says(Fail) /\ ~Halts(Fail)
  /\ \A event : /\ Named(Write(event)) /\ ~Halts(Write(event))
                /\ Says(Write(event)) <=> event.kind = "checkpoint_answered"
  /\ \A what, s, n, c : what \notin {"ask", "finish", "write"} =>
       Named(Do(what, s, n, c)) /\ ~Says(Do(what, s, n, c)) /\ ~Halts(Do(what, s, n, c))
BY DEF Named, Says, Halts, Ask, Escalate, Finish, Comment, Fail, Write, Do

LEMMA LockForFlows ==
  ASSUME NEW s
  PROVE  Flows(LockFor(s)) /\ LockFor(s) \in {<<>>, <<Do("lock", s, 0, 0)>>}
BY FewFlow, NamedEffects DEF LockFor

LEMMA LockedShaped ==
  ASSUME NEW s, NEW q, Shaped(q)
  PROVE  Shaped(LockFor(s) \o q)
<1> DEFINE p == LockFor(s)
           r == p \o q
<1>1. Flows(p) /\ AllNamed(r)
  BY LockForFlows, NamedJoined DEF Flows, Shaped
<1>2. CASE OneStop(q)
  BY <1>1, <1>2, FlowsToEnd DEF Shaped, Closes
<1>3. CASE SaysItself(q)
  <2>1. /\ Len(r) = Len(p) + Len(q) /\ Len(p) \in Nat /\ Len(q) \in Nat
        /\ \A i \in 1 .. Len(p) : r[i] = p[i]
        /\ \A i \in 1 .. Len(q) : r[Len(p) + i] = q[i]
    BY <1>1, JoinedPlaces DEF Flows, Shaped, AllNamed
  <2>2. \A i \in 1 .. Len(p) : p[i].do = "lock"
    <3>1. p \in {<<>>, <<Do("lock", s, 0, 0)>>}
      BY LockForFlows
    <3> HIDE DEF p
    <3> QED BY <3>1 DEF Do
  <2> HIDE DEF p, r
  <2>3. Len(q) >= 2 /\ Says(q[Len(q)]) /\ q[Len(q) - 1].do = "ask"
    BY <1>3 DEF SaysItself
  <2>4. Len(r) >= 2 /\ r[Len(r)] = q[Len(q)] /\ r[Len(r) - 1] = q[Len(q) - 1]
    <3>1. /\ Len(q) \in 1 .. Len(q) /\ Len(q) - 1 \in 1 .. Len(q)
          /\ Len(r) = Len(p) + Len(q) /\ Len(r) - 1 = Len(p) + (Len(q) - 1)
      BY <2>1, <2>3
    <3> QED BY <2>1, <2>3, <3>1
  <2>5. ASSUME NEW i \in 1 .. (Len(r) - 2) PROVE r[i].do = "lock"
    <3>1. CASE i \in 1 .. Len(p)
      BY <2>1, <2>2, <3>1
    <3>2. CASE i \notin 1 .. Len(p)
      <4>1. i - Len(p) \in 1 .. (Len(q) - 2) /\ i = Len(p) + (i - Len(p))
        BY <2>1, <3>2
      <4>2. r[i] = q[i - Len(p)]
        BY <2>1, <4>1
      <4> QED BY <1>3, <4>1, <4>2 DEF SaysItself
    <3> QED BY <3>1, <3>2
  <2>6. SaysItself(r)
    BY <2>3, <2>4, <2>5 DEF SaysItself
  <2> QED BY <1>1, <2>6 DEF Shaped, r, p
<1> QED BY <1>2, <1>3 DEF Shaped

LEMMA ParksEnd == Closes(ParkAtBudget) /\ Closes(ParkAtStepStop) /\ \A room : Closes(ParkSpent(room))
BY FewFlow, NamedEffects DEF ParkAtBudget, ParkAtStepStop, ParkSpent, BudgetGate, StepStop, None

LEMMA StartStepShaped ==
  ASSUME LogSound, WorkflowsLoad, NEW s \in Steps, NEW n, NEW c
  PROVE  Shaped(StartStep(s, n, c))
<1> DEFINE child == IF c = 0 THEN NewChild ELSE c
           started == <<Write(StartedEvent(s, n, child))>>
           created == IF c = 0 THEN <<Do("create", s, n, child)>> ELSE <<>>
           ask == Ask(s, {"go", "amend", "stop"})
           word == Write(AnsweredEvent("go", 0))
           said == IF AnswersItself(s) THEN <<word>> ELSE <<>>
<1>1. Flows(started) /\ Flows(created)
  BY FewFlow, NamedEffects DEF StartedEvent
<1>2. Closes(LockFor(s) \o started \o created)
  BY <1>1, LockForFlows, FlowsJoined, FlowsEnd
<1>3. wf.steps[s].checkpoint => Shaped(<<ask>> \o said)
  <2> HAVE wf.steps[s].checkpoint
  <2>1. s # None
    BY DEF LogSound, WorkflowsLoad, Steps
  <2>2. Named(ask) /\ ~Says(ask) /\ ask.do = "ask" /\ Named(word) /\ Says(word)
    BY <2>1, NamedEffects DEF AnsweredEvent, Ask
  <2>5. said \in {<<>>, <<word>>}
    OBVIOUS
  <2> HIDE DEF ask, word, said
  <2>3. CASE said = <<>>
    <3>1. <<ask>> \o said = <<ask>>
      BY <2>3
    <3> QED BY <2>2, <3>1, FewFlow, ClosesShaped
  <2>4. CASE said = <<word>>
    <3>1. <<ask>> \o said = <<ask, word>>
      BY <2>4, PairJoined
    <3>2. /\ IsSeq(<<ask, word>>) /\ Range(<<ask, word>>) = {ask, word}
          /\ Len(<<ask, word>>) = 2 /\ <<ask, word>>[1] = ask /\ <<ask, word>>[2] = word
      BY Few
    <3>3. SaysItself(<<ask, word>>)
      BY <2>2, <3>2 DEF SaysItself
    <3>4. AllNamed(<<ask, word>>)
      BY <2>2, <3>2 DEF AllNamed
    <3> QED BY <3>1, <3>3, <3>4 DEF Shaped
  <2> QED BY <2>3, <2>4, <2>5
<1> HIDE DEF started, created, ask, said
<1>4. \/ StartStep(s, n, c) \in {ParkAtBudget, ParkAtStepStop, LockFor(s) \o started \o created}
      \/ wf.steps[s].checkpoint /\ StartStep(s, n, c) = <<ask>> \o said
  BY DEF StartStep, started, created, ask, said
<1> QED BY <1>2, <1>3, <1>4, ParksEnd, ClosesShaped

LEMMA FollowNextCloses ==
  ASSUME NEW s
  PROVE  Closes(FollowNext(s))
BY FewFlow, NamedEffects DEF FollowNext, Route, None

LEMMA ReAwaitCloses ==
  ASSUME NEW s, NEW n, NEW c
  PROVE  Closes(ReAwait(s, n, c))
<1> DEFINE create == <<Do("create", s, n, c)>>
           prompt == <<Do("prompt", s, n, c)>>
           resume == <<Do("resume", s, n, c)>>
           apply == <<Do("apply", s, n, c)>>
           both == <<Do("create", s, n, c), Do("prompt", s, n, c)>>
           rest == (IF PromptDue(s, n, c)
                    THEN both ELSE IF AttemptReported(c, n) THEN <<>> ELSE resume)
<1>1. Flows(<<>>) /\ Flows(create) /\ Flows(prompt) /\ Flows(resume) /\ Flows(apply)
  BY FewFlow, NamedEffects
<1>2. both = create \o prompt
  OBVIOUS
<1>3. rest \in {both, <<>>, resume}
  OBVIOUS
<1> HIDE DEF create, prompt, resume, apply, both, rest
<1>4. Flows(rest)
  BY <1>1, <1>2, <1>3, FlowsJoined
<1>5. Closes(LockFor(s) \o rest \o apply)
  BY <1>1, <1>4, LockForFlows, FlowsJoined, FlowsEnd
<1>6. ReAwait(s, n, c) \in {ParkAtBudget, ParkAtStepStop, LockFor(s) \o rest \o apply}
  BY DEF ReAwait, ParkSpent, rest, both, resume, apply
<1> QED BY <1>5, <1>6, ParksEnd

LEMMA TakeRouteCloses ==
  ASSUME NEW s, NEW report
  PROVE  Closes(TakeRoute(s, report))
<1> DEFINE over == wf.ceiling > 0 /\ report.usd > wf.ceiling
           route == <<Write(Route(report.word, wf.steps[s].routes[report.word],
                                  IF over THEN st.budget ELSE report.usd))>>
           park == IF over THEN ParkAtBudget ELSE <<>>
<1>1. Flows(route) /\ Closes(park) /\ Closes(<<Escalate("route_escalate")>>)
  BY FewFlow, FlowsEnd, NamedEffects, ParksEnd DEF Route, None
<1>2. Closes(route \o park)
  BY <1>1, FlowsToEnd
<1> QED BY <1>1, <1>2 DEF TakeRoute

LEMMA PushFlows ==
  ASSUME NEW s, NEW n
  PROVE  Flows(PushAndInstall(s, n))
<1> DEFINE weigh == <<Do("weigh", s, n, 0)>>
           install == IF wf.steps[s].install THEN <<Do("install", s, n, 0)>> ELSE <<>>
           pushed == <<Write([kind |-> "pushed", step |-> s, after |-> head])>>
<1>1. Flows(weigh) /\ Flows(install) /\ Flows(pushed)
  BY FewFlow, NamedEffects
<1> HIDE DEF weigh, install, pushed
<1>2. Flows(weigh \o install \o pushed)
  BY <1>1, FlowsJoined
<1> QED BY <1>2 DEF PushAndInstall, weigh, install, pushed

LEMMA AfterStepShaped ==
  ASSUME LogSound, WorkflowsLoad, NEW s \in Steps, NEW n, NEW outcome
  PROVE  Shaped(AfterStep(s, n, outcome))
<1> DEFINE report == CHOOSE r \in ReportOf(s, n) : TRUE
           routed == TakeRoute(s, report)
           checked == <<Write([kind |-> "checks_run", step |-> s, outcome |-> outcome])>>
           said == <<Comment(<<s, n>>)>>
           again == StartStep(s, n + 1, st.steps[RecordOf(st, s, n)].child)
           handed == Handover(s, n, outcome)
<1>1. Closes(<<Escalate(StepStop)>>) /\ Closes(<<Escalate("checks_error")>>) /\ Flows(said)
  BY FewFlow, NamedEffects DEF StepStop, None
<1>2. Flows(checked)
  BY FewFlow, NamedEffects
<1>3. Closes(routed) /\ Shaped(again) /\ Closes(FollowNext(s))
  BY TakeRouteCloses, StartStepShaped, FollowNextCloses
<1>4. Closes(handed)
  <2>1. handed \in {PushAndInstall(s, n), <<Escalate("checks_error")>>, checked}
    BY DEF Handover
  <2> HIDE DEF handed, checked
  <2> QED BY <1>1, <1>2, <2>1, PushFlows, FlowsEnd
<1> HIDE DEF report, routed, checked, said, again, handed
<1>5. Closes(said \o routed) /\ Closes(said \o handed) /\ Closes(said \o FollowNext(s))
  BY <1>1, <1>3, <1>4, FlowsToEnd
<1>6. AfterStep(s, n, outcome) \in
        {<<Escalate(StepStop)>>, said \o routed, said \o handed, said \o FollowNext(s), again}
  BY DEF AfterStep, report, routed, said, again, handed
<1> QED BY <1>1, <1>3, <1>5, <1>6, ClosesShaped

LEMMA ChecksDoneShaped ==
  ASSUME LogSound, WorkflowsLoad, NEW s \in Steps, NEW n
  PROVE  Shaped(ChecksDone(s, n))
<1> DEFINE again == StartStep(s, n + 1, st.steps[RecordOf(st, s, n)].child)
           asked == <<Ask("checks_failed", {"retry", "stop"})>>
           stopped == <<Escalate("no_push")>>
           push == PushAndInstall(s, n)
           plans == {again, asked, stopped, push}
<1>1. Closes(asked) /\ Closes(stopped)
  BY FewFlow, NamedEffects DEF None
<1>2. Shaped(again) /\ Closes(push)
  BY StartStepShaped, PushFlows, FlowsEnd
<1> HIDE DEF again, asked, stopped, push
<1>3. \A q \in plans : Shaped(LockFor(s) \o q)
  BY <1>1, <1>2, ClosesShaped, LockedShaped
<1>4. \E q \in plans : ChecksDone(s, n) = LockFor(s) \o q
  BY DEF ChecksDone, again, asked, stopped, push
<1> QED BY <1>3, <1>4

LEMMA AfterPushedCloses ==
  ASSUME NEW s
  PROVE  Closes(AfterPushed(s))
<1> DEFINE ci == IF wf.steps[s].ci THEN <<Do("ci", s, 0, 0)>> ELSE <<>>
           say == <<Comment(<<"close", 0>>)>>
           shut == <<Do("close", s, 0, 0)>>
           finish == <<Finish("closed")>>
           close == <<Comment(<<"close", 0>>), Do("close", s, 0, 0), Finish("closed")>>
           rest == IF wf.steps[s].next = "done" THEN close ELSE FollowNext(s)
<1>1. Flows(ci) /\ Flows(say) /\ Flows(shut) /\ Closes(finish)
  BY FewFlow, NamedEffects DEF None
<1>2. close = (say \o shut) \o finish
  <2>1. say \o shut = <<Comment(<<"close", 0>>), Do("close", s, 0, 0)>>
    BY PairJoined
  <2> QED BY <2>1
<1> HIDE DEF say, shut, finish, close
<1>3. Closes(rest)
  BY <1>1, <1>2, FlowsJoined, FlowsToEnd, FollowNextCloses
<1> HIDE DEF ci, rest
<1>4. Closes((LockFor(s) \o ci) \o rest)
  BY <1>1, <1>3, LockForFlows, FlowsJoined, FlowsToEnd
<1> QED BY <1>4 DEF AfterPushed, ci, rest, close

LEMMA FollowRouteShaped ==
  ASSUME LogSound, WorkflowsLoad
  PROVE  Shaped(FollowRoute)
<1> DEFINE s == st.route.taken
           approve == IF st.route.proposed = "approve" THEN <<Do("approve", None, 0, 0)>> ELSE <<>>
           finish == <<Finish("closed")>>
<1>1. /\ Closes(<<Escalate("route")>>) /\ Closes(<<Escalate("route_escalate")>>)
      /\ Flows(approve) /\ Closes(finish)
  BY FewFlow, NamedEffects DEF None
<1>2. Closes(approve \o finish)
  BY <1>1, FlowsToEnd
<1>3. s \in Steps => Shaped(StartStep(s, 1, 0))
  BY StartStepShaped
<1> HIDE DEF approve, finish
<1> QED BY <1>1, <1>2, <1>3, ClosesShaped DEF FollowRoute, Steps, approve, finish

LEMMA ActOnAnswerShaped ==
  ASSUME LogSound, WorkflowsLoad, ~st.broken
  PROVE  Shaped(ActOnAnswer)
<1>1. /\ Closes(<<Fail>>) /\ Closes(<<Finish("stopped")>>) /\ \A s : Closes(FollowNext(s))
      /\ \A usd, s : Closes(<<Write(RaisedEvent(usd, s))>>)
  BY FewFlow, NamedEffects, FollowNextCloses DEF RaisedEvent, None
<1> QED BY <1>1, AnswerPlans, StartStepShaped, ClosesShaped

LEMMA EndOfCloses ==
  ASSUME NEW s, NEW n, NEW c
  PROVE  Closes(EndOf(s, n, c))
<1> DEFINE finished(as, why, r) ==
             Write([kind |-> "step_finished", step |-> s, status |-> as,
                    reason |-> why, cost |-> SpentSince(c, n), report |-> r])
           ask(options) == Ask(StepStop, options)
<1>1. \A as, why, r : Flows(<<finished(as, why, r)>>)
  BY FewFlow, NamedEffects
<1>2. \A options : Closes(<<ask(options)>>)
  BY FewFlow, NamedEffects DEF StepStop, None
<1> HIDE DEF finished, ask
<1>3. \A as, why, r, options : Closes(<<finished(as, why, r), ask(options)>>)
  <2> QED BY <1>1, <1>2, PairJoined, FlowsToEnd
<1>4. Closes(<<Fail>>)
  BY FewFlow, NamedEffects
<1>5. \/ EndOf(s, n, c) = <<Fail>>
      \/ \E as, why, r : EndOf(s, n, c) = <<finished(as, why, r)>>
      \/ \E why, options : EndOf(s, n, c) = <<finished("failed", why, 0), ask(options)>>
  <2> DEFINE report == LastSince(c, n, "report")
             status == Child(c)[report].status
             reason == Child(c)[LastSince(c, n, "end")].reason
             options == IF reason = "fault" THEN {"retry", "stop"} ELSE {"stop"}
  <2>1. \/ EndOf(s, n, c) = <<finished("partial", "empty report", 0)>>
        \/ EndOf(s, n, c) = <<finished(status, "reported", report)>>
        \/ EndOf(s, n, c) = <<Fail>>
        \/ EndOf(s, n, c) = <<finished("partial", reason, 0)>>
        \/ EndOf(s, n, c) = <<finished("failed", reason, 0), ask(options)>>
    BY DEF EndOf, finished, ask
  <2> QED BY <2>1
<1> QED BY <1>1, <1>3, <1>4, <1>5, FlowsEnd

-----------------------------------------------------------------------------
(* The phase after one more event                                          *)

LEMMA WorkRead ==
  ASSUME NEW f, NEW e, FoldSound(f), EventSound(e), ~f.broken,
         e.kind \notin {"checkpoint_asked", "checkpoint_answered", "run_finished", "run_errored"}
  PROVE  LET g == After(f, e)
         IN  /\ g.last \in {f.last, e.kind, f.atBudget, f.atStep}
             /\ g.outcome = f.outcome
             /\ g.atBudget \in {f.atBudget, None} /\ g.atStep \in {f.atStep, None}
<1> DEFINE g == After(f, e)
<1>1. FoldShape(f) /\ f.last # None
  BY DEF FoldSound, Decisive, None
<1>2. CASE e.kind = "run_started"
  <2>1. g = Broken(f)
    BY <1>1, <1>2 DEF After
  <2> QED BY <1>1, <2>1 DEF Broken, FoldShape, FoldFields
<1>3. CASE e.kind = "route_taken"
  <2>1. g = [f EXCEPT !.last = e.kind,
                      !.budget = IF e.usd = 0 THEN @ ELSE e.usd,
                      !.route = [proposed |-> e.proposed, taken |-> e.taken]]
    BY <1>1, <1>3 DEF After
  <2> QED BY <1>1, <2>1 DEF FoldShape, FoldFields
<1>4. CASE e.kind = "step_started"
  <2>1. g = Started(f, e)
    BY <1>1, <1>4 DEF After
  <2> QED BY <1>1, <2>1 DEF Started, Broken, FoldShape, FoldFields
<1>5. CASE e.kind = "step_finished"
  <2>1. g = Finished(f, e)
    BY <1>1, <1>5 DEF After
  <2> QED BY <1>1, <2>1 DEF Finished, Broken, FoldShape, FoldFields
<1>6. CASE e.kind = "checks_run"
  <2>1. g = Checked(f, e)
    BY <1>1, <1>6 DEF After
  <2> QED BY <1>1, <2>1 DEF Checked, Broken, FoldShape, FoldFields
<1>7. CASE e.kind = "pushed"
  <2>1. g = Pushed(f, e)
    BY <1>1, <1>7 DEF After
  <2> QED BY <1>1, <2>1 DEF Pushed, Broken, FoldShape, FoldFields
<1>8. CASE e.kind = "budget_raised"
  <2>1. g = Raised(f, e)
    BY <1>1, <1>8 DEF After
  <2> QED BY <1>1, <2>1 DEF Raised, Broken, FoldShape, FoldFields
<1> QED BY <1>2, <1>3, <1>4, <1>5, <1>6, <1>7, <1>8 DEF EventSound, Decisive

LEMMA StopRead ==
  ASSUME NEW f, NEW e, FoldSound(f), ~f.broken
  PROVE  LET g == After(f, e)
             kept == g.atBudget = f.atBudget /\ g.atStep = f.atStep /\ g.broken = f.broken
         IN  /\ e.kind = "checkpoint_asked" =>
                  /\ g.last = e.kind /\ g.outcome = f.outcome /\ g.pending = e.gate
                  /\ g.atBudget \in {f.atBudget, f.last} /\ g.atStep \in {f.atStep, f.last}
                  /\ g.broken = f.broken
             /\ e.kind = "checkpoint_answered" /\ f.pending # None =>
                  g.last = e.kind /\ g.outcome = f.outcome /\ kept
             /\ e.kind = "run_finished" => g.last = e.kind /\ g.outcome = e.outcome /\ kept
             /\ e.kind = "run_errored" =>
                  /\ g.last = f.last /\ g.outcome = f.outcome /\ kept
                  /\ g.pending = f.pending
<1> DEFINE g == After(f, e)
           kept == g.atBudget = f.atBudget /\ g.atStep = f.atStep /\ g.broken = f.broken
<1>1. FoldShape(f) /\ f.last # None
  BY DEF FoldSound, Decisive, None
<1>2. ASSUME e.kind = "checkpoint_asked"
      PROVE  /\ g.last = e.kind /\ g.outcome = f.outcome /\ g.pending = e.gate
             /\ g.atBudget \in {f.atBudget, f.last} /\ g.atStep \in {f.atStep, f.last}
             /\ g.broken = f.broken
  <2>1. g = Asked(f, e)
    BY <1>1, <1>2 DEF After
  <2> QED BY <1>1, <2>1 DEF Asked, FoldShape, FoldFields
<1>3. ASSUME e.kind = "checkpoint_answered", f.pending # None
      PROVE  g.last = e.kind /\ g.outcome = f.outcome /\ kept
  <2> DEFINE a == [gate |-> f.pending, answer |-> e.answer, usd |-> e.usd]
  <2>1. g = [f EXCEPT !.last = e.kind, !.pending = None, !.answered = a]
    BY <1>1, <1>3 DEF After, Answered
  <2> HIDE DEF a
  <2> QED BY <1>1, <2>1 DEF FoldShape, FoldFields
<1>4. ASSUME e.kind = "run_finished"
      PROVE  g.last = e.kind /\ g.outcome = e.outcome /\ kept
  <2>1. g = [f EXCEPT !.last = e.kind, !.outcome = e.outcome, !.errored = FALSE]
    BY <1>1, <1>4 DEF After
  <2> QED BY <1>1, <2>1 DEF FoldShape, FoldFields
<1>5. ASSUME e.kind = "run_errored"
      PROVE  /\ g.last = f.last /\ g.outcome = f.outcome /\ kept
             /\ g.pending = f.pending
  <2>1. g = [f EXCEPT !.errored = TRUE]
    BY <1>1, <1>5 DEF After
  <2> QED BY <1>1, <2>1 DEF FoldShape, FoldFields
<1> QED BY <1>2, <1>3, <1>4, <1>5

LEMMA CourseRead ==
  ASSUME NEW f, NEW e, FoldSound(f), EventSound(e), OnCourse(f)
  PROVE  LET g == After(f, e)
         IN  /\ f.broken => g = f
             /\ e.kind \notin {"checkpoint_asked", "checkpoint_answered", "run_finished"} =>
                  OnCourse(g)
             /\ e.kind = "checkpoint_asked" /\ e.gate # None /\ ~f.broken =>
                  Parked(g) /\ ~g.broken
             /\ e.kind = "run_finished" /\ e.outcome # None /\ ~f.broken => Over(g)
<1> DEFINE g == After(f, e)
<1>1. CASE f.broken
  BY <1>1 DEF After
<1>2. CASE ~f.broken
  <2>1. CASE e.kind \notin {"checkpoint_asked", "checkpoint_answered", "run_finished", "run_errored"}
    <3>1. /\ g.last \in {f.last, e.kind, f.atBudget, f.atStep} /\ g.outcome = f.outcome
          /\ g.atBudget \in {f.atBudget, None} /\ g.atStep \in {f.atStep, None}
      BY <1>2, <2>1, WorkRead
    <3> HIDE DEF g
    <3>2. OnCourse(g)
      BY <2>1, <3>1 DEF OnCourse, RaisesOn, None
    <3> QED BY <1>2, <2>1, <3>2 DEF g
  <2>2. CASE e.kind = "run_errored"
    <3>1. /\ g.last = f.last /\ g.outcome = f.outcome
          /\ g.atBudget = f.atBudget /\ g.atStep = f.atStep
      BY <1>2, <2>2, StopRead
    <3> HIDE DEF g
    <3>2. OnCourse(g)
      BY <3>1 DEF OnCourse, RaisesOn
    <3> QED BY <1>2, <2>2, <3>2 DEF g
  <2>3. CASE e.kind = "checkpoint_asked" /\ e.gate # None
    BY <1>2, <2>3, StopRead DEF OnCourse, Parked, RaisesOn
  <2>4. CASE e.kind = "run_finished" /\ e.outcome # None
    BY <1>2, <2>4, StopRead DEF OnCourse, Over, RaisesOn
  <2> QED BY <1>2, <2>1, <2>2, <2>3, <2>4
<1> QED BY <1>1, <1>2

LEMMA AnswerRead ==
  ASSUME NEW f, NEW e, FoldSound(f), Parked(f), ~f.broken, e.kind = "checkpoint_answered"
  PROVE  OnCourse(After(f, e))
BY StopRead DEF Parked, OnCourse, RaisesOn

LEMMA NoteRead ==
  ASSUME NEW f, NEW e, FoldSound(f), ~f.broken, e.kind = "run_errored"
  PROVE  LET g == After(f, e)
         IN  /\ g.last = f.last /\ g.outcome = f.outcome /\ g.pending = f.pending
             /\ g.atBudget = f.atBudget /\ g.atStep = f.atStep
BY StopRead

-----------------------------------------------------------------------------
(* What a step shows of the run                                            *)

KindAt(q, kind) == {i \in DOMAIN q : q[i].kind = kind}
MovesIn(q) == Cardinality(DOMAIN q \ (KindAt(q, "run_errored") \union KindAt(q, "checkpoint_answered")))
AnswersIn(q) == Cardinality(KindAt(q, "checkpoint_answered"))

LEMMA Counted ==
  ASSUME NEW q, IsSeq(q), NEW e, NEW r, r = Append(q, e)
  PROVE  /\ e.kind = "run_errored" => MovesIn(r) = MovesIn(q) /\ AnswersIn(r) = AnswersIn(q)
         /\ e.kind = "checkpoint_answered" =>
              MovesIn(r) = MovesIn(q) /\ AnswersIn(r) = AnswersIn(q) + 1
         /\ e.kind \notin {"run_errored", "checkpoint_answered"} =>
              MovesIn(r) = MovesIn(q) + 1 /\ AnswersIn(r) = AnswersIn(q)
<1> DEFINE n == Len(q) + 1
           M(p) == DOMAIN p \ (KindAt(p, "run_errored") \union KindAt(p, "checkpoint_answered"))
           A(p) == KindAt(p, "checkpoint_answered")
<1>1. Len(q) \in Nat /\ DOMAIN q = 1 .. Len(q)
  BY Places
<1>2. /\ DOMAIN r = DOMAIN q \union {n} /\ n \notin DOMAIN q
      /\ r[n] = e /\ \A i \in DOMAIN q : r[i] = q[i]
  <2>1. q \in Seq(Range(q) \union {e})
    BY SeqDef DEF IsSeq
  <2>2. r \in Seq(Range(q) \union {e}) /\ Len(r) = n /\ r[n] = e /\ \A i \in 1 .. Len(q) : r[i] = q[i]
    BY <2>1
  <2>3. DOMAIN r = 1 .. n
    BY <2>2, SeqSelf
  <2> QED BY <1>1, <2>2, <2>3
<1>3. IsFiniteSet(M(q)) /\ IsFiniteSet(A(q)) /\ n \notin M(q) /\ n \notin A(q)
  <2>1. IsFiniteSet(DOMAIN q)
    BY <1>1, FS_Interval
  <2>2. M(q) \subseteq DOMAIN q /\ A(q) \subseteq DOMAIN q
    BY DEF KindAt
  <2> QED BY <1>2, <2>1, <2>2, FS_Subset
<1>4. Cardinality(M(q) \union {n}) = Cardinality(M(q)) + 1
      /\ Cardinality(A(q) \union {n}) = Cardinality(A(q)) + 1
  BY <1>3, FS_AddElement
<1>5. /\ e.kind = "run_errored" => M(r) = M(q) /\ A(r) = A(q)
      /\ e.kind = "checkpoint_answered" => M(r) = M(q) /\ A(r) = A(q) \union {n}
      /\ e.kind \notin {"run_errored", "checkpoint_answered"} => M(r) = M(q) \union {n} /\ A(r) = A(q)
  <2> HIDE DEF n
  <2> QED BY <1>2 DEF KindAt
<1> QED BY <1>4, <1>5 DEF MovesIn, AnswersIn

LEMMA Read ==
  /\ OnCourse(st) => Phase = "working"
  /\ Parked(st) => Phase = "asking"
  /\ Over(st) => Phase = "over"
  /\ OnCourse(st)' => Phase' = "working"
  /\ Parked(st)' => Phase' = "asking"
  /\ Over(st)' => Phase' = "over"
BY DEF OnCourse, Parked, Over, Phase

LEMMA CountsRead ==
  /\ Cardinality(DOMAIN lead \ (Where("run_errored") \union Where("checkpoint_answered"))) = MovesIn(lead)
  /\ Cardinality(Where("checkpoint_answered")) = AnswersIn(lead)
  /\ Cardinality(DOMAIN lead \ (Where("run_errored") \union Where("checkpoint_answered")))' = MovesIn(lead')
  /\ Cardinality(Where("checkpoint_answered"))' = AnswersIn(lead')
BY DEF Where, LeadHas, KindAt, MovesIn, AnswersIn

LEMMA NothingShown ==
  ASSUME Phase' = Phase, posted' = posted,
         MovesIn(lead') = MovesIn(lead), AnswersIn(lead') = AnswersIn(lead)
  PROVE  UNCHANGED Path!vars
BY CountsRead DEF Path!vars

LEMMA MoveShown ==
  ASSUME Phase = "working", Phase' \in {"working", "asking", "over"}, posted' = posted,
         MovesIn(lead') = MovesIn(lead) + 1, AnswersIn(lead') = AnswersIn(lead)
  PROVE  Path!Next
BY CountsRead DEF Path!Next, Path!Work, Path!Ask, Path!End, Path!Moves

LEMMA AnswerShown ==
  ASSUME Phase = "asking", Phase' = "working", posted' = posted,
         MovesIn(lead') = MovesIn(lead), AnswersIn(lead') = AnswersIn(lead) + 1
  PROVE  Path!Next
BY CountsRead DEF Path!Next, Path!Answer

LEMMA PostShown ==
  ASSUME Phase = "working", Phase' = "working", IsSeq(posted), NEW tag, tag \notin Range(posted),
         posted' = Append(posted, tag),
         MovesIn(lead') = MovesIn(lead), AnswersIn(lead') = AnswersIn(lead)
  PROVE  Path!Next
<1>1. tag \in Range(posted')
  BY Added
<1> QED BY <1>1, CountsRead DEF Path!Next, Path!Post, Path!Range, Range

(* What is left when the head is done.                                     *)
LEMMA HeadDone ==
  ASSUME NEW q, AllNamed(q), q # <<>>, NEW h, h = Head(q), NEW r, r = Tail(q)
  PROVE  /\ AllNamed(r) /\ Named(h) /\ h = q[1] /\ (Len(q) = 1 => r = <<>>)
         /\ OneStop(q) => ~Says(h) /\ OneStop(r) /\ (Halts(h) => r = <<>>)
         /\ SaysItself(q) => \/ h.do = "lock" /\ SaysItself(r)
                             \/ h.do = "ask" /\ Len(r) = 1 /\ Says(r[1])
<1>1. /\ h \in Range(q) /\ q[1] = h /\ IsSeq(r) /\ Range(r) \subseteq Range(q)
  BY Rest DEF AllNamed
<1>2. /\ Len(q) \in Nat /\ Len(q) >= 1 /\ Len(r) = Len(q) - 1
      /\ \A i \in 1 .. Len(r) : r[i] = q[i + 1]
  <2>1. q \in Seq(Range(q))
    BY DEF AllNamed, IsSeq
  <2> QED BY <2>1
<1>3. AllNamed(r) /\ Named(h)
  BY <1>1 DEF AllNamed
<1>4. Len(q) = 1 => r = <<>>
  <2>1. r \in Seq(Range(r))
    BY <1>1 DEF IsSeq
  <2> QED BY <1>2, <2>1
<1>5. ASSUME OneStop(q) PROVE ~Says(h) /\ OneStop(r) /\ (Halts(h) => r = <<>>)
  <2>1. ~Says(q[1]) /\ (Halts(q[1]) => 1 = Len(q))
    <3>1. 1 \in 1 .. Len(q)
      BY <1>2
    <3> QED BY <1>5, <3>1, Zenon DEF OneStop
  <2>2. ASSUME NEW i \in 1 .. Len(r) PROVE ~Says(r[i]) /\ (Halts(r[i]) => i = Len(r))
    <3>1. i + 1 \in 1 .. Len(q) /\ r[i] = q[i + 1]
      BY <1>2
    <3>2. ~Says(q[i + 1]) /\ (Halts(q[i + 1]) => i + 1 = Len(q))
      BY <1>5, <3>1, Zenon DEF OneStop
    <3>3. i + 1 = Len(q) => i = Len(r)
      <4>1. \A x, y, z \in Int : z = y - 1 /\ x + 1 = y => x = z
        OBVIOUS
      <4>2. i \in Int /\ Len(q) \in Int /\ Len(r) \in Int /\ Len(r) = Len(q) - 1
        BY <1>2
      <4> QED BY <4>1, <4>2, Zenon
    <3> QED BY <3>1, <3>2, <3>3, Zenon
  <2> QED BY <1>1, <1>4, <2>1, <2>2 DEF OneStop
<1>6. ASSUME SaysItself(q)
      PROVE  \/ h.do = "lock" /\ SaysItself(r)
             \/ h.do = "ask" /\ Len(r) = 1 /\ Says(r[1])
  <2>1. /\ Len(q) >= 2 /\ Says(q[Len(q)]) /\ q[Len(q) - 1].do = "ask"
        /\ \A i \in 1 .. (Len(q) - 2) : q[i].do = "lock"
    BY <1>6 DEF SaysItself
  <2>2. CASE Len(q) = 2
    <3>1. r[1] = q[2] /\ Len(r) = 1
      BY <1>2, <2>2
    <3> QED BY <1>1, <2>1, <2>2, <3>1
  <2>3. CASE Len(q) # 2
    <3>1. h.do = "lock"
      BY <1>1, <1>2, <2>1, <2>3
    <3>2. Len(r) >= 2 /\ r[Len(r)] = q[Len(q)] /\ r[Len(r) - 1] = q[Len(q) - 1]
      <4>1. /\ Len(r) \in 1 .. Len(r) /\ Len(r) - 1 \in 1 .. Len(r) /\ Len(r) >= 2
            /\ Len(r) + 1 = Len(q) /\ (Len(r) - 1) + 1 = Len(q) - 1
        BY <1>2, <2>1, <2>3
      <4> QED BY <1>2, <4>1
    <3>3. ASSUME NEW i \in 1 .. (Len(r) - 2) PROVE r[i].do = "lock"
      <4>1. i \in 1 .. Len(r) /\ i + 1 \in 1 .. (Len(q) - 2)
        BY <1>2, <3>2
      <4> QED BY <1>2, <2>1, <4>1
    <3> QED BY <2>1, <3>1, <3>2, <3>3 DEF SaysItself
  <2> QED BY <2>2, <2>3
<1> QED BY <1>1, <1>3, <1>4, <1>5, <1>6

LEMMA Planned ==
  ASSUME NEW q, todo' = q, AllNamed(q), IsSeq(posted'),
         \/ OnCourse(st') /\ (OneStop(q) \/ (SaysItself(q) /\ ~st'.broken))
         \/ Parked(st') /\ (q = <<>> \/ (Len(q) = 1 /\ Says(q[1]) /\ ~st'.broken))
         \/ Over(st') /\ q = <<>>
  PROVE  PathSound'
BY DEF PathSound, AllNamed, OneStop, SaysItself, OnCourse, Parked, Over, RaisesOn, IsSeq

LEMMA EmptyPlan == AllNamed(<<>>) /\ OneStop(<<>>)
BY FewFlow, FlowsEnd DEF Closes

(* A step that does not touch the log or the comments shows nothing.       *)
LEMMA Quiet ==
  ASSUME PathSound, UNCHANGED <<lead, st, posted>>, NEW q, todo' = q, AllNamed(q),
         \/ q = todo \/ q = <<>>
         \/ OnCourse(st) /\ (OneStop(q) \/ (SaysItself(q) /\ ~st.broken))
  PROVE  PathSound' /\ UNCHANGED Path!vars
<1>1. UNCHANGED Path!vars
  <2>1. Phase' = Phase
    BY DEF Phase
  <2> QED BY <2>1, NothingShown
<1> PICK f : f = st
  OBVIOUS
<1>2. f = st' /\ IsSeq(posted')
  BY DEF PathSound
<1>3. \/ OnCourse(f) /\ (OneStop(q) \/ (SaysItself(q) /\ ~f.broken))
      \/ Parked(f) /\ (q = <<>> \/ (Len(q) = 1 /\ Says(q[1]) /\ ~f.broken))
      \/ Over(f) /\ q = <<>>
  BY EmptyPlan DEF PathSound
<1>4. PathSound'
  BY <1>2, <1>3, Planned
<1> QED BY <1>1, <1>4

(* A run that does anything but write is on its course.                    *)
LEMMA Busy ==
  ASSUME PathSound, todo # <<>>, Head(todo).do # "write"
  PROVE  OnCourse(st) /\ AllNamed(todo) /\ (OneStop(todo) \/ (SaysItself(todo) /\ ~st.broken))
<1>1. AllNamed(todo) /\ Head(todo) = todo[1]
  BY HeadDone DEF PathSound
<1> QED BY <1>1 DEF PathSound, Says

LEMMA EffectShown ==
  ASSUME PathSound, todo # <<>>, Head(todo).do \notin {"write", "ask", "finish"},
         todo' = Tail(todo), UNCHANGED <<lead, st, posted>>
  PROVE  PathSound' /\ UNCHANGED Path!vars
<1> PICK q : q = todo
  OBVIOUS
<1> PICK r : r = Tail(q)
  OBVIOUS
<1>1. OnCourse(st) /\ AllNamed(q) /\ (OneStop(q) \/ (SaysItself(q) /\ ~st.broken))
  BY Busy
<1>2. AllNamed(r) /\ (OneStop(r) \/ (SaysItself(r) /\ ~st.broken))
  BY <1>1, HeadDone
<1> QED BY <1>1, <1>2, Quiet

(* An effect that goes wrong leaves another list.                          *)
LEMMA OtherwiseShown ==
  ASSUME PathSound, todo # <<>>, Head(todo).do # "write", NEW q, Closes(q), todo' = q,
         UNCHANGED <<lead, st, posted>>
  PROVE  PathSound' /\ UNCHANGED Path!vars
BY Busy, Quiet DEF Closes

-----------------------------------------------------------------------------
(* Each action, as people see it                                           *)

LEMMA PathInit == Init => PathSound /\ Path!Init
<1> SUFFICES ASSUME Init PROVE PathSound /\ Path!Init
  OBVIOUS
<1> DEFINE e == [kind |-> "run_started", budget |-> wf.budget]
<1>1. st = [Zero EXCEPT !.last = "run_started", !.budget = e.budget]
  <2>1. lead[1] = e /\ st = After(Zero, e)
    BY DEF Init
  <2>2. ~Zero.broken /\ Zero.last = None
    BY DEF Zero
  <2> QED BY <2>1, <2>2 DEF After
<1>2. OnCourse(st)
  BY <1>1 DEF OnCourse, RaisesOn, Zero, None
<1>3. PathSound
  BY <1>2, EmptyPlan, Few DEF PathSound, Init
<1>4. Path!Init
  <2>1. lead = <<e>> /\ e.kind = "run_started" /\ DOMAIN lead = {1} /\ lead[1] = e
    BY DEF Init
  <2> HIDE DEF e
  <2>2. KindAt(lead, "run_errored") = {} /\ KindAt(lead, "checkpoint_answered") = {}
    BY <2>1 DEF KindAt
  <2>3. MovesIn(lead) = 1 /\ AnswersIn(lead) = 0
    <3>1. DOMAIN lead \ ({} \union {}) = {1}
      BY <2>1
    <3>2. Cardinality({1}) = 1 /\ Cardinality({}) = 0
      BY FS_Singleton, FS_EmptySet
    <3> QED BY <2>2, <3>1, <3>2 DEF MovesIn, AnswersIn
  <2> QED BY <1>2, <2>3, Read, CountsRead DEF Path!Init, Init
<1> QED BY <1>3, <1>4

(* A move is decided on a run that works, and nothing is in its way.       *)
LEMMA MoveOnCourse ==
  ASSUME PathSound, Moves
  PROVE  OnCourse(st) /\ ~st.broken
<1>1. /\ ~st.broken
      /\ NextMove(st).do \notin {"AwaitingCheckpoint", "Done"}
  BY DEF Moves, StartFirstStep, ReAwaitChild, EndStep, Follow, ActOnChecks, ActOnPush, ActOnWord,
         At, Due
<1>2. st.last \notin {"checkpoint_asked", "run_finished"}
  BY <1>1 DEF NextMove, Move, None
<1> QED BY <1>1, <1>2 DEF PathSound, Parked, Over

LEMMA MovesShown ==
  ASSUME LogSound, PathSound, WorkflowsLoad, Moves
  PROVE  PathSound' /\ UNCHANGED Path!vars
<1>1. OnCourse(st) /\ ~st.broken
  BY MoveOnCourse
<1>2. ASSUME NEW q, Shaped(q), Decide(q) PROVE PathSound' /\ UNCHANGED Path!vars
  <2>1. todo' = q /\ UNCHANGED <<lead, st, posted>>
    BY <1>2 DEF Decide, log, world
  <2> QED BY <1>1, <1>2, <2>1, Quiet DEF Shaped
<1>3. CASE StartFirstStep
  <2>1. wf.first \in Steps
    BY DEF LogSound, WorkflowsLoad, Steps
  <2> QED BY <1>2, <1>3, <2>1, StartStepShaped DEF StartFirstStep
<1>4. CASE ReAwaitChild
  BY <1>2, <1>4, ReAwaitCloses, ClosesShaped DEF ReAwaitChild
<1>5. CASE EndStep
  <2>1. PICK m \in Due("AfterStep"),
             outcome \in {"pass", "fail"} \union (IF "checks" \in Faults THEN {"error"} ELSE {}) :
                Decide(AfterStep(m.step, m.attempt, outcome))
    BY <1>5 DEF EndStep
  <2>2. m.step \in Steps
    BY MoveRead DEF Due
  <2> QED BY <1>2, <2>1, <2>2, AfterStepShaped
<1>6. CASE Follow
  BY <1>2, <1>6, FollowRouteShaped DEF Follow
<1>7. CASE ActOnChecks
  <2>1. PICK m \in Due("ChecksDone") : Decide(ChecksDone(m.step, m.attempt))
    BY <1>7 DEF ActOnChecks
  <2>2. m.step \in Steps
    BY MoveRead DEF Due
  <2> QED BY <1>2, <2>1, <2>2, ChecksDoneShaped
<1>8. CASE ActOnPush
  BY <1>2, <1>8, AfterPushedCloses, ClosesShaped DEF ActOnPush
<1>9. CASE ActOnWord
  BY <1>1, <1>2, <1>9, ActOnAnswerShaped DEF ActOnWord
<1> QED BY <1>3, <1>4, <1>5, <1>6, <1>7, <1>8, <1>9 DEF Moves

LEMMA WriteShown ==
  ASSUME LockInv, PathSound, WriteEvent
  PROVE  PathSound' /\ [Path!Next]_(Path!vars)
<1> PICK q : q = todo
  OBVIOUS
<1> PICK h : h = Head(q)
  OBVIOUS
<1> PICK r : r = Tail(q)
  OBVIOUS
<1> PICK e : e = h.event
  OBVIOUS
<1> PICK f : f = st
  OBVIOUS
<1> PICK g : g = After(f, e)
  OBVIOUS
<1>1. /\ q # <<>> /\ h.do = "write" /\ todo' = r /\ posted' = posted
      /\ lead' = Append(lead, e) /\ st' = g
  BY DEF WriteEvent, Doing, Appends, world
<1>2. /\ EventSound(e) /\ e.kind \notin {"checkpoint_asked", "run_finished"}
      /\ FoldSound(f) /\ IsSeq(lead) /\ IsSeq(posted') /\ AllNamed(q)
  <2>1. EffectSound(h)
    BY <1>1, Rest DEF LockInv, PlanSound
  <2> QED BY <1>1, <2>1 DEF EffectSound, LockInv, LogSound, LeadSound, PathSound
<1>3. AllNamed(r) /\ h = q[1]
  BY <1>1, <1>2, HeadDone
<1>4. CASE OnCourse(f) /\ (OneStop(q) \/ (SaysItself(q) /\ ~f.broken))
  <2>1. OneStop(q)
    BY <1>1, <1>2, <1>4, HeadDone
  <2>2. ~Says(h) /\ OneStop(r)
    BY <1>1, <1>2, <2>1, HeadDone
  <2>3. e.kind # "checkpoint_answered"
    BY <1>1, <2>2 DEF Says
  <2>4. OnCourse(g)
    BY <1>2, <1>4, <2>3, CourseRead
  <2>5. PathSound'
    BY <1>1, <1>2, <1>3, <2>2, <2>4, Planned
  <2>6. Phase = "working" /\ Phase' = "working"
    BY <1>1, <1>4, <2>4, Read
  <2>7. Path!Next \/ UNCHANGED Path!vars
    BY <1>1, <1>2, <2>3, <2>6, Counted, MoveShown, NothingShown
  <2> QED BY <2>5, <2>7
<1>5. CASE Parked(f) /\ (q = <<>> \/ (Len(q) = 1 /\ Says(q[1]) /\ ~f.broken))
  <2>1. ~f.broken /\ e.kind = "checkpoint_answered" /\ r = <<>>
    BY <1>1, <1>2, <1>3, <1>5, HeadDone DEF Says
  <2>2. OnCourse(g)
    BY <1>2, <1>5, <2>1, AnswerRead
  <2>3. PathSound'
    BY <1>1, <1>2, <1>3, <2>1, <2>2, EmptyPlan, Planned
  <2>4. Phase = "asking" /\ Phase' = "working"
    BY <1>1, <1>5, <2>2, Read
  <2>5. Path!Next
    BY <1>1, <1>2, <2>1, <2>4, Counted, AnswerShown
  <2> QED BY <2>3, <2>5
<1>6. CASE Over(f) /\ q = <<>>
  BY <1>1, <1>6
<1> QED BY <1>4, <1>5, <1>6 DEF PathSound

LEMMA StopShown ==
  ASSUME LockInv, PathSound, AskPerson \/ FinishRun
  PROVE  PathSound' /\ [Path!Next]_(Path!vars)
<1> PICK q : q = todo
  OBVIOUS
<1> PICK h : h = Head(q)
  OBVIOUS
<1> PICK r : r = Tail(q)
  OBVIOUS
<1> PICK f : f = st
  OBVIOUS
<1> DEFINE ask == [kind |-> "checkpoint_asked", gate |-> h.gate, options |-> h.options]
           finish == [kind |-> "run_finished", outcome |-> h.outcome]
<1>1. PICK e : /\ \/ h.do = "ask" /\ e.kind = "checkpoint_asked" /\ e.gate = h.gate
                  \/ h.do = "finish" /\ e.kind = "run_finished" /\ e.outcome = h.outcome
               /\ lead' = Append(lead, e) /\ st' = After(f, e)
               /\ q # <<>> /\ todo' = r /\ posted' = posted
  <2>1. ask.kind = "checkpoint_asked" /\ ask.gate = h.gate
        /\ finish.kind = "run_finished" /\ finish.outcome = h.outcome
    OBVIOUS
  <2>2. \/ h.do = "ask" /\ lead' = Append(lead, ask) /\ st' = After(f, ask)
        \/ h.do = "finish" /\ lead' = Append(lead, finish) /\ st' = After(f, finish)
    BY DEF AskPerson, FinishRun, Doing, Appends
  <2>3. q # <<>> /\ todo' = r /\ posted' = posted
    BY DEF AskPerson, FinishRun, Doing, world
  <2> HIDE DEF ask, finish
  <2> QED BY <2>1, <2>2, <2>3
<1> PICK g : g = After(f, e)
  OBVIOUS
<1>2. /\ EventSound(e) /\ FoldSound(f) /\ IsSeq(lead) /\ IsSeq(posted')
      /\ e.kind \notin {"run_errored", "checkpoint_answered"}
  BY <1>1 DEF EventSound, Decisive, LockInv, LogSound, LeadSound, PathSound
<1>3. OnCourse(f) /\ AllNamed(q) /\ (OneStop(q) \/ (SaysItself(q) /\ ~f.broken))
  BY <1>1, Busy
<1>4. /\ AllNamed(r) /\ Named(h) /\ Halts(h)
      /\ \/ r = <<>>
         \/ h.do = "ask" /\ Len(r) = 1 /\ Says(r[1]) /\ ~f.broken
  <2> HIDE DEF ask, finish
  <2>1. Halts(h) /\ h.do # "lock"
    BY <1>1 DEF Halts
  <2>2. /\ AllNamed(r) /\ Named(h)
        /\ OneStop(q) => (Halts(h) => r = <<>>)
        /\ SaysItself(q) => \/ h.do = "lock" /\ SaysItself(r)
                            \/ h.do = "ask" /\ Len(r) = 1 /\ Says(r[1])
    <3>1. q # <<>> /\ AllNamed(q)
      BY <1>1, <1>3
    <3> QED BY <3>1, HeadDone, ZenonT(30)
  <2>3. OneStop(q) => r = <<>>
    BY <2>1, <2>2
  <2>4. SaysItself(q) => h.do = "ask" /\ Len(r) = 1 /\ Says(r[1])
    BY <2>1, <2>2
  <2> QED BY <1>3, <2>1, <2>2, <2>3, <2>4
<1>5. \/ f.broken /\ OnCourse(g)
      \/ ~f.broken /\ h.do = "ask" /\ Parked(g) /\ ~g.broken
      \/ ~f.broken /\ h.do = "finish" /\ Over(g)
  BY <1>1, <1>2, <1>3, <1>4, CourseRead DEF Named
<1>6. PathSound'
  BY <1>1, <1>2, <1>4, <1>5, EmptyPlan, Planned
<1>7. Phase = "working" /\ Phase' \in {"working", "asking", "over"}
  BY <1>1, <1>3, <1>5, Read
<1>8. Path!Next
  BY <1>1, <1>2, <1>7, Counted, MoveShown
<1> QED BY <1>6, <1>8

(* The task ends, and its error is noted; a comment may be out all the     *)
(* same.                                                                   *)
LEMMA NoteShown ==
  ASSUME LockInv, PathSound, Notes \/ UNCHANGED <<lead, st>>, todo' = <<>>,
         \/ posted' = posted
         \/ OnCourse(st) /\ \E tag : tag \notin Range(posted) /\ posted' = Append(posted, tag)
  PROVE  PathSound' /\ [Path!Next]_(Path!vars)
<1> PICK f : f = st
  OBVIOUS
<1> DEFINE e == [kind |-> "run_errored"]
<1>1. FoldSound(f) /\ IsSeq(lead) /\ IsSeq(posted) /\ IsSeq(posted')
  <2>1. FoldSound(f) /\ IsSeq(lead) /\ IsSeq(posted)
    BY DEF LockInv, LogSound, LeadSound, PathSound
  <2>2. CASE posted' = posted
    BY <2>1, <2>2
  <2>3. ASSUME NEW tag, posted' = Append(posted, tag) PROVE IsSeq(posted')
    BY <2>1, <2>3, Added
  <2> QED BY <2>1, <2>2, <2>3
<1>2. PICK g : /\ st' = g /\ MovesIn(lead') = MovesIn(lead) /\ AnswersIn(lead') = AnswersIn(lead)
               /\ g.last = f.last /\ g.outcome = f.outcome /\ g.pending = f.pending
               /\ g.atBudget = f.atBudget /\ g.atStep = f.atStep
  <2>1. CASE UNCHANGED <<lead, st>>
    BY <2>1
  <2>2. CASE Notes /\ ~UNCHANGED <<lead, st>>
    <3>1. ~f.broken /\ lead' = Append(lead, e) /\ st' = After(f, e) /\ e.kind = "run_errored"
      BY <2>2 DEF Notes, Appends, log
    <3> HIDE DEF e
    <3>2. PICK d : d = lead'
      OBVIOUS
    <3>3. MovesIn(d) = MovesIn(lead) /\ AnswersIn(d) = AnswersIn(lead)
      BY <1>1, <3>1, <3>2, Counted
    <3>4. PICK g : g = After(f, e)
      OBVIOUS
    <3>5. /\ g.last = f.last /\ g.outcome = f.outcome /\ g.pending = f.pending
          /\ g.atBudget = f.atBudget /\ g.atStep = f.atStep
      BY <1>1, <3>1, <3>4, NoteRead
    <3> QED BY <3>1, <3>2, <3>3, <3>4, <3>5
  <2> QED BY <2>1, <2>2
<1>3. /\ OnCourse(f) => OnCourse(g)
      /\ Parked(f) => Parked(g)
      /\ Over(f) => Over(g)
  BY <1>2 DEF OnCourse, Parked, Over, RaisesOn
<1>4. OnCourse(f) \/ Parked(f) \/ Over(f)
  BY DEF PathSound
<1>5. PathSound'
  BY <1>1, <1>2, <1>3, <1>4, EmptyPlan, Planned
<1>6. Phase' = Phase /\ (OnCourse(f) => Phase = "working")
  BY <1>2, <1>3, <1>4, Read
<1>7. CASE posted' = posted
  BY <1>2, <1>5, <1>6, <1>7, NothingShown
<1>8. CASE OnCourse(f) /\ \E tag : tag \notin Range(posted) /\ posted' = Append(posted, tag)
  BY <1>1, <1>2, <1>5, <1>6, <1>8, PostShown
<1> QED BY <1>7, <1>8

LEMMA GivenUpShown ==
  ASSUME LockInv, PathSound,
         FailMove \/ CallFails \/ StopUnreadable \/ LeaveFinished \/ Crash \/ ChildDies
  PROVE  PathSound' /\ [Path!Next]_(Path!vars)
<1>1. todo' = <<>> /\ (Notes \/ UNCHANGED <<lead, st>>)
  BY DEF FailMove, CallFails, StopUnreadable, LeaveFinished, Crash, ChildDies, Ends, log
<1>2. CASE CallFails
  <2>1. todo # <<>> /\ Head(todo).do # "write"
    BY <1>2 DEF CallFails
  <2>2. posted' = posted \/ \E tag : tag \notin Range(posted) /\ posted' = Append(posted, tag)
    BY <1>2 DEF CallFails
  <2> QED BY <1>1, <2>1, <2>2, Busy, NoteShown
<1>3. CASE ~CallFails
  <2>1. posted' = posted
    BY <1>3 DEF FailMove, StopUnreadable, LeaveFinished, Crash, ChildDies, world
  <2> QED BY <1>1, <2>1, NoteShown
<1> QED BY <1>2, <1>3

LEMMA CommentShown ==
  ASSUME LockInv, PathSound, PostComment
  PROVE  PathSound' /\ [Path!Next]_(Path!vars)
<1> PICK q : q = todo
  OBVIOUS
<1> PICK r : r = Tail(q)
  OBVIOUS
<1>1. q # <<>> /\ Head(q).do = "comment" /\ todo' = r /\ UNCHANGED <<lead, st>>
  BY DEF PostComment, Doing, log
<1>2. CASE posted' = posted
  BY <1>1, <1>2, EffectShown
<1>3. CASE posted' # posted
  <2>1. PICK tag : tag \notin Range(posted) /\ posted' = Append(posted, tag)
    BY <1>3 DEF PostComment
  <2>2. OnCourse(st) /\ AllNamed(q) /\ (OneStop(q) \/ (SaysItself(q) /\ ~st.broken))
    BY <1>1, Busy
  <2>3. AllNamed(r) /\ OneStop(r)
    BY <1>1, <2>2, HeadDone
  <2>4. IsSeq(posted) /\ IsSeq(posted')
    BY <2>1, Added DEF PathSound
  <2> PICK g : g = st
    OBVIOUS
  <2>5. PathSound'
    BY <1>1, <2>2, <2>3, <2>4, Planned
  <2>6. Phase = "working" /\ Phase' = "working"
    BY <1>1, <2>2, Read DEF Phase
  <2> QED BY <1>1, <2>1, <2>4, <2>5, <2>6, PostShown
<1> QED BY <1>2, <1>3

LEMMA AnswerActionShown ==
  ASSUME LockInv, PathSound, Answer
  PROVE  PathSound' /\ [Path!Next]_(Path!vars)
<1>1. PICK word, usd : Appends(AnsweredEvent(word, usd))
  BY DEF Answer
<1> PICK e : e = AnsweredEvent(word, usd)
  OBVIOUS
<1> PICK f : f = st
  OBVIOUS
<1> PICK g : g = After(f, e)
  OBVIOUS
<1>2. /\ todo = <<>> /\ todo' = <<>> /\ posted' = posted /\ e.kind = "checkpoint_answered"
      /\ lead' = Append(lead, e) /\ st' = g
  BY <1>1 DEF Answer, At, Due, Idle, world, Appends, AnsweredEvent
<1>3. ~f.broken /\ NextMove(f).do = "AwaitingCheckpoint"
  BY DEF Answer, At, Due
<1>4. FoldSound(f) /\ IsSeq(lead) /\ IsSeq(posted')
  BY <1>2 DEF LockInv, LogSound, LeadSound, PathSound
<1>5. f.last = "checkpoint_asked"
  BY <1>3, <1>4 DEF NextMove, Move, FoldSound, Decisive, None
<1>6. Parked(f)
  BY <1>5 DEF PathSound, OnCourse, Over
<1>7. OnCourse(g)
  BY <1>2, <1>3, <1>4, <1>6, AnswerRead
<1>8. PathSound'
  BY <1>2, <1>4, <1>7, EmptyPlan, Planned
<1>9. Phase = "asking" /\ Phase' = "working"
  BY <1>2, <1>6, <1>7, Read
<1>10. Path!Next
  BY <1>2, <1>4, <1>9, Counted, AnswerShown
<1> QED BY <1>8, <1>10

LEMMA EscalatesEnd == \A gate : gate # None => Closes(<<Escalate(gate)>>)
BY FewFlow, NamedEffects

LEMMA CallsShown ==
  ASSUME LockInv, PathSound,
         \/ TakeWriteLock \/ CreateChild \/ PostPrompt \/ ResumeChild \/ ApplyEnd
         \/ InstallBinary \/ WaitForCi \/ CloseIssue \/ RenderFails
  PROVE  PathSound' /\ UNCHANGED Path!vars
<1>1. UNCHANGED <<lead, st, posted>> /\ todo # <<>>
  BY DEF TakeWriteLock, CreateChild, PostPrompt, ResumeChild, ApplyEnd, InstallBinary,
         WaitForCi, CloseIssue, RenderFails, Doing, log, world
<1>2. CASE TakeWriteLock
  <2>1. Closes(<<Escalate("write_lock")>>)
    BY EscalatesEnd DEF None
  <2>2. todo' = Tail(todo) \/ todo' = <<Escalate("write_lock")>>
    BY <1>2 DEF TakeWriteLock
  <2>3. Head(todo).do = "lock"
    BY <1>2 DEF TakeWriteLock, Doing
  <2> QED BY <1>1, <2>1, <2>2, <2>3, EffectShown, OtherwiseShown
<1>3. CASE CreateChild \/ PostPrompt \/ CloseIssue
  <2>1. todo' = Tail(todo) /\ Head(todo).do \in {"create", "prompt", "close", "approve"}
    BY <1>3 DEF CreateChild, PostPrompt, CloseIssue, Doing
  <2> QED BY <1>1, <2>1, EffectShown
<1>4. CASE ResumeChild
  <2>1. Head(todo).do = "resume" /\ (todo' = Tail(todo) \/ \E room : todo' = ParkSpent(room))
    BY <1>4 DEF ResumeChild, Doing
  <2> QED BY <1>1, <2>1, EffectShown, OtherwiseShown, ParksEnd
<1>5. CASE ApplyEnd
  <2>1. /\ Head(todo).do = "apply"
        /\ todo' = EndOf(Head(todo).step, Head(todo).attempt, Head(todo).child)
    BY <1>5 DEF ApplyEnd, Doing
  <2> QED BY <1>1, <2>1, EndOfCloses, OtherwiseShown
<1>6. CASE InstallBinary
  <2>1. /\ Head(todo).do = "install"
        /\ todo' = Tail(todo) \/ todo' = <<Escalate("install_mismatch")>>
    BY <1>6 DEF InstallBinary, Doing
  <2>2. Closes(<<Escalate("install_mismatch")>>)
    BY EscalatesEnd DEF None
  <2> QED BY <1>1, <2>1, <2>2, EffectShown, OtherwiseShown
<1>7. CASE WaitForCi
  <2>1. /\ Head(todo).do = "ci"
        /\ \/ todo' = Tail(todo)
           \/ \E gate \in {"ci_failed", "ci_missing", "ci_timeout"} : todo' = <<Escalate(gate)>>
    BY <1>7 DEF WaitForCi, Doing
  <2>2. \A gate \in {"ci_failed", "ci_missing", "ci_timeout"} : Closes(<<Escalate(gate)>>)
    BY EscalatesEnd DEF None
  <2> QED BY <1>1, <2>1, <2>2, EffectShown, OtherwiseShown
<1>8. CASE RenderFails
  <2>1. /\ todo' = <<Escalate("render_failed")>>
        /\ st.last \in {"run_started", "route_taken"}
    BY <1>8 DEF RenderFails
  <2>2. Closes(<<Escalate("render_failed")>>)
    BY EscalatesEnd DEF None
  <2>3. OnCourse(st)
    BY <1>1, <2>1 DEF PathSound, Parked, Over
  <2> QED BY <1>1, <2>1, <2>2, <2>3, Quiet DEF Closes
<1> QED BY <1>2, <1>3, <1>4, <1>5, <1>6, <1>7, <1>8

LEMMA PushShown ==
  ASSUME LockInv, PathSound, WeighPush \/ PushBranch
  PROVE  PathSound' /\ UNCHANGED Path!vars
<1> PICK q : q = todo
  OBVIOUS
<1> PICK h : h = Head(q)
  OBVIOUS
<1> PICK r : r = Tail(q)
  OBVIOUS
<1>1. UNCHANGED <<lead, st, posted>> /\ q # <<>> /\ h.do \in {"weigh", "push"}
  BY DEF WeighPush, PushBranch, Doing, log, world
<1>2. \A gate \in {"remote_moved", "push_error"} : Closes(<<Escalate(gate)>>)
  BY EscalatesEnd DEF None
<1>3. PICK p : p = [h EXCEPT !.do = "push"]
  OBVIOUS
<1>4. CASE todo' = r
  BY <1>1, <1>4, EffectShown
<1>5. CASE \E gate \in {"remote_moved", "push_error"} : todo' = <<Escalate(gate)>>
  BY <1>1, <1>2, <1>5, OtherwiseShown
<1>6. CASE h.do = "weigh" /\ todo' = <<p>> \o r
  <2>1. OnCourse(st) /\ AllNamed(q) /\ (OneStop(q) \/ (SaysItself(q) /\ ~st.broken))
    BY <1>1, Busy
  <2>2. Closes(r)
    BY <1>1, <2>1, HeadDone DEF Closes
  <2>3. h = Do("weigh", h.step, h.attempt, h.child)
    <3>1. EffectSound(h)
      BY <1>1, Rest DEF LockInv, PlanSound
    <3> QED BY <1>6, <3>1 DEF EffectSound
  <2>4. p.do = "push"
    BY <1>3, <2>3 DEF Do
  <2>5. Flows(<<p>>)
    <3>1. Named(p) /\ ~Says(p) /\ ~Halts(p)
      BY <2>4 DEF Named, Says, Halts
    <3> QED BY <3>1, FewFlow
  <2>6. Closes(<<p>> \o r)
    BY <2>2, <2>5, FlowsToEnd
  <2> QED BY <1>1, <1>6, <2>6, OtherwiseShown
<1>7. \/ todo' = r
      \/ \E gate \in {"remote_moved", "push_error"} : todo' = <<Escalate(gate)>>
      \/ h.do = "weigh" /\ todo' = <<p>> \o r
  BY <1>3 DEF WeighPush, PushBranch, Doing
<1> QED BY <1>4, <1>5, <1>6, <1>7

LEMMA BesideShown ==
  ASSUME PathSound, Turns \/ Start \/ RivalLocks \/ RemoteMoves \/ UNCHANGED vars
  PROVE  PathSound' /\ UNCHANGED Path!vars
<1>1. UNCHANGED <<lead, st, posted, todo>>
  BY DEF Turns, ChildCalls, ChildReports, ChildEnds, Start, RivalLocks, RemoteMoves, log, world, vars
<1>2. AllNamed(todo)
  BY DEF PathSound
<1> PICK q : q = todo
  OBVIOUS
<1> QED BY <1>1, <1>2, Quiet

LEMMA StepShown ==
  ASSUME WorkflowsLoad, LockInv, PathSound, [Next]_vars
  PROVE  PathSound' /\ [Path!Next]_(Path!vars)
<1>1. CASE Moves
  BY <1>1, MovesShown DEF LockInv
<1>2. CASE Effects
  BY <1>2, WriteShown, StopShown, GivenUpShown, CallsShown, CommentShown, PushShown DEF Effects
<1>3. CASE Turns \/ Start \/ UNCHANGED vars
  BY <1>3, BesideShown
<1>4. CASE Stops
  BY <1>4, GivenUpShown DEF Stops
<1>5. CASE Environment
  BY <1>5, CallsShown, GivenUpShown, AnswerActionShown, BesideShown DEF Environment
<1> QED BY <1>1, <1>2, <1>3, <1>4, <1>5 DEF Next

(* Whatever is retried, raised or picked up again, and wherever the daemon *)
(* dies, a run shows people a working run that asks, waits for an answer,  *)
(* writes nothing past its ask or its end, and posts each comment once.    *)
THEOREM ImplementsPathAlways ==
  ASSUME WorkflowsLoad PROVE Spec => ImplementsPath
<1>1. Init => PathSound /\ Path!Init
  BY PathInit
<1>2. LockInv /\ PathSound /\ [Next]_vars => PathSound' /\ [Path!Next]_(Path!vars)
  BY StepShown
<1> QED BY <1>1, <1>2, LockInvAlways, PTL DEF Spec, ImplementsPath, Path!Spec
-----------------------------------------------------------------------------
(* What is pushed was checked                                              *)

(* Lists without a claim, and lists that record nothing.                   *)
Claimless(q) == IsSeq(q) /\ \A e \in Range(q) : ~Claims(e)
Silent(q) == IsSeq(q) /\ \A e \in Range(q) : ~Records(e)

LEMMA FewClaimless ==
  /\ Silent(<<>>) /\ Claimless(<<>>)
  /\ \A a : ~Claims(a) => Claimless(<<a>>)
  /\ \A a, b : ~Claims(a) /\ ~Claims(b) => Claimless(<<a, b>>)
  /\ \A a : ~Records(a) => Silent(<<a>>)
<1>1. Silent(<<>>) /\ Claimless(<<>>)
  BY Few DEF Claimless, Silent
<1>2. ASSUME NEW a PROVE (~Claims(a) => Claimless(<<a>>)) /\ (~Records(a) => Silent(<<a>>))
  <2>1. IsSeq(<<a>>) /\ Range(<<a>>) = {a}
    BY Few
  <2> QED BY <2>1 DEF Claimless, Silent
<1>3. ASSUME NEW a, NEW b, ~Claims(a), ~Claims(b) PROVE Claimless(<<a, b>>)
  <2>1. IsSeq(<<a, b>>) /\ Range(<<a, b>>) = {a, b}
    BY Few
  <2> QED BY <1>3, <2>1 DEF Claimless
<1> QED BY <1>1, <1>2, <1>3

LEMMA ClaimlessJoined ==
  ASSUME NEW p, NEW q
  PROVE  /\ Claimless(p) /\ Claimless(q) => Claimless(p \o q)
         /\ Silent(p) /\ Silent(q) => Silent(p \o q)
         /\ Silent(p) => Claimless(p)
<1>1. IsSeq(p) /\ IsSeq(q) => IsSeq(p \o q) /\ Range(p \o q) \subseteq Range(p) \union Range(q)
  BY Joined
<1> QED BY <1>1 DEF Claimless, Silent, Claims, Records

LEMMA ClaimlessEffects ==
  /\ \A gate, options : ~Claims(Ask(gate, options))
  /\ \A gate : ~Claims(Escalate(gate))
  /\ \A outcome : ~Claims(Finish(outcome))
  /\ \A tag : ~Records(Comment(tag)) /\ ~Claims(Comment(tag))
  /\ ~Claims(Fail)
  /\ \A event : event.kind \notin {"checks_run", "pushed", "budget_raised"} => ~Claims(Write(event))
  /\ \A what, s, n, c : what \notin {"ask", "finish", "write"} =>
       ~Records(Do(what, s, n, c)) /\ ~Claims(Do(what, s, n, c))
BY DEF Claims, Records, Ask, Escalate, Finish, Comment, Fail, Write, Do

LEMMA LockForSilent == \A s : Silent(LockFor(s)) /\ Claimless(LockFor(s))
BY FewClaimless, ClaimlessJoined, ClaimlessEffects DEF LockFor

LEMMA ClaimlessBacked ==
  ASSUME NEW f, NEW q, NEW t, Claimless(t)
  PROVE  PlanBacked(f, q, t)
<1>1. \A i \in 1 .. Len(t) : t[i] \in Range(t)
  BY Places DEF Claimless
<1> QED BY <1>1 DEF Claimless, PlanBacked

(* A list that records nothing may come before any.                        *)
LEMMA SilentBefore ==
  ASSUME NEW f, NEW q, NEW p, NEW t, Silent(p), IsSeq(t), PlanBacked(f, q, t)
  PROVE  PlanBacked(f, q, p \o t)
<1> DEFINE r == p \o t
<1>1. /\ Len(r) = Len(p) + Len(t) /\ Len(p) \in Nat /\ Len(t) \in Nat
      /\ \A i \in 1 .. Len(p) : r[i] = p[i]
      /\ \A i \in 1 .. Len(t) : r[Len(p) + i] = t[i]
  BY JoinedPlaces DEF Silent
<1>2. \A i \in 1 .. Len(p) : ~Records(p[i]) /\ ~Claims(p[i])
  BY Places DEF Silent, Claims, Records
<1> HIDE DEF r
<1>3. ASSUME NEW i \in 1 .. Len(r), Claims(r[i])
      PROVE  Justified(f, q, r[i].event) /\ \A k \in 1 .. (i - 1) : ~Records(r[k])
  <2>1. i \notin 1 .. Len(p)
    BY <1>1, <1>2, <1>3
  <2>2. i - Len(p) \in 1 .. Len(t) /\ i = Len(p) + (i - Len(p))
    BY <1>1, <2>1
  <2>3. r[i] = t[i - Len(p)]
    BY <1>1, <2>2
  <2>4. /\ Justified(f, q, t[i - Len(p)].event)
        /\ \A k \in 1 .. ((i - Len(p)) - 1) : ~Records(t[k])
    BY <1>3, <2>2, <2>3, Zenon DEF PlanBacked
  <2>5. ASSUME NEW k \in 1 .. (i - 1) PROVE ~Records(r[k])
    <3>1. CASE k \in 1 .. Len(p)
      BY <1>1, <1>2, <3>1
    <3>2. CASE k \notin 1 .. Len(p)
      <4>1. k - Len(p) \in 1 .. ((i - Len(p)) - 1) /\ k - Len(p) \in 1 .. Len(t)
            /\ k = Len(p) + (k - Len(p))
        BY <1>1, <3>2
      <4>2. r[k] = t[k - Len(p)]
        BY <1>1, <4>1
      <4> QED BY <2>4, <4>1, <4>2
    <3> QED BY <3>1, <3>2
  <2> QED BY <2>3, <2>4, <2>5
<1> QED BY <1>3 DEF PlanBacked, r

LEMMA ClaimBacked ==
  ASSUME NEW f, NEW q, NEW e, Justified(f, q, e)
  PROVE  PlanBacked(f, q, <<Write(e)>>) /\ IsSeq(<<Write(e)>>)
<1> DEFINE w == Write(e)
<1>1. w.event = e
  BY DEF Write
<1> HIDE DEF w
<1>2. IsSeq(<<w>>) /\ Len(<<w>>) = 1 /\ <<w>>[1] = w
  BY Few
<1>3. \A i \in 1 .. Len(<<w>>) : i = 1 /\ 1 .. (i - 1) = {}
  BY <1>2
<1>4. PlanBacked(f, q, <<w>>)
  BY <1>1, <1>2, <1>3 DEF PlanBacked
<1> QED BY <1>2, <1>4 DEF w

(* What is left when the head is done is backed too.                       *)
LEMMA RestBacked ==
  ASSUME NEW f, NEW q, NEW t, IsSeq(t), t # <<>>, PlanBacked(f, q, t)
  PROVE  /\ PlanBacked(f, q, Tail(t))
         /\ Records(Head(t)) => Claimless(Tail(t))
         /\ Claims(Head(t)) => Justified(f, q, Head(t).event)
<1> DEFINE r == Tail(t)
<1>1. Head(t) = t[1] /\ IsSeq(r)
  BY Rest
<1>2. /\ Len(t) \in Nat /\ Len(t) >= 1 /\ Len(r) = Len(t) - 1
      /\ \A i \in 1 .. Len(r) : r[i] = t[i + 1]
  <2>1. t \in Seq(Range(t))
    BY DEF IsSeq
  <2> QED BY <2>1
<1> HIDE DEF r
<1>3. ASSUME NEW i \in 1 .. Len(r), Claims(r[i])
      PROVE  /\ Justified(f, q, r[i].event) /\ ~Records(t[1])
             /\ \A k \in 1 .. (i - 1) : ~Records(r[k])
  <2>1. i + 1 \in 1 .. Len(t) /\ r[i] = t[i + 1]
    BY <1>2
  <2>2. Justified(f, q, r[i].event) /\ \A k \in 1 .. ((i + 1) - 1) : ~Records(t[k])
    BY <1>3, <2>1, Zenon DEF PlanBacked
  <2>3. ASSUME NEW k \in 1 .. (i - 1) PROVE ~Records(r[k])
    <3>1. k + 1 \in 1 .. ((i + 1) - 1) /\ k \in 1 .. Len(r)
      BY <1>2
    <3> QED BY <1>2, <2>2, <3>1
  <2>4. 1 \in 1 .. ((i + 1) - 1)
    BY <1>2
  <2> QED BY <2>2, <2>3, <2>4
<1>4. PlanBacked(f, q, r)
  BY <1>3 DEF PlanBacked
<1>5. Records(t[1]) => Claimless(r)
  <2> HAVE Records(t[1])
  <2>1. \A i \in 1 .. Len(r) : ~Claims(r[i])
    BY <1>3
  <2>2. \A e \in Range(r) : \E i \in 1 .. Len(r) : r[i] = e
    BY <1>1, Places
  <2> QED BY <1>1, <2>1, <2>2 DEF Claimless
<1>6. Claims(t[1]) => Justified(f, q, t[1].event)
  <2>1. 1 \in 1 .. Len(t)
    BY <1>2
  <2> QED BY <2>1, Zenon DEF PlanBacked
<1> QED BY <1>1, <1>4, <1>5, <1>6 DEF r

-----------------------------------------------------------------------------
(* What each move plans                                                    *)

LEMMA ParksClaimless ==
  Claimless(ParkAtBudget) /\ Claimless(ParkAtStepStop) /\ \A room : Claimless(ParkSpent(room))
BY FewClaimless, ClaimlessEffects DEF ParkAtBudget, ParkAtStepStop, ParkSpent

LEMMA StartStepClaimless ==
  ASSUME NEW s, NEW n, NEW c
  PROVE  Claimless(StartStep(s, n, c))
<1> DEFINE child == IF c = 0 THEN NewChild ELSE c
           started == <<Write(StartedEvent(s, n, child))>>
           created == IF c = 0 THEN <<Do("create", s, n, child)>> ELSE <<>>
           ask == <<Ask(s, {"go", "amend", "stop"})>>
           said == IF AnswersItself(s) THEN <<Write(AnsweredEvent("go", 0))>> ELSE <<>>
<1>1. Claimless(started) /\ Claimless(created) /\ Claimless(ask) /\ Claimless(said)
  BY FewClaimless, ClaimlessEffects DEF StartedEvent, AnsweredEvent
<1>2. Claimless(LockFor(s) \o started \o created) /\ Claimless(ask \o said)
  BY <1>1, LockForSilent, ClaimlessJoined
<1> HIDE DEF started, created, ask, said
<1>3. StartStep(s, n, c) \in
        {ParkAtBudget, ParkAtStepStop, LockFor(s) \o started \o created, ask \o said}
  BY DEF StartStep, started, created, ask, said
<1> QED BY <1>2, <1>3, ParksClaimless

LEMMA FollowNextClaimless == \A s : Claimless(FollowNext(s))
BY FewClaimless, ClaimlessEffects DEF FollowNext, Route

LEMMA ReAwaitClaimless ==
  ASSUME NEW s, NEW n, NEW c
  PROVE  Claimless(ReAwait(s, n, c))
<1> DEFINE resume == <<Do("resume", s, n, c)>>
           apply == <<Do("apply", s, n, c)>>
           both == <<Do("create", s, n, c), Do("prompt", s, n, c)>>
           rest == (IF PromptDue(s, n, c)
                    THEN both ELSE IF AttemptReported(c, n) THEN <<>> ELSE resume)
<1>1. Claimless(<<>>) /\ Claimless(both) /\ Claimless(resume) /\ Claimless(apply)
  BY FewClaimless, ClaimlessEffects
<1>2. Claimless(rest)
  BY <1>1
<1> HIDE DEF resume, apply, both, rest
<1>3. Claimless(LockFor(s) \o rest \o apply)
  BY <1>1, <1>2, LockForSilent, ClaimlessJoined
<1>4. ReAwait(s, n, c) \in {ParkAtBudget, ParkAtStepStop, LockFor(s) \o rest \o apply}
  BY DEF ReAwait, ParkSpent, rest, both, resume, apply
<1> QED BY <1>3, <1>4, ParksClaimless

LEMMA TakeRouteClaimless ==
  ASSUME NEW s, NEW report
  PROVE  Claimless(TakeRoute(s, report))
<1> DEFINE over == wf.ceiling > 0 /\ report.usd > wf.ceiling
           route == <<Write(Route(report.word, wf.steps[s].routes[report.word],
                                  IF over THEN st.budget ELSE report.usd))>>
           park == IF over THEN ParkAtBudget ELSE <<>>
<1>1. Claimless(route) /\ Claimless(park) /\ Claimless(<<Escalate("route_escalate")>>)
  BY FewClaimless, ClaimlessEffects, ParksClaimless DEF Route
<1>2. Claimless(route \o park)
  BY <1>1, ClaimlessJoined
<1> QED BY <1>1, <1>2 DEF TakeRoute

LEMMA AfterPushedClaimless ==
  ASSUME NEW s
  PROVE  Claimless(AfterPushed(s))
<1> DEFINE ci == IF wf.steps[s].ci THEN <<Do("ci", s, 0, 0)>> ELSE <<>>
           say == <<Comment(<<"close", 0>>)>>
           shut == <<Do("close", s, 0, 0)>>
           finish == <<Finish("closed")>>
           close == <<Comment(<<"close", 0>>), Do("close", s, 0, 0), Finish("closed")>>
           rest == IF wf.steps[s].next = "done" THEN close ELSE FollowNext(s)
<1>1. Claimless(ci) /\ Claimless(say) /\ Claimless(shut) /\ Claimless(finish)
  BY FewClaimless, ClaimlessEffects
<1>2. close = (say \o shut) \o finish
  <2>1. say \o shut = <<Comment(<<"close", 0>>), Do("close", s, 0, 0)>>
    BY PairJoined
  <2> QED BY <2>1
<1> HIDE DEF say, shut, finish, close
<1>3. Claimless(rest)
  BY <1>1, <1>2, ClaimlessJoined, FollowNextClaimless
<1> HIDE DEF ci, rest
<1>4. Claimless((LockFor(s) \o ci) \o rest)
  BY <1>1, <1>3, LockForSilent, ClaimlessJoined
<1> QED BY <1>4 DEF AfterPushed, ci, rest, close

LEMMA FollowRouteClaimless == Claimless(FollowRoute)
<1> DEFINE approve == IF st.route.proposed = "approve" THEN <<Do("approve", None, 0, 0)>> ELSE <<>>
           finish == <<Finish("closed")>>
<1>1. /\ Claimless(<<Escalate("route")>>) /\ Claimless(<<Escalate("route_escalate")>>)
      /\ Claimless(approve) /\ Claimless(finish)
  BY FewClaimless, ClaimlessEffects
<1>2. Claimless(approve \o finish)
  BY <1>1, ClaimlessJoined
<1> HIDE DEF approve, finish
<1> QED BY <1>1, <1>2, StartStepClaimless DEF FollowRoute, approve, finish

LEMMA EndOfClaimless ==
  ASSUME NEW s, NEW n, NEW c
  PROVE  Claimless(EndOf(s, n, c))
<1> DEFINE finished(as, why, r) ==
             Write([kind |-> "step_finished", step |-> s, status |-> as,
                    reason |-> why, cost |-> SpentSince(c, n), report |-> r])
           ask(options) == Ask(StepStop, options)
<1>1. \A as, why, r : ~Claims(finished(as, why, r))
  BY ClaimlessEffects
<1>2. \A options : ~Claims(ask(options))
  BY ClaimlessEffects
<1> HIDE DEF finished, ask
<1>3. /\ \A as, why, r : Claimless(<<finished(as, why, r)>>)
      /\ \A as, why, r, options : Claimless(<<finished(as, why, r), ask(options)>>)
  BY <1>1, <1>2, FewClaimless
<1>4. Claimless(<<Fail>>)
  BY FewClaimless, ClaimlessEffects
<1>5. \/ EndOf(s, n, c) = <<Fail>>
      \/ \E as, why, r : EndOf(s, n, c) = <<finished(as, why, r)>>
      \/ \E why, options : EndOf(s, n, c) = <<finished("failed", why, 0), ask(options)>>
  <2> DEFINE report == LastSince(c, n, "report")
             status == Child(c)[report].status
             reason == Child(c)[LastSince(c, n, "end")].reason
             options == IF reason = "fault" THEN {"retry", "stop"} ELSE {"stop"}
  <2>1. \/ EndOf(s, n, c) = <<finished("partial", "empty report", 0)>>
        \/ EndOf(s, n, c) = <<finished(status, "reported", report)>>
        \/ EndOf(s, n, c) = <<Fail>>
        \/ EndOf(s, n, c) = <<finished("partial", reason, 0)>>
        \/ EndOf(s, n, c) = <<finished("failed", reason, 0), ask(options)>>
    BY DEF EndOf, finished, ask
  <2> QED BY <2>1
<1> QED BY <1>3, <1>4, <1>5

(* A push is planned on what its claim needs.                              *)
LEMMA PushBackedPlan ==
  ASSUME NEW s, NEW n, wf.steps[s].checks => Closed(lead, s) /\ CameOut(lead, s, "pass")
  PROVE  PlanBacked(st, lead, PushAndInstall(s, n)) /\ IsSeq(PushAndInstall(s, n))
<1> DEFINE weigh == <<Do("weigh", s, n, 0)>>
           install == IF wf.steps[s].install THEN <<Do("install", s, n, 0)>> ELSE <<>>
           e == [kind |-> "pushed", step |-> s, after |-> head]
           pushed == <<Write(e)>>
<1>1. Silent(weigh) /\ Silent(install)
  BY FewClaimless, ClaimlessEffects
<1>2. Silent(weigh \o install)
  BY <1>1, ClaimlessJoined
<1>3. Justified(st, lead, e)
  BY DEF Justified
<1> HIDE DEF weigh, install, e
<1>4. PlanBacked(st, lead, pushed) /\ IsSeq(pushed)
  BY <1>3, ClaimBacked
<1> HIDE DEF pushed
<1>5. PlanBacked(st, lead, (weigh \o install) \o pushed)
  BY <1>2, <1>4, SilentBefore
<1>6. IsSeq((weigh \o install) \o pushed)
  BY <1>2, <1>4, Joined DEF Silent
<1> QED BY <1>5, <1>6 DEF PushAndInstall, weigh, install, pushed, e

-----------------------------------------------------------------------------
(* One more event                                                          *)

LEMMA MaxIs ==
  ASSUME NEW S \in SUBSET Nat, NEW k \in S, \A y \in S : y <= k
  PROVE  Max(S) = k
<1>1. \A x \in S : (\A y \in S : x >= y) => x = k
  OBVIOUS
<1>2. \A y \in S : k >= y
  OBVIOUS
<1>3. \E x \in S : \A y \in S : x >= y
  BY <1>2
<1>4. Max(S) \in S /\ \A y \in S : Max(S) >= y
  BY <1>3 DEF Max
<1> QED BY <1>1, <1>4

(* The last record is the newest of its step.                              *)
LEMMA LastIsNewest ==
  ASSUME NEW f, IsSeq(f.steps), f.steps # <<>>
  PROVE  /\ Len(f.steps) \in DOMAIN f.steps /\ Len(f.steps) \in Nat \ {0}
         /\ Last(f.steps) = f.steps[Len(f.steps)] /\ Last(f.steps) \in Range(f.steps)
         /\ Newest(f, Last(f.steps).step) = Len(f.steps)
<1> DEFINE n == Len(f.steps)
           A == {0} \union {i \in DOMAIN f.steps : f.steps[i].step = Last(f.steps).step}
<1>1. n \in Nat /\ n # 0 /\ DOMAIN f.steps = 1 .. n /\ Last(f.steps) = f.steps[n]
  BY Places DEF IsSeq, Last
<1>2. f.steps[n] \in Range(f.steps)
  BY <1>1, Places
<1>3. A \in SUBSET Nat /\ n \in A /\ \A y \in A : y <= n
  BY <1>1
<1>4. Max(A) = n
  BY <1>3, MaxIs
<1> QED BY <1>1, <1>2, <1>4 DEF Newest

(* A record that changes leaves the last one as it was, unless it is that. *)
LEMMA LastEdited ==
  ASSUME NEW q, IsSeq(q), q # <<>>, NEW i \in DOMAIN q, NEW r
  PROVE  LET p == [q EXCEPT ![i] = r]
         IN  p # <<>> /\ Last(p) = IF i = Len(q) THEN r ELSE Last(q)
<1> DEFINE p == [q EXCEPT ![i] = r]
           n == Len(q)
<1>1. n \in Nat /\ n # 0 /\ DOMAIN q = 1 .. n
  BY Places DEF IsSeq
<1>2. DOMAIN p = 1 .. n /\ p[n] = IF i = n THEN r ELSE q[n]
  BY <1>1
<1>3. p \in Seq(Range(q) \union {r})
  <2>1. q \in Seq(Range(q) \union {r})
    BY SeqDef DEF IsSeq
  <2> QED BY <2>1
<1> HIDE DEF p
<1>4. Len(p) = n /\ p # <<>>
  BY <1>1, <1>2, <1>3
<1> QED BY <1>2, <1>4 DEF Last, p

(* The fold keeps its newest record's step, status and checks.             *)
SameLast(f, g) ==
    f.steps # <<>> =>
      /\ g.steps # <<>> /\ Last(g.steps).step = Last(f.steps).step
      /\ Last(g.steps).status = Last(f.steps).status
      /\ Last(g.steps).checks = Last(f.steps).checks
LEMMA FinishRefused ==
  ASSUME NEW f, NEW e, ~(OpenStep(f) /\ Last(f.steps).step = e.step)
  PROVE  Finished(f, e) = Broken(f)
BY DEF Finished

LEMMA FinishRead ==
  ASSUME NEW f, NEW e, FoldSound(f), OpenStep(f), Last(f.steps).step = e.step
  PROVE  LET g == Finished(f, e)
         IN  /\ g.last = e.kind /\ g.pending = f.pending
             /\ g.steps # <<>> /\ Last(g.steps).step = e.step /\ Last(g.steps).status = e.status
<1> DEFINE n == Len(f.steps)
           r == [f.steps[n] EXCEPT !.status = e.status, !.reason = e.reason,
                                   !.cost = e.cost, !.report = e.report]
           q == [f.steps EXCEPT ![n] = r]
           g == [f EXCEPT !.last = e.kind, !.cost = @ + e.cost, !.steps = q]
<1>1. FoldShape(f) /\ IsSeq(f.steps) /\ f.steps # <<>>
  BY DEF FoldSound, OpenStep
<1>3. n \in DOMAIN f.steps /\ f.steps[n] \in Range(f.steps) /\ e.step = f.steps[n].step
  BY FinishFold
<1>4. RecordShape(f.steps[n])
  BY <1>3 DEF FoldSound
<1>5. Finished(f, e) = g
  BY FinishFold
<1>6. r.step = e.step /\ r.status = e.status
  BY <1>3, <1>4 DEF RecordShape, RecordFields
<1> HIDE DEF r
<1>7. q # <<>> /\ Last(q) = r
  BY <1>1, <1>3, LastEdited
<1> HIDE DEF q
<1>8. g.last = e.kind /\ g.pending = f.pending /\ g.steps = q
  BY <1>1 DEF FoldShape, FoldFields
<1> QED BY <1>5, <1>6, <1>7, <1>8

LEMMA CheckRead ==
  ASSUME NEW f, NEW e, FoldSound(f), ~Checked(f, e).broken,
         f.steps # <<>>, Last(f.steps).step = e.step
  PROVE  LET g == Checked(f, e)
         IN  /\ g.last = e.kind /\ g.pending = f.pending
             /\ g.steps # <<>> /\ Last(g.steps).step = e.step
             /\ Last(g.steps).status = Last(f.steps).status /\ Last(g.steps).checks = e.outcome
<1> DEFINE n == Newest(f, e.step)
           r == [f.steps[n] EXCEPT !.checks = e.outcome]
           q == [f.steps EXCEPT ![n] = r]
           g == [f EXCEPT !.last = e.kind, !.steps = q]
<1>1. FoldShape(f) /\ IsSeq(f.steps)
  BY DEF FoldSound
<1>2. /\ n \in DOMAIN f.steps /\ n # 0 /\ n = Len(f.steps)
      /\ Last(f.steps) = f.steps[n] /\ f.steps[n] \in Range(f.steps)
  BY <1>1, LastIsNewest
<1>3. RecordShape(f.steps[n])
  BY <1>2 DEF FoldSound
<1>4. Checked(f, e) = g
  BY <1>1, <1>2, <1>3 DEF Checked, FoldShape, FoldFields, RecordShape, RecordFields
<1>5. r.step = f.steps[n].step /\ r.status = f.steps[n].status /\ r.checks = e.outcome
  BY <1>3 DEF RecordShape, RecordFields
<1> HIDE DEF n, r
<1>6. q # <<>> /\ Last(q) = r
  BY <1>1, <1>2, LastEdited
<1> HIDE DEF q
<1>7. g.last = e.kind /\ g.pending = f.pending /\ g.steps = q
  BY <1>1 DEF FoldShape, FoldFields
<1> QED BY <1>2, <1>4, <1>5, <1>6, <1>7

LEMMA RaiseRead ==
  ASSUME NEW f, NEW e, FoldSound(f), ~Raised(f, e).broken
  PROVE  LET g == Raised(f, e)
         IN  /\ SameLast(f, g) /\ g.pending = f.pending /\ g.answered = f.answered
             /\ e.step = None =>
                  g.last = f.atBudget /\ g.atBudget = None /\ g.atStep = f.atStep
             /\ e.step # None =>
                  g.last = f.atStep /\ g.atStep = None /\ g.atBudget = f.atBudget
<1>1. FoldShape(f) /\ IsSeq(f.steps)
  BY DEF FoldSound
<1>2. CASE e.step = None
  <2> DEFINE g == [f EXCEPT !.budget = e.usd, !.last = f.atBudget, !.atBudget = None]
  <2>1. Raised(f, e) = g
    BY <1>1, <1>2 DEF Raised, Broken, FoldShape, FoldFields
  <2>2. /\ g.steps = f.steps /\ g.pending = f.pending /\ g.answered = f.answered
        /\ g.last = f.atBudget /\ g.atBudget = None /\ g.atStep = f.atStep
    BY <1>1 DEF FoldShape, FoldFields
  <2> QED BY <1>2, <2>1, <2>2 DEF SameLast
<1>3. CASE e.step # None
  <2> DEFINE n == Newest(f, e.step)
             r == [f.steps[n] EXCEPT !.figure = e.usd]
             q == [f.steps EXCEPT ![n] = r]
             g == [f EXCEPT !.steps = q, !.last = f.atStep, !.atStep = None]
  <2>1. n # 0 /\ f.atStep # None
    BY <1>1, <1>3 DEF Raised, Broken, FoldShape, FoldFields
  <2>2. n \in DOMAIN f.steps /\ f.steps[n] \in Range(f.steps)
    BY <1>1, <2>1, NewestFound
  <2>3. RecordShape(f.steps[n])
    BY <2>2 DEF FoldSound
  <2>4. Raised(f, e) = g
    BY <1>1, <1>3, <2>1, <2>2, <2>3 DEF Raised, FoldShape, FoldFields, RecordShape, RecordFields
  <2>5. /\ r.step = f.steps[n].step /\ r.status = f.steps[n].status
        /\ r.checks = f.steps[n].checks
    BY <2>3 DEF RecordShape, RecordFields
  <2> HIDE DEF n, r
  <2>6. f.steps # <<>> =>
          /\ q # <<>> /\ Last(q) = IF n = Len(f.steps) THEN r ELSE Last(f.steps)
          /\ Last(f.steps) = f.steps[Len(f.steps)]
    BY <1>1, <2>2, LastEdited, LastIsNewest
  <2> HIDE DEF q
  <2>7. /\ g.steps = q /\ g.pending = f.pending /\ g.answered = f.answered
        /\ g.last = f.atStep /\ g.atStep = None /\ g.atBudget = f.atBudget
    BY <1>1 DEF FoldShape, FoldFields
  <2> HIDE DEF g
  <2>8. SameLast(f, g)
    BY <2>5, <2>6, <2>7 DEF SameLast
  <2> QED BY <1>3, <2>4, <2>7, <2>8
<1> QED BY <1>2, <1>3

LEMMA AppendedPlaces ==
  ASSUME NEW q, IsSeq(q), NEW e, NEW p, p = Append(q, e)
  PROVE  /\ Len(q) \in Nat /\ DOMAIN q = 1 .. Len(q)
         /\ Len(p) = Len(q) + 1 /\ DOMAIN p = 1 .. (Len(q) + 1)
         /\ p[Len(q) + 1] = e /\ \A i \in 1 .. Len(q) : p[i] = q[i]
<1>1. Len(q) \in Nat /\ DOMAIN q = 1 .. Len(q)
  BY Places
<1>2. q \in Seq(Range(q) \union {e})
  BY SeqDef DEF IsSeq
<1>3. /\ p \in Seq(Range(q) \union {e}) /\ Len(p) = Len(q) + 1 /\ p[Len(q) + 1] = e
      /\ \A i \in 1 .. Len(q) : p[i] = q[i]
  BY <1>2
<1>4. DOMAIN p = 1 .. Len(p)
  BY <1>3, SeqSelf
<1> QED BY <1>1, <1>3, <1>4

LEMMA KnownOn ==
  ASSUME NEW q, IsSeq(q), NEW e, NEW p, p = Append(q, e), NEW s
  PROVE  /\ Closed(q, s) => Closed(p, s)
         /\ e.kind = "step_finished" => Closed(p, e.step)
         /\ e.kind \notin Checking => \A o : CameOut(q, s, o) => CameOut(p, s, o)
         /\ e.kind = "checks_run" => CameOut(p, e.step, e.outcome)
<1> DEFINE n == Len(q)
<1>1. /\ n \in Nat /\ DOMAIN q = 1 .. n /\ DOMAIN p = 1 .. (n + 1)
      /\ p[n + 1] = e /\ \A i \in 1 .. n : p[i] = q[i]
  BY AppendedPlaces
<1> HIDE DEF n
<1>2. (n + 1) \in DOMAIN p /\ \A i \in DOMAIN p : ~(i > n + 1)
  BY <1>1
<1>3. Closed(q, s) => Closed(p, s)
  BY <1>1 DEF Closed
<1>4. e.kind = "step_finished" => Closed(p, e.step)
  BY <1>1, <1>2 DEF Closed
<1>5. ASSUME e.kind \notin Checking, NEW o, CameOut(q, s, o) PROVE CameOut(p, s, o)
  <2>1. PICK i \in DOMAIN q :
           /\ q[i].kind = "checks_run" /\ q[i].step = s /\ q[i].outcome = o
           /\ \A j \in DOMAIN q : j > i => q[j].kind \notin Checking
    BY <1>5 DEF CameOut
  <2>2. i \in DOMAIN p /\ p[i] = q[i]
    BY <1>1
  <2>3. ASSUME NEW j \in DOMAIN p, j > i PROVE p[j].kind \notin Checking
    <3>1. j = n + 1 \/ (j \in DOMAIN q /\ p[j] = q[j])
      BY <1>1
    <3> QED BY <1>1, <1>5, <2>1, <2>3, <3>1
  <2> QED BY <2>1, <2>2, <2>3 DEF CameOut
<1>6. e.kind = "checks_run" => CameOut(p, e.step, e.outcome)
  BY <1>1, <1>2 DEF CameOut
<1> QED BY <1>3, <1>4, <1>5, <1>6

(* What stood behind a move still does, when the newest record and the     *)
(* log of checks are as they were.                                         *)
LEMMA BackedOn ==
  ASSUME NEW f, NEW g, NEW q, IsSeq(q), NEW e, NEW p, p = Append(q, e),
         SameLast(f, g), e.kind \notin Checking, NEW x, Backed(f, q, x)
  PROVE  Backed(g, p, x)
<1>1. \A s : Closed(q, s) => Closed(p, s)
  BY KnownOn
<1>2. \A s, o : CameOut(q, s, o) => CameOut(p, s, o)
  BY KnownOn
<1>3. x \in Checking => /\ g.steps # <<>> /\ Last(g.steps).status # "open"
                        /\ Closed(p, Last(g.steps).step)
  BY <1>1 DEF Backed, SameLast
<1>4. x = "checks_run" => CameOut(p, Last(g.steps).step, Last(g.steps).checks)
  <2> HAVE x = "checks_run"
  <2>1. f.steps # <<>> /\ CameOut(q, Last(f.steps).step, Last(f.steps).checks)
    BY DEF Backed, Checking
  <2> QED BY <1>2, <2>1 DEF SameLast
<1> QED BY <1>3, <1>4 DEF Backed

LEMMA NothingBacked ==
  ASSUME NEW f, NEW q, NEW x, x \notin Checking
  PROVE  Backed(f, q, x)
BY DEF Backed, Checking

(* After an event that leads on, only its own move may be called for.      *)
LEMMA LeadsOn ==
  ASSUME NEW g, NEW q, NEW x, g.last = x, x \notin {"checkpoint_answered", "checkpoint_asked"},
         g.pending = None, Backed(g, q, x)
  PROVE  FoldBacked(g, q)
<1>1. MayCall(g) = {x}
  BY DEF MayCall, AskedAt, None, BudgetGate, StepStop
<1> QED BY <1>1 DEF FoldBacked

LEMMA EventBacked ==
  ASSUME NEW f, FoldSound(f), NEW q, IsSeq(q), NEW e, EventSound(e), FoldBacked(f, q),
         ~f.broken => \/ e.kind \in {"checkpoint_answered", "run_errored"}
                      \/ f.last # "checkpoint_asked",
         e.kind \in {"checks_run", "pushed", "budget_raised"} => Justified(f, q, e),
         NEW g, g = After(f, e), NEW p, p = Append(q, e)
  PROVE  FoldBacked(g, p)
<1>1. FoldShape(f) /\ f.last # None /\ IsSeq(f.steps)
  BY DEF FoldSound, Decisive, None
<1>2. CASE f.broken \/ g.broken
  <2>1. f.broken => g = f
    BY DEF After
  <2> QED BY <1>2, <2>1 DEF FoldBacked
<1> SUFFICES ASSUME ~f.broken, ~g.broken PROVE FoldBacked(g, p)
  BY <1>2
<1>3. /\ f.pending # None => f.last = "checkpoint_asked"
      /\ \A x \in MayCall(f) : Backed(f, q, x)
  BY DEF FoldBacked
<1>4. Broken(f).broken
  BY <1>1 DEF Broken, FoldShape, FoldFields
<1>5. e.kind # "run_started"
  BY <1>1, <1>4 DEF After
<1>6. e.kind \notin {"checkpoint_answered", "run_errored"} => f.pending = None
  BY <1>3
<1>7. CASE e.kind \in {"route_taken", "run_finished", "step_started", "pushed"}
  <2>1. g.last = e.kind /\ g.pending = f.pending
    <3>1. CASE e.kind = "route_taken"
      <4>1. g = [f EXCEPT !.last = e.kind,
                          !.budget = IF e.usd = 0 THEN @ ELSE e.usd,
                          !.route = [proposed |-> e.proposed, taken |-> e.taken]]
        BY <1>1, <3>1 DEF After
      <4> QED BY <1>1, <4>1 DEF FoldShape, FoldFields
    <3>2. CASE e.kind = "run_finished"
      <4>1. g = [f EXCEPT !.last = e.kind, !.outcome = e.outcome, !.errored = FALSE]
        BY <1>1, <3>2 DEF After
      <4> QED BY <1>1, <4>1 DEF FoldShape, FoldFields
    <3>3. CASE e.kind = "step_started"
      <4>1. g = Started(f, e)
        BY <1>1, <3>3 DEF After
      <4>2. ~OpenStep(f)
        BY <1>4, <4>1 DEF Started
      <4> QED BY <1>1, <4>1, <4>2 DEF Started, FoldShape, FoldFields
    <3>4. CASE e.kind = "pushed"
      <4>1. g = Pushed(f, e)
        BY <1>1, <3>4 DEF After
      <4>2. f.steps # <<>>
        BY <1>4, <4>1 DEF Pushed
      <4> QED BY <1>1, <4>1, <4>2 DEF Pushed, FoldShape, FoldFields
    <3> QED BY <1>7, <3>1, <3>2, <3>3, <3>4
  <2>2. Backed(g, p, e.kind)
    BY <1>7, NothingBacked DEF Checking
  <2> QED BY <1>6, <1>7, <2>1, <2>2, LeadsOn
<1>8. CASE e.kind = "step_finished"
  <2>1. g = Finished(f, e)
    BY <1>1, <1>8 DEF After
  <2>2. /\ g.last = e.kind /\ g.pending = f.pending
        /\ g.steps # <<>> /\ Last(g.steps).step = e.step /\ Last(g.steps).status = e.status
    <3>1. OpenStep(f) /\ Last(f.steps).step = e.step
      BY <1>4, <2>1, FinishRefused
    <3> QED BY <2>1, <3>1, FinishRead
  <2>3. e.status # "open"
    BY <1>8 DEF EventSound
  <2>4. Backed(g, p, e.kind)
    BY <1>8, <2>2, <2>3, KnownOn DEF Backed
  <2> QED BY <1>6, <1>8, <2>2, <2>4, LeadsOn
<1>9. CASE e.kind = "checks_run"
  <2>1. g = Checked(f, e)
    BY <1>1, <1>9 DEF After
  <2>2. /\ f.steps # <<>> /\ Last(f.steps).status # "open"
        /\ Last(f.steps).step = e.step /\ Closed(q, e.step)
    BY <1>9 DEF Justified
  <2>3. /\ g.last = e.kind /\ g.pending = f.pending
        /\ g.steps # <<>> /\ Last(g.steps).step = e.step
        /\ Last(g.steps).status = Last(f.steps).status /\ Last(g.steps).checks = e.outcome
    BY <2>1, <2>2, CheckRead
  <2>4. Backed(g, p, e.kind)
    BY <1>9, <2>2, <2>3, KnownOn DEF Backed
  <2> QED BY <1>6, <1>9, <2>3, <2>4, LeadsOn
<1>10. CASE e.kind = "checkpoint_asked"
  <2>1. g = Asked(f, e)
    BY <1>1, <1>10 DEF After
  <2>2. /\ g.last = e.kind /\ g.pending = e.gate /\ g.steps = f.steps
        /\ e.gate = BudgetGate => g.atBudget = f.last
        /\ e.gate = StepStop => g.atStep = f.last
    BY <1>1, <2>1 DEF Asked, FoldShape, FoldFields
  <2>3. \A x \in MayCall(g) : x \in {"checkpoint_asked", f.last}
    BY <1>10, <2>2 DEF MayCall, AskedAt
  <2>4. Backed(g, p, f.last)
    <3>1. Backed(f, q, f.last) /\ SameLast(f, g)
      BY <1>3, <2>2 DEF MayCall, SameLast
    <3> QED BY <1>10, <3>1, BackedOn DEF Checking
  <2>5. Backed(g, p, "checkpoint_asked")
    BY NothingBacked DEF Checking
  <2> QED BY <1>10, <2>2, <2>3, <2>4, <2>5 DEF FoldBacked
<1>11. CASE e.kind = "checkpoint_answered"
  <2>1. g = Answered(f, e)
    BY <1>1, <1>11 DEF After
  <2>2. f.pending # None
    BY <1>4, <2>1 DEF Answered
  <2>3. /\ g.last = e.kind /\ g.pending = None /\ g.steps = f.steps
        /\ g.atBudget = f.atBudget /\ g.atStep = f.atStep /\ g.answered.gate = f.pending
    <3> DEFINE a == [gate |-> f.pending, answer |-> e.answer, usd |-> e.usd]
    <3>1. g = [f EXCEPT !.last = e.kind, !.pending = None, !.answered = a] /\ a.gate = f.pending
      BY <2>1, <2>2 DEF Answered
    <3> HIDE DEF a
    <3> QED BY <1>1, <3>1 DEF FoldShape, FoldFields
  <2>4. \A x \in MayCall(g) : x = "checkpoint_answered" \/ x \in MayCall(f)
    BY <1>11, <2>3 DEF MayCall, AskedAt, None, BudgetGate, StepStop
  <2>5. SameLast(f, g)
    BY <2>3 DEF SameLast
  <2>6. \A x \in MayCall(f) : Backed(g, p, x)
    BY <1>3, <1>11, <2>5, BackedOn DEF Checking
  <2>7. Backed(g, p, "checkpoint_answered")
    BY NothingBacked DEF Checking
  <2> QED BY <2>3, <2>4, <2>6, <2>7 DEF FoldBacked
<1>12. CASE e.kind = "budget_raised"
  <2>1. g = Raised(f, e)
    BY <1>1, <1>12 DEF After
  <2>2. /\ SameLast(f, g) /\ g.pending = f.pending /\ g.answered = f.answered
        /\ e.step = None => g.last = f.atBudget /\ g.atBudget = None /\ g.atStep = f.atStep
        /\ e.step # None => g.last = f.atStep /\ g.atStep = None /\ g.atBudget = f.atBudget
    BY <2>1, RaiseRead
  <2>3. /\ f.last = "checkpoint_answered"
        /\ f.answered.gate = IF e.step = None THEN BudgetGate ELSE StepStop
    BY <1>12 DEF Justified
  <2>4. g.last \in MayCall(f)
    BY <2>2, <2>3 DEF MayCall, AskedAt
  <2>5. \A x \in MayCall(g) : x \in {g.last, None}
    BY <1>6, <1>12, <2>2, <2>3 DEF MayCall, AskedAt, None, BudgetGate, StepStop
  <2>6. Backed(g, p, g.last) /\ Backed(g, p, None)
    BY <1>3, <1>12, <2>2, <2>4, BackedOn, NothingBacked DEF Checking, None
  <2> QED BY <1>6, <1>12, <2>2, <2>5, <2>6 DEF FoldBacked
<1>13. CASE e.kind = "run_errored"
  <2>1. g = [f EXCEPT !.errored = TRUE]
    BY <1>1, <1>13 DEF After
  <2>2. /\ g.last = f.last /\ g.pending = f.pending /\ g.steps = f.steps
        /\ g.atBudget = f.atBudget /\ g.atStep = f.atStep /\ g.answered = f.answered
    BY <1>1, <2>1 DEF FoldShape, FoldFields
  <2>3. MayCall(g) = MayCall(f) /\ SameLast(f, g)
    BY <2>2 DEF MayCall, AskedAt, SameLast
  <2>4. \A x \in MayCall(f) : Backed(g, p, x)
    BY <1>3, <1>13, <2>3, BackedOn DEF Checking
  <2> QED BY <1>3, <2>2, <2>3, <2>4 DEF FoldBacked
<1> QED BY <1>5, <1>7, <1>8, <1>9, <1>10, <1>11, <1>12, <1>13 DEF EventSound, Decisive

(* A push written is backed for good.                                      *)
LEMMA PushWritten ==
  ASSUME NEW q, IsSeq(q), NEW e, NEW f, LogBacked(q), e.kind = "pushed" => Justified(f, q, e),
         NEW p, p = Append(q, e)
  PROVE  LogBacked(p)
<1> DEFINE n == Len(q)
<1>1. /\ n \in Nat /\ DOMAIN q = 1 .. n /\ Len(p) = n + 1
      /\ p[n + 1] = e /\ \A i \in 1 .. n : p[i] = q[i]
  BY AppendedPlaces
<1> HIDE DEF n
<1>2. ASSUME NEW i \in 1 .. n, p[i].kind = "pushed", wf.steps[p[i].step].checks
      PROVE  PushBacked(p, i)
  <2>1. PushBacked(q, i)
    <3>1. p[i] = q[i]
      BY <1>1
    <3> QED BY <1>2, <3>1 DEF LogBacked, n
  <2>2. \A j \in 1 .. i : p[j] = q[j]
    BY <1>1
  <2>3. PICK k \in 1 .. (i - 1), m \in 1 .. (i - 1) :
          /\ q[k].kind = "checks_run" /\ q[k].step = q[i].step /\ q[k].outcome = "pass"
          /\ \A j \in (k + 1) .. (i - 1) : q[j].kind \notin Checking
          /\ q[m].kind = "step_finished" /\ q[m].step = q[i].step
    BY <2>1 DEF PushBacked
  <2>4. /\ i \in 1 .. i /\ k \in 1 .. i /\ m \in 1 .. i
        /\ \A j \in (k + 1) .. (i - 1) : j \in 1 .. i
    OBVIOUS
  <2> QED BY <2>2, <2>3, <2>4 DEF PushBacked
<1>3. ASSUME e.kind = "pushed", wf.steps[e.step].checks PROVE PushBacked(p, n + 1)
  <2>1. Closed(q, e.step) /\ CameOut(q, e.step, "pass")
    BY <1>3 DEF Justified
  <2>2. PICK k \in 1 .. n :
          /\ q[k].kind = "checks_run" /\ q[k].step = e.step /\ q[k].outcome = "pass"
          /\ \A j \in 1 .. n : j > k => q[j].kind \notin Checking
    BY <1>1, <2>1 DEF CameOut
  <2>3. PICK m \in 1 .. n : q[m].kind = "step_finished" /\ q[m].step = e.step
    BY <1>1, <2>1 DEF Closed
  <2>4. /\ (n + 1) - 1 = n
        /\ \A j \in (k + 1) .. ((n + 1) - 1) : j \in 1 .. n /\ j > k
    BY <1>1
  <2> QED BY <1>1, <2>2, <2>3, <2>4 DEF PushBacked
<1>4. \A i \in 1 .. (n + 1) : i \in 1 .. n \/ i = n + 1
  BY <1>1
<1> QED BY <1>1, <1>2, <1>3, <1>4 DEF LogBacked

(* What the log's pushes have behind them is the property.                 *)
LEMMA BackedIsChecked ==
  ASSUME IsSeq(lead), LogBacked(lead)
  PROVE  PushedChecked
<1>1. Len(lead) \in Nat /\ DOMAIN lead = 1 .. Len(lead)
  BY Places
<1> SUFFICES ASSUME NEW i \in Where("pushed"), wf.steps[lead[i].step].checks
             PROVE  LET before(kind) ==
                          {j \in Where(kind) : j < i /\ lead[j].step = lead[i].step}
                    IN  /\ before("checks_run") # {}
                        /\ lead[Max(before("checks_run"))].outcome = "pass"
                        /\ Max(before("checks_run")) > Max(before("step_finished"))
  BY DEF PushedChecked
<1> DEFINE s == lead[i].step
           before(kind) == {j \in Where(kind) : j < i /\ lead[j].step = s}
<1>2. \A kind : before(kind) = {j \in 1 .. (i - 1) : lead[j].kind = kind /\ lead[j].step = s}
  BY <1>1 DEF Where, LeadHas
<1>3. i \in 1 .. Len(lead) /\ lead[i].kind = "pushed"
  BY <1>1 DEF Where, LeadHas
<1>4. PICK k \in 1 .. (i - 1), m \in 1 .. (i - 1) :
        /\ lead[k].kind = "checks_run" /\ lead[k].step = s /\ lead[k].outcome = "pass"
        /\ \A j \in (k + 1) .. (i - 1) : lead[j].kind \notin Checking
        /\ lead[m].kind = "step_finished" /\ lead[m].step = s
  BY <1>3 DEF LogBacked, PushBacked
<1> HIDE DEF before, s
<1>5. Max(before("checks_run")) = k /\ before("checks_run") # {}
  <2>1. k \in before("checks_run") /\ before("checks_run") \in SUBSET Nat
    BY <1>2, <1>3, <1>4
  <2>2. ASSUME NEW y \in before("checks_run") PROVE y <= k
    <3>1. y \in 1 .. (i - 1) /\ lead[y].kind = "checks_run"
      BY <1>2
    <3>2. y \notin (k + 1) .. (i - 1)
      BY <1>4, <3>1 DEF Checking
    <3> QED BY <1>3, <3>1, <3>2
  <2> QED BY <2>1, <2>2, MaxIs
<1>6. Max(before("step_finished")) < k
  <2> DEFINE B == before("step_finished")
  <2>1. m \in B /\ B \in SUBSET (0 .. Len(lead))
    BY <1>2, <1>3, <1>4
  <2>2. Max(B) \in B
    BY <1>1, <2>1, Greatest
  <2>3. Max(B) \in 1 .. (i - 1) /\ lead[Max(B)].kind = "step_finished"
    BY <1>2, <2>2
  <2>4. Max(B) \notin k .. (i - 1)
    <3>1. Max(B) # k
      BY <1>4, <2>3
    <3>2. Max(B) \notin (k + 1) .. (i - 1)
      BY <1>4, <2>3 DEF Checking
    <3> QED BY <1>3, <2>3, <3>1, <3>2
  <2> QED BY <1>3, <2>3, <2>4
<1> QED BY <1>3, <1>4, <1>5, <1>6 DEF before, s

-----------------------------------------------------------------------------
(* Each action keeps it                                                    *)

LEMMA PushKept ==
  ASSUME wf' = wf, NEW f, NEW q, NEW t, st' = f, lead' = q, todo' = t,
         FoldBacked(f, q), PlanBacked(f, q, t), LogBacked(q)
  PROVE  PushInv'
<1>1. FoldBacked(st, lead)'
  BY DEF FoldBacked, MayCall, AskedAt, Backed, Closed, CameOut
<1>2. PlanBacked(st, lead, todo)'
  BY DEF PlanBacked, Justified, Claims, Records, Closed, CameOut
<1>3. LogBacked(lead)'
  <2> SUFFICES ASSUME NEW i \in 1 .. Len(lead'), lead'[i].kind = "pushed",
                      wf'.steps[lead'[i].step].checks
               PROVE  PushBacked(lead, i)'
    BY DEF LogBacked
  <2>1. PushBacked(q, i)
    BY DEF LogBacked
  <2>2. PICK k \in 1 .. (i - 1), m \in 1 .. (i - 1) :
          /\ q[k].kind = "checks_run" /\ q[k].step = q[i].step /\ q[k].outcome = "pass"
          /\ \A j \in (k + 1) .. (i - 1) : q[j].kind \notin Checking
          /\ q[m].kind = "step_finished" /\ q[m].step = q[i].step
    BY <2>1 DEF PushBacked
  <2> QED BY <2>2 DEF PushBacked
<1> QED BY <1>1, <1>2, <1>3 DEF PushInv

LEMMA Unlogged ==
  ASSUME PushInv, UNCHANGED <<wf, lead, st>>, NEW t, todo' = t, PlanBacked(st, lead, t)
  PROVE  PushInv'
<1> PICK f : f = st
  OBVIOUS
<1> PICK q : q = lead
  OBVIOUS
<1>1. FoldBacked(f, q) /\ PlanBacked(f, q, t) /\ LogBacked(q)
  BY DEF PushInv
<1> QED BY <1>1, PushKept

(* What a move on a closed step, or on its checks, is about.               *)
LEMMA MoveBacked ==
  ASSUME LogSound, PushInv, ~st.broken, NEW m, m = NextMove(st),
         m.do \in {"AfterStep", "ChecksDone"}
  PROVE  /\ st.steps # <<>> /\ Last(st.steps).status # "open"
         /\ Last(st.steps).step = m.step /\ Last(st.steps).attempt = m.attempt
         /\ Closed(lead, m.step)
         /\ st.steps[RecordOf(st, m.step, m.attempt)] = Last(st.steps)
         /\ m.do = "ChecksDone" => CameOut(lead, m.step, Last(st.steps).checks)
<1> DEFINE n == Len(st.steps)
           ended == {i \in DOMAIN st.steps : st.steps[i].status # "open"}
           checked == {i \in DOMAIN st.steps : st.steps[i].checks # None}
           mine == {0} \union {i \in DOMAIN st.steps :
                                 st.steps[i].step = m.step /\ st.steps[i].attempt = m.attempt}
<1>1. \/ st.last = "step_finished" /\ m = Move("AfterStep", st.steps[Max(ended)])
      \/ st.last = "checks_run" /\ m = Move("ChecksDone", st.steps[Max(checked)])
  BY MoveDue DEF LogSound, FoldSound
<1>2. /\ st.steps # <<>> /\ Last(st.steps).status # "open"
      /\ Closed(lead, Last(st.steps).step)
      /\ st.last = "checks_run" => CameOut(lead, Last(st.steps).step, Last(st.steps).checks)
  <2>1. Backed(st, lead, st.last)
    BY DEF PushInv, FoldBacked, MayCall
  <2> QED BY <1>1, <2>1 DEF Backed, Checking
<1>3. IsSeq(st.steps) /\ IsSeq(lead) /\ \A e \in Range(lead) : EventSound(e)
  BY DEF LogSound, FoldSound, LeadSound
<1>4. n \in DOMAIN st.steps /\ n \in Nat \ {0} /\ Last(st.steps) = st.steps[n]
      /\ DOMAIN st.steps = 1 .. n
  BY <1>2, <1>3, LastIsNewest, Places
<1>5. CASE st.last = "step_finished" /\ m = Move("AfterStep", st.steps[Max(ended)])
  <2>1. ended \in SUBSET Nat /\ n \in ended /\ \A y \in ended : y <= n
    BY <1>2, <1>4
  <2>2. Max(ended) = n
    BY <2>1, MaxIs
  <2> HIDE DEF ended
  <2>3. m.do = "AfterStep" /\ m.step = st.steps[n].step /\ m.attempt = st.steps[n].attempt
    BY <1>5, <2>2 DEF Move
  <2>4. mine \in SUBSET Nat /\ n \in mine /\ \A y \in mine : y <= n
    BY <1>4, <2>3
  <2>5. RecordOf(st, m.step, m.attempt) = n
    BY <2>4, MaxIs DEF RecordOf
  <2> QED BY <1>2, <1>4, <2>3, <2>5
<1>6. CASE st.last = "checks_run" /\ m = Move("ChecksDone", st.steps[Max(checked)])
  <2>1. Last(st.steps).checks # None
    <3>1. PICK i \in DOMAIN lead :
             lead[i].kind = "checks_run" /\ lead[i].outcome = Last(st.steps).checks
      BY <1>2, <1>6 DEF CameOut
    <3>2. EventSound(lead[i])
      BY <1>3, <3>1, Places
    <3> QED BY <3>1, <3>2 DEF EventSound
  <2>2. checked \in SUBSET Nat /\ n \in checked /\ \A y \in checked : y <= n
    BY <1>4, <2>1
  <2>3. Max(checked) = n
    BY <2>2, MaxIs
  <2> HIDE DEF checked
  <2>4. m.step = st.steps[n].step /\ m.attempt = st.steps[n].attempt
    BY <1>6, <2>3 DEF Move
  <2>5. mine \in SUBSET Nat /\ n \in mine /\ \A y \in mine : y <= n
    BY <1>4, <2>4
  <2>6. RecordOf(st, m.step, m.attempt) = n
    BY <2>5, MaxIs DEF RecordOf
  <2> QED BY <1>2, <1>4, <1>6, <2>4, <2>6
<1> QED BY <1>1, <1>5, <1>6

LEMMA AfterStepBacked ==
  ASSUME NEW s, NEW n, NEW outcome, st.steps # <<>>, Last(st.steps).status # "open",
         Last(st.steps).step = s, Closed(lead, s)
  PROVE  PlanBacked(st, lead, AfterStep(s, n, outcome))
<1> DEFINE report == CHOOSE r \in ReportOf(s, n) : TRUE
           e == [kind |-> "checks_run", step |-> s, outcome |-> outcome]
           routed == TakeRoute(s, report)
           said == <<Comment(<<s, n>>)>>
           again == StartStep(s, n + 1, st.steps[RecordOf(st, s, n)].child)
           handed == Handover(s, n, outcome)
           backed(q) == PlanBacked(st, lead, q)
<1>1. /\ Claimless(<<Escalate(StepStop)>>) /\ Claimless(<<Escalate("checks_error")>>)
      /\ Silent(said) /\ Claimless(routed) /\ Claimless(FollowNext(s)) /\ Claimless(again)
  BY FewClaimless, ClaimlessEffects, TakeRouteClaimless, FollowNextClaimless, StartStepClaimless
<1>2. backed(handed) /\ IsSeq(handed)
  <2>1. CASE ~wf.steps[s].checks
    BY <2>1, PushBackedPlan DEF Handover
  <2>2. CASE wf.steps[s].checks /\ outcome = "error"
    BY <1>1, <2>2, ClaimlessBacked DEF Handover, Claimless
  <2>3. CASE wf.steps[s].checks /\ outcome # "error"
    <3>1. handed = <<Write(e)>>
      BY <2>3 DEF Handover
    <3>2. Justified(st, lead, e)
      BY DEF Justified
    <3> HIDE DEF e, handed
    <3> QED BY <3>1, <3>2, ClaimBacked
  <2> QED BY <2>1, <2>2, <2>3
<1> HIDE DEF report, e, routed, said, again, handed
<1>3. backed(said \o handed)
  BY <1>1, <1>2, SilentBefore
<1>4. Claimless(said \o routed) /\ Claimless(said \o FollowNext(s))
  BY <1>1, ClaimlessJoined
<1>5. AfterStep(s, n, outcome) \in
        {<<Escalate(StepStop)>>, said \o routed, said \o handed, said \o FollowNext(s), again}
  BY DEF AfterStep, report, routed, said, again, handed
<1> QED BY <1>1, <1>3, <1>4, <1>5, ClaimlessBacked

LEMMA ChecksDoneBacked ==
  ASSUME NEW s, NEW n, Closed(lead, s),
         CameOut(lead, s, st.steps[RecordOf(st, s, n)].checks)
  PROVE  PlanBacked(st, lead, ChecksDone(s, n))
<1> DEFINE again == StartStep(s, n + 1, st.steps[RecordOf(st, s, n)].child)
           asked == <<Ask("checks_failed", {"retry", "stop"})>>
           stopped == <<Escalate("no_push")>>
           push == PushAndInstall(s, n)
           passed == st.steps[RecordOf(st, s, n)].checks = "pass"
<1>1. Claimless(asked) /\ Claimless(stopped) /\ Claimless(again)
  BY FewClaimless, ClaimlessEffects, StartStepClaimless
<1>2. passed => PlanBacked(st, lead, push) /\ IsSeq(push)
  BY PushBackedPlan
<1> HIDE DEF again, asked, stopped, push
<1>3. \/ \E q \in {again, asked, stopped} : ChecksDone(s, n) = LockFor(s) \o q
      \/ passed /\ ChecksDone(s, n) = LockFor(s) \o push
  BY DEF ChecksDone, again, asked, stopped, push
<1>4. passed => PlanBacked(st, lead, LockFor(s) \o push)
  BY <1>2, LockForSilent, SilentBefore
<1>5. \A q \in {again, asked, stopped} : PlanBacked(st, lead, LockFor(s) \o q)
  BY <1>1, LockForSilent, ClaimlessJoined, ClaimlessBacked
<1> QED BY <1>3, <1>4, <1>5

LEMMA ActOnAnswerBacked ==
  ASSUME LogSound, ~st.broken, st.last = "checkpoint_answered"
  PROVE  PlanBacked(st, lead, ActOnAnswer)
<1>1. Claimless(<<Fail>>) /\ Claimless(<<Finish("stopped")>>)
  BY FewClaimless, ClaimlessEffects
<1>2. ASSUME NEW usd, NEW s, st.answered.gate = IF s = None THEN BudgetGate ELSE StepStop
      PROVE  PlanBacked(st, lead, <<Write(RaisedEvent(usd, s))>>)
  <2>1. Justified(st, lead, RaisedEvent(usd, s))
    BY <1>2 DEF Justified, RaisedEvent
  <2> QED BY <2>1, ClaimBacked
<1> QED BY <1>1, <1>2, AnswerPlans, FollowNextClaimless, StartStepClaimless, ClaimlessBacked

LEMMA MovesBacked ==
  ASSUME LogSound, PushInv, Moves
  PROVE  PushInv'
<1>1. ASSUME NEW t, PlanBacked(st, lead, t), Decide(t) PROVE PushInv'
  <2>1. todo' = t /\ UNCHANGED <<wf, lead, st>>
    BY <1>1 DEF Decide, log
  <2> QED BY <1>1, <2>1, Unlogged
<1>2. CASE StartFirstStep
  BY <1>1, <1>2, StartStepClaimless, ClaimlessBacked DEF StartFirstStep
<1>3. CASE ReAwaitChild
  BY <1>1, <1>3, ReAwaitClaimless, ClaimlessBacked DEF ReAwaitChild
<1>4. CASE EndStep
  <2>1. PICK m \in Due("AfterStep"),
             outcome \in {"pass", "fail"} \union (IF "checks" \in Faults THEN {"error"} ELSE {}) :
                Decide(AfterStep(m.step, m.attempt, outcome))
    BY <1>4 DEF EndStep
  <2>2. ~st.broken /\ m = NextMove(st) /\ m.do = "AfterStep"
    BY <2>1 DEF Due
  <2>3. PlanBacked(st, lead, AfterStep(m.step, m.attempt, outcome))
    BY <2>2, MoveBacked, AfterStepBacked
  <2> QED BY <1>1, <2>1, <2>3
<1>5. CASE Follow
  BY <1>1, <1>5, FollowRouteClaimless, ClaimlessBacked DEF Follow
<1>6. CASE ActOnChecks
  <2>1. PICK m \in Due("ChecksDone") : Decide(ChecksDone(m.step, m.attempt))
    BY <1>6 DEF ActOnChecks
  <2>2. ~st.broken /\ m = NextMove(st) /\ m.do = "ChecksDone"
    BY <2>1 DEF Due
  <2>3. PlanBacked(st, lead, ChecksDone(m.step, m.attempt))
    BY <2>2, MoveBacked, ChecksDoneBacked
  <2> QED BY <1>1, <2>1, <2>3
<1>7. CASE ActOnPush
  BY <1>1, <1>7, AfterPushedClaimless, ClaimlessBacked DEF ActOnPush
<1>8. CASE ActOnWord
  <2>1. ~st.broken /\ NextMove(st).do = "Answered"
    BY <1>8 DEF ActOnWord, At, Due
  <2>2. st.last = "checkpoint_answered"
    BY <2>1 DEF LogSound, FoldSound, Decisive, NextMove, Move, NoRecord, None
  <2> QED BY <1>1, <1>8, <2>1, <2>2, ActOnAnswerBacked DEF ActOnWord
<1> QED BY <1>2, <1>3, <1>4, <1>5, <1>6, <1>7, <1>8 DEF Moves

(* An event is on the log, and the rest of the list claims nothing.        *)
LEMMA EventKeeps ==
  ASSUME LogSound, PushInv, wf' = wf, NEW e, EventSound(e),
         ~st.broken => \/ e.kind \in {"checkpoint_answered", "run_errored"}
                       \/ st.last # "checkpoint_asked",
         e.kind \in {"checks_run", "pushed", "budget_raised"} => Justified(st, lead, e),
         lead' = Append(lead, e), st' = After(st, e), NEW t, Claimless(t), todo' = t
  PROVE  PushInv'
<1> PICK f : f = st
  OBVIOUS
<1> PICK q : q = lead
  OBVIOUS
<1> PICK g : g = After(f, e)
  OBVIOUS
<1> PICK p : p = Append(q, e)
  OBVIOUS
<1>1. FoldSound(f) /\ IsSeq(q) /\ FoldBacked(f, q) /\ LogBacked(q)
  BY DEF LogSound, LeadSound, PushInv
<1>2. FoldBacked(g, p)
  BY <1>1, EventBacked
<1>3. LogBacked(p)
  BY <1>1, PushWritten
<1>4. PlanBacked(g, p, t)
  BY ClaimlessBacked
<1> QED BY <1>2, <1>3, <1>4, PushKept

LEMMA EventsBacked ==
  ASSUME LockInv, PathSound, PushInv, WriteEvent \/ AskPerson \/ FinishRun
  PROVE  PushInv'
<1> PICK q : q = todo
  OBVIOUS
<1> PICK h : h = Head(q)
  OBVIOUS
<1> PICK r : r = Tail(q)
  OBVIOUS
<1>1. q # <<>> /\ todo' = r /\ wf' = wf
      /\ h.do \in {"write", "ask", "finish"}
  BY DEF WriteEvent, AskPerson, FinishRun, Doing
<1>2. EffectSound(h) /\ LogSound
  BY <1>1, Rest DEF LockInv, PlanSound
<1>3. Claimless(r) /\ (Claims(h) => Justified(st, lead, h.event))
  <2>1. IsSeq(q) /\ PlanBacked(st, lead, q) /\ Records(h)
    BY <1>1 DEF PathSound, AllNamed, PushInv, Records
  <2> QED BY <1>1, <2>1, RestBacked
<1>4. CASE WriteEvent
  <2> PICK e : e = h.event
    OBVIOUS
  <2>1. h.do = "write" /\ lead' = Append(lead, e) /\ st' = After(st, e)
    BY <1>4 DEF WriteEvent, Doing, Appends
  <2>2. EventSound(e)
    BY <1>2, <2>1 DEF EffectSound
  <2>3. e.kind \in {"checks_run", "pushed", "budget_raised"} => Justified(st, lead, e)
    BY <1>3, <2>1 DEF Claims
  <2>4. st.last = "checkpoint_asked" => e.kind = "checkpoint_answered"
    <3> HAVE st.last = "checkpoint_asked"
    <3>1. Says(q[1])
      BY <1>1 DEF PathSound, OnCourse, Over
    <3>2. q[1] = h
      BY <1>1, HeadDone DEF PathSound
    <3> QED BY <3>1, <3>2 DEF Says
  <2> QED BY <1>1, <1>2, <1>3, <2>1, <2>2, <2>3, <2>4, EventKeeps
<1>5. ASSUME h.do # "write" PROVE st.last # "checkpoint_asked"
  BY <1>1, <1>5, Busy DEF OnCourse
<1>6. CASE AskPerson
  <2> DEFINE e == [kind |-> "checkpoint_asked", gate |-> h.gate, options |-> h.options]
  <2>1. h.do = "ask" /\ lead' = Append(lead, e) /\ st' = After(st, e)
    BY <1>6 DEF AskPerson, Doing, Appends
  <2>2. EventSound(e) /\ e.kind = "checkpoint_asked"
    BY DEF EventSound, Decisive
  <2> HIDE DEF e
  <2> QED BY <1>1, <1>2, <1>3, <1>5, <2>1, <2>2, EventKeeps
<1>7. CASE FinishRun
  <2> DEFINE e == [kind |-> "run_finished", outcome |-> h.outcome]
  <2>1. h.do = "finish" /\ lead' = Append(lead, e) /\ st' = After(st, e)
    BY <1>7 DEF FinishRun, Doing, Appends
  <2>2. EventSound(e) /\ e.kind = "run_finished"
    BY DEF EventSound, Decisive
  <2> HIDE DEF e
  <2> QED BY <1>1, <1>2, <1>3, <1>5, <2>1, <2>2, EventKeeps
<1> QED BY <1>4, <1>6, <1>7

LEMMA AnswerBacked ==
  ASSUME LockInv, PushInv, Answer
  PROVE  PushInv'
<1>1. PICK word, usd : Appends(AnsweredEvent(word, usd))
  BY DEF Answer
<1> PICK e : e = AnsweredEvent(word, usd)
  OBVIOUS
<1> PICK t : t = todo
  OBVIOUS
<1>2. todo' = t /\ t = <<>> /\ wf' = wf /\ lead' = Append(lead, e) /\ st' = After(st, e)
  BY <1>1 DEF Answer, At, Due, Idle, world, Appends
<1>3. EventSound(e) /\ e.kind = "checkpoint_answered"
  BY DEF EventSound, AnsweredEvent, Decisive
<1>4. Claimless(t) /\ LogSound
  BY <1>2, FewClaimless DEF LockInv
<1> QED BY <1>2, <1>3, <1>4, EventKeeps

LEMMA GivenUpBacked ==
  ASSUME LockInv, PushInv,
         FailMove \/ CallFails \/ StopUnreadable \/ LeaveFinished \/ Crash \/ ChildDies
  PROVE  PushInv'
<1> PICK t : t = <<>>
  OBVIOUS
<1>1. todo' = t /\ wf' = wf /\ (Notes \/ UNCHANGED <<lead, st>>)
  BY DEF FailMove, CallFails, StopUnreadable, LeaveFinished, Crash, ChildDies, Ends, log, world
<1>2. Claimless(t) /\ LogSound
  BY FewClaimless DEF LockInv
<1>3. CASE UNCHANGED <<lead, st>>
  BY <1>1, <1>2, <1>3, ClaimlessBacked, Unlogged
<1>4. CASE Notes /\ ~UNCHANGED <<lead, st>>
  <2> DEFINE e == [kind |-> "run_errored"]
  <2>1. lead' = Append(lead, e) /\ st' = After(st, e)
    BY <1>4 DEF Notes, Appends, log
  <2>2. EventSound(e) /\ e.kind = "run_errored"
    BY DEF EventSound
  <2> HIDE DEF e
  <2> QED BY <1>1, <1>2, <2>1, <2>2, EventKeeps
<1> QED BY <1>1, <1>3, <1>4

LEMMA EffectsBacked ==
  ASSUME LockInv, PathSound, PushInv,
         \/ TakeWriteLock \/ CreateChild \/ PostPrompt \/ ResumeChild \/ ApplyEnd \/ PostComment
         \/ InstallBinary \/ WaitForCi \/ CloseIssue \/ RenderFails \/ WeighPush \/ PushBranch
  PROVE  PushInv'
<1> PICK q : q = todo
  OBVIOUS
<1> PICK h : h = Head(q)
  OBVIOUS
<1> PICK r : r = Tail(q)
  OBVIOUS
<1> PICK p : p = [h EXCEPT !.do = "push"]
  OBVIOUS
<1>1. UNCHANGED <<wf, lead, st>> /\ q # <<>>
  BY DEF TakeWriteLock, CreateChild, PostPrompt, ResumeChild, ApplyEnd, PostComment,
         InstallBinary, WaitForCi, CloseIssue, RenderFails, WeighPush, PushBranch, Doing, log, world
<1>2. IsSeq(q) /\ PlanBacked(st, lead, q)
  BY DEF PathSound, AllNamed, PushInv
<1>3. IsSeq(r) /\ PlanBacked(st, lead, r)
  BY <1>1, <1>2, Rest, RestBacked
<1>4. ASSUME NEW t, Claimless(t), todo' = t PROVE PushInv'
  BY <1>1, <1>4, ClaimlessBacked, Unlogged
<1>5. ASSUME NEW gate, todo' = <<Escalate(gate)>> PROVE PushInv'
  BY <1>4, <1>5, FewClaimless, ClaimlessEffects
<1>6. CASE todo' = r
  BY <1>1, <1>3, <1>6, Unlogged
<1>7. CASE h.do = "weigh" /\ todo' = <<p>> \o r
  <2>1. h = Do("weigh", h.step, h.attempt, h.child)
    <3>1. EffectSound(h)
      BY <1>1, Rest DEF LockInv, PlanSound
    <3> QED BY <1>7, <3>1 DEF EffectSound
  <2>2. p.do = "push"
    BY <2>1 DEF Do
  <2>3. Silent(<<p>>)
    BY <2>2, FewClaimless DEF Records
  <2>4. PlanBacked(st, lead, <<p>> \o r)
    BY <1>3, <2>3, SilentBefore
  <2> QED BY <1>1, <1>7, <2>4, Unlogged
<1>8. CASE ResumeChild
  <2>1. todo' = r \/ \E room : todo' = ParkSpent(room)
    BY <1>8 DEF ResumeChild
  <2> QED BY <1>4, <1>6, <2>1, ParksClaimless
<1>9. CASE ApplyEnd
  <2>1. todo' = EndOf(h.step, h.attempt, h.child)
    BY <1>9 DEF ApplyEnd
  <2> QED BY <1>4, <2>1, EndOfClaimless
<1>10. CASE ~ResumeChild /\ ~ApplyEnd
  <2>1. \/ todo' = r
        \/ \E gate : todo' = <<Escalate(gate)>>
        \/ h.do = "weigh" /\ todo' = <<p>> \o r
    BY <1>10 DEF TakeWriteLock, CreateChild, PostPrompt, PostComment, InstallBinary, WaitForCi,
                 CloseIssue, RenderFails, WeighPush, PushBranch, Doing
  <2> QED BY <1>5, <1>6, <1>7, <2>1
<1> QED BY <1>8, <1>9, <1>10

LEMMA BesideBacked ==
  ASSUME PushInv, Turns \/ Start \/ RivalLocks \/ RemoteMoves \/ UNCHANGED vars
  PROVE  PushInv'
<1> PICK t : t = todo
  OBVIOUS
<1>1. UNCHANGED <<wf, lead, st>> /\ todo' = t
  BY DEF Turns, ChildCalls, ChildReports, ChildEnds, Start, RivalLocks, RemoteMoves, log, world, vars
<1>2. PlanBacked(st, lead, t)
  BY DEF PushInv
<1> QED BY <1>1, <1>2, Unlogged

LEMMA StepBacked ==
  ASSUME LockInv, PathSound, PushInv, [Next]_vars
  PROVE  PushInv'
<1>1. CASE Moves
  BY <1>1, MovesBacked DEF LockInv
<1>2. CASE Effects
  BY <1>2, EventsBacked, EffectsBacked, GivenUpBacked DEF Effects
<1>3. CASE Turns \/ Start \/ UNCHANGED vars
  BY <1>3, BesideBacked
<1>4. CASE Stops
  BY <1>4, GivenUpBacked DEF Stops
<1>5. CASE Environment
  BY <1>5, EffectsBacked, GivenUpBacked, AnswerBacked, BesideBacked DEF Environment
<1> QED BY <1>1, <1>2, <1>3, <1>4, <1>5 DEF Next

LEMMA PushInit == Init => PushInv
<1> SUFFICES ASSUME Init PROVE PushInv
  OBVIOUS
<1> DEFINE e == [kind |-> "run_started", budget |-> wf.budget]
<1>1. st = [Zero EXCEPT !.last = "run_started", !.budget = e.budget]
  <2>1. lead[1] = e /\ st = After(Zero, e)
    BY DEF Init
  <2>2. ~Zero.broken /\ Zero.last = None
    BY DEF Zero
  <2> QED BY <2>1, <2>2 DEF After
<1>2. st.last = "run_started" /\ st.pending = None
  BY <1>1 DEF Zero
<1>3. Backed(st, lead, "run_started")
  BY DEF Backed, Checking
<1>4. FoldBacked(st, lead)
  BY <1>2, <1>3, LeadsOn
<1>5. PlanBacked(st, lead, todo)
  <2>1. Claimless(todo)
    BY FewClaimless DEF Init
  <2> QED BY <2>1, ClaimlessBacked
<1>6. LogBacked(lead)
  <2>1. lead = <<e>> /\ e.kind = "run_started" /\ Len(lead) = 1 /\ lead[1] = e
    BY DEF Init
  <2> HIDE DEF e
  <2> QED BY <2>1 DEF LogBacked
<1> QED BY <1>4, <1>5, <1>6 DEF PushInv

(* No run pushes what its checks did not pass: whatever is retried, raised *)
(* at a gate or picked up again by another daemon, the newest checks of a  *)
(* pushed step passed, and ran after the step was last closed.             *)
THEOREM PushedCheckedAlways ==
  ASSUME WorkflowsLoad PROVE Spec => []PushedChecked
<1>1. Init => PathSound /\ PushInv
  BY PathInit, PushInit
<1>2. LockInv /\ PathSound /\ PushInv /\ [Next]_vars => PathSound' /\ PushInv'
  BY StepShown, StepBacked
<1>3. LockInv /\ PushInv => PushedChecked
  BY BackedIsChecked DEF LockInv, LogSound, LeadSound, PushInv
<1> QED BY <1>1, <1>2, <1>3, LockInvAlways, PTL DEF Spec
-----------------------------------------------------------------------------
(* What an event makes of the records                                      *)

(* The same attempts, in the same children, closed in the same way.        *)
Same(r, x) ==
    /\ x.step = r.step /\ x.attempt = r.attempt /\ x.child = r.child
    /\ x.status = r.status /\ x.report = r.report
Alike(f, g) ==
    /\ IsSeq(g.steps) /\ Len(g.steps) = Len(f.steps)
    /\ \A i \in DOMAIN f.steps : Same(f.steps[i], g.steps[i])
Joins(f, e, g) ==
    /\ ~OpenStep(f)
    /\ \E r : /\ g.steps = Append(f.steps, r)
              /\ r.step = e.step /\ r.attempt = e.attempt /\ r.child = e.child
              /\ r.status = "open" /\ r.report = 0
Closes1(f, e, g) ==
    LET n == Len(f.steps)
    IN  /\ OpenStep(f) /\ Last(f.steps).step = e.step /\ n \in DOMAIN f.steps
        /\ IsSeq(g.steps) /\ Len(g.steps) = n
        /\ \A i \in DOMAIN f.steps : i # n => g.steps[i] = f.steps[i]
        /\ g.steps[n].step = f.steps[n].step /\ g.steps[n].attempt = f.steps[n].attempt
        /\ g.steps[n].child = f.steps[n].child
        /\ g.steps[n].status = e.status /\ g.steps[n].report = e.report

LEMMA EditAlike ==
  ASSUME NEW f, IsSeq(f.steps), NEW g, NEW i \in DOMAIN f.steps, NEW r,
         g.steps = [f.steps EXCEPT ![i] = r], Same(f.steps[i], r)
  PROVE  Alike(f, g)
<1>1. IsSeq(g.steps)
  BY Edited, SMTT(30)
<1>2. f.steps \in Seq(Range(f.steps) \union {r})
  BY SeqDef DEF IsSeq
<1>3. Len(g.steps) = Len(f.steps)
  BY <1>2
<1>4. \A j \in DOMAIN f.steps : g.steps[j] = IF j = i THEN r ELSE f.steps[j]
  BY <1>2
<1>5. \A j \in DOMAIN f.steps : Same(f.steps[j], g.steps[j])
  BY <1>4 DEF Same
<1> QED BY <1>1, <1>3, <1>5 DEF Alike

LEMMA StepsAlike ==
  ASSUME NEW f, IsSeq(f.steps), NEW g, g.steps = f.steps
  PROVE  Alike(f, g)
BY DEF Alike, Same

(* The last record gets the newest push.                                   *)
LEMMA PushRead ==
  ASSUME NEW f, NEW e, FoldSound(f), f.steps # <<>>
  PROVE  LET g == Pushed(f, e)
         IN  /\ Alike(f, g) /\ g.steps # <<>> /\ Last(g.steps).pushed
             /\ g.last = e.kind /\ g.pending = f.pending
<1> DEFINE n == Len(f.steps)
           r == [f.steps[n] EXCEPT !.pushed = TRUE]
           q == [f.steps EXCEPT ![n] = r]
           g == [f EXCEPT !.last = e.kind, !.steps = q]
<1>1. FoldShape(f) /\ IsSeq(f.steps)
  BY DEF FoldSound
<1>2. n \in DOMAIN f.steps /\ f.steps[n] \in Range(f.steps) /\ Last(f.steps) = f.steps[n]
  BY <1>1, LastIsNewest
<1>3. RecordShape(f.steps[n])
  BY <1>2 DEF FoldSound
<1>4. Pushed(f, e) = g
  BY <1>1, <1>2, <1>3 DEF Pushed, FoldShape, FoldFields, RecordShape, RecordFields
<1>5. Same(f.steps[n], r) /\ r.pushed
  BY <1>3 DEF Same, RecordShape, RecordFields
<1> HIDE DEF r
<1>6. q # <<>> /\ Last(q) = r
  BY <1>1, <1>2, LastEdited
<1> HIDE DEF q
<1>7. g.last = e.kind /\ g.pending = f.pending /\ g.steps = q
  BY <1>1 DEF FoldShape, FoldFields
<1> HIDE DEF g
<1>8. Alike(f, g)
  BY <1>1, <1>2, <1>5, <1>7, EditAlike DEF q
<1> QED BY <1>4, <1>5, <1>6, <1>7, <1>8

LEMMA CheckAlike ==
  ASSUME NEW f, NEW e, FoldSound(f), ~Checked(f, e).broken
  PROVE  Alike(f, Checked(f, e))
<1> DEFINE n == Newest(f, e.step)
           r == [f.steps[n] EXCEPT !.checks = e.outcome]
           q == [f.steps EXCEPT ![n] = r]
           g == [f EXCEPT !.last = e.kind, !.steps = q]
<1>1. FoldShape(f) /\ IsSeq(f.steps)
  BY DEF FoldSound
<1>2. n # 0
  BY <1>1 DEF Checked, Broken, FoldShape, FoldFields
<1>3. n \in DOMAIN f.steps /\ f.steps[n] \in Range(f.steps)
  BY <1>1, <1>2, NewestFound
<1>4. RecordShape(f.steps[n])
  BY <1>3 DEF FoldSound
<1>5. Checked(f, e) = g
  BY <1>1, <1>2, <1>3, <1>4 DEF Checked, FoldShape, FoldFields, RecordShape, RecordFields
<1>6. Same(f.steps[n], r)
  BY <1>4 DEF Same, RecordShape, RecordFields
<1> HIDE DEF n, r
<1>7. g.steps = q
  BY <1>1 DEF FoldShape, FoldFields
<1> QED BY <1>1, <1>3, <1>5, <1>6, <1>7, EditAlike

LEMMA RaiseAlike ==
  ASSUME NEW f, NEW e, FoldSound(f), ~Raised(f, e).broken
  PROVE  LET g == Raised(f, e)
         IN  /\ Alike(f, g) /\ g.route = f.route
             /\ f.steps # <<>> => g.steps # <<>> /\ Last(g.steps).pushed = Last(f.steps).pushed
<1>1. FoldShape(f) /\ IsSeq(f.steps)
  BY DEF FoldSound
<1>2. CASE e.step = None
  <2>1. Raised(f, e).steps = f.steps /\ Raised(f, e).route = f.route
    BY <1>1, <1>2 DEF Raised, Broken, FoldShape, FoldFields
  <2> QED BY <1>1, <2>1, StepsAlike
<1>3. CASE e.step # None
  <2> DEFINE n == Newest(f, e.step)
             r == [f.steps[n] EXCEPT !.figure = e.usd]
             q == [f.steps EXCEPT ![n] = r]
             g == [f EXCEPT !.steps = q, !.last = f.atStep, !.atStep = None]
  <2>1. n # 0 /\ f.atStep # None
    BY <1>1, <1>3 DEF Raised, Broken, FoldShape, FoldFields
  <2>2. n \in DOMAIN f.steps /\ f.steps[n] \in Range(f.steps)
    BY <1>1, <2>1, NewestFound
  <2>3. RecordShape(f.steps[n])
    BY <2>2 DEF FoldSound
  <2>4. Raised(f, e) = g
    BY <1>1, <1>3, <2>1, <2>2, <2>3 DEF Raised, FoldShape, FoldFields, RecordShape, RecordFields
  <2>5. Same(f.steps[n], r) /\ r.pushed = f.steps[n].pushed
    BY <2>3 DEF Same, RecordShape, RecordFields
  <2> HIDE DEF n, r
  <2>6. f.steps # <<>> => q # <<>> /\ Last(q).pushed = Last(f.steps).pushed
    BY <1>1, <2>2, <2>5, LastEdited, LastIsNewest
  <2> HIDE DEF q
  <2>7. g.steps = q /\ g.route = f.route
    BY <1>1 DEF FoldShape, FoldFields
  <2> HIDE DEF g
  <2>8. Alike(f, g)
    BY <1>1, <2>2, <2>5, <2>7, EditAlike DEF q
  <2> QED BY <2>4, <2>6, <2>7, <2>8
<1> QED BY <1>2, <1>3

LEMMA FinishRecord ==
  ASSUME NEW f, NEW e, FoldSound(f), OpenStep(f), Last(f.steps).step = e.step
  PROVE  Closes1(f, e, Finished(f, e))
<1> DEFINE n == Len(f.steps)
           r == [f.steps[n] EXCEPT !.status = e.status, !.reason = e.reason,
                                   !.cost = e.cost, !.report = e.report]
           q == [f.steps EXCEPT ![n] = r]
           g == [f EXCEPT !.last = e.kind, !.cost = @ + e.cost, !.steps = q]
<1>1. FoldShape(f) /\ IsSeq(f.steps)
  BY DEF FoldSound
<1>2. n \in DOMAIN f.steps /\ f.steps[n] \in Range(f.steps) /\ Finished(f, e) = g
  BY FinishFold
<1>3. RecordShape(f.steps[n])
  BY <1>2 DEF FoldSound
<1>4. /\ r.step = f.steps[n].step /\ r.attempt = f.steps[n].attempt
      /\ r.child = f.steps[n].child /\ r.status = e.status /\ r.report = e.report
  BY <1>3 DEF RecordShape, RecordFields
<1> HIDE DEF r
<1>5. IsSeq(q)
  BY <1>1, Edited
<1>6. f.steps \in Seq(Range(f.steps) \union {r})
  BY <1>1, SeqDef DEF IsSeq
<1>7. Len(q) = n /\ \A i \in DOMAIN f.steps : q[i] = IF i = n THEN r ELSE f.steps[i]
  BY <1>6
<1> HIDE DEF q
<1>8. g.steps = q
  BY <1>1 DEF FoldShape, FoldFields
<1> HIDE DEF g
<1>9. Closes1(f, e, g)
  BY <1>2, <1>4, <1>5, <1>7, <1>8 DEF Closes1
<1> QED BY <1>2, <1>9

(* What one event makes of a fold that takes it.                           *)
Folded(f, e, g) ==
    /\ e.kind = "step_started" => Joins(f, e, g)
    /\ e.kind = "step_finished" => Closes1(f, e, g)
    /\ e.kind \notin {"step_started", "step_finished"} => Alike(f, g)
    /\ e.kind = "pushed" => g.steps # <<>> /\ Last(g.steps).pushed
    /\ e.kind \notin {"checkpoint_asked", "checkpoint_answered", "budget_raised", "run_errored"} =>
         g.last = e.kind /\ g.pending = f.pending
    /\ e.kind = "route_taken" => g.route.taken = e.taken
    /\ e.kind = "checkpoint_asked" =>
         /\ g.last = e.kind /\ g.pending = e.gate
         /\ g.atBudget = IF e.gate = BudgetGate THEN f.last ELSE f.atBudget
         /\ g.atStep = IF e.gate = StepStop THEN f.last ELSE f.atStep
    /\ e.kind = "checkpoint_answered" =>
         /\ g.last = e.kind /\ g.pending = None /\ g.answered.gate = f.pending
         /\ f.pending # None /\ g.atBudget = f.atBudget /\ g.atStep = f.atStep
    /\ e.kind = "budget_raised" =>
         /\ g.pending = f.pending /\ g.answered = f.answered
         /\ e.step = None => g.last = f.atBudget /\ g.atBudget = None /\ g.atStep = f.atStep
         /\ e.step # None => g.last = f.atStep /\ g.atStep = None /\ g.atBudget = f.atBudget
    /\ e.kind = "run_errored" =>
         /\ g.last = f.last /\ g.pending = f.pending /\ g.answered = f.answered
         /\ g.atBudget = f.atBudget /\ g.atStep = f.atStep
    /\ e.kind \in {"checkpoint_asked", "checkpoint_answered", "budget_raised", "run_errored"} =>
         /\ g.route = f.route /\ SameLast(f, g)
         /\ f.steps # <<>> => g.steps # <<>> /\ Last(g.steps).pushed = Last(f.steps).pushed

LEMMA AfterFolded ==
  ASSUME NEW f, FoldSound(f), NEW e, EventSound(e), ~f.broken, NEW g, g = After(f, e), ~g.broken
  PROVE  Folded(f, e, g)
<1>1. FoldShape(f) /\ f.last # None /\ IsSeq(f.steps)
  BY DEF FoldSound, Decisive, None
<1>2. Broken(f).broken
  BY <1>1 DEF Broken, FoldShape, FoldFields
<1>3. e.kind # "run_started"
  BY <1>1, <1>2 DEF After
<1>4. CASE e.kind = "step_started"
  <2>1. g = Started(f, e)
    BY <1>1, <1>4 DEF After
  <2>2. ~OpenStep(f)
    BY <1>2, <2>1 DEF Started
  <2> DEFINE figure == IF Newest(f, e.step) # 0 /\ e.attempt > 1
                       THEN Larger(f.steps[Newest(f, e.step)].figure, e.declared)
                       ELSE e.declared
             r == [step |-> e.step, attempt |-> e.attempt,
                   child |-> e.child, declared |-> e.declared,
                   figure |-> figure, status |-> "open",
                   reason |-> None, cost |-> 0, report |-> 0,
                   checks |-> None, pushed |-> FALSE]
  <2>3. g = [f EXCEPT !.errored = FALSE, !.last = e.kind, !.steps = Append(@, r)]
    BY <2>1, <2>2 DEF Started
  <2>4. /\ r.step = e.step /\ r.attempt = e.attempt /\ r.child = e.child
        /\ r.status = "open" /\ r.report = 0
    OBVIOUS
  <2> HIDE DEF r
  <2>5. g.steps = Append(f.steps, r) /\ g.last = e.kind /\ g.pending = f.pending
    BY <1>1, <2>3 DEF FoldShape, FoldFields
  <2>6. Joins(f, e, g)
    BY <2>2, <2>4, <2>5 DEF Joins
  <2> QED BY <1>4, <2>5, <2>6 DEF Folded
<1>5. CASE e.kind = "step_finished"
  <2>1. g = Finished(f, e)
    BY <1>1, <1>5 DEF After
  <2>2. OpenStep(f) /\ Last(f.steps).step = e.step
    BY <1>2, <2>1, FinishRefused
  <2>3. Closes1(f, e, g) /\ g.last = e.kind /\ g.pending = f.pending
    BY <2>1, <2>2, FinishRecord, FinishRead
  <2> QED BY <1>5, <2>3 DEF Folded
<1>6. CASE e.kind = "checks_run"
  <2>1. g = Checked(f, e)
    BY <1>1, <1>6 DEF After
  <2>2. Alike(f, g)
    BY <2>1, CheckAlike
  <2>3. g.last = e.kind /\ g.pending = f.pending
    BY <1>1, <1>2, <2>1 DEF Checked, FoldShape, FoldFields
  <2> QED BY <1>6, <2>2, <2>3 DEF Folded
<1>7. CASE e.kind = "pushed"
  <2>1. g = Pushed(f, e)
    BY <1>1, <1>7 DEF After
  <2>2. f.steps # <<>>
    BY <1>2, <2>1 DEF Pushed
  <2> QED BY <1>7, <2>1, <2>2, PushRead DEF Folded
<1>8. CASE e.kind = "route_taken"
  <2> DEFINE a == [proposed |-> e.proposed, taken |-> e.taken]
  <2>1. g = [f EXCEPT !.last = e.kind,
                      !.budget = IF e.usd = 0 THEN @ ELSE e.usd, !.route = a]
    BY <1>1, <1>8 DEF After
  <2>2. a.taken = e.taken
    OBVIOUS
  <2> HIDE DEF a
  <2>3. g.last = e.kind /\ g.pending = f.pending /\ g.steps = f.steps /\ g.route = a
    BY <1>1, <2>1 DEF FoldShape, FoldFields
  <2>4. Alike(f, g)
    BY <1>1, <2>3, StepsAlike
  <2> QED BY <1>8, <2>2, <2>3, <2>4 DEF Folded
<1>9. CASE e.kind = "run_finished"
  <2>1. g = [f EXCEPT !.last = e.kind, !.outcome = e.outcome, !.errored = FALSE]
    BY <1>1, <1>9 DEF After
  <2>2. g.last = e.kind /\ g.pending = f.pending /\ g.steps = f.steps
    BY <1>1, <2>1 DEF FoldShape, FoldFields
  <2>3. Alike(f, g)
    BY <1>1, <2>2, StepsAlike
  <2> QED BY <1>9, <2>2, <2>3 DEF Folded
<1>10. CASE e.kind = "checkpoint_asked"
  <2>1. g = Asked(f, e)
    BY <1>1, <1>10 DEF After
  <2>2. /\ g.last = e.kind /\ g.pending = e.gate /\ g.steps = f.steps /\ g.route = f.route
        /\ g.atBudget = IF e.gate = BudgetGate THEN f.last ELSE f.atBudget
        /\ g.atStep = IF e.gate = StepStop THEN f.last ELSE f.atStep
    BY <1>1, <2>1 DEF Asked, FoldShape, FoldFields
  <2>3. Alike(f, g)
    BY <1>1, <2>2, StepsAlike
  <2> QED BY <1>10, <2>2, <2>3 DEF Folded, SameLast
<1>11. CASE e.kind = "checkpoint_answered"
  <2>1. g = Answered(f, e)
    BY <1>1, <1>11 DEF After
  <2>2. f.pending # None
    BY <1>2, <2>1 DEF Answered
  <2> DEFINE a == [gate |-> f.pending, answer |-> e.answer, usd |-> e.usd]
  <2>3. g = [f EXCEPT !.last = e.kind, !.pending = None, !.answered = a] /\ a.gate = f.pending
    BY <2>1, <2>2 DEF Answered
  <2> HIDE DEF a
  <2>4. /\ g.last = e.kind /\ g.pending = None /\ g.steps = f.steps /\ g.route = f.route
        /\ g.atBudget = f.atBudget /\ g.atStep = f.atStep /\ g.answered.gate = f.pending
    BY <1>1, <2>3 DEF FoldShape, FoldFields
  <2>5. Alike(f, g)
    BY <1>1, <2>4, StepsAlike
  <2> QED BY <1>11, <2>2, <2>4, <2>5 DEF Folded, SameLast
<1>12. CASE e.kind = "budget_raised"
  <2>1. g = Raised(f, e)
    BY <1>1, <1>12 DEF After
  <2>2. /\ SameLast(f, g) /\ g.pending = f.pending /\ g.answered = f.answered
        /\ e.step = None => g.last = f.atBudget /\ g.atBudget = None /\ g.atStep = f.atStep
        /\ e.step # None => g.last = f.atStep /\ g.atStep = None /\ g.atBudget = f.atBudget
    BY <2>1, RaiseRead
  <2>3. /\ Alike(f, g) /\ g.route = f.route
        /\ f.steps # <<>> => g.steps # <<>> /\ Last(g.steps).pushed = Last(f.steps).pushed
    BY <2>1, RaiseAlike
  <2> QED BY <1>12, <2>2, <2>3 DEF Folded
<1>13. CASE e.kind = "run_errored"
  <2>1. g = [f EXCEPT !.errored = TRUE]
    BY <1>1, <1>13 DEF After
  <2>2. /\ g.last = f.last /\ g.pending = f.pending /\ g.steps = f.steps /\ g.route = f.route
        /\ g.atBudget = f.atBudget /\ g.atStep = f.atStep /\ g.answered = f.answered
    BY <1>1, <2>1 DEF FoldShape, FoldFields
  <2>3. Alike(f, g)
    BY <1>1, <2>2, StepsAlike
  <2> QED BY <1>13, <2>2, <2>3 DEF Folded, SameLast
<1> QED BY <1>3, <1>4, <1>5, <1>6, <1>7, <1>8, <1>9, <1>10, <1>11, <1>12, <1>13
        DEF EventSound, Decisive

LEMMA BrokenAfter ==
  ASSUME NEW f, FoldSound(f), NEW e, EventSound(e), NEW g, g = After(f, e), g.broken
  PROVE  g.steps = f.steps
<1>1. FoldShape(f) /\ f.last # None /\ ~Zero.broken
  BY DEF FoldSound, Decisive, None, Zero
<1>2. CASE f.broken
  BY <1>2 DEF After
<1>3. CASE ~f.broken /\ g = Broken(f)
  BY <1>1, <1>3 DEF Broken, FoldShape, FoldFields
<1>4. CASE ~f.broken /\ g # Broken(f)
  <2>1. g.broken = f.broken
    <3>1. e.kind \in Decisive \union {"budget_raised", "run_errored"} /\ e.kind # "run_started"
      BY <1>1, <1>4 DEF EventSound, After
    <3>2. CASE e.kind = "step_started"
      BY <1>1, <1>4, <3>2 DEF After, Started, FoldShape, FoldFields
    <3>3. CASE e.kind = "step_finished"
      BY <1>1, <1>4, <3>3 DEF After, Finished, FoldShape, FoldFields
    <3>4. CASE e.kind = "checks_run"
      BY <1>1, <1>4, <3>4 DEF After, Checked, FoldShape, FoldFields
    <3>5. CASE e.kind = "pushed"
      BY <1>1, <1>4, <3>5 DEF After, Pushed, FoldShape, FoldFields
    <3>6. CASE e.kind \in {"route_taken", "run_finished", "run_errored"}
      BY <1>1, <1>4, <3>6 DEF After, FoldShape, FoldFields
    <3>7. CASE e.kind = "checkpoint_asked"
      BY <1>1, <1>4, <3>7 DEF After, Asked, FoldShape, FoldFields
    <3>8. CASE e.kind = "checkpoint_answered"
      BY <1>1, <1>4, <3>8 DEF After, Answered, FoldShape, FoldFields
    <3>9. CASE e.kind = "budget_raised"
      BY <1>1, <1>4, <3>9 DEF After, Raised, FoldShape, FoldFields
    <3> QED BY <3>1, <3>2, <3>3, <3>4, <3>5, <3>6, <3>7, <3>8, <3>9 DEF Decisive
  <2> QED BY <1>4, <2>1
<1> QED BY <1>2, <1>3, <1>4
-----------------------------------------------------------------------------
(* Counting attempts                                                       *)

LEMMA CountOf ==
  ASSUME NEW n \in Nat, NEW A \in SUBSET (1 .. n)
  PROVE  /\ IsFiniteSet(A) /\ Cardinality(A) \in Nat
         /\ \A x : x \notin A => Cardinality(A \union {x}) = Cardinality(A) + 1
         /\ \A B \in SUBSET A : Cardinality(B) <= Cardinality(A)
         /\ \A B \in SUBSET A : B # A => Cardinality(B) < Cardinality(A)
         /\ A = {} <=> Cardinality(A) = 0
<1>1. IsFiniteSet(1 .. n)
  BY FS_Interval
<1>2. IsFiniteSet(A)
  BY <1>1, FS_Subset
<1>3. Cardinality(A) \in Nat
  BY <1>2, FS_CardinalityType
<1>4. \A x : x \notin A => Cardinality(A \union {x}) = Cardinality(A) + 1
  BY <1>2, FS_AddElement
<1>5. \A B \in SUBSET A : Cardinality(B) <= Cardinality(A)
  BY <1>2, FS_Subset
<1>6. ASSUME NEW B \in SUBSET A, B # A PROVE Cardinality(B) < Cardinality(A)
  <2>1. Cardinality(B) <= Cardinality(A) /\ (Cardinality(B) = Cardinality(A) => B = A)
    BY <1>2, FS_Subset
  <2>2. IsFiniteSet(B)
    BY <1>2, FS_Subset
  <2>3. Cardinality(B) \in Nat
    BY <2>2, FS_CardinalityType
  <2> QED BY <1>3, <1>6, <2>1, <2>3
<1>7. A = {} <=> Cardinality(A) = 0
  BY <1>2, FS_EmptySet
<1> QED BY <1>2, <1>3, <1>4, <1>5, <1>6, <1>7

(* The newest record of a step counts its attempts, and the others fewer.  *)
LEMMA NewestCounts ==
  ASSUME NEW f, IsSeq(f.steps), Numbered(f), NEW n \in DOMAIN f.steps,
         \A i \in DOMAIN f.steps : f.steps[i].step = f.steps[n].step => i <= n
  PROVE  /\ f.steps[n].attempt = Cardinality(Of(f, f.steps[n].step))
         /\ f.steps[n].attempt \in Nat
         /\ \A i \in DOMAIN f.steps :
              f.steps[i].step = f.steps[n].step /\ i # n => f.steps[i].attempt < f.steps[n].attempt
<1> DEFINE m == Len(f.steps)
           s == f.steps[n].step
<1>1. m \in Nat /\ DOMAIN f.steps = 1 .. m
  BY Places
<1> HIDE DEF m
<1>2. Until(f, n, s) = Of(f, s)
  <2>1. ASSUME NEW j \in DOMAIN f.steps, f.steps[j].step = s PROVE j \in 1 .. n
    BY <1>1, <2>1
  <2>2. 1 .. n \subseteq DOMAIN f.steps
    BY <1>1
  <2> QED BY <2>1, <2>2 DEF Until, Of
<1>3. f.steps[n].attempt = Cardinality(Of(f, s))
  BY <1>2 DEF Numbered
<1>4. Of(f, s) \in SUBSET (1 .. m)
  BY <1>1 DEF Of
<1>5. f.steps[n].attempt \in Nat
  BY <1>1, <1>3, <1>4, CountOf
<1>6. ASSUME NEW i \in DOMAIN f.steps, f.steps[i].step = s, i # n
      PROVE  f.steps[i].attempt < f.steps[n].attempt
  <2>1. i <= n /\ i \in Nat /\ n \in Nat /\ i < n
    BY <1>1, <1>6
  <2>2. Until(f, i, s) \in SUBSET Of(f, s) /\ n \in Of(f, s) /\ n \notin Until(f, i, s)
    BY <1>1, <2>1 DEF Until, Of
  <2>3. Cardinality(Until(f, i, s)) < Cardinality(Of(f, s))
    BY <1>1, <1>4, <2>2, CountOf
  <2> QED BY <1>3, <1>6, <2>3 DEF Numbered
<1> QED BY <1>3, <1>5, <1>6

-----------------------------------------------------------------------------
(* The records stay sound                                                  *)

LEMMA AlikePlaces ==
  ASSUME NEW f, NEW g, IsSeq(f.steps), Alike(f, g)
  PROVE  /\ DOMAIN g.steps = DOMAIN f.steps /\ Len(f.steps) \in Nat
         /\ DOMAIN f.steps = 1 .. Len(f.steps)
         /\ (g.steps = <<>>) = (f.steps = <<>>)
         /\ f.steps # <<>> => /\ Len(f.steps) \in DOMAIN f.steps
                              /\ Last(f.steps) = f.steps[Len(f.steps)]
                              /\ Last(g.steps) = g.steps[Len(f.steps)]
         /\ OpenStep(g) = OpenStep(f)
<1>1. /\ Len(f.steps) \in Nat /\ DOMAIN f.steps = 1 .. Len(f.steps)
      /\ DOMAIN g.steps = 1 .. Len(g.steps) /\ Len(g.steps) = Len(f.steps)
  BY Places DEF Alike
<1>2. (f.steps = <<>> <=> Len(f.steps) = 0) /\ (g.steps = <<>> <=> Len(g.steps) = 0)
  BY DEF IsSeq, Alike
<1>3. f.steps # <<>> => /\ Len(f.steps) \in DOMAIN f.steps
                        /\ Last(f.steps) = f.steps[Len(f.steps)]
                        /\ Last(g.steps) = g.steps[Len(f.steps)]
  BY <1>1, <1>2 DEF Last
<1>4. OpenStep(g) = OpenStep(f)
  BY <1>1, <1>2, <1>3 DEF OpenStep, Alike, Same
<1> QED BY <1>1, <1>2, <1>3, <1>4

LEMMA AlikeSets ==
  ASSUME NEW f, NEW g, IsSeq(f.steps), Alike(f, g)
  PROVE  /\ \A i \in DOMAIN f.steps : \A s : Until(g, i, s) = Until(f, i, s)
         /\ \A i \in DOMAIN f.steps : \A c : UntilIn(g, i, c) = UntilIn(f, i, c)
         /\ \A s : Of(g, s) = Of(f, s)
         /\ \A c : In(g, c) = In(f, c) /\ ClosedIn(g, c) = ClosedIn(f, c)
         /\ Kids(g) = Kids(f)
         /\ \A s, c, n : RecordsIn(g, s, c, n) = RecordsIn(f, s, c, n)
         /\ \A s : PartialRecords(g, s) = PartialRecords(f, s)
<1>1. DOMAIN g.steps = DOMAIN f.steps /\ DOMAIN f.steps = 1 .. Len(f.steps)
      /\ Len(f.steps) \in Nat
  BY AlikePlaces
<1>2. \A i \in DOMAIN f.steps :
        /\ g.steps[i].step = f.steps[i].step /\ g.steps[i].attempt = f.steps[i].attempt
        /\ g.steps[i].child = f.steps[i].child /\ g.steps[i].status = f.steps[i].status
  BY DEF Alike, Same
<1>3. \A i \in DOMAIN f.steps : \A j \in 1 .. i : j \in DOMAIN f.steps
  BY <1>1
<1>4. ASSUME NEW i \in DOMAIN f.steps, NEW x
      PROVE  Until(g, i, x) = Until(f, i, x) /\ UntilIn(g, i, x) = UntilIn(f, i, x)
  BY <1>2, <1>3 DEF Until, UntilIn
<1>5. ASSUME NEW x
      PROVE  /\ Of(g, x) = Of(f, x) /\ In(g, x) = In(f, x)
             /\ ClosedIn(g, x) = ClosedIn(f, x) /\ PartialRecords(g, x) = PartialRecords(f, x)
  BY <1>1, <1>2 DEF Of, In, ClosedIn, PartialRecords
<1>6. Kids(g) = Kids(f)
  BY <1>1, <1>2 DEF Kids
<1>7. ASSUME NEW s, NEW c, NEW n PROVE RecordsIn(g, s, c, n) = RecordsIn(f, s, c, n)
  BY <1>1, <1>2 DEF RecordsIn
<1> QED BY <1>4, <1>5, <1>6, <1>7

LEMMA RecordsAlike ==
  ASSUME NEW f, NEW g, IsSeq(f.steps), Alike(f, g), RecordsSound(f)
  PROVE  RecordsSound(g)
<1>1. /\ DOMAIN g.steps = DOMAIN f.steps /\ Len(g.steps) = Len(f.steps)
      /\ f.steps # <<>> => /\ Len(f.steps) \in DOMAIN f.steps
                           /\ Last(f.steps) = f.steps[Len(f.steps)]
                           /\ Last(g.steps) = g.steps[Len(f.steps)]
  BY AlikePlaces DEF Alike
<1>2. \A i \in DOMAIN f.steps : Same(f.steps[i], g.steps[i])
  BY DEF Alike
<1>3. Numbered(g)
  <2> SUFFICES ASSUME NEW i \in DOMAIN g.steps
               PROVE  g.steps[i].attempt = Cardinality(Until(g, i, g.steps[i].step))
    BY DEF Numbered
  <2>1. Until(g, i, g.steps[i].step) = Until(f, i, f.steps[i].step)
    BY <1>1, <1>2, AlikeSets DEF Same
  <2> QED BY <1>1, <1>2, <2>1 DEF RecordsSound, Numbered, Same
<1>4. KidsSound(g)
  <2>1. Kids(g) = Kids(f)
    BY AlikeSets
  <2> QED BY <1>1, <1>2, <2>1 DEF RecordsSound, KidsSound, Same
<1>5. ClosedBefore(g)
  BY <1>1, <1>2 DEF RecordsSound, ClosedBefore, Same
<1>6. Climbs(g)
  <2>1. ASSUME NEW i \in DOMAIN f.steps
        PROVE  Last(g.steps).step = Last(f.steps).step
    <3>1. f.steps # <<>>
      BY <2>1
    <3> QED BY <1>1, <1>2, <3>1 DEF Same
  <2> QED BY <1>1, <1>2, <2>1 DEF RecordsSound, Climbs, Same
<1> QED BY <1>3, <1>4, <1>5, <1>6 DEF RecordsSound
-----------------------------------------------------------------------------
(* A record joins, and one is closed                                       *)

LEMMA JoinPlaces ==
  ASSUME NEW f, IsSeq(f.steps), NEW e, NEW g, Joins(f, e, g)
  PROVE  LET n == Len(f.steps)
         IN  /\ n \in Nat /\ DOMAIN f.steps = 1 .. n /\ DOMAIN g.steps = 1 .. (n + 1)
             /\ Len(g.steps) = n + 1 /\ g.steps # <<>> /\ IsSeq(g.steps)
             /\ \A i \in 1 .. n : g.steps[i] = f.steps[i]
             /\ Last(g.steps) = g.steps[n + 1]
             /\ g.steps[n + 1].step = e.step /\ g.steps[n + 1].attempt = e.attempt
             /\ g.steps[n + 1].child = e.child
             /\ g.steps[n + 1].status = "open" /\ g.steps[n + 1].report = 0
             /\ OpenStep(g)
<1> DEFINE n == Len(f.steps)
<1>1. PICK r : /\ g.steps = Append(f.steps, r)
               /\ r.step = e.step /\ r.attempt = e.attempt /\ r.child = e.child
               /\ r.status = "open" /\ r.report = 0
  BY DEF Joins
<1>2. /\ n \in Nat /\ DOMAIN f.steps = 1 .. n
      /\ Len(g.steps) = n + 1 /\ DOMAIN g.steps = 1 .. (n + 1)
      /\ g.steps[n + 1] = r /\ \A i \in 1 .. n : g.steps[i] = f.steps[i]
  BY <1>1, AppendedPlaces
<1>3. IsSeq(g.steps)
  BY <1>1, Added
<1> HIDE DEF n
<1>4. g.steps # <<>> /\ Last(g.steps) = g.steps[n + 1]
  <2>1. g.steps # <<>>
    BY <1>2
  <2> QED BY <1>2, <2>1 DEF Last
<1>5. OpenStep(g)
  BY <1>1, <1>2, <1>4 DEF OpenStep
<1> QED BY <1>1, <1>2, <1>3, <1>4, <1>5 DEF n

LEMMA JoinSets ==
  ASSUME NEW f, IsSeq(f.steps), NEW e, NEW g, Joins(f, e, g)
  PROVE  LET n == Len(f.steps)
             one(yes) == IF yes THEN {n + 1} ELSE {}
         IN  /\ \A i \in 1 .. n : \A x : Until(g, i, x) = Until(f, i, x)
                                         /\ UntilIn(g, i, x) = UntilIn(f, i, x)
             /\ \A s : Until(g, n + 1, s) = Of(g, s) /\ Of(g, s) = Of(f, s) \union one(s = e.step)
             /\ \A c : In(g, c) = In(f, c) \union one(c = e.child) /\ ClosedIn(g, c) = ClosedIn(f, c)
             /\ Kids(g) = Kids(f) \union {e.child}
             /\ \A s, c, m : RecordsIn(g, s, c, m) =
                  RecordsIn(f, s, c, m) \union one(s = e.step /\ c = e.child /\ e.attempt <= m)
             /\ \A s : PartialRecords(g, s) = PartialRecords(f, s)
<1> DEFINE n == Len(f.steps)
           one(yes) == IF yes THEN {n + 1} ELSE {}
<1>1. /\ n \in Nat /\ DOMAIN f.steps = 1 .. n /\ DOMAIN g.steps = 1 .. (n + 1)
      /\ \A i \in 1 .. n : g.steps[i] = f.steps[i]
      /\ g.steps[n + 1].step = e.step /\ g.steps[n + 1].attempt = e.attempt
      /\ g.steps[n + 1].child = e.child /\ g.steps[n + 1].status = "open"
  BY JoinPlaces
<1> HIDE DEF n
<1>2. /\ 1 .. (n + 1) = (1 .. n) \union {n + 1} /\ n + 1 \notin 1 .. n
      /\ \A i \in 1 .. n : \A j \in 1 .. i : j \in 1 .. n
  BY <1>1
<1>3. ASSUME NEW i \in 1 .. n, NEW x
      PROVE  Until(g, i, x) = Until(f, i, x) /\ UntilIn(g, i, x) = UntilIn(f, i, x)
  BY <1>1, <1>2 DEF Until, UntilIn
<1>4. ASSUME NEW s PROVE Until(g, n + 1, s) = Of(g, s)
  BY <1>1 DEF Until, Of
<1>5. ASSUME NEW s PROVE Of(g, s) = Of(f, s) \union one(s = e.step)
  BY <1>1, <1>2 DEF Of
<1>6. ASSUME NEW c PROVE In(g, c) = In(f, c) \union one(c = e.child)
  BY <1>1, <1>2 DEF In
<1>7. ASSUME NEW c PROVE ClosedIn(g, c) = ClosedIn(f, c)
  BY <1>1, <1>2 DEF ClosedIn, In
<1>8. Kids(g) = Kids(f) \union {e.child}
  BY <1>1, <1>2 DEF Kids
<1>9. ASSUME NEW s, NEW c, NEW m
      PROVE  RecordsIn(g, s, c, m) =
               RecordsIn(f, s, c, m) \union one(s = e.step /\ c = e.child /\ e.attempt <= m)
  BY <1>1, <1>2 DEF RecordsIn
<1>10. ASSUME NEW s PROVE PartialRecords(g, s) = PartialRecords(f, s)
  BY <1>1, <1>2 DEF PartialRecords
<1> QED BY <1>3, <1>4, <1>5, <1>6, <1>7, <1>8, <1>9, <1>10 DEF n

LEMMA CloseSets ==
  ASSUME NEW f, IsSeq(f.steps), NEW e, NEW g, Closes1(f, e, g), e.status # "open"
  PROVE  LET n == Len(f.steps)
             one(yes) == IF yes THEN {n} ELSE {}
         IN  /\ n \in DOMAIN f.steps /\ n \in Nat /\ DOMAIN f.steps = 1 .. n
             /\ DOMAIN g.steps = DOMAIN f.steps /\ IsSeq(g.steps)
             /\ g.steps # <<>> /\ Last(g.steps) = g.steps[n] /\ Last(f.steps) = f.steps[n]
             /\ ~OpenStep(g) /\ f.steps[n].status = "open" /\ f.steps[n].step = e.step
             /\ \A i \in DOMAIN f.steps : /\ g.steps[i].step = f.steps[i].step
                                          /\ g.steps[i].attempt = f.steps[i].attempt
                                          /\ g.steps[i].child = f.steps[i].child
             /\ \A i \in DOMAIN f.steps : \A x : Until(g, i, x) = Until(f, i, x)
                                                /\ UntilIn(g, i, x) = UntilIn(f, i, x)
             /\ \A s : Of(g, s) = Of(f, s)
             /\ \A c : In(g, c) = In(f, c)
                       /\ ClosedIn(g, c) = ClosedIn(f, c) \union one(c = f.steps[n].child)
             /\ Kids(g) = Kids(f)
             /\ \A s, c, m : RecordsIn(g, s, c, m) = RecordsIn(f, s, c, m)
             /\ \A s : PartialRecords(g, s) =
                  PartialRecords(f, s) \union one(s = e.step /\ e.status = "partial")
<1> DEFINE n == Len(f.steps)
           one(yes) == IF yes THEN {n} ELSE {}
<1>1. /\ n \in DOMAIN f.steps /\ n \in Nat /\ DOMAIN f.steps = 1 .. n
      /\ DOMAIN g.steps = DOMAIN f.steps /\ IsSeq(g.steps) /\ Len(g.steps) = n
  BY Places DEF Closes1
<1>2. f.steps # <<>> /\ Last(f.steps) = f.steps[n] /\ f.steps[n].status = "open"
      /\ f.steps[n].step = e.step
  BY <1>1 DEF Closes1, OpenStep, Last
<1>3. g.steps # <<>> /\ Last(g.steps) = g.steps[n]
  BY <1>1 DEF Last
<1>4. /\ \A i \in DOMAIN f.steps : i # n => g.steps[i] = f.steps[i]
      /\ g.steps[n].step = f.steps[n].step /\ g.steps[n].attempt = f.steps[n].attempt
      /\ g.steps[n].child = f.steps[n].child
      /\ g.steps[n].status = e.status
  BY DEF Closes1
<1> HIDE DEF n
<1>5. \A i \in DOMAIN f.steps : /\ g.steps[i].step = f.steps[i].step
                                /\ g.steps[i].attempt = f.steps[i].attempt
                                /\ g.steps[i].child = f.steps[i].child
  BY <1>4
<1>6. ~OpenStep(g)
  BY <1>3, <1>4 DEF OpenStep
<1>7. ASSUME NEW i \in DOMAIN f.steps, NEW x
      PROVE  Until(g, i, x) = Until(f, i, x) /\ UntilIn(g, i, x) = UntilIn(f, i, x)
  <2>1. \A j \in 1 .. i : j \in DOMAIN f.steps
    BY <1>1
  <2> QED BY <1>5, <2>1 DEF Until, UntilIn
<1>8. ASSUME NEW x PROVE Of(g, x) = Of(f, x) /\ In(g, x) = In(f, x)
  BY <1>1, <1>5 DEF Of, In
<1>9. ASSUME NEW c PROVE ClosedIn(g, c) = ClosedIn(f, c) \union one(c = f.steps[n].child)
  BY <1>1, <1>2, <1>4 DEF ClosedIn, In
<1>10. Kids(g) = Kids(f)
  BY <1>1, <1>5 DEF Kids
<1>11. ASSUME NEW s, NEW c, NEW m PROVE RecordsIn(g, s, c, m) = RecordsIn(f, s, c, m)
  BY <1>1, <1>5 DEF RecordsIn
<1>12. ASSUME NEW s
       PROVE  PartialRecords(g, s) =
                PartialRecords(f, s) \union one(s = e.step /\ e.status = "partial")
  BY <1>1, <1>2, <1>4 DEF PartialRecords
<1> QED BY <1>1, <1>2, <1>3, <1>5, <1>6, <1>7, <1>8, <1>9, <1>10, <1>11, <1>12 DEF n

LEMMA RankRises ==
  ASSUME WorkflowsRunOn, wf \in Workflows
  PROVE  Onward(wf, Rank) /\ \A s \in Steps : Rank[s] \in Nat
<1>1. \E rank : Onward(wf, rank)
  BY DEF WorkflowsRunOn
<1>2. Onward(wf, Rank)
  BY <1>1 DEF Rank
<1> HIDE DEF Rank
<1> QED BY <1>2 DEF Onward, Steps

(* The children are numbered as they are made.                             *)
LEMMA KidsCount ==
  ASSUME NEW k \in Nat
  PROVE  Cardinality(1 .. k) = k /\ \A j : j = k + 1 => (1 .. k) \union {j} = 1 .. (k + 1)
<1>1. Cardinality(1 .. k) = k
  BY FS_Interval
<1>2. (1 .. k) \union {k + 1} = 1 .. (k + 1)
  OBVIOUS
<1> QED BY <1>1, <1>2

LEMMA RecordsJoined ==
  ASSUME WorkflowsRunOn, wf \in Workflows,
         NEW f, FoldSound(f), RecordsSound(f), NEW e, e.step \in Steps, NEW q, Startable(f, q, e),
         NEW g, Joins(f, e, g)
  PROVE  RecordsSound(g)
<1> DEFINE n == Len(f.steps)
<1>1. /\ n \in Nat /\ DOMAIN f.steps = 1 .. n /\ DOMAIN g.steps = 1 .. (n + 1)
      /\ Len(g.steps) = n + 1
      /\ \A i \in 1 .. n : g.steps[i] = f.steps[i]
      /\ Last(g.steps) = g.steps[n + 1]
      /\ g.steps[n + 1].step = e.step /\ g.steps[n + 1].attempt = e.attempt
      /\ g.steps[n + 1].child = e.child
      /\ g.steps[n + 1].status = "open" /\ g.steps[n + 1].report = 0
  BY JoinPlaces DEF FoldSound
<1>2. /\ ~OpenStep(f)
      /\ e.attempt = Cardinality(Of(f, e.step)) + 1
      /\ \A i \in DOMAIN f.steps : Rank[f.steps[i].step] <= Rank[e.step]
      /\ \/ e.child = 1 + Cardinality(Kids(f))
         \/ \E i \in DOMAIN f.steps : f.steps[i].child = e.child /\ f.steps[i].step = e.step
  BY DEF Joins, Startable, Top
<1>3. /\ \A i \in 1 .. n : \A x : Until(g, i, x) = Until(f, i, x)
      /\ Until(g, n + 1, e.step) = Of(f, e.step) \union {n + 1}
      /\ Kids(g) = Kids(f) \union {e.child}
  BY JoinSets, SMTT(30) DEF FoldSound
<1> HIDE DEF n
<1>4. \A i \in 1 .. (n + 1) : i = n + 1 \/ i \in 1 .. n
  BY <1>1
<1>5. Numbered(g)
  <2>1. Of(f, e.step) \in SUBSET (1 .. n) /\ n + 1 \notin Of(f, e.step)
    BY <1>1 DEF Of
  <2>2. Cardinality(Of(f, e.step) \union {n + 1}) = Cardinality(Of(f, e.step)) + 1
    BY <1>1, <2>1, CountOf
  <2> SUFFICES ASSUME NEW i \in 1 .. (n + 1)
               PROVE  g.steps[i].attempt = Cardinality(Until(g, i, g.steps[i].step))
    BY <1>1 DEF Numbered
  <2>3. CASE i = n + 1
    BY <1>1, <1>2, <1>3, <2>2, <2>3
  <2>4. CASE i \in 1 .. n
    <3>1. g.steps[i] = f.steps[i] /\ Until(g, i, f.steps[i].step) = Until(f, i, f.steps[i].step)
      BY <1>1, <1>3, <2>4
    <3> QED BY <1>1, <2>4, <3>1 DEF RecordsSound, Numbered
  <2> QED BY <1>4, <2>3, <2>4
<1>6. KidsSound(g)
  <2>1. PICK k \in Nat : Kids(f) = 1 .. k
    BY DEF RecordsSound, KidsSound
  <2>2. \A i, j \in DOMAIN f.steps :
          f.steps[i].child = f.steps[j].child => f.steps[i].step = f.steps[j].step
    BY DEF RecordsSound, KidsSound
  <2>3. \A i \in 1 .. n : f.steps[i].child \in 1 .. k
    BY <1>1, <2>1 DEF Kids
  <2>4. CASE e.child = 1 + Cardinality(Kids(f))
    <3>1. e.child = k + 1 /\ Kids(g) = 1 .. (k + 1)
      BY <1>3, <2>1, <2>4, KidsCount
    <3>2. \A i \in 1 .. n : f.steps[i].child # e.child
      BY <2>3, <3>1
    <3>3. ASSUME NEW i \in 1 .. (n + 1), NEW j \in 1 .. (n + 1),
                 g.steps[i].child = g.steps[j].child
          PROVE  g.steps[i].step = g.steps[j].step
      <4>1. CASE i = n + 1 /\ j = n + 1
        BY <4>1
      <4>2. CASE i \in 1 .. n /\ j \in 1 .. n
        BY <1>1, <2>2, <3>3, <4>2
      <4>3. CASE i \in 1 .. n /\ j = n + 1
        BY <1>1, <3>2, <3>3, <4>3
      <4>4. CASE j \in 1 .. n /\ i = n + 1
        BY <1>1, <3>2, <3>3, <4>4
      <4> QED BY <1>4, <4>1, <4>2, <4>3, <4>4
    <3> QED BY <1>1, <2>1, <3>1, <3>3 DEF KidsSound
  <2>5. CASE \E i \in DOMAIN f.steps : f.steps[i].child = e.child /\ f.steps[i].step = e.step
    <3>1. PICK m \in 1 .. n : f.steps[m].child = e.child /\ f.steps[m].step = e.step
      BY <1>1, <2>5
    <3>2. Kids(g) = 1 .. k
      BY <1>3, <2>1, <2>3, <3>1
    <3>3. ASSUME NEW i \in 1 .. (n + 1), NEW j \in 1 .. (n + 1),
                 g.steps[i].child = g.steps[j].child
          PROVE  g.steps[i].step = g.steps[j].step
      <4>1. CASE i = n + 1 /\ j = n + 1
        BY <4>1
      <4>2. CASE i \in 1 .. n /\ j \in 1 .. n
        <5>1. i \in DOMAIN f.steps /\ j \in DOMAIN f.steps
          BY <1>1, <4>2
        <5>2. g.steps[i] = f.steps[i] /\ g.steps[j] = f.steps[j]
          BY <1>1, <4>2
        <5> QED BY <2>2, <3>3, <5>1, <5>2
      <4>3. CASE i \in 1 .. n /\ j = n + 1
        BY <1>1, <2>2, <3>1, <3>3, <4>3, SMTT(30)
      <4>4. CASE j \in 1 .. n /\ i = n + 1
        BY <1>1, <2>2, <3>1, <3>3, <4>4, SMTT(30)
      <4> QED BY <1>4, <4>1, <4>2, <4>3, <4>4
    <3> QED BY <1>1, <2>1, <3>2, <3>3 DEF KidsSound
  <2> QED BY <1>2, <2>4, <2>5
<1>7. ClosedBefore(g)
  <2>1. ASSUME NEW i \in 1 .. n, f.steps[i].status = "open" PROVE FALSE
    <3>1. i = n
      BY <1>1, <2>1 DEF RecordsSound, ClosedBefore, n
    <3>2. f.steps # <<>> /\ Last(f.steps) = f.steps[n]
      BY <1>1, <3>1 DEF Last, n
    <3> QED BY <1>2, <2>1, <3>1, <3>2 DEF OpenStep
  <2> QED BY <1>1, <1>4, <2>1 DEF ClosedBefore
<1>8. Climbs(g)
  <2>1. Rank[e.step] <= Rank[e.step]
    BY RankRises
  <2> QED BY <1>1, <1>2, <1>4, <2>1 DEF Climbs
<1> QED BY <1>5, <1>6, <1>7, <1>8 DEF RecordsSound

LEMMA RecordsClosed ==
  ASSUME NEW f, FoldSound(f), RecordsSound(f), NEW e, e.status # "open", NEW g, Closes1(f, e, g)
  PROVE  RecordsSound(g)
<1> DEFINE n == Len(f.steps)
<1>1. /\ n \in DOMAIN f.steps /\ DOMAIN g.steps = DOMAIN f.steps
      /\ Last(g.steps) = g.steps[n] /\ Last(f.steps) = f.steps[n]
      /\ \A i \in DOMAIN f.steps : /\ g.steps[i].step = f.steps[i].step
                                   /\ g.steps[i].attempt = f.steps[i].attempt
                                   /\ g.steps[i].child = f.steps[i].child
      /\ \A i \in DOMAIN f.steps : \A x : Until(g, i, x) = Until(f, i, x)
      /\ Kids(g) = Kids(f)
  BY CloseSets DEF FoldSound
<1>2. /\ \A i \in DOMAIN f.steps : i # n => g.steps[i] = f.steps[i]
      /\ g.steps[n].status = e.status
  BY DEF Closes1
<1>3. \A i \in DOMAIN f.steps : f.steps[i].status = "open" => i = n
  BY DEF RecordsSound, ClosedBefore
<1> HIDE DEF n
<1>4. Numbered(g)
  BY <1>1 DEF RecordsSound, Numbered
<1>5. KidsSound(g)
  BY <1>1 DEF RecordsSound, KidsSound
<1>6. ClosedBefore(g)
  BY <1>1, <1>2, <1>3 DEF ClosedBefore
<1>7. Climbs(g)
  BY <1>1 DEF RecordsSound, Climbs
<1> QED BY <1>4, <1>5, <1>6, <1>7 DEF RecordsSound
-----------------------------------------------------------------------------
(* The log and its fold go on telling the same attempts                    *)

Grown(q, e, p) == IsSeq(q) /\ p = Append(q, e)

LEMMA LogGrows ==
  ASSUME NEW q, NEW e, NEW p, Grown(q, e, p)
  PROVE  LET n == Len(q)
             one(yes) == IF yes THEN {n + 1} ELSE {}
         IN  /\ \A s, c, m : StartsIn(p, s, c, m) = StartsIn(q, s, c, m) \union
                  one(e.kind = "step_started" /\ e.step = s /\ e.child = c /\ e.attempt <= m)
             /\ \A s : PartialsIn(p, s) = PartialsIn(q, s) \union one(PartialEvent(e, s))
             /\ e.kind # "step_started" =>
                  \A s, c, m : StartsIn(p, s, c, m) = StartsIn(q, s, c, m)
             /\ e.kind # "step_finished" => \A s : PartialsIn(p, s) = PartialsIn(q, s)
             /\ \A s, c, m : StartsIn(q, s, c, m) \in SUBSET (1 .. n)
             /\ \A s : PartialsIn(q, s) \in SUBSET (1 .. n)
             /\ n \in Nat /\ n + 1 \notin 1 .. n
<1> DEFINE n == Len(q)
           one(yes) == IF yes THEN {n + 1} ELSE {}
<1>1. /\ n \in Nat /\ DOMAIN q = 1 .. n /\ DOMAIN p = 1 .. (n + 1)
      /\ p[n + 1] = e /\ \A i \in 1 .. n : p[i] = q[i]
  BY AppendedPlaces DEF Grown
<1> HIDE DEF n
<1>2. 1 .. (n + 1) = (1 .. n) \union {n + 1} /\ n + 1 \notin 1 .. n
  BY <1>1
<1>3. ASSUME NEW s, NEW c, NEW m
      PROVE  /\ StartsIn(q, s, c, m) \in SUBSET (1 .. n)
             /\ StartsIn(p, s, c, m) = StartsIn(q, s, c, m) \union
                  one(e.kind = "step_started" /\ e.step = s /\ e.child = c /\ e.attempt <= m)
  BY <1>1, <1>2 DEF StartsIn
<1>4. ASSUME NEW s
      PROVE  /\ PartialsIn(q, s) \in SUBSET (1 .. n)
             /\ PartialsIn(p, s) = PartialsIn(q, s) \union one(PartialEvent(e, s))
  BY <1>1, <1>2 DEF PartialsIn
<1>5. ASSUME e.kind # "step_started", NEW s, NEW c, NEW m
      PROVE  StartsIn(p, s, c, m) = StartsIn(q, s, c, m)
  BY <1>1, <1>2, <1>5 DEF StartsIn
<1>6. ASSUME e.kind # "step_finished", NEW s PROVE PartialsIn(p, s) = PartialsIn(q, s)
  BY <1>1, <1>2, <1>6 DEF PartialsIn, PartialEvent
<1> QED BY <1>1, <1>2, <1>3, <1>4, <1>5, <1>6 DEF n

LEMMA RecordsPlaced ==
  ASSUME NEW f, IsSeq(f.steps)
  PROVE  LET n == Len(f.steps)
         IN  /\ n \in Nat /\ n + 1 \notin 1 .. n
             /\ \A s, c, m : RecordsIn(f, s, c, m) \in SUBSET (1 .. n)
             /\ \A s : PartialRecords(f, s) \in SUBSET (1 .. n) /\ Of(f, s) \in SUBSET (1 .. n)
             /\ \A c : In(f, c) \in SUBSET (1 .. n) /\ ClosedIn(f, c) \in SUBSET In(f, c)
<1>1. Len(f.steps) \in Nat /\ DOMAIN f.steps = 1 .. Len(f.steps)
  BY Places
<1> QED BY <1>1 DEF RecordsIn, PartialRecords, Of, In, ClosedIn

LEMMA NewestOn ==
  ASSUME NEW q, NEW e, NEW p, Grown(q, e, p), NEW i \in DOMAIN p
  PROVE  LET n == Len(q)
         IN  /\ i = n + 1 \/ (i # n + 1 /\ i \in DOMAIN q /\ p[i] = q[i])
             /\ p[n + 1] = e
             /\ NewestFinish(p, i) /\ i # n + 1 => NewestFinish(q, i) /\ e.kind # "step_finished"
             /\ NewestEvent(p, i) /\ i # n + 1 => NewestEvent(q, i) /\ e.kind = "run_errored"
<1> DEFINE n == Len(q)
<1>1. /\ n \in Nat /\ DOMAIN q = 1 .. n /\ DOMAIN p = 1 .. (n + 1)
      /\ p[n + 1] = e /\ \A j \in 1 .. n : p[j] = q[j]
  BY AppendedPlaces DEF Grown
<1> HIDE DEF n
<1>2. i = n + 1 \/ (i \in 1 .. n /\ n + 1 > i)
  BY <1>1
<1>3. n + 1 \in DOMAIN p /\ \A j \in 1 .. n : j \in DOMAIN p
  BY <1>1
<1>4. NewestFinish(p, i) /\ i # n + 1 => NewestFinish(q, i) /\ e.kind # "step_finished"
  BY <1>1, <1>2, <1>3 DEF NewestFinish
<1>5. NewestEvent(p, i) /\ i # n + 1 => NewestEvent(q, i) /\ e.kind = "run_errored"
  BY <1>1, <1>2, <1>3 DEF NewestEvent
<1> QED BY <1>1, <1>2, <1>4, <1>5 DEF n

LEMMA LogMatchesOn ==
  ASSUME NEW f, FoldSound(f), NEW q, NEW e, EventSound(e), LogMatches(f, q), ~f.broken,
         RecordsSound(f), NEW g, ~g.broken, Folded(f, e, g), NEW p, Grown(q, e, p)
  PROVE  LogMatches(g, p)
<1>1. IsSeq(f.steps)
  BY DEF FoldSound
<1>2. CASE e.kind = "step_started"
  <2>1. Joins(f, e, g) /\ g.last = e.kind
    BY <1>2 DEF Folded
  <2>2. ASSUME NEW s, NEW c, NEW m
        PROVE  Cardinality(StartsIn(p, s, c, m)) = Cardinality(RecordsIn(g, s, c, m))
    <3> PICK A : A = StartsIn(q, s, c, m)
      OBVIOUS
    <3> PICK B : B = RecordsIn(f, s, c, m)
      OBVIOUS
    <3> PICK a : a = Len(q) + 1
      OBVIOUS
    <3> PICK b : b = Len(f.steps) + 1
      OBVIOUS
    <3>1. /\ StartsIn(p, s, c, m) =
               A \union (IF e.step = s /\ e.child = c /\ e.attempt <= m THEN {a} ELSE {})
          /\ A \in SUBSET (1 .. Len(q)) /\ a \notin A /\ Len(q) \in Nat
      BY <1>2, LogGrows
    <3>2. /\ RecordsIn(g, s, c, m) =
               B \union (IF s = e.step /\ c = e.child /\ e.attempt <= m THEN {b} ELSE {})
          /\ B \in SUBSET (1 .. Len(f.steps)) /\ b \notin B /\ Len(f.steps) \in Nat
      <4>1. B \in SUBSET (1 .. Len(f.steps)) /\ b \notin B /\ Len(f.steps) \in Nat
        BY <1>1, RecordsPlaced
      <4>2. RecordsIn(g, s, c, m) =
               B \union (IF s = e.step /\ c = e.child /\ e.attempt <= m THEN {b} ELSE {})
        BY <1>1, <2>1, JoinSets
      <4> QED BY <4>1, <4>2
    <3>3. Cardinality(A) = Cardinality(B)
      BY DEF LogMatches
    <3>4. Cardinality(A \union {a}) = Cardinality(A) + 1
      BY <3>1, CountOf
    <3>5. Cardinality(B \union {b}) = Cardinality(B) + 1
      BY <3>2, CountOf
    <3>6. A \union {} = A /\ B \union {} = B
      OBVIOUS
    <3> QED BY <3>1, <3>2, <3>3, <3>4, <3>5, <3>6
  <2>3. ASSUME NEW s
        PROVE  Cardinality(PartialsIn(p, s)) <= Cardinality(PartialRecords(g, s))
    <3>1. PartialsIn(p, s) = PartialsIn(q, s)
      BY <1>2, LogGrows
    <3>2. PartialRecords(g, s) = PartialRecords(f, s)
      BY <1>1, <2>1, JoinSets
    <3> QED BY <3>1, <3>2 DEF LogMatches
  <2>4. OpenStep(g)
    BY <1>1, <2>1, JoinPlaces
  <2>5. ASSUME NEW i \in DOMAIN p, NewestEvent(p, i) PROVE p[i].kind = g.last
    BY <1>2, <2>1, <2>5, NewestOn
  <2> QED BY <2>2, <2>3, <2>4, <2>5 DEF LogMatches
<1>3. CASE e.kind = "step_finished"
  <2>1. Closes1(f, e, g) /\ g.last = e.kind /\ e.status # "open"
    BY <1>3 DEF Folded, EventSound
  <2>2. ASSUME NEW s, NEW c, NEW m
        PROVE  Cardinality(StartsIn(p, s, c, m)) = Cardinality(RecordsIn(g, s, c, m))
    <3>1. StartsIn(p, s, c, m) = StartsIn(q, s, c, m)
      BY <1>3, LogGrows
    <3>2. RecordsIn(g, s, c, m) = RecordsIn(f, s, c, m)
      BY <1>1, <2>1, CloseSets
    <3> QED BY <3>1, <3>2 DEF LogMatches
  <2>3. ASSUME NEW s
        PROVE  Cardinality(PartialsIn(p, s)) <= Cardinality(PartialRecords(g, s))
    <3> PICK A : A = PartialsIn(q, s)
      OBVIOUS
    <3> PICK B : B = PartialRecords(f, s)
      OBVIOUS
    <3> PICK a : a = Len(q) + 1
      OBVIOUS
    <3> PICK b : b = Len(f.steps)
      OBVIOUS
    <3>1. /\ PartialsIn(p, s) = A \union (IF s = e.step /\ e.status = "partial" THEN {a} ELSE {})
          /\ A \in SUBSET (1 .. Len(q)) /\ a \notin A /\ Len(q) \in Nat
      BY <1>3, LogGrows DEF PartialEvent
    <3>2. /\ PartialRecords(g, s) = B \union (IF s = e.step /\ e.status = "partial" THEN {b} ELSE {})
          /\ B \in SUBSET (1 .. Len(f.steps)) /\ Len(f.steps) \in Nat
      <4>1. B \in SUBSET (1 .. Len(f.steps)) /\ Len(f.steps) \in Nat
        BY <1>1, RecordsPlaced
      <4>2. PartialRecords(g, s) = B \union (IF s = e.step /\ e.status = "partial" THEN {b} ELSE {})
        BY <1>1, <2>1, CloseSets
      <4> QED BY <4>1, <4>2
    <3>3. b \notin B
      <4>1. f.steps[b].status = "open"
        BY <1>1, <2>1, CloseSets
      <4> QED BY <4>1 DEF PartialRecords
    <3>4. Cardinality(A) <= Cardinality(B) /\ Cardinality(A) \in Nat /\ Cardinality(B) \in Nat
      BY <3>1, <3>2, CountOf DEF LogMatches
    <3>5. Cardinality(A \union {a}) = Cardinality(A) + 1
      BY <3>1, CountOf
    <3>6. Cardinality(B \union {b}) = Cardinality(B) + 1
      BY <3>2, <3>3, CountOf
    <3>7. A \union {} = A /\ B \union {} = B
      OBVIOUS
    <3>8. CASE s = e.step /\ e.status = "partial"
      BY <3>1, <3>2, <3>4, <3>5, <3>6, <3>8
    <3>9. CASE ~(s = e.step /\ e.status = "partial")
      <4>1. PartialsIn(p, s) = A /\ PartialRecords(g, s) = B
        BY <3>1, <3>2, <3>7, <3>9
      <4> QED BY <3>4, <4>1
    <3> QED BY <3>8, <3>9
  <2>4. ASSUME NEW i \in DOMAIN p, NewestFinish(p, i)
        PROVE  /\ g.steps # <<>> /\ p[i].step = Last(g.steps).step
               /\ p[i].status = Last(g.steps).status
    <3>1. p[i] = e
      BY <1>3, <2>4, NewestOn
    <3>2. LET n == Len(f.steps)
          IN  /\ g.steps # <<>> /\ Last(g.steps) = g.steps[n]
              /\ f.steps[n].step = e.step /\ g.steps[n].step = f.steps[n].step
              /\ g.steps[n].status = e.status
      <4>1. LET n == Len(f.steps)
            IN  g.steps # <<>> /\ Last(g.steps) = g.steps[n] /\ f.steps[n].step = e.step
        BY <1>1, <2>1, CloseSets
      <4> QED BY <2>1, <4>1 DEF Closes1
    <3> QED BY <3>1, <3>2
  <2>5. ASSUME NEW i \in DOMAIN p, NewestEvent(p, i) PROVE p[i].kind = g.last
    BY <1>3, <2>1, <2>5, NewestOn
  <2> QED BY <2>2, <2>3, <2>4, <2>5 DEF LogMatches
<1>4. CASE e.kind \notin {"step_started", "step_finished"}
  <2>1. Alike(f, g)
    BY <1>4 DEF Folded
  <2>2. ASSUME NEW s, NEW c, NEW m
        PROVE  Cardinality(StartsIn(p, s, c, m)) = Cardinality(RecordsIn(g, s, c, m))
    <3>1. StartsIn(p, s, c, m) = StartsIn(q, s, c, m)
      BY <1>4, LogGrows
    <3>2. RecordsIn(g, s, c, m) = RecordsIn(f, s, c, m)
      BY <1>1, <2>1, AlikeSets
    <3> QED BY <3>1, <3>2 DEF LogMatches
  <2>3. ASSUME NEW s
        PROVE  Cardinality(PartialsIn(p, s)) <= Cardinality(PartialRecords(g, s))
    <3>1. PartialsIn(p, s) = PartialsIn(q, s)
      BY <1>4, LogGrows
    <3>2. PartialRecords(g, s) = PartialRecords(f, s)
      BY <1>1, <2>1, AlikeSets
    <3> QED BY <3>1, <3>2 DEF LogMatches
  <2>4. ASSUME ~OpenStep(g), NEW i \in DOMAIN p, NewestFinish(p, i)
        PROVE  /\ g.steps # <<>> /\ p[i].step = Last(g.steps).step
               /\ p[i].status = Last(g.steps).status
    <3>1. i \in DOMAIN q /\ p[i] = q[i] /\ NewestFinish(q, i)
      BY <1>4, <2>4, NewestOn DEF NewestFinish
    <3>2. /\ OpenStep(g) = OpenStep(f) /\ (g.steps = <<>>) = (f.steps = <<>>)
          /\ f.steps # <<>> => /\ Len(f.steps) \in DOMAIN f.steps
                               /\ Last(f.steps) = f.steps[Len(f.steps)]
                               /\ Last(g.steps) = g.steps[Len(f.steps)]
      BY <1>1, <2>1, AlikePlaces
    <3>3. f.steps # <<>> /\ q[i].step = Last(f.steps).step /\ q[i].status = Last(f.steps).status
      BY <2>4, <3>1, <3>2 DEF LogMatches
    <3> QED BY <2>1, <3>1, <3>2, <3>3 DEF Alike, Same
  <2>5. ASSUME NEW i \in DOMAIN p, NewestEvent(p, i)
        PROVE  p[i].kind = g.last \/ p[i].kind = "budget_raised"
    <3>1. CASE e.kind = "budget_raised"
      BY <2>5, <3>1, NewestOn
    <3>2. CASE e.kind = "run_errored"
      <4>1. i \in DOMAIN q /\ p[i] = q[i] /\ NewestEvent(q, i)
        BY <2>5, <3>2, NewestOn DEF NewestEvent
      <4>2. q[i].kind = f.last \/ q[i].kind = "budget_raised"
        BY <4>1 DEF LogMatches
      <4> QED BY <3>2, <4>1, <4>2 DEF Folded
    <3>3. CASE e.kind \notin {"budget_raised", "run_errored"}
      <4>1. p[i] = e
        BY <2>5, <3>3, NewestOn
      <4>2. g.last = e.kind
        BY <3>3 DEF Folded
      <4> QED BY <4>1, <4>2
    <3> QED BY <3>1, <3>2, <3>3
  <2> QED BY <2>2, <2>3, <2>4, <2>5 DEF LogMatches
<1> QED BY <1>2, <1>3, <1>4

LEMMA LogSentBackOn ==
  ASSUME NEW f, NEW q, NEW e, LogMatches(f, q), LogSentBack(q),
         e.kind = "step_started" => Startable(f, q, e), NEW p, Grown(q, e, p)
  PROVE  LogSentBack(p)
<1> DEFINE n == Len(q)
<1>1. /\ n \in Nat /\ DOMAIN q = 1 .. n /\ DOMAIN p = 1 .. (n + 1)
      /\ p[n + 1] = e /\ \A i \in 1 .. n : p[i] = q[i]
  BY AppendedPlaces DEF Grown
<1> HIDE DEF n
<1>2. ASSUME NEW i \in 1 .. n, p[i].kind = "step_started" PROVE SentBack(p, i)
  <2>1. SentBack(q, i) /\ \A j \in 1 .. i : p[j] = q[j]
    BY <1>1, <1>2 DEF LogSentBack
  <2>2. ASSUME NEW b \in 1 .. (i - 1)
        PROVE  b \in 1 .. i /\ \A j \in (b + 1) .. (i - 1) : j \in 1 .. i
    OBVIOUS
  <2> QED BY <2>1, <2>2 DEF SentBack
<1>3. ASSUME e.kind = "step_started" PROVE SentBack(p, n + 1)
  <2>1. Startable(f, q, e) /\ ~f.broken
    BY <1>3 DEF Startable
  <2>2. ASSUME NEW b \in 1 .. n, p[b].kind # "run_errored",
               \A j \in (b + 1) .. n : p[j].kind = "run_errored"
        PROVE  /\ p[b].kind = "checks_run" =>
                    /\ FailEvent(p[b], e.step)
                    /\ \A j \in 1 .. n : FailEvent(p[j], e.step) => j = b
               /\ p[b].kind = "step_finished" =>
                    /\ PartialEvent(p[b], e.step)
                    /\ \A j \in 1 .. n : PartialEvent(p[j], e.step) => j = b
    <3>1. b \in DOMAIN q /\ p[b] = q[b] /\ q[b].kind # "run_errored"
      BY <1>1, <2>2
    <3>2. \A j \in DOMAIN q : j > b => q[j].kind = "run_errored"
      <4>1. \A j \in 1 .. n : j > b => j \in (b + 1) .. n
        BY <1>1
      <4> QED BY <1>1, <2>2, <4>1
    <3>3. q[b].kind = f.last \/ q[b].kind = "budget_raised"
      BY <2>1, <3>1, <3>2 DEF LogMatches, NewestEvent
    <3>4. ASSUME p[b].kind = "checks_run"
          PROVE  /\ FailEvent(p[b], e.step)
                 /\ \A j \in 1 .. n : FailEvent(p[j], e.step) => j = b
      <4>1. PICK d \in DOMAIN q :
               /\ q[d].kind = "checks_run" /\ \A j \in DOMAIN q : j > d => q[j].kind # "checks_run"
               /\ FailEvent(q[d], e.step)
               /\ \A j \in DOMAIN q : FailEvent(q[j], e.step) => j = d
        BY <2>1, <3>1, <3>3, <3>4 DEF Startable
      <4>2. ~(b > d) /\ ~(d > b)
        BY <3>1, <3>2, <3>4, <4>1
      <4>3. b = d
        BY <1>1, <4>2
      <4> QED BY <1>1, <4>1, <4>3
    <3>5. ASSUME p[b].kind = "step_finished"
          PROVE  /\ PartialEvent(p[b], e.step)
                 /\ \A j \in 1 .. n : PartialEvent(p[j], e.step) => j = b
      <4>1. PICK d \in DOMAIN q :
               /\ NewestFinish(q, d) /\ PartialEvent(q[d], e.step)
               /\ \A j \in DOMAIN q : PartialEvent(q[j], e.step) => j = d
        BY <2>1, <3>1, <3>3, <3>5 DEF Startable
      <4>2. ~(b > d) /\ ~(d > b)
        BY <3>1, <3>2, <3>5, <4>1 DEF NewestFinish
      <4>3. b = d
        BY <1>1, <4>2
      <4> QED BY <1>1, <4>1, <4>3
    <3> QED BY <3>4, <3>5
  <2>3. (n + 1) - 1 = n
    BY <1>1
  <2> QED BY <1>1, <2>2, <2>3 DEF SentBack
<1>4. \A i \in DOMAIN p : i \in 1 .. n \/ i = n + 1
  BY <1>1
<1> QED BY <1>1, <1>2, <1>3, <1>4 DEF LogSentBack
-----------------------------------------------------------------------------
(* Where the run may go                                                    *)

(* No gate of the runner's own has anything behind it, but failed checks.  *)
LEMMA GatesApart ==
  ASSUME WorkflowsRunOn, wf \in Workflows, NEW f, NEW q,
         NEW gate \in RunnerGates, gate # "checks_failed"
  PROVE  GateSound(f, q, gate)
BY DEF WorkflowsRunOn, GateSound, Steps

LEMMA TopStays ==
  ASSUME NEW f, IsSeq(f.steps), NEW g, Alike(f, g), NEW s
  PROVE  (Top(f, s) => Top(g, s)) /\ (Ahead(f, s) => Ahead(g, s))
<1>1. DOMAIN g.steps = DOMAIN f.steps /\ OpenStep(g) = OpenStep(f)
  BY AlikePlaces
<1>2. \A i \in DOMAIN f.steps : g.steps[i].step = f.steps[i].step
  BY DEF Alike, Same
<1> QED BY <1>1, <1>2 DEF Top, Ahead

LEMMA CourseStays ==
  ASSUME NEW f, IsSeq(f.steps), NEW q, IsSeq(q), NEW e, NEW g, Alike(f, g), SameLast(f, g),
         g.route = f.route,
         f.steps # <<>> => g.steps # <<>> /\ Last(g.steps).pushed = Last(f.steps).pushed,
         e.kind \notin Checking, NEW p, p = Append(q, e)
  PROVE  /\ \A x : Leads(f, x) => Leads(g, x)
         /\ \A gate : GateSound(f, q, gate) => GateSound(g, p, gate)
<1>1. (g.steps = <<>>) = (f.steps = <<>>) /\ OpenStep(g) = OpenStep(f)
  BY AlikePlaces
<1>2. \A s : (Top(f, s) => Top(g, s)) /\ (Ahead(f, s) => Ahead(g, s))
  BY TopStays
<1>3. Backed(f, q, "checks_run") => Backed(g, p, "checks_run")
  BY BackedOn
<1>4. ASSUME NEW x, Leads(f, x) PROVE Leads(g, x)
  BY <1>1, <1>2, <1>4 DEF Leads
<1>5. ASSUME NEW gate, GateSound(f, q, gate) PROVE GateSound(g, p, gate)
  BY <1>2, <1>3, <1>5 DEF GateSound
<1> QED BY <1>4, <1>5

(* What an event needs to be written.                                      *)
Fitting(f, q, cs, e) ==
    /\ e.kind = "step_started" => Startable(f, q, e)
    /\ e.kind = "route_taken" /\ e.taken \in Steps => Ahead(f, e.taken)
    /\ e.kind = "step_finished" => Finishable(f, cs, e)
    /\ e.kind = "checkpoint_asked" /\ e.gate \notin {BudgetGate, StepStop} => GateSound(f, q, e.gate)
    /\ e.kind \in {"checks_run", "pushed", "budget_raised"} => Justified(f, q, e)
    /\ ~f.broken => \/ e.kind \in {"checkpoint_answered", "run_errored"}
                    \/ f.last # "checkpoint_asked"

LEMMA CourseOn ==
  ASSUME WorkflowsRunOn, wf \in Workflows,
         NEW f, FoldSound(f), NEW q, IsSeq(q), NEW e, EventSound(e), NEW cs, Fitting(f, q, cs, e),
         FoldBacked(f, q), CourseSound(f, q), ~f.broken,
         NEW g, ~g.broken, Folded(f, e, g), e.kind # "run_started", NEW p, p = Append(q, e)
  PROVE  CourseSound(g, p)
<1>1. IsSeq(f.steps)
  BY DEF FoldSound
<1>2. /\ f.pending # None => f.last = "checkpoint_asked"
      /\ \A x \in MayCall(f) : Leads(f, x)
      /\ \A gate : gate # None /\ AskedAt(f, gate) => GateSound(f, q, gate)
  BY DEF FoldBacked, CourseSound
<1>3. e.kind \notin {"checkpoint_answered", "run_errored"} => f.pending = None
  BY <1>2 DEF Fitting
<1>4. CASE e.kind \notin {"checkpoint_asked", "checkpoint_answered", "budget_raised", "run_errored"}
  <2>1. g.last = e.kind /\ g.pending = None
    BY <1>3, <1>4 DEF Folded
  <2>2. \A gate : gate # None => ~AskedAt(g, gate)
    BY <1>4, <2>1 DEF AskedAt
  <2>3. \A x \in MayCall(g) : x = e.kind
    BY <2>1, <2>2 DEF MayCall, None, BudgetGate, StepStop
  <2>4. Leads(g, e.kind)
    <3>1. e.kind = "step_started" => OpenStep(g)
      BY <1>1, JoinPlaces DEF Folded
    <3>2. e.kind = "pushed" => g.steps # <<>> /\ Last(g.steps).pushed
      BY DEF Folded
    <3>3. ASSUME e.kind = "route_taken", g.route.taken \in Steps PROVE Ahead(g, g.route.taken)
      <4>1. Alike(f, g) /\ g.route.taken = e.taken
        BY <3>3 DEF Folded
      <4>2. Ahead(f, e.taken)
        BY <3>3, <4>1 DEF Fitting
      <4> QED BY <1>1, <4>1, <4>2, TopStays
    <3> QED BY <3>1, <3>2, <3>3 DEF Leads
  <2> QED BY <2>2, <2>3, <2>4 DEF CourseSound
<1>5. CASE e.kind \in {"checkpoint_asked", "checkpoint_answered", "budget_raised", "run_errored"}
  <2>1. /\ Alike(f, g) /\ SameLast(f, g) /\ g.route = f.route /\ e.kind \notin Checking
        /\ f.steps # <<>> => g.steps # <<>> /\ Last(g.steps).pushed = Last(f.steps).pushed
    BY <1>5 DEF Folded, Checking
  <2>2. /\ \A x : Leads(f, x) => Leads(g, x)
        /\ \A gate : GateSound(f, q, gate) => GateSound(g, p, gate)
    BY <1>1, <2>1, CourseStays
  <2>3. \A x \in MayCall(f) : Leads(g, x)
    BY <1>2, <2>2
  <2>4. \A gate : gate # None /\ AskedAt(f, gate) => GateSound(g, p, gate)
    BY <1>2, <2>2
  <2>5. Leads(g, "checkpoint_asked") /\ Leads(g, "checkpoint_answered") /\ Leads(g, None)
    BY DEF Leads, None
  <2>6. CASE e.kind = "checkpoint_asked"
    <3>1. /\ g.last = e.kind /\ g.pending = e.gate
          /\ e.gate = BudgetGate => g.atBudget = f.last
          /\ e.gate = StepStop => g.atStep = f.last
      BY <2>6 DEF Folded
    <3>2. \A x \in MayCall(g) : x \in {"checkpoint_asked", f.last}
      BY <2>6, <3>1 DEF MayCall, AskedAt
    <3>3. \A gate : AskedAt(g, gate) => gate = e.gate
      BY <2>6, <3>1 DEF AskedAt
    <3>4. GateSound(g, p, e.gate)
      <4>1. CASE e.gate \in {BudgetGate, StepStop}
        <5>1. e.gate \in RunnerGates /\ e.gate # "checks_failed"
          BY <4>1 DEF RunnerGates, BudgetGate, StepStop
        <5> QED BY <5>1, GatesApart
      <4>2. CASE e.gate \notin {BudgetGate, StepStop}
        BY <2>2, <2>6, <4>2 DEF Fitting
      <4> QED BY <4>1, <4>2
    <3>5. Leads(g, f.last)
      BY <2>3 DEF MayCall
    <3> QED BY <2>5, <3>2, <3>3, <3>4, <3>5 DEF CourseSound
  <2>7. CASE e.kind = "checkpoint_answered"
    <3>1. /\ g.last = e.kind /\ g.pending = None /\ g.answered.gate = f.pending
          /\ g.atBudget = f.atBudget /\ g.atStep = f.atStep
      BY <2>7 DEF Folded
    <3>2. \A x \in MayCall(g) : x = "checkpoint_answered" \/ x \in MayCall(f)
      BY <2>7, <3>1 DEF MayCall, AskedAt, None, BudgetGate, StepStop
    <3>3. \A gate : gate # None /\ AskedAt(g, gate) => AskedAt(f, gate)
      BY <2>7, <3>1 DEF AskedAt
    <3> QED BY <2>3, <2>4, <2>5, <3>2, <3>3 DEF CourseSound
  <2>8. CASE e.kind = "budget_raised"
    <3>1. /\ g.pending = f.pending /\ g.answered = f.answered
          /\ e.step = None => g.last = f.atBudget /\ g.atBudget = None /\ g.atStep = f.atStep
          /\ e.step # None => g.last = f.atStep /\ g.atStep = None /\ g.atBudget = f.atBudget
      BY <2>8 DEF Folded
    <3>2. /\ f.last = "checkpoint_answered" /\ f.pending = None
          /\ f.answered.gate = IF e.step = None THEN BudgetGate ELSE StepStop
      BY <1>3, <2>8 DEF Fitting, Justified
    <3>3. g.last \in MayCall(f)
      BY <3>1, <3>2 DEF MayCall, AskedAt
    <3>4. \A x \in MayCall(g) : x \in {g.last, None}
      BY <3>1, <3>2 DEF MayCall, AskedAt, None, BudgetGate, StepStop
    <3>5. \A gate : gate # None /\ AskedAt(g, gate) => AskedAt(f, gate)
      BY <3>1, <3>2 DEF AskedAt
    <3> QED BY <2>3, <2>4, <2>5, <3>3, <3>4, <3>5 DEF CourseSound
  <2>9. CASE e.kind = "run_errored"
    <3>1. /\ g.last = f.last /\ g.pending = f.pending /\ g.answered = f.answered
          /\ g.atBudget = f.atBudget /\ g.atStep = f.atStep
      BY <2>9 DEF Folded
    <3>2. MayCall(g) = MayCall(f) /\ \A gate : AskedAt(g, gate) = AskedAt(f, gate)
      BY <3>1 DEF MayCall, AskedAt
    <3> QED BY <2>3, <2>4, <3>2 DEF CourseSound
  <2> QED BY <1>5, <2>6, <2>7, <2>8, <2>9
<1> QED BY <1>4, <1>5

(* One more event, and the fold is still apart.                            *)
LEMMA FoldApartOn ==
  ASSUME WorkflowsRunOn, wf \in Workflows,
         NEW f, FoldSound(f), NEW q, IsSeq(q), NEW e, EventSound(e), NEW cs, Fitting(f, q, cs, e),
         FoldBacked(f, q), FoldApart(f, q), NEW g, g = After(f, e), NEW p, p = Append(q, e)
  PROVE  FoldApart(g, p)
<1>1. Grown(q, e, p) /\ IsSeq(f.steps)
  BY DEF Grown, FoldSound
<1>2. LogSentBack(p)
  BY <1>1, LogSentBackOn DEF FoldApart, Fitting
<1>3. CASE g.broken
  <2>1. g.steps = f.steps
    BY <1>3, BrokenAfter
  <2>2. RecordsSound(g)
    BY <1>1, <2>1, StepsAlike, RecordsAlike DEF FoldApart
  <2> QED BY <1>2, <1>3, <2>2 DEF FoldApart, LogMatches, CourseSound
<1>4. CASE ~g.broken
  <2>1. ~f.broken
    BY <1>4 DEF After
  <2>2. Folded(f, e, g)
    BY <1>4, <2>1, AfterFolded
  <2>3. e.kind # "run_started"
    <3>1. Broken(f).broken /\ f.last # None
      BY DEF FoldSound, FoldShape, FoldFields, Broken, Decisive, None
    <3> QED BY <1>4, <2>1, <3>1 DEF After
  <2>4. RecordsSound(g)
    <3>1. CASE e.kind = "step_started"
      <4>1. Startable(f, q, e) /\ Joins(f, e, g) /\ e.step \in Steps
        BY <2>2, <3>1 DEF Fitting, Folded, EventSound
      <4> QED BY <4>1, RecordsJoined DEF FoldApart
    <3>2. CASE e.kind = "step_finished"
      <4>1. Closes1(f, e, g) /\ e.status # "open"
        BY <2>2, <3>2 DEF Folded, EventSound
      <4> QED BY <4>1, RecordsClosed DEF FoldApart
    <3>3. CASE e.kind \notin {"step_started", "step_finished"}
      <4>1. Alike(f, g)
        BY <2>2, <3>3 DEF Folded
      <4> QED BY <1>1, <4>1, RecordsAlike DEF FoldApart
    <3> QED BY <3>1, <3>2, <3>3
  <2>5. LogMatches(g, p)
    BY <1>1, <1>4, <2>1, <2>2, LogMatchesOn DEF FoldApart
  <2>6. CourseSound(g, p)
    BY <1>4, <2>1, <2>2, <2>3, CourseOn DEF FoldApart
  <2> QED BY <1>2, <2>4, <2>5, <2>6 DEF FoldApart
<1> QED BY <1>3, <1>4
-----------------------------------------------------------------------------
(* The children's logs and the records                                     *)

LogsSound(cs) == IsSeq(cs) /\ \A l \in Range(cs) : IsSeq(l)

LEMMA PromptPlaces ==
  ASSUME NEW cs, LogsSound(cs), NEW c
  PROVE  /\ IsSeq(LogIn(cs, c)) /\ Len(LogIn(cs, c)) \in Nat
         /\ DOMAIN LogIn(cs, c) = 1 .. Len(LogIn(cs, c))
         /\ PromptsIn(cs, c) \in SUBSET (1 .. Len(LogIn(cs, c)))
         /\ Cardinality(PromptsIn(cs, c)) \in Nat
<1>1. IsSeq(LogIn(cs, c))
  <2>1. CASE c \in DOMAIN cs
    <3>1. cs[c] \in Range(cs)
      BY <2>1 DEF Range
    <3> QED BY <2>1, <3>1 DEF LogsSound, LogIn
  <2>2. CASE c \notin DOMAIN cs
    BY <2>2, Few DEF LogIn
  <2> QED BY <2>1, <2>2
<1>2. Len(LogIn(cs, c)) \in Nat /\ DOMAIN LogIn(cs, c) = 1 .. Len(LogIn(cs, c))
  BY <1>1, Places
<1>3. PromptsIn(cs, c) \in SUBSET (1 .. Len(LogIn(cs, c)))
  BY <1>2 DEF PromptsIn
<1>4. Cardinality(PromptsIn(cs, c)) \in Nat
  BY <1>2, <1>3, CountOf
<1> QED BY <1>1, <1>2, <1>3, <1>4

LEMMA RecordCounts ==
  ASSUME NEW f, IsSeq(f.steps), NEW c
  PROVE  /\ Cardinality(In(f, c)) \in Nat /\ Cardinality(ClosedIn(f, c)) \in Nat
         /\ Cardinality(ClosedIn(f, c)) <= Cardinality(In(f, c))
         /\ c \notin Kids(f) => Cardinality(In(f, c)) = 0 /\ Cardinality(ClosedIn(f, c)) = 0
<1> DEFINE n == Len(f.steps)
<1>1. n \in Nat /\ In(f, c) \in SUBSET (1 .. n) /\ ClosedIn(f, c) \in SUBSET In(f, c)
  BY RecordsPlaced
<1> HIDE DEF n
<1>2. ClosedIn(f, c) \in SUBSET (1 .. n)
  BY <1>1
<1>3. /\ Cardinality(In(f, c)) \in Nat
      /\ Cardinality(ClosedIn(f, c)) <= Cardinality(In(f, c))
      /\ In(f, c) = {} <=> Cardinality(In(f, c)) = 0
  BY <1>1, CountOf
<1>4. Cardinality(ClosedIn(f, c)) \in Nat /\ (ClosedIn(f, c) = {} <=> Cardinality(ClosedIn(f, c)) = 0)
  BY <1>1, <1>2, CountOf
<1>5. c \notin Kids(f) => In(f, c) = {} /\ ClosedIn(f, c) = {}
  BY DEF Kids, In, ClosedIn
<1> QED BY <1>3, <1>4, <1>5

LEMMA ChildrenAlike ==
  ASSUME NEW f, IsSeq(f.steps), NEW g, Alike(f, g), NEW cs, ChildrenApart(f, cs),
         ~g.broken => ~f.broken
  PROVE  ChildrenApart(g, cs)
<1>1. DOMAIN g.steps = DOMAIN f.steps
  BY AlikePlaces
<1>2. \A i \in DOMAIN f.steps : Same(f.steps[i], g.steps[i])
  BY DEF Alike
<1>3. /\ \A i \in DOMAIN f.steps : \A c : UntilIn(g, i, c) = UntilIn(f, i, c)
      /\ \A c : In(g, c) = In(f, c) /\ ClosedIn(g, c) = ClosedIn(f, c)
      /\ Kids(g) = Kids(f)
  BY AlikeSets
<1>4. PromptsSound(g, cs)
  BY <1>3 DEF ChildrenApart, PromptsSound
<1>5. ReportsSound(g, cs)
  <2> SUFFICES ASSUME NEW i \in DOMAIN f.steps PROVE ReportFits(g, cs, i, g.steps[i].report)
    BY <1>1 DEF ReportsSound
  <2>1. ReportFits(f, cs, i, f.steps[i].report)
    BY DEF ChildrenApart, ReportsSound
  <2>2. Same(f.steps[i], g.steps[i])
    BY <1>2
  <2>3. UntilIn(g, i, f.steps[i].child) = UntilIn(f, i, f.steps[i].child)
    BY <1>3
  <2> QED BY <2>1, <2>2, <2>3 DEF ReportFits, Same
<1> QED BY <1>3, <1>4, <1>5 DEF ChildrenApart

LEMMA ChildrenJoined ==
  ASSUME NEW f, IsSeq(f.steps), NEW e, NEW g, Joins(f, e, g), ~f.broken,
         NEW cs, LogsSound(cs), ChildrenApart(f, cs)
  PROVE  ChildrenApart(g, cs)
<1> DEFINE n == Len(f.steps)
<1>1. /\ n \in Nat /\ DOMAIN f.steps = 1 .. n /\ DOMAIN g.steps = 1 .. (n + 1)
      /\ \A i \in 1 .. n : g.steps[i] = f.steps[i]
      /\ g.steps[n + 1].report = 0
  BY JoinPlaces
<1>2. /\ \A i \in 1 .. n : \A x : UntilIn(g, i, x) = UntilIn(f, i, x)
      /\ \A c : In(g, c) = In(f, c) \union (IF c = e.child THEN {n + 1} ELSE {})
      /\ \A c : ClosedIn(g, c) = ClosedIn(f, c)
      /\ Kids(g) = Kids(f) \union {e.child}
  BY JoinSets
<1> HIDE DEF n
<1>3. PromptsSound(g, cs)
  <2> SUFFICES ASSUME NEW c \in Kids(g) \union DOMAIN cs
               PROVE  /\ Cardinality(ClosedIn(g, c)) <= Cardinality(PromptsIn(cs, c))
                      /\ Cardinality(PromptsIn(cs, c)) <= Cardinality(In(g, c))
    BY DEF PromptsSound
  <2>1. /\ Cardinality(In(f, c)) \in Nat /\ Cardinality(ClosedIn(f, c)) \in Nat
        /\ c \notin Kids(f) => Cardinality(In(f, c)) = 0 /\ Cardinality(ClosedIn(f, c)) = 0
        /\ Cardinality(PromptsIn(cs, c)) \in Nat
    BY RecordCounts, PromptPlaces
  <2>2. /\ Cardinality(ClosedIn(f, c)) <= Cardinality(PromptsIn(cs, c))
        /\ Cardinality(PromptsIn(cs, c)) <= Cardinality(In(f, c))
    <3>1. CASE c \in Kids(f) \union DOMAIN cs
      BY <3>1 DEF ChildrenApart, PromptsSound
    <3>2. CASE c \notin Kids(f) \union DOMAIN cs
      <4>1. PromptsIn(cs, c) = {}
        BY <3>2 DEF PromptsIn, LogIn
      <4>2. Cardinality(PromptsIn(cs, c)) = 0
        BY <4>1, FS_EmptySet
      <4> QED BY <2>1, <3>2, <4>2
    <3> QED BY <3>1, <3>2
  <2>3. Cardinality(In(f, c)) <= Cardinality(In(g, c)) /\ Cardinality(In(g, c)) \in Nat
    <3>1. In(f, c) \in SUBSET In(g, c) /\ In(g, c) \in SUBSET (1 .. (n + 1)) /\ n + 1 \in Nat
      BY <1>1, <1>2 DEF In
    <3> QED BY <3>1, CountOf
  <2> QED BY <1>2, <2>1, <2>2, <2>3
<1>4. ReportsSound(g, cs)
  <2> SUFFICES ASSUME NEW i \in 1 .. (n + 1) PROVE ReportFits(g, cs, i, g.steps[i].report)
    BY <1>1 DEF ReportsSound
  <2>1. CASE i = n + 1
    BY <1>1, <2>1 DEF ReportFits
  <2>2. CASE i # n + 1
    <3>1. i \in 1 .. n /\ g.steps[i] = f.steps[i]
      BY <1>1, <2>2
    <3>2. ReportFits(f, cs, i, f.steps[i].report)
      BY <1>1, <3>1 DEF ChildrenApart, ReportsSound
    <3> QED BY <1>2, <3>1, <3>2 DEF ReportFits
  <2> QED BY <2>1, <2>2
<1> QED BY <1>2, <1>3, <1>4 DEF ChildrenApart

LEMMA ChildrenClosed ==
  ASSUME NEW f, IsSeq(f.steps), NEW e, e.status # "open", NEW g, Closes1(f, e, g), ~f.broken,
         NEW cs, LogsSound(cs), ChildrenApart(f, cs), Finishable(f, cs, e)
  PROVE  ChildrenApart(g, cs)
<1> DEFINE n == Len(f.steps)
<1>1. /\ n \in DOMAIN f.steps /\ DOMAIN g.steps = DOMAIN f.steps
      /\ Last(f.steps) = f.steps[n] /\ IsSeq(g.steps)
      /\ \A i \in DOMAIN f.steps : g.steps[i].attempt = f.steps[i].attempt
                                   /\ g.steps[i].child = f.steps[i].child
      /\ \A i \in DOMAIN f.steps : \A x : UntilIn(g, i, x) = UntilIn(f, i, x)
      /\ \A c : In(g, c) = In(f, c)
      /\ \A c : ClosedIn(g, c) =
           ClosedIn(f, c) \union (IF c = f.steps[n].child THEN {n} ELSE {})
      /\ Kids(g) = Kids(f)
  BY CloseSets
<1>2. /\ \A i \in DOMAIN f.steps : i # n => g.steps[i] = f.steps[i]
      /\ g.steps[n].report = e.report
  BY DEF Closes1
<1>3. ~Owes(f, cs, f.steps[n].child) /\ ReportFits(f, cs, n, e.report)
  BY <1>1 DEF Finishable
<1> HIDE DEF n
<1>4. PromptsSound(g, cs)
  <2> SUFFICES ASSUME NEW c \in Kids(f) \union DOMAIN cs
               PROVE  /\ Cardinality(ClosedIn(g, c)) <= Cardinality(PromptsIn(cs, c))
                      /\ Cardinality(PromptsIn(cs, c)) <= Cardinality(In(f, c))
    BY <1>1 DEF PromptsSound
  <2>1. /\ Cardinality(ClosedIn(f, c)) <= Cardinality(PromptsIn(cs, c))
        /\ Cardinality(PromptsIn(cs, c)) <= Cardinality(In(f, c))
    BY DEF ChildrenApart, PromptsSound
  <2>2. CASE c # f.steps[n].child
    <3>1. ClosedIn(g, c) = ClosedIn(f, c)
      BY <1>1, <2>2
    <3> QED BY <2>1, <3>1
  <2>3. CASE c = f.steps[n].child
    <3>1. /\ Cardinality(In(f, c)) \in Nat /\ Cardinality(PromptsIn(cs, c)) \in Nat
          /\ Cardinality(ClosedIn(g, c)) <= Cardinality(In(f, c))
          /\ Cardinality(ClosedIn(g, c)) \in Nat
      BY <1>1, RecordCounts, PromptPlaces
    <3>2. ~(Cardinality(PromptsIn(cs, c)) < Cardinality(In(f, c)))
      BY <1>3, <2>3 DEF Owes
    <3> QED BY <2>1, <3>1, <3>2
  <2> QED BY <2>2, <2>3
<1>5. ReportsSound(g, cs)
  <2> SUFFICES ASSUME NEW i \in DOMAIN f.steps PROVE ReportFits(g, cs, i, g.steps[i].report)
    BY <1>1 DEF ReportsSound
  <2>1. CASE i = n
    BY <1>1, <1>2, <1>3, <2>1 DEF ReportFits
  <2>2. CASE i # n
    <3>1. ReportFits(f, cs, i, f.steps[i].report)
      BY DEF ChildrenApart, ReportsSound
    <3> QED BY <1>1, <1>2, <2>2, <3>1 DEF ReportFits
  <2> QED BY <2>1, <2>2
<1> QED BY <1>1, <1>4, <1>5 DEF ChildrenApart

LEMMA ChildrenOn ==
  ASSUME NEW f, FoldSound(f), NEW q, NEW e, EventSound(e), NEW cs, Fitting(f, q, cs, e),
         LogsSound(cs), ChildrenApart(f, cs), NEW g, g = After(f, e)
  PROVE  ChildrenApart(g, cs) /\ (~g.broken => Kids(f) \subseteq Kids(g))
                              /\ (~g.broken /\ e.kind = "step_started" => e.child \in Kids(g))
<1>1. IsSeq(f.steps)
  BY DEF FoldSound
<1>2. CASE g.broken
  <2>1. Alike(f, g)
    BY <1>1, <1>2, BrokenAfter, StepsAlike
  <2> QED BY <1>1, <1>2, <2>1, ChildrenAlike
<1>3. CASE ~g.broken
  <2>1. ~f.broken /\ Folded(f, e, g)
    <3>1. ~f.broken
      BY <1>3 DEF After
    <3> QED BY <1>3, <3>1, AfterFolded
  <2>2. CASE e.kind = "step_started"
    <3>1. Joins(f, e, g)
      BY <2>1, <2>2 DEF Folded
    <3>2. Kids(g) = Kids(f) \union {e.child}
      BY <1>1, <3>1, JoinSets
    <3> QED BY <1>1, <2>1, <3>1, <3>2, ChildrenJoined
  <2>3. CASE e.kind = "step_finished"
    <3>1. Closes1(f, e, g) /\ e.status # "open" /\ Finishable(f, cs, e)
      BY <2>1, <2>3 DEF Folded, EventSound, Fitting
    <3>2. Kids(g) = Kids(f)
      BY <1>1, <3>1, CloseSets
    <3> QED BY <1>1, <2>1, <2>3, <3>1, <3>2, ChildrenClosed
  <2>4. CASE e.kind \notin {"step_started", "step_finished"}
    <3>1. Alike(f, g)
      BY <2>1, <2>4 DEF Folded
    <3>2. Kids(g) = Kids(f)
      BY <1>1, <3>1, AlikeSets
    <3> QED BY <1>1, <2>1, <2>4, <3>1, <3>2, ChildrenAlike
  <2> QED BY <2>2, <2>3, <2>4
<1> QED BY <1>2, <1>3
-----------------------------------------------------------------------------
(* A plan after its head                                                   *)

LEMMA TailPlaces ==
  ASSUME NEW t, IsSeq(t), t # <<>>
  PROVE  /\ Head(t) = t[1] /\ Len(t) \in Nat /\ Len(t) >= 1 /\ 1 \in 1 .. Len(t)
         /\ Len(Tail(t)) = Len(t) - 1 /\ IsSeq(Tail(t))
         /\ \A i \in 1 .. Len(Tail(t)) : Tail(t)[i] = t[i + 1] /\ i + 1 \in 1 .. Len(t)
<1>1. t \in Seq(Range(t))
  BY DEF IsSeq
<1>2. Head(t) = t[1] /\ IsSeq(Tail(t))
  BY Rest
<1> QED BY <1>1, <1>2

(* A list about the open record is one of a few.                           *)
LEMMA EndingIs ==
  ASSUME NEW f, NEW cs, NEW t, Ending(f, cs, t)
  PROVE  /\ t # <<>> /\ Head(t).do \in {"create", "prompt", "resume", "apply"}
         /\ Head(t) = StepOf(f, Head(t).do)
         /\ Head(t).do = "create" =>
              ~Paid(f, cs) /\ Tail(t) = <<StepOf(f, "prompt"), StepOf(f, "apply")>>
         /\ Head(t).do = "prompt" => /\ ~Paid(f, cs) /\ Last(f.steps).child \in DOMAIN cs
                                     /\ Tail(t) = <<StepOf(f, "apply")>>
         /\ Head(t).do = "resume" => Paid(f, cs) /\ Tail(t) = <<StepOf(f, "apply")>>
         /\ Head(t).do = "apply" => Paid(f, cs) /\ Tail(t) = <<>>
<1>1. /\ StepOf(f, "create").do = "create" /\ StepOf(f, "prompt").do = "prompt"
      /\ StepOf(f, "resume").do = "resume" /\ StepOf(f, "apply").do = "apply"
  BY DEF StepOf, Do
<1> PICK a : a = StepOf(f, "create")
  OBVIOUS
<1> PICK b : b = StepOf(f, "prompt")
  OBVIOUS
<1> PICK c : c = StepOf(f, "resume")
  OBVIOUS
<1> PICK d : d = StepOf(f, "apply")
  OBVIOUS
<1>2. CASE Paid(f, cs) /\ t = <<d>>
  <2>1. t # <<>> /\ Head(t) = d /\ Tail(t) = <<>>
    BY <1>2
  <2> QED BY <1>1, <1>2, <2>1
<1>3. CASE Paid(f, cs) /\ t = <<c, d>>
  <2>1. t # <<>> /\ Head(t) = c /\ Tail(t) = <<d>>
    BY <1>3
  <2> QED BY <1>1, <1>3, <2>1
<1>4. CASE ~Paid(f, cs) /\ Last(f.steps).child \in DOMAIN cs /\ t = <<b, d>>
  <2>1. t # <<>> /\ Head(t) = b /\ Tail(t) = <<d>>
    BY <1>4
  <2> QED BY <1>1, <1>4, <2>1
<1>5. CASE ~Paid(f, cs) /\ t = <<a, b, d>>
  <2>1. t # <<>> /\ Head(t) = a /\ Tail(t) = <<b, d>>
    BY <1>5
  <2> QED BY <1>1, <1>5, <2>1
<1> QED BY <1>2, <1>3, <1>4, <1>5 DEF Ending

LEMMA AwaitsIs ==
  ASSUME NEW f, NEW cs, NEW t, Awaits(f, cs, t)
  PROVE  /\ t # <<>> /\ Head(t).do \in {"lock", "create", "prompt", "resume", "apply"}
         /\ Head(t).do = "lock" => Ending(f, cs, Tail(t))
         /\ Head(t).do # "lock" => Ending(f, cs, t)
BY EndingIs DEF Awaits

(* A list that is about an open record holds nothing else to answer for.   *)
LEMMA EndingApart ==
  ASSUME NEW f, NEW q, NEW cs, NEW t, Ending(f, cs, t), ~f.broken, OpenStep(f),
         Last(f.steps).child \in Kids(f)
  PROVE  PlanApart(f, q, cs, t) /\ IsSeq(t)
<1>1. /\ StepOf(f, "create").do = "create" /\ StepOf(f, "prompt").do = "prompt"
      /\ StepOf(f, "resume").do = "resume" /\ StepOf(f, "apply").do = "apply"
      /\ StepOf(f, "create").child = Last(f.steps).child
  BY DEF StepOf, Do
<1> PICK a : a = StepOf(f, "create")
  OBVIOUS
<1> PICK b : b = StepOf(f, "prompt")
  OBVIOUS
<1> PICK c : c = StepOf(f, "resume")
  OBVIOUS
<1> PICK d : d = StepOf(f, "apply")
  OBVIOUS
<1> DEFINE S == {a, b, c, d}
<1>2. t \in Seq(S)
  <2>1. <<d>> \in Seq(S) /\ <<c, d>> \in Seq(S) /\ <<b, d>> \in Seq(S) /\ <<a, b, d>> \in Seq(S)
    OBVIOUS
  <2> HIDE DEF S
  <2> QED BY <2>1 DEF Ending
<1>3. IsSeq(t) /\ \A i \in 1 .. Len(t) : t[i] \in S
  <2> HIDE DEF S
  <2> QED BY <1>2, SeqSelf
<1>4. ASSUME NEW i \in 1 .. Len(t) PROVE ~Rested(t[i]) /\ MadeFor(f, t, i)
  <2>1. t[i] \in {a, b, c, d}
    BY <1>3
  <2>2. t[i].do \in {"create", "prompt", "resume", "apply"} /\
        (t[i].do = "create" => t[i].child = Last(f.steps).child)
    BY <1>1, <2>1
  <2> QED BY <2>2 DEF Rested, MadeFor
<1>5. Awaits(f, cs, t)
  BY DEF Awaits
<1> QED BY <1>3, <1>4, <1>5 DEF PlanApart

(* After an event nothing of the list rests on the log any more.           *)
LEMMA EventApart ==
  ASSUME NEW f, NEW q, NEW cs, NEW t, IsSeq(t), t # <<>>, PlanApart(f, q, cs, t),
         Records(Head(t)), NEW g, NEW p, f.broken => g.broken,
         ~g.broken => Kids(f) \subseteq Kids(g),
         ~g.broken /\ Head(t).do = "write" /\ Head(t).event.kind = "step_started" =>
             Head(t).event.child \in Kids(g)
  PROVE  PlanApart(g, p, cs, Tail(t)) /\ (Rested(Head(t)) => Rests(f, q, cs, Head(t)))
<1> PICK r : r = Tail(t)
  OBVIOUS
<1>1. /\ Head(t) = t[1] /\ Len(t) \in Nat /\ Len(t) >= 1 /\ 1 \in 1 .. Len(t)
      /\ Len(r) = Len(t) - 1 /\ IsSeq(r)
      /\ \A i \in 1 .. Len(r) : r[i] = t[i + 1] /\ i + 1 \in 1 .. Len(t)
  BY TailPlaces
<1>2. \A i \in 1 .. Len(t) : /\ Rested(t[i]) => /\ Rests(f, q, cs, t[i])
                                              /\ \A k \in 1 .. (i - 1) : ~Records(t[k])
                             /\ MadeFor(f, t, i)
  BY DEF PlanApart
<1>3. \A i \in 1 .. Len(t) : ~ForChild(t[i])
  <2> SUFFICES ASSUME NEW i \in 1 .. Len(t), ForChild(t[i]) PROVE FALSE
    OBVIOUS
  <2>1. Awaits(f, cs, t)
    BY DEF PlanApart
  <2>2. Head(t).do \in {"lock", "create", "prompt", "resume", "apply"}
    BY <2>1, AwaitsIs
  <2> QED BY <2>2 DEF Records
<1>4. ASSUME NEW i \in 1 .. Len(r) PROVE ~Rested(r[i]) /\ ~ForChild(r[i]) /\ MadeFor(g, r, i)
  <2>1. r[i] = t[i + 1] /\ i + 1 \in 1 .. Len(t) /\ 1 \in 1 .. ((i + 1) - 1)
    BY <1>1
  <2>2. ~Rested(r[i])
    <3>1. Rested(t[i + 1]) => \A k \in 1 .. ((i + 1) - 1) : ~Records(t[k])
      BY <1>2, <2>1
    <3> QED BY <1>1, <2>1, <3>1
  <2>3. MadeFor(f, t, i + 1)
    BY <1>2, <2>1
  <2>4. MadeFor(g, r, i)
    <3> SUFFICES ASSUME r[i].do = "create", ~g.broken, r[i].child \notin Kids(g)
                 PROVE  \E k \in 1 .. (i - 1) : /\ r[k].do = "write"
                                                /\ r[k].event.kind = "step_started"
                                                /\ r[k].event.child = r[i].child
      BY DEF MadeFor
    <3>1. PICK k \in 1 .. ((i + 1) - 1) : /\ t[k].do = "write" /\ t[k].event.kind = "step_started"
                                          /\ t[k].event.child = r[i].child
      BY <2>1, <2>3 DEF MadeFor
    <3>2. k # 1
      BY <1>1, <3>1
    <3>3. k - 1 \in 1 .. (i - 1) /\ k - 1 \in 1 .. Len(r) /\ (k - 1) + 1 = k
      BY <1>1, <3>2
    <3>4. r[k - 1] = t[k]
      BY <1>1, <3>3
    <3> QED BY <3>1, <3>3, <3>4
  <2> QED BY <1>3, <2>1, <2>2, <2>4
<1>5. PlanApart(g, p, cs, r)
  BY <1>4 DEF PlanApart
<1> QED BY <1>1, <1>2, <1>5

(* What is left when a head that records nothing is done.                  *)
LEMMA TailApart ==
  ASSUME NEW f, NEW q, NEW cs, NEW t, IsSeq(t), t # <<>>, PlanApart(f, q, cs, t),
         ~Records(Head(t)),
         \A i \in 1 .. Len(t) : ForChild(t[i]) => Head(t).do \notin {"create", "prompt"}
  PROVE  PlanApart(f, q, cs, Tail(t))
<1> PICK r : r = Tail(t)
  OBVIOUS
<1>1. /\ Head(t) = t[1] /\ Len(t) \in Nat /\ Len(t) >= 1 /\ 1 \in 1 .. Len(t)
      /\ Len(r) = Len(t) - 1 /\ IsSeq(r)
      /\ \A i \in 1 .. Len(r) : r[i] = t[i + 1] /\ i + 1 \in 1 .. Len(t)
  BY TailPlaces
<1>2. \A i \in 1 .. Len(t) : /\ Rested(t[i]) => /\ Rests(f, q, cs, t[i])
                                              /\ \A k \in 1 .. (i - 1) : ~Records(t[k])
                             /\ MadeFor(f, t, i)
  BY DEF PlanApart
<1>3. ASSUME NEW i \in 1 .. Len(r)
      PROVE  /\ Rested(r[i]) => /\ Rests(f, q, cs, r[i])
                                /\ \A k \in 1 .. (i - 1) : ~Records(r[k])
             /\ MadeFor(f, r, i)
  <2>1. r[i] = t[i + 1] /\ i + 1 \in 1 .. Len(t)
    BY <1>1
  <2>2. ASSUME NEW k \in 1 .. (i - 1)
        PROVE  r[k] = t[k + 1] /\ k + 1 \in 1 .. ((i + 1) - 1)
    <3>1. k \in 1 .. Len(r) /\ k + 1 \in 1 .. ((i + 1) - 1)
      BY <1>1
    <3> QED BY <1>1, <3>1
  <2>3. /\ Rested(t[i + 1]) => /\ Rests(f, q, cs, t[i + 1])
                               /\ \A k \in 1 .. ((i + 1) - 1) : ~Records(t[k])
        /\ MadeFor(f, t, i + 1)
    BY <1>2, <2>1
  <2>4. MadeFor(f, r, i)
    <3> SUFFICES ASSUME r[i].do = "create", ~f.broken, r[i].child \notin Kids(f)
                 PROVE  \E k \in 1 .. (i - 1) : /\ r[k].do = "write"
                                                /\ r[k].event.kind = "step_started"
                                                /\ r[k].event.child = r[i].child
      BY DEF MadeFor
    <3>1. PICK k \in 1 .. ((i + 1) - 1) : /\ t[k].do = "write" /\ t[k].event.kind = "step_started"
                                          /\ t[k].event.child = r[i].child
      BY <2>1, <2>3 DEF MadeFor
    <3>2. k # 1
      BY <1>1, <3>1 DEF Records
    <3>3. k - 1 \in 1 .. (i - 1) /\ k - 1 \in 1 .. Len(r) /\ (k - 1) + 1 = k
      BY <1>1, <3>2
    <3>4. r[k - 1] = t[k]
      BY <1>1, <3>3
    <3> QED BY <3>1, <3>3, <3>4
  <2> QED BY <2>1, <2>2, <2>3, <2>4
<1>4. ASSUME NEW i \in 1 .. Len(r), ForChild(r[i]) PROVE Awaits(f, cs, r)
  <2>1. Awaits(f, cs, t) /\ Head(t).do \notin {"create", "prompt"}
    BY <1>1, <1>4 DEF PlanApart
  <2>2. CASE Head(t).do = "lock"
    BY <2>1, <2>2, AwaitsIs DEF Awaits
  <2>3. CASE Head(t).do = "resume"
    <3>1. Paid(f, cs) /\ r = <<StepOf(f, "apply")>>
      BY <2>1, <2>3, AwaitsIs, EndingIs
    <3> QED BY <2>1, <3>1 DEF Awaits, Ending
  <2>4. CASE Head(t).do = "apply"
    <3>1. r = <<>>
      BY <2>1, <2>4, AwaitsIs, EndingIs
    <3>0. Len(<<>>) = 0
      OBVIOUS
    <3>2. Len(r) = 0
      BY ONLY <3>0, <3>1
    <3>3. 1 .. Len(r) = {}
      BY <3>2
    <3> QED BY <1>4, <3>3
  <2> QED BY <2>1, <2>2, <2>3, <2>4, AwaitsIs
<1> QED BY <1>3, <1>4 DEF PlanApart
-----------------------------------------------------------------------------
(* A child's log grows                                                     *)

SamePrompts(a, b) ==
    DOMAIN a \subseteq DOMAIN b /\ \A c : PromptsIn(b, c) = PromptsIn(a, c)

LEMMA SameNumbers ==
  ASSUME NEW cs, NEW ds, SamePrompts(cs, ds)
  PROVE  \A c, n : PromptNo(ds, c, n) = PromptNo(cs, c, n)
<1> SUFFICES ASSUME NEW c, NEW n PROVE PromptNo(ds, c, n) = PromptNo(cs, c, n)
  OBVIOUS
<1>1. PromptsIn(ds, c) = PromptsIn(cs, c)
  BY DEF SamePrompts
<1> QED BY <1>1 DEF PromptNo

LEMMA PlanSame ==
  ASSUME NEW f, NEW q, NEW cs, NEW ds, SamePrompts(cs, ds), NEW t, PlanApart(f, q, cs, t)
  PROVE  PlanApart(f, q, ds, t)
<1>1. \A c : Owes(f, ds, c) = Owes(f, cs, c)
  BY DEF SamePrompts, Owes
<1>2. \A c, n : PromptNo(ds, c, n) = PromptNo(cs, c, n)
  BY SameNumbers
<1>3. ASSUME NEW e, Finishable(f, cs, e) PROVE Finishable(f, ds, e)
  BY <1>1, <1>2, <1>3 DEF Finishable, ReportFits
<1>4. ASSUME NEW x, Rests(f, q, cs, x) PROVE Rests(f, q, ds, x)
  BY <1>3, <1>4 DEF Rests
<1>5. Paid(f, ds) = Paid(f, cs)
  BY <1>1 DEF Paid
<1>6. ASSUME NEW u, Ending(f, cs, u) PROVE Ending(f, ds, u)
  BY <1>5, <1>6 DEF Ending, SamePrompts
<1>7. Awaits(f, cs, t) => Awaits(f, ds, t)
  BY <1>6 DEF Awaits
<1> QED BY <1>4, <1>7 DEF PlanApart

LEMMA ChildrenSame ==
  ASSUME NEW f, IsSeq(f.steps), NEW cs, NEW ds, SamePrompts(cs, ds), ChildrenApart(f, cs),
         LogsSound(cs), ~f.broken => DOMAIN ds \subseteq Kids(f)
  PROVE  ChildrenApart(f, ds)
<1>1. \A c, n : PromptNo(ds, c, n) = PromptNo(cs, c, n)
  BY SameNumbers
<1>2. ReportsSound(f, ds)
  BY <1>1 DEF ChildrenApart, ReportsSound, ReportFits
<1>3. PromptsSound(f, ds)
  <2> SUFFICES ASSUME NEW c
               PROVE  /\ Cardinality(ClosedIn(f, c)) <= Cardinality(PromptsIn(cs, c))
                      /\ Cardinality(PromptsIn(cs, c)) <= Cardinality(In(f, c))
    BY DEF PromptsSound, SamePrompts
  <2>1. CASE c \in Kids(f) \union DOMAIN cs
    BY <2>1 DEF ChildrenApart, PromptsSound
  <2>2. CASE c \notin Kids(f) \union DOMAIN cs
    <3>1. PromptsIn(cs, c) = {}
      BY <2>2 DEF PromptsIn, LogIn
    <3>2. Cardinality(PromptsIn(cs, c)) = 0
      BY <3>1, FS_EmptySet
    <3> QED BY <2>2, <3>2, RecordCounts
  <2> QED BY <2>1, <2>2
<1> QED BY <1>2, <1>3 DEF ChildrenApart

(* What a log's next event does to its prompts.                            *)
Adding(cs, c, x, ds) == LogsSound(cs) /\ ds = [cs EXCEPT ![c] = Append(@, x)]

LEMMA LogAdded ==
  ASSUME NEW cs, NEW c \in DOMAIN cs, NEW x, NEW ds, Adding(cs, c, x, ds)
  PROVE  LET n == Len(LogIn(cs, c))
         IN  /\ DOMAIN ds = DOMAIN cs /\ n \in Nat
             /\ \A d : d # c => PromptsIn(ds, d) = PromptsIn(cs, d)
             /\ x.k # "prompt" => PromptsIn(ds, c) = PromptsIn(cs, c)
             /\ x.k = "prompt" => PromptsIn(ds, c) = PromptsIn(cs, c) \union {n + 1}
             /\ PromptsIn(cs, c) \in SUBSET (1 .. n) /\ n + 1 \notin PromptsIn(cs, c)
<1> DEFINE n == Len(LogIn(cs, c))
<1>0. LogsSound(cs) /\ ds = [cs EXCEPT ![c] = Append(@, x)]
  BY DEF Adding
<1>1. LogIn(cs, c) = cs[c] /\ IsSeq(cs[c]) /\ PromptsIn(cs, c) \in SUBSET (1 .. n)
  BY <1>0, PromptPlaces DEF LogIn
<1>2. DOMAIN ds = DOMAIN cs /\ ds[c] = Append(cs[c], x) /\ \A d \in DOMAIN cs : d # c => ds[d] = cs[d]
  BY <1>0 DEF LogsSound
<1>3. /\ n \in Nat /\ DOMAIN cs[c] = 1 .. n /\ DOMAIN ds[c] = 1 .. (n + 1)
      /\ ds[c][n + 1] = x /\ \A i \in 1 .. n : ds[c][i] = cs[c][i]
  BY <1>1, <1>2, AppendedPlaces
<1>4. LogIn(ds, c) = ds[c] /\ \A d : d # c => LogIn(ds, d) = LogIn(cs, d)
  BY <1>2 DEF LogIn
<1> HIDE DEF n
<1>5. 1 .. (n + 1) = (1 .. n) \union {n + 1} /\ n + 1 \notin 1 .. n
  BY <1>3
<1>6. \A d : d # c => PromptsIn(ds, d) = PromptsIn(cs, d)
  BY <1>4 DEF PromptsIn
<1>7. /\ PromptsIn(cs, c) = {i \in 1 .. n : cs[c][i].k = "prompt"}
      /\ PromptsIn(ds, c) = {i \in 1 .. (n + 1) : ds[c][i].k = "prompt"}
  BY <1>1, <1>3, <1>4 DEF PromptsIn
<1>8. \A i : i \in PromptsIn(ds, c) <=> i \in PromptsIn(cs, c) \/ (i = n + 1 /\ x.k = "prompt")
  BY <1>3, <1>5, <1>7
<1>9. /\ x.k # "prompt" => PromptsIn(ds, c) = PromptsIn(cs, c)
      /\ x.k = "prompt" => PromptsIn(ds, c) = PromptsIn(cs, c) \union {n + 1}
  BY <1>8
<1>10. n + 1 \notin PromptsIn(cs, c)
  BY <1>5, <1>7
<1> QED BY <1>1, <1>2, <1>3, <1>6, <1>9, <1>10 DEF n

(* A turn's own events are no prompts.                                     *)
LEMMA TurnAdds ==
  ASSUME NEW cs, NEW c, NEW x, x.k # "prompt", NEW ds, Adding(cs, c, x, ds)
  PROVE  SamePrompts(cs, ds) /\ DOMAIN ds = DOMAIN cs
<1>1. CASE c \in DOMAIN cs
  <2>1. /\ DOMAIN ds = DOMAIN cs /\ PromptsIn(ds, c) = PromptsIn(cs, c)
        /\ \A d : d # c => PromptsIn(ds, d) = PromptsIn(cs, d)
    BY <1>1, LogAdded
  <2>2. \A d : PromptsIn(ds, d) = PromptsIn(cs, d)
    BY <2>1
  <2> QED BY <2>1, <2>2 DEF SamePrompts
<1>2. CASE c \notin DOMAIN cs
  <2>1. DOMAIN ds = DOMAIN cs /\ \A d \in DOMAIN cs : ds[d] = cs[d]
    BY <1>2 DEF Adding
  <2>2. \A d : LogIn(ds, d) = LogIn(cs, d)
    BY <2>1 DEF LogIn
  <2> QED BY <2>1, <2>2 DEF SamePrompts, PromptsIn
<1> QED BY <1>1, <1>2

(* A prompt more leaves the numbers of the earlier ones.                   *)
LEMMA NumbersStay ==
  ASSUME NEW cs, NEW ds, NEW c, NEW n \in Nat, PromptsIn(cs, c) \in SUBSET (1 .. n),
         PromptsIn(ds, c) = PromptsIn(cs, c) \union {n + 1},
         NEW m, m <= Cardinality(PromptsIn(cs, c)), m \in Nat
  PROVE  PromptNo(ds, c, m) = PromptNo(cs, c, m)
<1> PICK A : A = PromptsIn(cs, c)
  OBVIOUS
<1> DEFINE B == A \union {n + 1}
           numbered(S) == {i \in S : Cardinality({j \in S : j <= i}) = m}
<1>1. A \in SUBSET (1 .. n) /\ n + 1 \notin A /\ IsFiniteSet(A) /\ Cardinality(A) \in Nat
  BY CountOf
<1>2. \A i \in A : {j \in B : j <= i} = {j \in A : j <= i}
  BY <1>1
<1>3. {j \in B : j <= n + 1} = B
  BY <1>1
<1>4. Cardinality(B) = Cardinality(A) + 1
  BY <1>1, CountOf
<1>5. \A i : i \in numbered(B) <=> i \in numbered(A)
  BY <1>1, <1>2, <1>3, <1>4
<1>6. numbered(B) = numbered(A)
  BY <1>5
<1> HIDE DEF B
<1>7. PromptsIn(ds, c) = B
  BY DEF B
<1> QED BY <1>6, <1>7 DEF PromptNo
(* Of a child's records only the newest of the run may be open.            *)
LEMMA OneOpen ==
  ASSUME NEW f, IsSeq(f.steps), ClosedBefore(f), NEW c
  PROVE  /\ Cardinality(In(f, c)) <= Cardinality(ClosedIn(f, c)) + 1
         /\ f.steps # <<>> /\ c # Last(f.steps).child => ClosedIn(f, c) = In(f, c)
         /\ \A i \in ClosedIn(f, c) : UntilIn(f, i, c) \in SUBSET ClosedIn(f, c)
<1> DEFINE n == Len(f.steps)
<1>1. n \in Nat /\ DOMAIN f.steps = 1 .. n /\ In(f, c) \in SUBSET (1 .. n)
      /\ ClosedIn(f, c) \in SUBSET In(f, c)
  BY Places, RecordsPlaced
<1>2. \A i \in DOMAIN f.steps : f.steps[i].status = "open" => i = n
  BY DEF ClosedBefore
<1>3. f.steps # <<>> => Last(f.steps) = f.steps[n]
  BY DEF Last
<1> HIDE DEF n
<1>4. In(f, c) \in SUBSET (ClosedIn(f, c) \union {n})
  BY <1>2 DEF In, ClosedIn
<1>5. Cardinality(In(f, c)) <= Cardinality(ClosedIn(f, c)) + 1
  <2> PICK A : A = ClosedIn(f, c)
    OBVIOUS
  <2>1. A \in SUBSET (1 .. n) /\ Cardinality(A) \in Nat
    BY <1>1, CountOf
  <2>2. CASE In(f, c) = A
    BY <2>1, <2>2
  <2>3. CASE In(f, c) # A
    <3>1. n \in In(f, c) /\ n \notin A /\ In(f, c) = A \union {n}
      BY <1>1, <1>4, <2>3
    <3>2. Cardinality(A \union {n}) = Cardinality(A) + 1
      BY <1>1, <2>1, <3>1, CountOf
    <3> QED BY <2>1, <3>1, <3>2
  <2> QED BY <2>2, <2>3
<1>6. ASSUME f.steps # <<>>, c # Last(f.steps).child PROVE ClosedIn(f, c) = In(f, c)
  <2>1. n \notin In(f, c)
    BY <1>3, <1>6 DEF In
  <2> QED BY <1>1, <1>4, <2>1
<1>7. ASSUME NEW i \in ClosedIn(f, c) PROVE UntilIn(f, i, c) \in SUBSET ClosedIn(f, c)
  <2>1. i \in 1 .. n /\ f.steps[i].status # "open"
    BY <1>1 DEF ClosedIn
  <2>2. ASSUME NEW j \in UntilIn(f, i, c) PROVE j \in ClosedIn(f, c)
    <3>1. j \in 1 .. i /\ f.steps[j].child = c
      BY DEF UntilIn
    <3>2. j \in DOMAIN f.steps
      BY <1>1, <2>1, <3>1
    <3>3. f.steps[j].status # "open"
      <4>1. CASE j = n
        <5>1. j = i
          BY <1>1, <2>1, <3>1, <4>1
        <5> QED BY <2>1, <5>1
      <4>2. CASE j # n
        BY <1>2, <3>2, <4>2
      <4> QED BY <4>1, <4>2
    <3> QED BY <3>1, <3>2, <3>3 DEF ClosedIn, In
  <2> QED BY <2>2
<1> QED BY <1>5, <1>6, <1>7

(* The open record gets the prompt it is owed.                             *)
LEMMA PromptApart ==
  ASSUME NEW f, IsSeq(f.steps), ClosedBefore(f), NEW cs, LogsSound(cs), ChildrenApart(f, cs),
         NEW c \in DOMAIN cs, Owes(f, cs, c), NEW x, x.k = "prompt", NEW ds, Adding(cs, c, x, ds)
  PROVE  ChildrenApart(f, ds) /\ ~Owes(f, ds, c) /\ DOMAIN ds = DOMAIN cs
<1> PICK n : n = Len(LogIn(cs, c))
  OBVIOUS
<1> PICK A : A = PromptsIn(cs, c)
  OBVIOUS
<1>1. /\ DOMAIN ds = DOMAIN cs /\ n \in Nat
      /\ \A d : d # c => PromptsIn(ds, d) = PromptsIn(cs, d)
      /\ PromptsIn(ds, c) = A \union {n + 1}
      /\ A \in SUBSET (1 .. n) /\ n + 1 \notin A
  BY LogAdded
<1>2. Cardinality(A) \in Nat /\ Cardinality(PromptsIn(ds, c)) = Cardinality(A) + 1
  BY <1>1, CountOf
<1>3. /\ Cardinality(In(f, c)) <= Cardinality(ClosedIn(f, c)) + 1
      /\ Cardinality(In(f, c)) \in Nat /\ Cardinality(ClosedIn(f, c)) \in Nat
  BY OneOpen, RecordCounts
<1>4. Cardinality(ClosedIn(f, c)) <= Cardinality(A) /\ Cardinality(A) < Cardinality(In(f, c))
  BY DEF ChildrenApart, PromptsSound, Owes
<1>5. ~Owes(f, ds, c)
  BY <1>2, <1>3, <1>4 DEF Owes
<1>6. PromptsSound(f, ds)
  <2> SUFFICES ASSUME NEW d \in Kids(f) \union DOMAIN cs
               PROVE  /\ Cardinality(ClosedIn(f, d)) <= Cardinality(PromptsIn(ds, d))
                      /\ Cardinality(PromptsIn(ds, d)) <= Cardinality(In(f, d))
    BY <1>1 DEF PromptsSound
  <2>1. CASE d = c
    BY <1>2, <1>3, <1>4, <2>1
  <2>2. CASE d # c
    <3>1. PromptsIn(ds, d) = PromptsIn(cs, d)
      BY <1>1, <2>2
    <3> QED BY <3>1 DEF ChildrenApart, PromptsSound
  <2> QED BY <2>1, <2>2
<1>7. ReportsSound(f, ds)
  <2> SUFFICES ASSUME NEW i \in DOMAIN f.steps,
                      f.steps[i].report # 0,
                      f.steps[i].attempt = Cardinality(UntilIn(f, i, f.steps[i].child))
               PROVE  f.steps[i].report > PromptNo(ds, f.steps[i].child, f.steps[i].attempt)
    BY DEF ReportsSound, ReportFits
  <2>1. f.steps[i].report > PromptNo(cs, f.steps[i].child, f.steps[i].attempt)
    BY DEF ChildrenApart, ReportsSound, ReportFits
  <2>2. CASE f.steps[i].child # c
    <3>1. PromptsIn(ds, f.steps[i].child) = PromptsIn(cs, f.steps[i].child)
      BY <1>1, <2>2
    <3> QED BY <2>1, <3>1 DEF PromptNo
  <2>3. CASE f.steps[i].child = c
    <3> PICK m : m = f.steps[i].attempt
      OBVIOUS
    <3>1. i \in ClosedIn(f, c)
      BY <2>3 DEF ClosedBefore, ClosedIn, In
    <3>2. UntilIn(f, i, c) \in SUBSET ClosedIn(f, c)
      BY <3>1, OneOpen
    <3>3. /\ Len(f.steps) \in Nat /\ ClosedIn(f, c) \in SUBSET In(f, c)
          /\ In(f, c) \in SUBSET (1 .. Len(f.steps))
      BY RecordsPlaced
    <3>4. ClosedIn(f, c) \in SUBSET (1 .. Len(f.steps)) /\ UntilIn(f, i, c) \in SUBSET (1 .. Len(f.steps))
      BY <3>2, <3>3
    <3>5. /\ Cardinality(UntilIn(f, i, c)) <= Cardinality(ClosedIn(f, c))
          /\ Cardinality(UntilIn(f, i, c)) \in Nat
      BY <3>2, <3>3, <3>4, CountOf
    <3>6. m \in Nat /\ m <= Cardinality(A)
      BY <1>2, <1>3, <1>4, <2>3, <3>5
    <3>7. PromptNo(ds, c, m) = PromptNo(cs, c, m)
      <4>1. PromptsIn(cs, c) \in SUBSET (1 .. n)
        BY <1>1
      <4>2. PromptsIn(ds, c) = PromptsIn(cs, c) \union {n + 1} /\ m <= Cardinality(PromptsIn(cs, c))
        BY <1>1, <3>6
      <4>3. n \in Nat /\ m \in Nat
        BY <1>1, <3>6
      <4> QED BY <4>1, <4>2, <4>3, NumbersStay
    <3> QED BY <2>1, <2>3, <3>7
  <2> QED BY <2>2, <2>3
<1> QED BY <1>1, <1>5, <1>6, <1>7 DEF ChildrenApart

(* A child is created in the place its record names.                       *)
LEMMA MadeApart ==
  ASSUME NEW f, IsSeq(f.steps), RecordsSound(f), NEW cs, LogsSound(cs), ChildrenApart(f, cs),
         NEW c, f.broken \/ c \in Kids(f), c \notin DOMAIN cs, NEW ds, ds = Append(cs, <<>>)
  PROVE  /\ SamePrompts(cs, ds) /\ (~f.broken => DOMAIN ds \subseteq Kids(f))
         /\ ~f.broken /\ f.steps # <<>> /\ c = Last(f.steps).child => c \in DOMAIN ds
<1> PICK n : n = Len(cs)
  OBVIOUS
<1>1. /\ n \in Nat /\ DOMAIN cs = 1 .. n /\ DOMAIN ds = 1 .. (n + 1)
      /\ ds[n + 1] = <<>> /\ \A i \in 1 .. n : ds[i] = cs[i]
  BY AppendedPlaces DEF LogsSound
<1>2. ASSUME NEW d PROVE PromptsIn(ds, d) = PromptsIn(cs, d)
  <2>1. CASE d \in 1 .. n
    BY <1>1, <2>1 DEF PromptsIn, LogIn
  <2>2. CASE d \notin 1 .. n
    <3>1. LogIn(cs, d) = <<>> /\ LogIn(ds, d) = <<>>
      <4>1. d \in DOMAIN ds => d = n + 1
        BY <1>1, <2>2
      <4> QED BY <1>1, <2>2, <4>1 DEF LogIn
    <3> QED BY <3>1 DEF PromptsIn
  <2> QED BY <2>1, <2>2
<1>3. DOMAIN cs \subseteq DOMAIN ds
  BY <1>1
<1>4. ASSUME ~f.broken PROVE DOMAIN ds \subseteq Kids(f)
  <2>1. PICK k \in Nat : Kids(f) = 1 .. k
    BY DEF RecordsSound, KidsSound
  <2>2. 1 .. n \subseteq 1 .. k /\ c \in 1 .. k /\ c \notin 1 .. n
    BY <1>1, <1>4, <2>1 DEF ChildrenApart
  <2>3. n + 1 \in 1 .. k
    BY <1>1, <2>2
  <2> QED BY <1>1, <2>1, <2>2, <2>3
<1>5. ASSUME ~f.broken, f.steps # <<>>, c = Last(f.steps).child PROVE c \in DOMAIN ds
  <2>1. PICK k \in Nat : Kids(f) = 1 .. k
    BY DEF RecordsSound, KidsSound
  <2>2. c \in 1 .. k /\ c \notin 1 .. n
    BY <1>1, <1>5, <2>1
  <2>3. ASSUME NEW d \in 1 .. k, d # c PROVE d \in 1 .. n
    <3>1. ClosedIn(f, d) = In(f, d)
      BY <1>5, <2>3, OneOpen DEF RecordsSound
    <3>2. In(f, d) # {}
      BY <2>1 DEF Kids, In
    <3>3. Len(f.steps) \in Nat /\ In(f, d) \in SUBSET (1 .. Len(f.steps))
      BY RecordsPlaced
    <3>4. Cardinality(In(f, d)) # 0 /\ Cardinality(In(f, d)) \in Nat
      BY <3>2, <3>3, CountOf
    <3>5. Cardinality(In(f, d)) <= Cardinality(PromptsIn(cs, d))
      BY <2>1, <3>1 DEF ChildrenApart, PromptsSound
    <3>6. CASE d \notin 1 .. n
      <4>1. PromptsIn(cs, d) = {}
        BY <1>1, <3>6 DEF PromptsIn, LogIn
      <4>2. Cardinality(PromptsIn(cs, d)) = 0
        BY <4>1, FS_EmptySet
      <4> QED BY <3>4, <3>5, <4>2
    <3> QED BY <3>6
  <2>4. c = n + 1
    <3>1. c > n
      BY <1>1, <2>2
    <3>2. CASE c # n + 1
      <4>1. n + 1 \in 1 .. k /\ n + 1 # c /\ n + 1 \notin 1 .. n
        BY <1>1, <2>2, <3>1, <3>2
      <4> QED BY <2>3, <4>1
    <3> QED BY <3>2
  <2> QED BY <1>1, <2>4
<1> QED BY <1>2, <1>3, <1>4, <1>5 DEF SamePrompts
-----------------------------------------------------------------------------
(* Lists that rest on no open record                                       *)

Free(f, q, cs, t) ==
    /\ IsSeq(t)
    /\ \A i \in 1 .. Len(t) :
         /\ Rested(t[i]) => /\ Rests(f, q, cs, t[i])
                            /\ \A k \in 1 .. (i - 1) : ~Records(t[k])
         /\ MadeFor(f, t, i)
         /\ ~ForChild(t[i])
Bare(x) == ~Rested(x) /\ ~ForChild(x) /\ x.do # "create"
AllBare(t) == IsSeq(t) /\ \A x \in Range(t) : Bare(x)
Begins(t, c) ==
    \E k \in 1 .. Len(t) : /\ t[k].do = "write" /\ t[k].event.kind = "step_started"
                           /\ t[k].event.child = c

LEMMA FreeApart ==
  ASSUME NEW f, NEW q, NEW cs, NEW t, Free(f, q, cs, t)
  PROVE  PlanApart(f, q, cs, t)
BY DEF Free, PlanApart

LEMMA BareFree ==
  ASSUME NEW f, NEW q, NEW cs, NEW t, AllBare(t)
  PROVE  Free(f, q, cs, t)
<1>1. \A i \in 1 .. Len(t) : Bare(t[i])
  BY Places DEF AllBare
<1> QED BY <1>1 DEF Free, Bare, MadeFor, AllBare

LEMMA FreeOne ==
  ASSUME NEW f, NEW q, NEW cs, NEW x, Rests(f, q, cs, x), x.do \notin {"create", "prompt", "resume", "apply"}
  PROVE  Free(f, q, cs, <<x>>)
<1>1. IsSeq(<<x>>) /\ Len(<<x>>) = 1 /\ <<x>>[1] = x
  BY Few
<1>2. \A i \in 1 .. Len(<<x>>) : i = 1 /\ 1 .. (i - 1) = {}
  BY <1>1
<1> QED BY <1>1, <1>2 DEF Free, MadeFor, ForChild

LEMMA FreeBefore ==
  ASSUME NEW f, NEW q, NEW cs, NEW p, AllBare(p), Silent(p), NEW t, Free(f, q, cs, t)
  PROVE  Free(f, q, cs, p \o t)
<1> PICK r : r = p \o t
  OBVIOUS
<1>1. /\ Len(r) = Len(p) + Len(t) /\ Len(p) \in Nat /\ Len(t) \in Nat
      /\ \A i \in 1 .. Len(p) : r[i] = p[i]
      /\ \A i \in 1 .. Len(t) : r[Len(p) + i] = t[i]
  BY JoinedPlaces DEF Silent, Free
<1>2. \A i \in 1 .. Len(p) : ~Records(p[i]) /\ Bare(p[i])
  BY Places DEF Silent, AllBare
<1>3. IsSeq(r)
  BY Joined DEF Silent, Free
<1>4. ASSUME NEW i \in 1 .. Len(r)
      PROVE  /\ Rested(r[i]) => /\ Rests(f, q, cs, r[i])
                                /\ \A k \in 1 .. (i - 1) : ~Records(r[k])
             /\ MadeFor(f, r, i) /\ ~ForChild(r[i])
  <2>1. CASE i \in 1 .. Len(p)
    <3>1. Bare(r[i])
      BY <1>1, <1>2, <2>1
    <3> QED BY <3>1 DEF Bare, MadeFor
  <2>2. CASE i \notin 1 .. Len(p)
    <3>1. i - Len(p) \in 1 .. Len(t) /\ i = Len(p) + (i - Len(p))
      BY <1>1, <2>2
    <3> PICK m : m = i - Len(p)
      OBVIOUS
    <3>2. m \in 1 .. Len(t) /\ i = Len(p) + m /\ r[i] = t[m]
      BY <1>1, <3>1
    <3>3. /\ Rested(t[m]) => /\ Rests(f, q, cs, t[m])
                             /\ \A k \in 1 .. (m - 1) : ~Records(t[k])
          /\ MadeFor(f, t, m) /\ ~ForChild(t[m])
      BY <3>2 DEF Free
    <3>4. ASSUME NEW k \in 1 .. (i - 1), \A j \in 1 .. (m - 1) : ~Records(t[j])
          PROVE  ~Records(r[k])
      <4>1. CASE k \in 1 .. Len(p)
        BY <1>1, <1>2, <4>1
      <4>2. CASE k \notin 1 .. Len(p)
        <5>1. k - Len(p) \in 1 .. (m - 1) /\ k - Len(p) \in 1 .. Len(t) /\ k = Len(p) + (k - Len(p))
          BY <1>1, <3>2, <4>2
        <5>2. r[k] = t[k - Len(p)]
          BY <1>1, <5>1
        <5> QED BY <3>4, <5>1, <5>2
      <4> QED BY <4>1, <4>2
    <3>5. MadeFor(f, r, i)
      <4> SUFFICES ASSUME r[i].do = "create", ~f.broken, r[i].child \notin Kids(f)
                   PROVE  \E k \in 1 .. (i - 1) : /\ r[k].do = "write"
                                                  /\ r[k].event.kind = "step_started"
                                                  /\ r[k].event.child = r[i].child
        BY DEF MadeFor
      <4>1. PICK k \in 1 .. (m - 1) : /\ t[k].do = "write" /\ t[k].event.kind = "step_started"
                                      /\ t[k].event.child = r[i].child
        BY <3>2, <3>3 DEF MadeFor
      <4>2. k \in 1 .. Len(t) /\ Len(p) + k \in 1 .. (i - 1)
        BY <1>1, <3>2
      <4>3. r[Len(p) + k] = t[k]
        BY <1>1, <4>2
      <4> QED BY <4>1, <4>2, <4>3
    <3> QED BY <3>2, <3>3, <3>4, <3>5
  <2> QED BY <2>1, <2>2
<1> QED BY <1>3, <1>4 DEF Free

LEMMA FreeThen ==
  ASSUME NEW f, NEW q, NEW cs, NEW t, Free(f, q, cs, t), NEW u, IsSeq(u),
         \A x \in Range(u) : /\ ~Rested(x) /\ ~ForChild(x)
                             /\ x.do = "create" => Begins(t, x.child)
  PROVE  Free(f, q, cs, t \o u)
<1> PICK r : r = t \o u
  OBVIOUS
<1>1. /\ Len(r) = Len(t) + Len(u) /\ Len(t) \in Nat /\ Len(u) \in Nat
      /\ \A i \in 1 .. Len(t) : r[i] = t[i]
      /\ \A i \in 1 .. Len(u) : r[Len(t) + i] = u[i]
  BY JoinedPlaces DEF Free
<1>2. IsSeq(r)
  BY Joined DEF Free
<1>3. ASSUME NEW i \in 1 .. Len(r)
      PROVE  /\ Rested(r[i]) => /\ Rests(f, q, cs, r[i])
                                /\ \A k \in 1 .. (i - 1) : ~Records(r[k])
             /\ MadeFor(f, r, i) /\ ~ForChild(r[i])
  <2>1. CASE i \in 1 .. Len(t)
    <3>1. \A k \in 1 .. (i - 1) : k \in 1 .. Len(t)
      BY <1>1, <2>1
    <3>2. r[i] = t[i] /\ \A k \in 1 .. (i - 1) : r[k] = t[k]
      BY <1>1, <2>1, <3>1
    <3>3. /\ Rested(t[i]) => /\ Rests(f, q, cs, t[i])
                             /\ \A k \in 1 .. (i - 1) : ~Records(t[k])
          /\ MadeFor(f, t, i) /\ ~ForChild(t[i])
      BY <2>1 DEF Free
    <3>4. MadeFor(f, r, i)
      BY <3>2, <3>3 DEF MadeFor
    <3> QED BY <3>2, <3>3, <3>4
  <2>2. CASE i \notin 1 .. Len(t)
    <3>1. i - Len(t) \in 1 .. Len(u) /\ i = Len(t) + (i - Len(t))
      BY <1>1, <2>2
    <3>2. r[i] \in Range(u)
      BY <1>1, <3>1, Places
    <3>3. ~Rested(r[i]) /\ ~ForChild(r[i]) /\ (r[i].do = "create" => Begins(t, r[i].child))
      BY <3>2
    <3>4. MadeFor(f, r, i)
      <4> SUFFICES ASSUME r[i].do = "create"
                   PROVE  \E k \in 1 .. (i - 1) : /\ r[k].do = "write"
                                                  /\ r[k].event.kind = "step_started"
                                                  /\ r[k].event.child = r[i].child
        BY DEF MadeFor
      <4>1. PICK k \in 1 .. Len(t) : /\ t[k].do = "write" /\ t[k].event.kind = "step_started"
                                     /\ t[k].event.child = r[i].child
        BY <3>3 DEF Begins
      <4>2. k \in 1 .. (i - 1) /\ r[k] = t[k]
        BY <1>1, <3>1
      <4> QED BY <4>1, <4>2
    <3> QED BY <3>3, <3>4
  <2> QED BY <2>1, <2>2
<1> QED BY <1>2, <1>3 DEF Free

LEMMA BareEffects ==
  /\ \A gate \in {BudgetGate, StepStop} : \A options : Bare(Ask(gate, options))
  /\ Bare(Escalate(StepStop))
  /\ \A outcome : Bare(Finish(outcome))
  /\ \A tag : Bare(Comment(tag))
  /\ Bare(Fail)
  /\ \A event : event.kind \notin {"step_started", "route_taken", "step_finished"} => Bare(Write(event))
  /\ \A what, s, n, c : what \notin {"ask", "write", "create", "prompt", "resume", "apply"} =>
       Bare(Do(what, s, n, c))
BY DEF Bare, Rested, ForChild, Ask, Escalate, Finish, Comment, Fail, Write, Do

LEMMA FewBare ==
  /\ AllBare(<<>>)
  /\ \A a : Bare(a) => AllBare(<<a>>)
  /\ \A p, q : AllBare(p) /\ AllBare(q) => AllBare(p \o q)
<1>1. AllBare(<<>>)
  BY Few DEF AllBare
<1>2. ASSUME NEW a, Bare(a) PROVE AllBare(<<a>>)
  <2>1. IsSeq(<<a>>) /\ Range(<<a>>) = {a}
    BY Few
  <2> QED BY <1>2, <2>1 DEF AllBare
<1>3. ASSUME NEW p, NEW q, AllBare(p), AllBare(q) PROVE AllBare(p \o q)
  <2>1. IsSeq(p \o q) /\ Range(p \o q) \subseteq Range(p) \union Range(q)
    BY <1>3, Joined DEF AllBare
  <2> QED BY <1>3, <2>1 DEF AllBare
<1> QED BY <1>1, <1>2, <1>3

LEMMA FreeJoined ==
  ASSUME NEW f, NEW q, NEW cs, NEW t, Free(f, q, cs, t), NEW u, AllBare(u)
  PROVE  Free(f, q, cs, t \o u)
BY FreeThen DEF AllBare, Bare

LEMMA LockForBare == \A s : AllBare(LockFor(s)) /\ Silent(LockFor(s))
BY FewBare, BareEffects, LockForSilent DEF LockFor

LEMMA ParksBare ==
  AllBare(ParkAtBudget) /\ AllBare(ParkAtStepStop) /\ \A room : AllBare(ParkSpent(room))
BY FewBare, BareEffects DEF ParkAtBudget, ParkAtStepStop, ParkSpent

(* An ask at a gate with nothing behind it, or with all it needs.          *)
LEMMA AskFree ==
  ASSUME NEW f, NEW q, NEW cs, NEW gate, GateSound(f, q, gate), NEW options
  PROVE  Free(f, q, cs, <<Ask(gate, options)>>)
<1> PICK x : x = Ask(gate, options)
  OBVIOUS
<1>1. x.do = "ask" /\ x.gate = gate
  BY DEF Ask
<1>2. Rests(f, q, cs, x)
  BY <1>1 DEF Rests
<1> QED BY <1>1, <1>2, FreeOne

LEMMA EscalateFree ==
  ASSUME WorkflowsRunOn, wf \in Workflows, NEW f, NEW q, NEW cs,
         NEW gate \in RunnerGates, gate # "checks_failed"
  PROVE  Free(f, q, cs, <<Escalate(gate)>>)
BY GatesApart, AskFree DEF Escalate

LEMMA WriteFree ==
  ASSUME NEW f, NEW q, NEW cs, NEW e,
         e.kind = "step_started" => Startable(f, q, e),
         e.kind = "route_taken" /\ e.taken \in Steps => Ahead(f, e.taken),
         e.kind = "step_finished" => Finishable(f, cs, e)
  PROVE  Free(f, q, cs, <<Write(e)>>)
<1> PICK x : x = Write(e)
  OBVIOUS
<1>1. x.do = "write" /\ x.event = e
  BY DEF Write
<1>2. Rests(f, q, cs, x)
  BY <1>1 DEF Rests
<1> QED BY <1>1, <1>2, FreeOne
-----------------------------------------------------------------------------
(* What a step's start and its end plan                                    *)

LEMMA StartStepFree ==
  ASSUME WorkflowsLoad, wf \in Workflows, NEW s \in Steps, NEW n, NEW c, NEW e,
         e = StartedEvent(s, n, IF c = 0 THEN NewChild ELSE c), Startable(st, lead, e)
  PROVE  Free(st, lead, children, StartStep(s, n, c))
<1> DEFINE child == IF c = 0 THEN NewChild ELSE c
           started == <<Write(e)>>
           created == IF c = 0 THEN <<Do("create", s, n, child)>> ELSE <<>>
           ask == <<Ask(s, {"go", "amend", "stop"})>>
           said == IF AnswersItself(s) THEN <<Write(AnsweredEvent("go", 0))>> ELSE <<>>
           free(t) == Free(st, lead, children, t)
<1>1. e.kind = "step_started" /\ e.step = s /\ e.child = child
  BY DEF StartedEvent
<1>2. free(started)
  BY <1>1, WriteFree
<1>3. AllBare(said)
  BY FewBare, BareEffects DEF AnsweredEvent
<1>4. wf.steps[s].checkpoint => free(ask)
  <2> HAVE wf.steps[s].checkpoint
  <2>1. s # "checks_failed"
    BY DEF WorkflowsLoad, Steps
  <2>2. GateSound(st, lead, s)
    BY <1>1, <2>1 DEF GateSound, Startable, Top
  <2> HIDE DEF free
  <2> QED BY <2>2, AskFree DEF free
<1>5. free(LockFor(s) \o started) /\ IsSeq(LockFor(s) \o started)
  <2> HIDE DEF started
  <2>1. free(LockFor(s) \o started)
    BY <1>2, LockForBare, FreeBefore
  <2> QED BY <2>1 DEF Free
<1>6. Begins(LockFor(s) \o started, child)
  <2> PICK p : p = LockFor(s)
    OBVIOUS
  <2> PICK w : w = Write(e)
    OBVIOUS
  <2>1. w.do = "write" /\ w.event = e
    BY DEF Write
  <2>2. IsSeq(p) /\ IsSeq(<<w>>) /\ Len(<<w>>) = 1 /\ <<w>>[1] = w
    BY LockForBare, Few DEF AllBare
  <2>3. /\ Len(p \o <<w>>) = Len(p) + Len(<<w>>) /\ Len(p) \in Nat
        /\ \A i \in 1 .. Len(<<w>>) : (p \o <<w>>)[Len(p) + i] = <<w>>[i]
    BY <2>2, JoinedPlaces
  <2>4. Len(p) + 1 \in 1 .. Len(p \o <<w>>) /\ (p \o <<w>>)[Len(p) + 1] = w
    BY <2>2, <2>3
  <2>5. w.event.kind = "step_started" /\ w.event.child = child
    BY <1>1, <2>1
  <2> HIDE DEF child
  <2>6. Begins(p \o <<w>>, child)
    BY <2>1, <2>4, <2>5 DEF Begins
  <2> QED BY <2>6 DEF started
<1>7. free((LockFor(s) \o started) \o created)
  <2> PICK u : u = created
    OBVIOUS
  <2> PICK t : t = LockFor(s) \o started
    OBVIOUS
  <2>1. IsSeq(u) /\ \A y \in Range(u) : y = Do("create", s, n, child)
    <3>1. CASE c = 0
      <4> PICK x : x = Do("create", s, n, child)
        OBVIOUS
      <4>1. u = <<x>>
        BY <3>1
      <4>2. IsSeq(<<x>>) /\ Range(<<x>>) = {x}
        BY Few
      <4>3. \A y \in Range(u) : y = x
        BY <4>1, <4>2
      <4> QED BY <4>1, <4>2, <4>3
    <3>2. CASE c # 0
      <4>1. u = <<>>
        BY <3>2
      <4> QED BY <4>1, Few
    <3> QED BY <3>1, <3>2
  <2>2. \A x \in Range(u) : /\ ~Rested(x) /\ ~ForChild(x)
                            /\ x.do = "create" => Begins(t, x.child)
    <3> SUFFICES ASSUME NEW x \in Range(u)
                 PROVE  ~Rested(x) /\ ~ForChild(x) /\ Begins(t, x.child)
      OBVIOUS
    <3>1. x.do = "create" /\ x.child = child
      BY <2>1 DEF Do
    <3> HIDE DEF child, started
    <3> QED BY <1>6, <3>1 DEF Rested, ForChild
  <2> HIDE DEF created, started, child, free
  <2>3. Free(st, lead, children, t \o u)
    BY <1>5, <2>1, <2>2, FreeThen DEF free
  <2> QED BY <2>3 DEF free
<1>8. free(ask) => free(ask \o said)
  <2> HIDE DEF ask, said, free
  <2> QED BY <1>3, FreeJoined DEF free
<1>9. free(ParkAtBudget) /\ free(ParkAtStepStop)
  BY ParksBare, BareFree
<1>10. \/ StartStep(s, n, c) \in {ParkAtBudget, ParkAtStepStop,
                                  (LockFor(s) \o started) \o created}
       \/ wf.steps[s].checkpoint /\ StartStep(s, n, c) = ask \o said
  <2> HIDE DEF ask, said
  <2> QED BY DEF StartStep, ask, said
<1> HIDE DEF started, created, ask, said, free
<1>11. free(StartStep(s, n, c))
  BY <1>4, <1>7, <1>8, <1>9, <1>10
<1> QED BY <1>11 DEF free

(* The report an attempt is closed with is after its prompt.               *)
LEMMA ReportAfter ==
  ASSUME LogsSound(children), NEW c, NEW n, NEW r, r = LastSince(c, n, "report"), r # 0
  PROVE  r > PromptNo(children, c, n)
<1>1. Child(c) = LogIn(children, c) /\ Prompts(c) = PromptsIn(children, c)
  BY DEF Child, LogIn, Prompts, PromptsIn
<1>2. PromptAt(c, n) = PromptNo(children, c, n)
  BY <1>1 DEF PromptAt, PromptNo
<1> PICK a : a = PromptAt(c, n)
  OBVIOUS
<1> PICK l : l = Len(Child(c))
  OBVIOUS
<1>3. l \in Nat /\ Prompts(c) \in SUBSET (1 .. l)
  BY <1>1, PromptPlaces
<1>4. a \in {0} \union Prompts(c)
  <2> DEFINE A == {0} \union {i \in Prompts(c) : Cardinality({j \in Prompts(c) : j <= i}) = n}
  <2>1. A \in SUBSET (0 .. l) /\ A # {}
    BY <1>3
  <2> HIDE DEF A
  <2>2. Max(A) \in A
    BY <1>3, <2>1, Greatest
  <2> QED BY <2>2 DEF PromptAt, A
<1>5. r \in a .. l /\ Child(c)[r].k = "report"
  <2> DEFINE B == {0} \union Since(c, n, "report")
  <2>1. B \in SUBSET (0 .. l) /\ B # {}
    BY <1>3, <1>4 DEF Since
  <2> HIDE DEF B
  <2>2. Max(B) \in B
    BY <1>3, <2>1, Greatest
  <2>3. r \in Since(c, n, "report")
    BY <2>2 DEF LastSince, B
  <2> QED BY <2>3 DEF Since
<1>6. r # a
  BY <1>4, <1>5 DEF Prompts
<1>7. a \in Nat
  BY <1>3, <1>4
<1> QED BY <1>2, <1>3, <1>5, <1>6, <1>7

LEMMA EndOfFree ==
  ASSUME LogsSound(children), ~st.broken, OpenStep(st), IsSeq(st.steps), Paid(st, children),
         NEW s, s = Last(st.steps).step, NEW n, n = Last(st.steps).attempt,
         NEW c, c = Last(st.steps).child
  PROVE  Free(st, lead, children, EndOf(s, n, c))
<1> DEFINE event(as, why, r) ==
             [kind |-> "step_finished", step |-> s, status |-> as,
              reason |-> why, cost |-> SpentSince(c, n), report |-> r]
           finished(as, why, r) == Write(event(as, why, r))
           ask(options) == Ask(StepStop, options)
           report == LastSince(c, n, "report")
           status == Child(c)[report].status
           reason == Child(c)[LastSince(c, n, "end")].reason
           options == IF reason = "fault" THEN {"retry", "stop"} ELSE {"stop"}
           free(t) == Free(st, lead, children, t)
<1>1. Last(st.steps) = st.steps[Len(st.steps)]
  BY LastIsNewest DEF OpenStep
<1>2. ASSUME NEW r, r = 0 \/ r = report PROVE ReportFits(st, children, Len(st.steps), r)
  <2>1. r # 0 => r > PromptNo(children, c, n)
    BY <1>2, ReportAfter
  <2> QED BY <1>1, <2>1 DEF ReportFits
<1>3. ASSUME NEW as, NEW why, NEW r, r = 0 \/ r = report
      PROVE  free(<<finished(as, why, r)>>)
  <2> PICK e : e = event(as, why, r)
    OBVIOUS
  <2>1. e.kind = "step_finished" /\ e.step = s /\ e.report = r
    OBVIOUS
  <2>2. ReportFits(st, children, Len(st.steps), r)
    BY <1>2, <1>3
  <2>3. Finishable(st, children, e)
    BY <2>1, <2>2 DEF Finishable, Paid
  <2>4. Free(st, lead, children, <<Write(e)>>)
    BY <2>1, <2>3, WriteFree
  <2> QED BY <2>4
<1>4. AllBare(<<ask(options)>>) /\ AllBare(<<Fail>>)
  BY FewBare, BareEffects
<1>5. free(<<Fail>>)
  BY <1>4, BareFree
<1>6. \/ EndOf(s, n, c) = <<finished("partial", "empty report", 0)>>
      \/ EndOf(s, n, c) = <<finished(status, "reported", report)>>
      \/ EndOf(s, n, c) = <<Fail>>
      \/ EndOf(s, n, c) = <<finished("partial", reason, 0)>>
      \/ EndOf(s, n, c) = <<finished("failed", reason, 0), ask(options)>>
  BY DEF EndOf
<1> HIDE DEF finished, ask, report, status, reason, options, free
<1>7. free(<<finished("failed", reason, 0), ask(options)>>)
  <2> PICK x : x = finished("failed", reason, 0)
    OBVIOUS
  <2> PICK y : y = ask(options)
    OBVIOUS
  <2>1. Free(st, lead, children, <<x>> \o <<y>>)
    BY <1>3, <1>4, FreeJoined DEF free
  <2>2. <<x>> \o <<y>> = <<x, y>>
    BY PairJoined
  <2> QED BY <2>1, <2>2 DEF free
<1>8. free(EndOf(s, n, c))
  BY <1>3, <1>5, <1>6, <1>7
<1> QED BY <1>8 DEF free
-----------------------------------------------------------------------------
(* What the moves are about                                                *)

LEMMA MoveKinds ==
  ASSUME NEW f, f.last \in Decisive, NEW m, m = NextMove(f)
  PROVE  LET opened == {i \in DOMAIN f.steps : f.steps[i].status = "open"}
             pushes == {i \in DOMAIN f.steps : f.steps[i].pushed}
         IN  /\ m.do = "StartFirstStep" => f.last = "run_started"
             /\ m.do = "ReAwait" => f.last = "step_started" /\ m = Move("ReAwait", f.steps[Max(opened)])
             /\ m.do = "AfterStep" => f.last = "step_finished"
             /\ m.do = "ChecksDone" => f.last = "checks_run"
             /\ m.do = "Pushed" => f.last = "pushed" /\ m = Move("Pushed", f.steps[Max(pushes)])
             /\ m.do = "FollowRoute" => f.last = "route_taken"
             /\ m.do = "AwaitingCheckpoint" => f.last = "checkpoint_asked"
             /\ m.do = "Answered" => f.last = "checkpoint_answered"
<1> DEFINE opened == {i \in DOMAIN f.steps : f.steps[i].status = "open"}
           ended == {i \in DOMAIN f.steps : f.steps[i].status # "open"}
           checked == {i \in DOMAIN f.steps : f.steps[i].checks # None}
           pushes == {i \in DOMAIN f.steps : f.steps[i].pushed}
           due(last, do, r) == f.last = last => m = Move(do, r)
<1>1. \A do, r : Move(do, r).do = do
  BY DEF Move
<1>2. due("run_started", "StartFirstStep", NoRecord)
  BY DEF NextMove, None
<1>3. due("step_started", "ReAwait", f.steps[Max(opened)])
  BY DEF NextMove, None
<1>4. due("step_finished", "AfterStep", f.steps[Max(ended)])
  BY DEF NextMove, None
<1>5. due("checks_run", "ChecksDone", f.steps[Max(checked)])
  BY DEF NextMove, None
<1>6. due("pushed", "Pushed", f.steps[Max(pushes)])
  BY DEF NextMove, None
<1>7. due("route_taken", "FollowRoute", NoRecord)
  BY DEF NextMove, None
<1>8. due("checkpoint_asked", "AwaitingCheckpoint", NoRecord)
  BY DEF NextMove, None
<1>9. due("checkpoint_answered", "Answered", NoRecord)
  BY DEF NextMove, None
<1>10. due("run_finished", "Done", NoRecord)
  BY DEF NextMove, None
<1> HIDE DEF opened, ended, checked, pushes
<1>11. f.last \in {"run_started", "step_started", "step_finished", "checks_run", "pushed",
                   "route_taken", "checkpoint_asked", "checkpoint_answered", "run_finished"}
  BY DEF Decisive
<1>12. /\ m.do = "StartFirstStep" => f.last = "run_started"
       /\ m.do = "ReAwait" => f.last = "step_started" /\ m = Move("ReAwait", f.steps[Max(opened)])
       /\ m.do = "AfterStep" => f.last = "step_finished"
       /\ m.do = "ChecksDone" => f.last = "checks_run"
       /\ m.do = "Pushed" => f.last = "pushed" /\ m = Move("Pushed", f.steps[Max(pushes)])
       /\ m.do = "FollowRoute" => f.last = "route_taken"
       /\ m.do = "AwaitingCheckpoint" => f.last = "checkpoint_asked"
       /\ m.do = "Answered" => f.last = "checkpoint_answered"
  BY <1>1, <1>2, <1>3, <1>4, <1>5, <1>6, <1>7, <1>8, <1>9, <1>10, <1>11
<1> QED BY <1>12 DEF opened, pushes

(* The newest record of the run.                                           *)
LEMMA LastFacts ==
  ASSUME LogSound, RecordsSound(st), st.steps # <<>>, NEW r, r = Last(st.steps)
  PROVE  /\ Len(st.steps) \in DOMAIN st.steps /\ st.steps[Len(st.steps)] = r
         /\ Newest(st, r.step) = Len(st.steps) /\ Len(st.steps) \in Nat \ {0}
         /\ r.step \in Steps /\ r.attempt = Cardinality(Of(st, r.step)) /\ r.attempt \in Nat
         /\ \A i \in DOMAIN st.steps :
              st.steps[i].step = r.step /\ i # Len(st.steps) => st.steps[i].attempt < r.attempt
         /\ r.child \in Kids(st) /\ r.child # 0 /\ Top(st, r.step)
<1> PICK n : n = Len(st.steps)
  OBVIOUS
<1>1. IsSeq(st.steps) /\ \A x \in Range(st.steps) : x.step \in Steps
  BY DEF LogSound, FoldSound
<1>2. /\ n \in DOMAIN st.steps /\ st.steps[n] = r /\ n \in Nat \ {0} /\ r \in Range(st.steps)
      /\ Newest(st, r.step) = n /\ DOMAIN st.steps = 1 .. n
  BY <1>1, LastIsNewest, Places
<1>3. /\ r.attempt = Cardinality(Of(st, r.step)) /\ r.attempt \in Nat
      /\ \A i \in DOMAIN st.steps :
           st.steps[i].step = r.step /\ i # n => st.steps[i].attempt < r.attempt
  <2>1. \A i \in DOMAIN st.steps : i <= n
    BY <1>2
  <2> QED BY <1>1, <1>2, <2>1, NewestCounts DEF RecordsSound
<1>4. r.child \in Kids(st)
  BY <1>2 DEF Kids
<1>5. r.child # 0
  <2>1. PICK k \in Nat : Kids(st) = 1 .. k
    BY DEF RecordsSound, KidsSound
  <2> QED BY <1>4, <2>1
<1>6. Top(st, r.step)
  BY DEF RecordsSound, Climbs, Top
<1> QED BY <1>1, <1>2, <1>3, <1>4, <1>5, <1>6

(* A step is entered for the first time, afresh.                           *)
LEMMA EnterFree ==
  ASSUME WorkflowsLoad, WorkflowsRunOn, LogSound, ~st.broken, NEW s \in Steps,
         st.last \notin {"checks_run", "step_finished"}, Ahead(st, s)
  PROVE  Free(st, lead, children, StartStep(s, 1, 0))
<1> PICK e : e = StartedEvent(s, 1, NewChild)
  OBVIOUS
<1>1. e.step = s /\ e.attempt = 1 /\ e.child = NewChild /\ wf \in Workflows
  BY DEF StartedEvent, LogSound
<1>2. \A x \in Steps : Rank[x] \in Nat
  BY <1>1, RankRises
<1>3. \A i \in DOMAIN st.steps : st.steps[i].step \in Steps
  BY Places DEF LogSound, FoldSound
<1>4. ASSUME ~OpenStep(st) PROVE 1 = Cardinality(Of(st, s)) + 1 /\ Top(st, s)
  <2>1. \A i \in DOMAIN st.steps : Rank[st.steps[i].step] < Rank[s]
    BY <1>4 DEF Ahead
  <2>2. Of(st, s) = {}
    <3> SUFFICES ASSUME NEW i \in DOMAIN st.steps, st.steps[i].step = s PROVE FALSE
      BY DEF Of
    <3> QED BY <1>2, <2>1
  <2>3. Cardinality(Of(st, s)) = 0
    BY <2>2, FS_EmptySet
  <2> QED BY <1>2, <1>3, <2>1, <2>3 DEF Top
<1>5. NewChild = 1 + Cardinality(Kids(st))
  BY DEF NewChild, Kids
<1>6. Startable(st, lead, e)
  BY <1>1, <1>4, <1>5 DEF Startable
<1>7. e = StartedEvent(s, 1, IF 0 = 0 THEN NewChild ELSE 0)
  OBVIOUS
<1> QED BY <1>1, <1>6, <1>7, StartStepFree

(* The step of the newest record goes on, one attempt on.                  *)
LEMMA AgainFree ==
  ASSUME WorkflowsLoad, LogSound, RecordsSound(st), ~st.broken, st.steps # <<>>,
         NEW r, r = Last(st.steps), NEW c, c = r.child \/ c = 0,
         st.last = "checks_run" =>
             \E b \in DOMAIN lead : /\ lead[b].kind = "checks_run"
                                    /\ \A j \in DOMAIN lead : j > b => lead[j].kind # "checks_run"
                                    /\ FailEvent(lead[b], r.step)
                                    /\ \A j \in DOMAIN lead : FailEvent(lead[j], r.step) => j = b,
         st.last = "step_finished" =>
             \E b \in DOMAIN lead : /\ NewestFinish(lead, b) /\ PartialEvent(lead[b], r.step)
                                    /\ \A j \in DOMAIN lead : PartialEvent(lead[j], r.step) => j = b
  PROVE  Free(st, lead, children, StartStep(r.step, r.attempt + 1, c))
<1> PICK d : d = IF c = 0 THEN NewChild ELSE c
  OBVIOUS
<1> PICK e : e = StartedEvent(r.step, r.attempt + 1, d)
  OBVIOUS
<1>1. e.step = r.step /\ e.attempt = r.attempt + 1 /\ e.child = d /\ wf \in Workflows
  BY DEF StartedEvent, LogSound
<1>2. /\ Len(st.steps) \in DOMAIN st.steps /\ st.steps[Len(st.steps)] = r
      /\ r.step \in Steps /\ r.attempt = Cardinality(Of(st, r.step)) /\ r.child # 0
      /\ Top(st, r.step)
  BY LastFacts
<1>3. \/ d = 1 + Cardinality(Kids(st))
      \/ \E i \in DOMAIN st.steps : st.steps[i].child = d /\ st.steps[i].step = r.step
  <2>1. CASE c = 0
    BY <2>1 DEF NewChild, Kids
  <2>2. CASE c # 0
    BY <1>2, <2>2
  <2> QED BY <2>1, <2>2
<1>4. Startable(st, lead, e)
  BY <1>1, <1>2, <1>3 DEF Startable
<1> QED BY <1>1, <1>2, <1>4, StartStepFree

(* The run goes on from a step that no step it entered is past.            *)
LEMMA OnFree ==
  ASSUME WorkflowsRunOn, LogSound, NEW s \in Steps, Top(st, s), NEW e, e.kind = "route_taken",
         \/ e.taken = wf.steps[s].next
         \/ \E word \in DOMAIN wf.steps[s].routes : e.taken = wf.steps[s].routes[word]
  PROVE  Free(st, lead, children, <<Write(e)>>)
<1>1. wf \in Workflows /\ \A i \in DOMAIN st.steps : st.steps[i].step \in Steps
  BY Places DEF LogSound, FoldSound
<1>2. Onward(wf, Rank) /\ \A x \in Steps : Rank[x] \in Nat
  BY <1>1, RankRises
<1>3. ASSUME e.taken \in Steps PROVE Rank[s] < Rank[e.taken]
  BY <1>2, <1>3 DEF Onward, Steps
<1>4. ASSUME e.taken \in Steps PROVE Ahead(st, e.taken)
  <2> PICK t : t = e.taken
    OBVIOUS
  <2>1. Rank[s] < Rank[t] /\ Rank[s] \in Nat /\ Rank[t] \in Nat
    BY <1>2, <1>3, <1>4
  <2>2. ASSUME ~OpenStep(st), NEW i \in DOMAIN st.steps PROVE Rank[st.steps[i].step] < Rank[t]
    <3>1. Rank[st.steps[i].step] <= Rank[s] /\ Rank[st.steps[i].step] \in Nat
      BY <1>1, <1>2, <2>2 DEF Top
    <3> QED BY <2>1, <3>1
  <2> QED BY <2>2 DEF Ahead
<1> QED BY <1>4, WriteFree

LEMMA FollowNextFree ==
  ASSUME WorkflowsRunOn, LogSound, NEW s \in Steps, Top(st, s)
  PROVE  Free(st, lead, children, FollowNext(s))
<1> DEFINE e == Route("next", wf.steps[s].next, 0)
           finish == <<Finish("closed")>>
           stopped == <<Escalate("no_next_step")>>
           written == <<Write(e)>>
<1>1. e.kind = "route_taken" /\ e.taken = wf.steps[s].next
  BY DEF Route
<1> HIDE DEF e
<1>2. Free(st, lead, children, written)
  BY <1>1, OnFree
<1>3. Free(st, lead, children, finish)
  BY BareEffects, FewBare, BareFree
<1>4. Free(st, lead, children, stopped)
  <2>1. "no_next_step" \in RunnerGates /\ wf \in Workflows
    BY DEF RunnerGates, LogSound
  <2> QED BY <2>1, EscalateFree
<1> HIDE DEF finish, stopped, written
<1>5. FollowNext(s) \in {finish, stopped, written}
  BY DEF FollowNext, finish, stopped, written, e
<1> QED BY <1>2, <1>3, <1>4, <1>5

LEMMA TakeRouteFree ==
  ASSUME WorkflowsRunOn, LogSound, NEW s \in Steps, Top(st, s), NEW report
  PROVE  Free(st, lead, children, TakeRoute(s, report))
<1> DEFINE over == wf.ceiling > 0 /\ report.usd > wf.ceiling
           routes == wf.steps[s].routes
           e == Route(report.word, routes[report.word], IF over THEN st.budget ELSE report.usd)
           written == <<Write(e)>>
           park == IF over THEN ParkAtBudget ELSE <<>>
           stopped == <<Escalate("route_escalate")>>
<1>1. e.kind = "route_taken" /\ e.taken = routes[report.word]
  BY DEF Route
<1> HIDE DEF e
<1>2. report.word \in DOMAIN routes => Free(st, lead, children, written)
  BY <1>1, OnFree
<1>3. AllBare(park)
  BY ParksBare, FewBare
<1>4. Free(st, lead, children, stopped)
  <2>1. "route_escalate" \in RunnerGates /\ wf \in Workflows
    BY DEF RunnerGates, LogSound
  <2> QED BY <2>1, EscalateFree
<1>5. TakeRoute(s, report) = IF report.word \notin DOMAIN routes THEN stopped ELSE written \o park
  BY DEF TakeRoute, e
<1> HIDE DEF park, written, stopped
<1>6. report.word \in DOMAIN routes => Free(st, lead, children, written \o park)
  BY <1>2, <1>3, FreeJoined
<1> QED BY <1>4, <1>5, <1>6

LEMMA PushAllBare ==
  ASSUME NEW s, NEW n
  PROVE  AllBare(PushAndInstall(s, n))
<1> DEFINE weigh == <<Do("weigh", s, n, 0)>>
           install == IF wf.steps[s].install THEN <<Do("install", s, n, 0)>> ELSE <<>>
           pushed == <<Write([kind |-> "pushed", step |-> s, after |-> head])>>
<1>1. AllBare(weigh) /\ AllBare(install) /\ AllBare(pushed)
  BY BareEffects, FewBare
<1> HIDE DEF weigh, install, pushed
<1>2. AllBare((weigh \o install) \o pushed)
  BY <1>1, FewBare
<1> QED BY <1>2 DEF PushAndInstall, weigh, install, pushed
-----------------------------------------------------------------------------
(* What each move plans                                                    *)

(* What the moves rest on.                                                 *)
Moving == LogSound /\ PushInv /\ FoldApart(st, lead) /\ ~st.broken

LEMMA NewestPlace ==
  ASSUME NEW q, IsSeq(q), NEW A \in SUBSET DOMAIN q, A # {}
  PROVE  Max(A) \in A /\ \A i \in DOMAIN q : i > Max(A) => i \notin A
<1>1. A \in SUBSET (0 .. Len(q)) /\ Len(q) \in Nat
  BY Places
<1> DEFINE T == {Len(q) - x : x \in A}
<1>2. T \in SUBSET Nat /\ T # {}
  <2>1. \A x \in A : x \in Nat /\ x <= Len(q) /\ Len(q) - x \in Nat
    BY <1>1
  <2> QED BY <2>1
<1>3. PICK m \in T : \A t \in T : m <= t
  BY <1>2, LeastNat
<1>4. PICK x \in A : m = Len(q) - x
  BY <1>3
<1>5. ASSUME NEW y \in A PROVE y <= x
  <2>1. Len(q) - x <= Len(q) - y
    BY <1>3, <1>4
  <2>2. x \in Nat /\ y \in Nat /\ Len(q) \in Nat
    BY <1>1
  <2> QED BY <2>1, <2>2
<1>6. Max(A) = x
  <2>1. A \in SUBSET Nat
    BY <1>1
  <2> QED BY <1>5, <2>1, MaxIs
<1>7. A \in SUBSET Nat /\ DOMAIN q \in SUBSET Nat
  BY <1>1, Places
<1> QED BY <1>5, <1>6, <1>7

(* A set with one place in it, at most.                                    *)
LEMMA OneOnly ==
  ASSUME NEW n \in Nat, NEW A \in SUBSET (1 .. n), Cardinality(A) <= 1, NEW a \in A, NEW b \in A
  PROVE  a = b
<1> SUFFICES ASSUME a # b PROVE FALSE
  OBVIOUS
<1>1. {a} \in SUBSET A /\ {a} # A /\ {a} # {} /\ {a} \in SUBSET (1 .. n)
  OBVIOUS
<1>2. Cardinality({a}) < Cardinality(A) /\ Cardinality(A) \in Nat
  BY <1>1, CountOf
<1>3. Cardinality({a}) \in Nat /\ Cardinality({a}) # 0
  BY <1>1, CountOf
<1> QED BY <1>2, <1>3

LEMMA LeadsNow ==
  ASSUME Moving
  PROVE  Leads(st, st.last)
BY DEF Moving, FoldApart, CourseSound, MayCall

LEMMA FirstStepFree ==
  ASSUME WorkflowsLoad, WorkflowsRunOn, Moving, st.last = "run_started"
  PROVE  Free(st, lead, children, StartStep(wf.first, 1, 0))
<1>1. st.steps = <<>>
  BY LeadsNow DEF Leads
<1>2. DOMAIN st.steps = {}
  BY <1>1
<1>3. Ahead(st, wf.first)
  BY <1>2 DEF Ahead
<1>4. wf.first \in Steps
  BY DEF WorkflowsLoad, Steps, Moving, LogSound
<1> QED BY <1>3, <1>4, EnterFree DEF Moving

LEMMA FollowRouteFree ==
  ASSUME WorkflowsLoad, WorkflowsRunOn, Moving, st.last = "route_taken"
  PROVE  Free(st, lead, children, FollowRoute)
<1> PICK s : s = st.route.taken
  OBVIOUS
<1> DEFINE approve == IF st.route.proposed = "approve" THEN <<Do("approve", None, 0, 0)>> ELSE <<>>
           finish == <<Finish("closed")>>
           asked == <<Escalate("route")>>
           stopped == <<Escalate("route_escalate")>>
           entered == StartStep(s, 1, 0)
           free(t) == Free(st, lead, children, t)
<1>1. s \in Steps => free(entered)
  <2> HAVE s \in Steps
  <2>1. Ahead(st, s)
    BY LeadsNow DEF Leads
  <2> QED BY <2>1, EnterFree DEF Moving
<1>2. free(asked) /\ free(stopped)
  <2>1. "route" \in RunnerGates /\ "route_escalate" \in RunnerGates /\ wf \in Workflows
    BY DEF RunnerGates, Moving, LogSound
  <2> QED BY <2>1, EscalateFree
<1>3. free(approve \o finish)
  <2>1. AllBare(approve) /\ AllBare(finish)
    BY BareEffects, FewBare
  <2> HIDE DEF approve, finish, free
  <2> QED BY <2>1, FewBare, BareFree DEF free
<1>4. \/ FollowRoute \in {asked, stopped, approve \o finish}
      \/ s \in Steps /\ FollowRoute = entered
  <2> HIDE DEF entered
  <2> QED BY DEF FollowRoute, Steps, entered
<1> HIDE DEF approve, finish, asked, stopped, entered
<1> QED BY <1>1, <1>2, <1>3, <1>4

(* A step that stopped short is sent back on its only partial report.      *)
LEMMA OnlyPartial ==
  ASSUME Moving, st.last = "step_finished", ~OpenStep(st), st.steps # <<>>,
         NEW r, r = Last(st.steps), r.status = "partial", Closed(lead, r.step),
         PartialAttempts(r.step, r.attempt) = 0
  PROVE  \E b \in DOMAIN lead : /\ NewestFinish(lead, b) /\ PartialEvent(lead[b], r.step)
                                /\ \A j \in DOMAIN lead : PartialEvent(lead[j], r.step) => j = b
<1> DEFINE A == {i \in DOMAIN lead : lead[i].kind = "step_finished"}
<1>1. IsSeq(lead) /\ IsSeq(st.steps) /\ RecordsSound(st) /\ LogMatches(st, lead) /\ LogSound
  BY DEF Moving, LogSound, LeadSound, FoldSound, FoldApart
<1>2. A \in SUBSET DOMAIN lead /\ A # {}
  BY DEF Closed
<1>3. Max(A) \in A /\ \A i \in DOMAIN lead : i > Max(A) => i \notin A
  <2> HIDE DEF A
  <2> QED BY <1>1, <1>2, NewestPlace
<1> PICK b : b = Max(A)
  OBVIOUS
<1>4. b \in DOMAIN lead /\ NewestFinish(lead, b)
  BY <1>3 DEF NewestFinish
<1>5. lead[b].step = r.step /\ lead[b].status = "partial"
  BY <1>1, <1>4 DEF LogMatches, Moving
<1>6. PartialEvent(lead[b], r.step)
  BY <1>4, <1>5 DEF PartialEvent, NewestFinish
<1> PICK n : n = Len(st.steps)
  OBVIOUS
<1> PICK m : m = Len(lead)
  OBVIOUS
<1>7. /\ n \in DOMAIN st.steps /\ n \in Nat /\ DOMAIN st.steps = 1 .. n
      /\ \A i \in DOMAIN st.steps :
           st.steps[i].step = r.step /\ i # n => st.steps[i].attempt < r.attempt
      /\ m \in Nat /\ DOMAIN lead = 1 .. m
  BY <1>1, LastFacts, Places
<1>8. PartialRecords(st, r.step) \subseteq {n}
  <2> DEFINE B == {i \in DOMAIN st.steps : /\ st.steps[i].step = r.step
                                           /\ st.steps[i].attempt < r.attempt
                                           /\ st.steps[i].status = "partial"}
  <2>1. B \in SUBSET (1 .. n) /\ Cardinality(B) = 0
    BY <1>7 DEF PartialAttempts
  <2>2. B = {}
    <3> HIDE DEF B
    <3> QED BY <1>7, <2>1, CountOf
  <2> QED BY <1>7, <2>2 DEF PartialRecords
<1>9. Cardinality(PartialRecords(st, r.step)) <= 1
  <2>1. Cardinality({n}) = 1 /\ IsFiniteSet({n})
    BY FS_Singleton
  <2>2. Cardinality(PartialRecords(st, r.step)) <= Cardinality({n})
    BY <1>8, <2>1, FS_Subset
  <2> QED BY <2>1, <2>2
<1>10. Cardinality(PartialsIn(lead, r.step)) <= 1
  <2>1. Cardinality(PartialsIn(lead, r.step)) <= Cardinality(PartialRecords(st, r.step))
    BY <1>1 DEF LogMatches, Moving
  <2>2. PartialsIn(lead, r.step) \in SUBSET (1 .. m) /\ PartialRecords(st, r.step) \in SUBSET (1 .. n)
    BY <1>7 DEF PartialsIn, PartialRecords
  <2>3. Cardinality(PartialsIn(lead, r.step)) \in Nat /\ Cardinality(PartialRecords(st, r.step)) \in Nat
    BY <1>7, <2>2, CountOf
  <2> QED BY <1>9, <2>1, <2>3
<1>11. ASSUME NEW j \in DOMAIN lead, PartialEvent(lead[j], r.step) PROVE j = b
  <2>1. j \in PartialsIn(lead, r.step) /\ b \in PartialsIn(lead, r.step)
    BY <1>4, <1>6, <1>11 DEF PartialsIn
  <2>2. PartialsIn(lead, r.step) \in SUBSET (1 .. m)
    BY <1>7 DEF PartialsIn
  <2> QED BY <1>7, <1>10, <2>1, <2>2, OneOnly
<1> QED BY <1>4, <1>6, <1>11

LEMMA HandoverFree ==
  ASSUME WorkflowsRunOn, wf \in Workflows, NEW s, NEW n, NEW outcome
  PROVE  Free(st, lead, children, Handover(s, n, outcome))
<1> DEFINE e == [kind |-> "checks_run", step |-> s, outcome |-> outcome]
           pushed == PushAndInstall(s, n)
           written == <<Write(e)>>
           stopped == <<Escalate("checks_error")>>
           free(t) == Free(st, lead, children, t)
<1>1. e.kind = "checks_run"
  OBVIOUS
<1>2. free(pushed)
  BY PushAllBare, BareFree
<1>3. free(written)
  BY <1>1, BareEffects, FewBare, BareFree
<1>4. free(stopped)
  <2>1. "checks_error" \in RunnerGates
    BY DEF RunnerGates
  <2> QED BY <2>1, EscalateFree
<1>5. Handover(s, n, outcome) \in {pushed, written, stopped}
  BY DEF Handover
<1> HIDE DEF pushed, written, stopped
<1> QED BY <1>2, <1>3, <1>4, <1>5

LEMMA AfterStepFree ==
  ASSUME WorkflowsLoad, WorkflowsRunOn, Moving, NEW m, m = NextMove(st), m.do = "AfterStep",
         NEW outcome
  PROVE  Free(st, lead, children, AfterStep(m.step, m.attempt, outcome))
<1> PICK s, n, r : s = m.step /\ n = m.attempt /\ r = Last(st.steps)
  OBVIOUS
<1>1. /\ st.steps # <<>> /\ r.status # "open" /\ r.step = s /\ r.attempt = n /\ Closed(lead, s)
      /\ st.steps[RecordOf(st, s, n)] = r
  BY MoveBacked DEF Moving
<1>2. ~OpenStep(st) /\ RecordsSound(st) /\ LogSound /\ wf \in Workflows
  BY <1>1 DEF OpenStep, Moving, FoldApart, LogSound
<1>3. st.last = "step_finished"
  BY MoveKinds DEF Moving, LogSound, FoldSound
<1>4. s \in Steps /\ Top(st, s)
  BY <1>1, <1>2, LastFacts
<1> DEFINE said == <<Comment(<<s, n>>)>>
           report == CHOOSE x \in ReportOf(s, n) : TRUE
           routed == TakeRoute(s, report)
           handed == Handover(s, n, outcome)
           again == StartStep(s, n + 1, r.child)
           stopped == <<Escalate(StepStop)>>
           free(t) == Free(st, lead, children, t)
<1>5. AllBare(said) /\ Silent(said)
  BY BareEffects, FewBare, FewClaimless, ClaimlessEffects DEF Comment, Records
<1>6. free(routed) /\ free(handed) /\ free(FollowNext(s)) /\ free(stopped)
  <2>1. free(stopped)
    BY BareEffects, FewBare, BareFree
  <2> QED BY <1>2, <1>4, <2>1, TakeRouteFree, HandoverFree, FollowNextFree
<1>7. r.status = "partial" /\ PartialAttempts(s, n) = 0 => free(again)
  <2> HAVE r.status = "partial" /\ PartialAttempts(s, n) = 0
  <2>1. \E b \in DOMAIN lead : /\ NewestFinish(lead, b) /\ PartialEvent(lead[b], r.step)
                               /\ \A j \in DOMAIN lead : PartialEvent(lead[j], r.step) => j = b
    BY <1>1, <1>2, <1>3, OnlyPartial
  <2> QED BY <1>1, <1>2, <1>3, <2>1, AgainFree DEF Moving
<1>8. \/ AfterStep(s, n, outcome) \in {stopped, said \o routed, said \o handed, said \o FollowNext(s)}
      \/ r.status = "partial" /\ PartialAttempts(s, n) = 0 /\ AfterStep(s, n, outcome) = again
  <2> HIDE DEF said, report, handed, again, stopped
  <2> QED BY <1>1 DEF AfterStep, said, report, handed, again, stopped
<1> HIDE DEF said, routed, handed, again, stopped, free
<1>9. free(said \o routed) /\ free(said \o handed) /\ free(said \o FollowNext(s))
  BY <1>5, <1>6, FreeBefore DEF free
<1>10. free(AfterStep(s, n, outcome))
  BY <1>6, <1>7, <1>8, <1>9
<1> QED BY <1>10 DEF free
(* Checks that failed for the first time.                                  *)
LEMMA OnlyFailure ==
  ASSUME Moving, NEW s, CameOut(lead, s, "fail"), FailedRuns(s) <= 1
  PROVE  \E b \in DOMAIN lead : /\ lead[b].kind = "checks_run"
                                /\ \A j \in DOMAIN lead : j > b => lead[j].kind # "checks_run"
                                /\ FailEvent(lead[b], s)
                                /\ \A j \in DOMAIN lead : FailEvent(lead[j], s) => j = b
<1> PICK b \in DOMAIN lead :
      /\ lead[b].kind = "checks_run" /\ lead[b].step = s /\ lead[b].outcome = "fail"
      /\ \A j \in DOMAIN lead : j > b => lead[j].kind \notin Checking
  BY DEF CameOut
<1> PICK n : n = Len(lead)
  OBVIOUS
<1> DEFINE A == {i \in DOMAIN lead : FailEvent(lead[i], s)}
<1>1. n \in Nat /\ DOMAIN lead = 1 .. n
  BY Places DEF Moving, LogSound, LeadSound
<1>2. A \in SUBSET (1 .. n) /\ Cardinality(A) <= 1 /\ b \in A
  BY <1>1 DEF FailedRuns, LeadHas, FailEvent
<1>3. ASSUME NEW j \in DOMAIN lead, FailEvent(lead[j], s) PROVE j = b
  <2>1. j \in A
    BY <1>3
  <2> HIDE DEF A
  <2> QED BY <1>1, <1>2, <2>1, OneOnly
<1>4. FailEvent(lead[b], s)
  BY DEF FailEvent
<1> QED BY <1>3, <1>4 DEF Checking

LEMMA ChecksDoneFree ==
  ASSUME WorkflowsLoad, WorkflowsRunOn, Moving, NEW m, m = NextMove(st), m.do = "ChecksDone"
  PROVE  Free(st, lead, children, ChecksDone(m.step, m.attempt))
<1> PICK s, n, r : s = m.step /\ n = m.attempt /\ r = Last(st.steps)
  OBVIOUS
<1>1. /\ st.steps # <<>> /\ r.status # "open" /\ r.step = s /\ r.attempt = n
      /\ st.steps[RecordOf(st, s, n)] = r /\ CameOut(lead, s, r.checks)
  BY MoveBacked DEF Moving
<1>2. RecordsSound(st) /\ LogSound /\ wf \in Workflows
  BY DEF Moving, FoldApart, LogSound
<1>3. st.last = "checks_run"
  BY MoveKinds DEF Moving, LogSound, FoldSound
<1> DEFINE again == StartStep(s, n + 1, r.child)
           asked == <<Ask("checks_failed", {"retry", "stop"})>>
           stopped == <<Escalate("no_push")>>
           push == PushAndInstall(s, n)
           free(t) == Free(st, lead, children, t)
<1>4. free(push)
  BY PushAllBare, BareFree
<1>5. free(stopped)
  <2>1. "no_push" \in RunnerGates
    BY DEF RunnerGates
  <2> QED BY <1>2, <2>1, EscalateFree
<1>6. free(asked)
  <2>1. Backed(st, lead, "checks_run")
    BY <1>3 DEF Moving, PushInv, FoldBacked, MayCall
  <2>2. ~("checks_failed" \in Steps /\ wf.steps["checks_failed"].checkpoint)
    BY <1>2 DEF WorkflowsLoad, Steps
  <2>3. GateSound(st, lead, "checks_failed")
    BY <2>1, <2>2 DEF GateSound
  <2> QED BY <2>3, AskFree
<1>7. r.checks = "fail" /\ FailedRuns(s) <= 1 => free(again)
  <2> HAVE r.checks = "fail" /\ FailedRuns(s) <= 1
  <2>1. CameOut(lead, s, "fail")
    BY <1>1
  <2>2. \E b \in DOMAIN lead : /\ lead[b].kind = "checks_run"
                               /\ \A j \in DOMAIN lead : j > b => lead[j].kind # "checks_run"
                               /\ FailEvent(lead[b], s)
                               /\ \A j \in DOMAIN lead : FailEvent(lead[j], s) => j = b
    BY <2>1, OnlyFailure
  <2> QED BY <1>1, <1>2, <1>3, <2>2, AgainFree DEF Moving
<1>8. \/ \E t \in {asked, stopped, push} : ChecksDone(s, n) = LockFor(s) \o t
      \/ r.checks = "fail" /\ FailedRuns(s) <= 1 /\ ChecksDone(s, n) = LockFor(s) \o again
  <2> HIDE DEF again, asked, stopped, push
  <2> QED BY <1>1 DEF ChecksDone, again, asked, stopped, push
<1> HIDE DEF again, asked, stopped, push
<1>9. \A t : free(t) => free(LockFor(s) \o t)
  BY LockForBare, FreeBefore
<1> HIDE DEF free
<1>10. free(ChecksDone(s, n))
  BY <1>4, <1>5, <1>6, <1>7, <1>8, <1>9
<1> QED BY <1>10 DEF free

LEMMA AfterPushedFree ==
  ASSUME WorkflowsRunOn, Moving, NEW m, m = NextMove(st), m.do = "Pushed"
  PROVE  Free(st, lead, children, AfterPushed(m.step))
<1> PICK s, r : s = m.step /\ r = Last(st.steps)
  OBVIOUS
<1> DEFINE pushes == {i \in DOMAIN st.steps : st.steps[i].pushed}
           n == Len(st.steps)
<1>1. st.last = "pushed" /\ m = Move("Pushed", st.steps[Max(pushes)])
  BY MoveKinds DEF Moving, LogSound, FoldSound
<1>2. st.steps # <<>> /\ r.pushed
  BY <1>1, LeadsNow DEF Leads
<1>3. /\ RecordsSound(st) /\ LogSound /\ IsSeq(st.steps)
  BY DEF Moving, FoldApart, LogSound, FoldSound
<1>4. n \in DOMAIN st.steps /\ n \in Nat /\ st.steps[n] = r /\ DOMAIN st.steps = 1 .. n
      /\ r.step \in Steps /\ Top(st, r.step)
  BY <1>2, <1>3, LastFacts, Places
<1>5. Max(pushes) = n
  <2>1. pushes \in SUBSET Nat /\ n \in pushes /\ \A y \in pushes : y <= n
    BY <1>2, <1>4
  <2> HIDE DEF pushes, n
  <2> QED BY <2>1, MaxIs
<1>6. s = r.step
  <2>1. m.step = st.steps[Max(pushes)].step
    BY <1>1 DEF Move
  <2> HIDE DEF pushes
  <2> QED BY <1>4, <1>5, <2>1
<1> DEFINE ci == IF wf.steps[s].ci THEN <<Do("ci", s, 0, 0)>> ELSE <<>>
           said == <<Comment(<<"close", 0>>)>>
           closed == <<Do("close", s, 0, 0)>>
           finish == <<Finish("closed")>>
           free(t) == Free(st, lead, children, t)
<1>7. AllBare(ci) /\ Silent(ci)
  BY BareEffects, FewBare, FewClaimless DEF Records, Do
<1>8. AllBare((said \o closed) \o finish)
  <2>1. AllBare(said) /\ AllBare(closed) /\ AllBare(finish)
    BY BareEffects, FewBare
  <2> HIDE DEF said, closed, finish
  <2> QED BY <2>1, FewBare
<1>9. <<Comment(<<"close", 0>>), Do("close", s, 0, 0), Finish("closed")>> = (said \o closed) \o finish
  OBVIOUS
<1> HIDE DEF ci, said, closed, finish
<1>10. free((said \o closed) \o finish) /\ free(FollowNext(s))
  BY <1>3, <1>4, <1>6, <1>8, BareFree, FollowNextFree DEF Moving
<1>11. \E t : free(t) /\ AfterPushed(s) = (LockFor(s) \o ci) \o t
  BY <1>9, <1>10 DEF AfterPushed, ci
<1>12. AllBare(LockFor(s) \o ci) /\ Silent(LockFor(s) \o ci)
  <2>1. Silent(LockFor(s)) /\ AllBare(LockFor(s))
    BY LockForBare
  <2>2. \A p, q : Silent(p) /\ Silent(q) => Silent(p \o q)
    BY Joined DEF Silent
  <2> QED BY <1>7, <2>1, <2>2, FewBare
<1> QED BY <1>11, <1>12, FreeBefore
(* A person's word                                                         *)
LEMMA RetryAttemptFree ==
  ASSUME WorkflowsLoad, Moving, st.last = "checkpoint_answered", Backed(st, lead, "checks_run")
  PROVE  Free(st, lead, children, RetryAttempt)
<1> PICK r : r = Last(st.steps)
  OBVIOUS
<1> DEFINE A == LeadHas(LAMBDA e : e.kind = "checks_run")
<1>1. st.steps # <<>> /\ CameOut(lead, r.step, r.checks)
  BY DEF Backed, Checking
<1>2. IsSeq(lead) /\ LogSound /\ RecordsSound(st) /\ DOMAIN lead \in SUBSET Nat
  BY Places DEF Moving, LogSound, LeadSound, FoldApart
<1> PICK b \in DOMAIN lead : /\ lead[b].kind = "checks_run" /\ lead[b].step = r.step
                             /\ \A j \in DOMAIN lead : j > b => lead[j].kind \notin Checking
  BY <1>1 DEF CameOut
<1>3. A \in SUBSET Nat /\ b \in A /\ \A i \in A : i <= b
  BY <1>2 DEF LeadHas, Checking
<1>4. lead[Max(A)].step = r.step
  <2> HIDE DEF A
  <2> QED BY <1>3, MaxIs
<1>5. st.steps[Newest(st, r.step)] = r
  BY <1>1, <1>2, LastFacts
<1>6. RetryAttempt = StartStep(r.step, r.attempt + 1, r.child)
  BY <1>4, <1>5 DEF RetryAttempt
<1>7. Free(st, lead, children, StartStep(r.step, r.attempt + 1, r.child))
  BY <1>1, <1>2, AgainFree DEF Moving
<1> QED BY <1>6, <1>7

LEMMA RetryFailedStepFree ==
  ASSUME WorkflowsLoad, Moving, st.last = "checkpoint_answered", Offered(StepStop, "retry")
  PROVE  Free(st, lead, children, RetryFailedStep)
<1> DEFINE A == LeadHas(LAMBDA d : d.kind = "step_finished")
           B == LeadHas(LAMBDA e : e.kind = "checkpoint_asked" /\ e.gate = StepStop)
           ask == lead[Max(B)]
           free(t) == Free(st, lead, children, t)
<1>1. IsSeq(lead) /\ LogSound /\ LeadSound /\ RecordsSound(st) /\ LogMatches(st, lead) /\ ~st.broken
      /\ wf \in Workflows
  BY DEF Moving, LogSound, LeadSound, FoldApart
<1>2. A # {}
  <2>1. B # {} /\ "retry" \in ask.options
    BY DEF Offered
  <2>2. B \in SUBSET DOMAIN lead
        /\ \A i \in B : lead[i].kind = "checkpoint_asked" /\ lead[i].gate = StepStop
    BY DEF LeadHas
  <2> HIDE DEF B
  <2>3. Max(B) \in B /\ ask \in Range(lead)
    BY <1>1, <2>1, <2>2, NewestPasses
  <2>4. Has("step_finished")
    BY <1>1, <2>1, <2>2, <2>3 DEF LeadSound, AskSound
  <2> QED BY <2>4 DEF Has, LeadHas, Range
<1>3. A \in SUBSET DOMAIN lead /\ \A i \in DOMAIN lead : i \in A <=> lead[i].kind = "step_finished"
  BY DEF LeadHas
<1> PICK b : b = Max(A)
  OBVIOUS
<1> PICK e : e = lead[b]
  OBVIOUS
<1> PICK n : n = st.steps[Newest(st, e.step)].attempt
  OBVIOUS
<1>4. RetryFailedStep \in {<<Fail>>, StartStep(e.step, n + 1, 0)}
  <2>1. RetryFailedStep = IF lead[Max(A)].status # "failed" THEN <<Fail>>
                          ELSE StartStep(lead[Max(A)].step,
                                         st.steps[Newest(st, lead[Max(A)].step)].attempt + 1, 0)
    BY DEF RetryFailedStep
  <2> HIDE DEF A
  <2>2. RetryFailedStep = IF e.status # "failed" THEN <<Fail>> ELSE StartStep(e.step, n + 1, 0)
    BY <2>1
  <2> QED BY <2>2
<1> HIDE DEF A
<1>5. b \in A /\ \A i \in DOMAIN lead : i > b => i \notin A
  BY <1>1, <1>2, <1>3, NewestPlace
<1>6. b \in DOMAIN lead /\ NewestFinish(lead, b) /\ e.kind = "step_finished" /\ e \in Range(lead)
  BY <1>3, <1>5 DEF NewestFinish, Range
<1>7. e.step \in Steps
  BY <1>1, <1>6 DEF LeadSound
<1>8. free(<<Fail>>)
  BY BareEffects, FewBare, BareFree
<1>9. free(StartStep(e.step, n + 1, 0))
  <2>1. CASE OpenStep(st)
    <3> PICK x : x = StartedEvent(e.step, n + 1, NewChild)
      OBVIOUS
    <3>1. Startable(st, lead, x)
      BY <1>1, <2>1 DEF Startable
    <3>2. x = StartedEvent(e.step, n + 1, IF 0 = 0 THEN NewChild ELSE 0)
      OBVIOUS
    <3> QED BY <1>1, <1>7, <3>1, <3>2, StartStepFree
  <2>2. CASE ~OpenStep(st)
    <3> PICK r : r = Last(st.steps)
      OBVIOUS
    <3>1. st.steps # <<>> /\ e.step = r.step
      BY <1>1, <1>6, <2>2 DEF LogMatches
    <3>2. st.steps[Newest(st, r.step)] = r
      BY <1>1, <3>1, LastFacts
    <3>3. n = r.attempt
      BY <3>1, <3>2
    <3>4. Free(st, lead, children, StartStep(r.step, r.attempt + 1, 0))
      BY <1>1, <3>1, AgainFree
    <3> QED BY <3>1, <3>3, <3>4
  <2> QED BY <2>1, <2>2
<1> QED BY <1>4, <1>8, <1>9

LEMMA ActOnAnswerFree ==
  ASSUME WorkflowsLoad, WorkflowsRunOn, Moving, st.last = "checkpoint_answered"
  PROVE  Free(st, lead, children, ActOnAnswer)
<1> PICK gate : gate = st.answered.gate
  OBVIOUS
<1> DEFINE free(t) == Free(st, lead, children, t)
<1>1. gate # None => GateSound(st, lead, gate)
  BY DEF Moving, FoldApart, CourseSound, AskedAt
<1>2. free(<<Fail>>) /\ free(<<Finish("stopped")>>)
  BY BareEffects, FewBare, BareFree
<1>3. ASSUME NEW usd, NEW s PROVE free(<<Write(RaisedEvent(usd, s))>>)
  <2>1. RaisedEvent(usd, s).kind = "budget_raised"
    BY DEF RaisedEvent
  <2> QED BY <2>1, BareEffects, FewBare, BareFree
<1>4. gate \in Steps /\ wf.steps[gate].checkpoint => free(FollowNext(gate))
  <2> HAVE gate \in Steps /\ wf.steps[gate].checkpoint
  <2>1. gate # None
    BY DEF WorkflowsLoad, Steps, Moving, LogSound
  <2>2. Top(st, gate)
    BY <1>1, <2>1 DEF GateSound
  <2> QED BY <2>2, FollowNextFree DEF Moving
<1>5. gate = "checks_failed" => free(RetryAttempt)
  <2> HAVE gate = "checks_failed"
  <2>1. Backed(st, lead, "checks_run")
    BY <1>1 DEF GateSound, None
  <2> QED BY <2>1, RetryAttemptFree
<1>6. Offered(StepStop, "retry") => free(RetryFailedStep)
  BY RetryFailedStepFree
<1> HIDE DEF free
<1>7. free(ActOnAnswer)
  BY <1>2, <1>3, <1>4, <1>5, <1>6, AnswerMoves
<1> QED BY <1>7 DEF free
(* The attempt the log left open is picked up                              *)
LEMMA LockedApart ==
  ASSUME NEW f, NEW q, NEW cs, NEW t, Ending(f, cs, t), ~f.broken, OpenStep(f),
         Last(f.steps).child \in Kids(f), NEW x, x.do = "lock"
  PROVE  PlanApart(f, q, cs, <<x>> \o t)
<1> PICK u : u = <<x>> \o t
  OBVIOUS
<1>1. PlanApart(f, q, cs, t) /\ IsSeq(t)
  BY EndingApart
<1>2. IsSeq(<<x>>) /\ Len(<<x>>) = 1 /\ <<x>>[1] = x
  BY Few
<1>3. /\ Len(u) = 1 + Len(t) /\ Len(t) \in Nat /\ u[1] = x /\ IsSeq(u)
      /\ \A i \in 1 .. Len(t) : u[1 + i] = t[i]
  BY <1>1, <1>2, JoinedPlaces, Joined
<1>4. u # <<>> /\ Head(u) = x /\ Tail(u) = t
  <2>1. u # <<>>
    BY <1>3
  <2>2. Head(u) = x
    BY <1>3, <2>1, TailPlaces
  <2>3. Tail(u) = t
    <3>1. t \in Seq(Range(t))
      BY <1>1 DEF IsSeq
    <3>2. t \in Seq(Range(t) \union {x})
      BY <3>1, SeqDef
    <3>3. Tail(<<x>> \o t) = t
      BY <3>2
    <3> QED BY <3>3
  <2> QED BY <2>1, <2>2, <2>3
<1>5. Awaits(f, cs, u)
  BY <1>4 DEF Awaits
<1>6. ASSUME NEW i \in 1 .. Len(u)
      PROVE  /\ Rested(u[i]) => /\ Rests(f, q, cs, u[i])
                                /\ \A k \in 1 .. (i - 1) : ~Records(u[k])
             /\ MadeFor(f, u, i)
  <2>1. CASE i = 1
    BY <1>3, <2>1 DEF Rested, MadeFor
  <2>2. CASE i # 1
    <3>1. i - 1 \in 1 .. Len(t) /\ i = 1 + (i - 1)
      BY <1>3, <2>2
    <3> PICK j : j = i - 1
      OBVIOUS
    <3>2. j \in 1 .. Len(t) /\ i = 1 + j /\ u[i] = t[j]
      BY <1>3, <3>1
    <3>3. /\ Rested(t[j]) => /\ Rests(f, q, cs, t[j])
                             /\ \A k \in 1 .. (j - 1) : ~Records(t[k])
          /\ MadeFor(f, t, j)
      BY <1>1, <3>2 DEF PlanApart
    <3>4. ASSUME NEW k \in 1 .. (i - 1), \A l \in 1 .. (j - 1) : ~Records(t[l])
          PROVE  ~Records(u[k])
      <4>1. CASE k = 1
        BY <1>3, <4>1 DEF Records
      <4>2. CASE k # 1
        <5>1. k - 1 \in 1 .. (j - 1) /\ k - 1 \in 1 .. Len(t) /\ k = 1 + (k - 1)
          BY <1>3, <3>2, <4>2
        <5>2. u[k] = t[k - 1]
          BY <1>3, <5>1
        <5> QED BY <3>4, <5>1, <5>2
      <4> QED BY <4>1, <4>2
    <3>5. MadeFor(f, u, i)
      <4> SUFFICES ASSUME u[i].do = "create", ~f.broken, u[i].child \notin Kids(f)
                   PROVE  \E k \in 1 .. (i - 1) : /\ u[k].do = "write"
                                                  /\ u[k].event.kind = "step_started"
                                                  /\ u[k].event.child = u[i].child
        BY DEF MadeFor
      <4>1. PICK k \in 1 .. (j - 1) : /\ t[k].do = "write" /\ t[k].event.kind = "step_started"
                                      /\ t[k].event.child = u[i].child
        BY <3>2, <3>3 DEF MadeFor
      <4>2. k \in 1 .. Len(t) /\ 1 + k \in 1 .. (i - 1)
        BY <1>3, <3>2
      <4>3. u[1 + k] = t[k]
        BY <1>3, <4>2
      <4> QED BY <4>1, <4>2, <4>3
    <3> QED BY <3>2, <3>3, <3>4, <3>5
  <2> QED BY <2>1, <2>2
<1> QED BY <1>5, <1>6 DEF PlanApart

(* A prompt is due exactly while one of the child's records owes one.      *)
LEMMA DueIsOwed ==
  ASSUME Moving, OpenStep(st), NEW r, r = Last(st.steps)
  PROVE  PromptDue(r.step, r.attempt, r.child) <=> Owes(st, children, r.child)
<1>1. RecordsSound(st) /\ LogMatches(st, lead) /\ LogSound /\ st.steps # <<>> /\ ~st.broken
  BY DEF Moving, FoldApart, OpenStep
<1>2. /\ Len(st.steps) \in DOMAIN st.steps /\ st.steps[Len(st.steps)] = r
      /\ r.attempt \in Nat
      /\ \A i \in DOMAIN st.steps :
           st.steps[i].step = r.step /\ i # Len(st.steps) => st.steps[i].attempt < r.attempt
  BY <1>1, LastFacts
<1>3. LeadHas(LAMBDA e : /\ e.kind = "step_started" /\ e.step = r.step /\ e.child = r.child
                         /\ e.attempt <= r.attempt)
      = StartsIn(lead, r.step, r.child, r.attempt)
  BY DEF LeadHas, StartsIn
<1>4. Cardinality(StartsIn(lead, r.step, r.child, r.attempt))
      = Cardinality(RecordsIn(st, r.step, r.child, r.attempt))
  BY <1>1 DEF LogMatches
<1>5. ASSUME NEW i \in DOMAIN st.steps, st.steps[i].child = r.child
      PROVE  st.steps[i].step = r.step /\ st.steps[i].attempt <= r.attempt
  <2>1. st.steps[i].step = r.step
    BY <1>1, <1>2, <1>5 DEF RecordsSound, KidsSound
  <2>2. CASE i = Len(st.steps)
    BY <1>2, <2>1, <2>2
  <2>3. CASE i # Len(st.steps)
    <3>1. st.steps[i].attempt < r.attempt
      BY <1>2, <2>1, <2>3
    <3>2. st.steps[i].attempt \in Nat
      <4>1. st.steps[i].attempt = Cardinality(Until(st, i, st.steps[i].step))
        BY <1>1 DEF RecordsSound, Numbered
      <4>2. i \in Nat
        BY <1>1, Places DEF LogSound, FoldSound
      <4>3. Until(st, i, st.steps[i].step) \in SUBSET (1 .. i)
        BY DEF Until
      <4> QED BY <4>1, <4>2, <4>3, CountOf
    <3> QED BY <1>2, <2>1, <3>1, <3>2
  <2> QED BY <2>2, <2>3
<1>6. RecordsIn(st, r.step, r.child, r.attempt) = In(st, r.child)
  BY <1>5 DEF RecordsIn, In
<1>7. Prompts(r.child) = PromptsIn(children, r.child)
  BY DEF Child, LogIn, Prompts, PromptsIn
<1> QED BY <1>3, <1>4, <1>6, <1>7 DEF PromptDue, Owes

LEMMA ThreeJoined ==
  ASSUME NEW a, NEW b, NEW c
  PROVE  <<a, b>> \o <<c>> = <<a, b, c>>
<1> DEFINE S == {a, b, c}
           r == <<a, b>> \o <<c>>
<1>1. <<a, b>> \in Seq(S) /\ <<c>> \in Seq(S) /\ <<a, b, c>> \in Seq(S)
  OBVIOUS
<1>2. /\ Len(<<a, b>>) = 2 /\ <<a, b>>[1] = a /\ <<a, b>>[2] = b
      /\ Len(<<c>>) = 1 /\ <<c>>[1] = c
      /\ Len(<<a, b, c>>) = 3 /\ <<a, b, c>>[1] = a /\ <<a, b, c>>[2] = b /\ <<a, b, c>>[3] = c
  OBVIOUS
<1>3. r \in Seq(S) /\ Len(r) = 3
  <2> HIDE DEF S
  <2> QED BY <1>1, <1>2
<1>4. r[1] = a /\ r[2] = b /\ r[3] = c
  <2> PICK p, q : p = <<a, b>> /\ q = <<c>>
    OBVIOUS
  <2>1. p \in Seq(S) /\ q \in Seq(S) /\ Len(p) = 2 /\ Len(q) = 1
    BY <1>1, <1>2
  <2> HIDE DEF S
  <2>2. (p \o q)[1] = p[1] /\ (p \o q)[2] = p[2] /\ (p \o q)[3] = q[1]
    BY <2>1
  <2> QED BY <1>2, <2>2
<1> HIDE DEF r, S
<1>5. \A i \in 1 .. 3 : r[i] = <<a, b, c>>[i]
  BY <1>2, <1>4
<1>6. r = <<a, b, c>>
  BY <1>1, <1>2, <1>3, <1>5, SeqEqual
<1> QED BY <1>6 DEF r

LEMMA ReAwaitApart ==
  ASSUME Moving, NEW m, m = NextMove(st), m.do = "ReAwait"
  PROVE  PlanApart(st, lead, children, ReAwait(m.step, m.attempt, m.child))
<1> PICK r : r = Last(st.steps)
  OBVIOUS
<1> PICK s, n, c : s = r.step /\ n = r.attempt /\ c = r.child
  OBVIOUS
<1> DEFINE opened == {i \in DOMAIN st.steps : st.steps[i].status = "open"}
           l == Len(st.steps)
           apart(t) == PlanApart(st, lead, children, t)
<1>1. st.last = "step_started" /\ m = Move("ReAwait", st.steps[Max(opened)])
  BY MoveKinds DEF Moving, LogSound, FoldSound
<1>2. OpenStep(st) /\ st.steps # <<>> /\ r.status = "open"
  BY <1>1, LeadsNow DEF Leads, OpenStep
<1>3. /\ RecordsSound(st) /\ LogSound /\ IsSeq(st.steps) /\ ~st.broken
  BY DEF Moving, FoldApart, LogSound, FoldSound
<1>4. l \in DOMAIN st.steps /\ l \in Nat /\ st.steps[l] = r /\ DOMAIN st.steps = 1 .. l
      /\ r.child \in Kids(st)
  BY <1>2, <1>3, LastFacts, Places
<1>5. Max(opened) = l
  <2>1. opened \in SUBSET Nat /\ l \in opened /\ \A y \in opened : y <= l
    BY <1>2, <1>4
  <2> HIDE DEF opened, l
  <2> QED BY <2>1, MaxIs
<1>6. m.step = s /\ m.attempt = n /\ m.child = c
  <2>1. m.step = st.steps[Max(opened)].step /\ m.attempt = st.steps[Max(opened)].attempt
        /\ m.child = st.steps[Max(opened)].child
    BY <1>1 DEF Move
  <2> HIDE DEF opened
  <2> QED BY <1>4, <1>5, <2>1
<1> PICK create, prompt, resume, apply :
      /\ create = StepOf(st, "create") /\ prompt = StepOf(st, "prompt")
      /\ resume = StepOf(st, "resume") /\ apply = StepOf(st, "apply")
  OBVIOUS
<1>7. /\ create = Do("create", s, n, c) /\ prompt = Do("prompt", s, n, c)
      /\ resume = Do("resume", s, n, c) /\ apply = Do("apply", s, n, c)
  BY DEF StepOf
<1>8. PromptDue(s, n, c) <=> ~Paid(st, children)
  BY <1>2, DueIsOwed DEF Paid
<1> PICK take : take = Do("lock", s, 0, 0)
  OBVIOUS
<1>9. take.do = "lock" /\ (LockFor(s) = <<take>> \/ LockFor(s) = <<>>)
  BY DEF LockFor, Do
<1>10. \E a : /\ a \in {<<create, prompt>>, <<resume>>, <<>>}
              /\ Ending(st, children, a \o <<apply>>)
              /\ \/ \E room : ReAwait(s, n, c) \in {ParkAtBudget, ParkSpent(room)}
                 \/ ReAwait(s, n, c) = LockFor(s) \o a \o <<apply>>
  <2>1. /\ <<create, prompt>> \o <<apply>> = <<create, prompt, apply>>
        /\ <<resume>> \o <<apply>> = <<resume, apply>>
        /\ <<>> \o <<apply>> = <<apply>>
    <3>1. <<create, prompt>> \o <<apply>> = <<create, prompt, apply>>
      BY ThreeJoined
    <3>2. \A x, y : <<x>> \o <<y>> = <<x, y>>
      BY PairJoined
    <3>3. \A x : <<>> \o <<x>> = <<x>>
      OBVIOUS
    <3> QED BY <3>1, <3>2, <3>3
  <2>2. CASE PromptDue(s, n, c)
    <3>1. Ending(st, children, <<create, prompt>> \o <<apply>>)
      BY <1>8, <2>1, <2>2 DEF Ending
    <3>2. \/ \E room : ReAwait(s, n, c) \in {ParkAtBudget, ParkSpent(room)}
          \/ ReAwait(s, n, c) = LockFor(s) \o <<create, prompt>> \o <<apply>>
      BY <1>7, <2>2 DEF ReAwait
    <3> QED BY <3>1, <3>2
  <2>3. CASE ~PromptDue(s, n, c) /\ AttemptReported(c, n)
    <3>1. Ending(st, children, <<>> \o <<apply>>)
      BY <1>8, <2>1, <2>3 DEF Ending
    <3>2. \/ \E room : ReAwait(s, n, c) \in {ParkAtBudget, ParkSpent(room)}
          \/ ReAwait(s, n, c) = LockFor(s) \o <<>> \o <<apply>>
      BY <1>7, <2>3 DEF ReAwait
    <3> QED BY <3>1, <3>2
  <2>4. CASE ~PromptDue(s, n, c) /\ ~AttemptReported(c, n)
    <3>1. Ending(st, children, <<resume>> \o <<apply>>)
      BY <1>8, <2>1, <2>4 DEF Ending
    <3>2. \/ \E room : ReAwait(s, n, c) \in {ParkAtBudget, ParkSpent(room)}
          \/ ReAwait(s, n, c) = LockFor(s) \o <<resume>> \o <<apply>>
      BY <1>7, <2>4 DEF ReAwait
    <3> QED BY <3>1, <3>2
  <2> QED BY <2>2, <2>3, <2>4
<1>11. ASSUME NEW a \in {<<create, prompt>>, <<resume>>, <<>>}, Ending(st, children, a \o <<apply>>)
       PROVE  apart(LockFor(s) \o a \o <<apply>>)
  <2>1. <<take>> \o a \o <<apply>> = <<take>> \o (a \o <<apply>>)
        /\ <<>> \o a \o <<apply>> = a \o <<apply>>
    OBVIOUS
  <2>2. apart(a \o <<apply>>) /\ apart(<<take>> \o (a \o <<apply>>))
    BY <1>2, <1>3, <1>4, <1>9, <1>11, EndingApart, LockedApart
  <2> QED BY <1>9, <2>1, <2>2
<1>12. apart(ParkAtBudget) /\ \A room : apart(ParkSpent(room))
  BY ParksBare, BareFree, FreeApart
<1> HIDE DEF apart
<1>13. apart(ReAwait(s, n, c))
  BY <1>10, <1>11, <1>12
<1> QED BY <1>6, <1>13 DEF apart
-----------------------------------------------------------------------------
(* Each action keeps the attempts apart                                    *)

LEMMA ApartKept ==
  ASSUME wf' = wf, OthersSound', NEW f, NEW q, NEW cs, NEW t,
         st' = f, lead' = q, children' = cs, todo' = t,
         FoldApart(f, q), ChildrenApart(f, cs), PlanApart(f, q, cs, t)
  PROVE  ApartInv'
<1>1. Rank' = Rank /\ Steps' = Steps
  BY DEF Rank, Onward, Steps
<1>2. RecordsSound(st)'
  <2>1. Numbered(f) /\ KidsSound(f) /\ ClosedBefore(f) /\ Climbs(f)
    BY DEF FoldApart, RecordsSound
  <2>2. Numbered(st)'
    BY <2>1 DEF Numbered, Until
  <2>3. KidsSound(st)'
    BY <2>1 DEF KidsSound, Kids
  <2>4. ClosedBefore(st)'
    BY <2>1 DEF ClosedBefore
  <2>5. Climbs(st)'
    BY <1>1, <2>1 DEF Climbs
  <2> QED BY <2>2, <2>3, <2>4, <2>5 DEF RecordsSound
<1>3. LogMatches(st, lead)'
  <2>1. LogMatches(f, q)
    BY DEF FoldApart
  <2>2. /\ \A s, c, n : StartsIn(lead, s, c, n)' = StartsIn(q, s, c, n)
        /\ \A s : PartialsIn(lead, s)' = PartialsIn(q, s)
    BY DEF StartsIn, PartialsIn, PartialEvent
  <2>3. /\ \A s, c, n : RecordsIn(st, s, c, n)' = RecordsIn(f, s, c, n)
        /\ \A s : PartialRecords(st, s)' = PartialRecords(f, s)
    BY DEF RecordsIn, PartialRecords
  <2>4. /\ \A i : NewestFinish(lead, i)' <=> NewestFinish(q, i)
        /\ \A i : NewestEvent(lead, i)' <=> NewestEvent(q, i)
        /\ OpenStep(st)' <=> OpenStep(f)
    BY DEF NewestFinish, NewestEvent, OpenStep
  <2> QED BY <2>1, <2>2, <2>3, <2>4 DEF LogMatches
<1>4. CourseSound(st, lead)'
  <2>1. CourseSound(f, q)
    BY DEF FoldApart
  <2>2. \A x : Leads(f, x) => Leads(st, x)'
    BY <1>1 DEF Leads, OpenStep, Ahead
  <2>3. \A gate : GateSound(f, q, gate) => GateSound(st, lead, gate)'
    BY <1>1 DEF GateSound, Backed, Top, OpenStep, Closed, CameOut
  <2>4. MayCall(st)' = MayCall(f) /\ \A gate : AskedAt(st, gate)' = AskedAt(f, gate)
    BY DEF MayCall, AskedAt
  <2> QED BY <2>1, <2>2, <2>3, <2>4 DEF CourseSound
<1>5. LogSentBack(lead)'
  <2>1. LogSentBack(q)
    BY DEF FoldApart
  <2> QED BY <2>1 DEF LogSentBack, SentBack, FailEvent, PartialEvent
<1>6. ChildrenApart(st, children)'
  <2>1. \A c : LogIn(children, c)' = LogIn(cs, c)
    BY DEF LogIn
  <2>2. \A c : PromptsIn(children, c)' = PromptsIn(cs, c)
    BY <2>1 DEF PromptsIn
  <2>3. \A c, n : PromptNo(children, c, n)' = PromptNo(cs, c, n)
    BY <2>2 DEF PromptNo
  <2>4. /\ \A c : In(st, c)' = In(f, c) /\ ClosedIn(st, c)' = ClosedIn(f, c)
        /\ Kids(st)' = Kids(f) /\ \A i, c : UntilIn(st, i, c)' = UntilIn(f, i, c)
    BY DEF In, ClosedIn, Kids, UntilIn
  <2>5. PromptsSound(st, children)'
    BY <2>2, <2>4 DEF ChildrenApart, PromptsSound
  <2>6. ReportsSound(st, children)'
    BY <2>3, <2>4 DEF ChildrenApart, ReportsSound, ReportFits
  <2> QED BY <2>4, <2>5, <2>6 DEF ChildrenApart
<1>7. PlanApart(st, lead, children, todo)'
  <2>1. \A x : Rested(x)' = Rested(x) /\ Records(x)' = Records(x) /\ ForChild(x)' = ForChild(x)
    BY DEF Rested, Records, ForChild
  <2>2. Kids(st)' = Kids(f) /\ (OpenStep(st)' <=> OpenStep(f))
    BY DEF Kids, OpenStep
  <2>3. \A s : (Top(st, s)' <=> Top(f, s)) /\ (Ahead(st, s)' <=> Ahead(f, s))
    BY <1>1, <2>2 DEF Top, Ahead
  <2>4. \A e : Startable(st, lead, e)' <=> Startable(f, q, e)
    <3>1. \A s : Of(st, s)' = Of(f, s)
      BY DEF Of
    <3>2. \A e, s : (FailEvent(e, s)' <=> FailEvent(e, s)) /\ (PartialEvent(e, s)' <=> PartialEvent(e, s))
      BY DEF FailEvent, PartialEvent
    <3>3. \A i : NewestFinish(lead, i)' <=> NewestFinish(q, i)
      BY DEF NewestFinish
    <3> QED BY <2>2, <2>3, <3>1, <3>2, <3>3 DEF Startable
  <2>5. \A c : Owes(st, children, c)' <=> Owes(f, cs, c)
    <3>1. \A c : LogIn(children, c)' = LogIn(cs, c)
      BY DEF LogIn
    <3>2. \A c : PromptsIn(children, c)' = PromptsIn(cs, c) /\ In(st, c)' = In(f, c)
      BY <3>1 DEF PromptsIn, In
    <3> QED BY <3>2 DEF Owes
  <2>6. \A i, r : ReportFits(st, children, i, r)' <=> ReportFits(f, cs, i, r)
    <3>1. \A c : LogIn(children, c)' = LogIn(cs, c)
      BY DEF LogIn
    <3>2. \A c : PromptsIn(children, c)' = PromptsIn(cs, c)
      BY <3>1 DEF PromptsIn
    <3>3. \A c, n : PromptNo(children, c, n)' = PromptNo(cs, c, n)
      BY <3>2 DEF PromptNo
    <3>4. \A i, c : UntilIn(st, i, c)' = UntilIn(f, i, c)
      BY DEF UntilIn
    <3> QED BY <3>3, <3>4 DEF ReportFits
  <2>7. \A e : Finishable(st, children, e)' <=> Finishable(f, cs, e)
    BY <2>2, <2>5, <2>6 DEF Finishable
  <2>8. \A gate : GateSound(st, lead, gate)' <=> GateSound(f, q, gate)
    BY <1>1, <2>3 DEF GateSound, Backed, Closed, CameOut
  <2>9. \A x : Rests(st, lead, children, x)' <=> Rests(f, q, cs, x)
    BY <1>1, <2>3, <2>4, <2>7, <2>8 DEF Rests
  <2>10. \A i : MadeFor(st, todo, i)' <=> MadeFor(f, t, i)
    BY <2>2 DEF MadeFor
  <2>11. Awaits(st, children, todo)' <=> Awaits(f, cs, t)
    <3>1. \A x : StepOf(st, x)' = StepOf(f, x)
      BY DEF StepOf
    <3>2. Paid(st, children)' <=> Paid(f, cs)
      BY <2>5 DEF Paid
    <3>3. \A u : (Ending(st, children, u)' <=> Ending(f, cs, u))
      BY <3>1, <3>2 DEF Ending
    <3> QED BY <2>2, <3>3 DEF Awaits
  <2> QED BY <2>1, <2>9, <2>10, <2>11 DEF PlanApart
<1> QED BY <1>2, <1>3, <1>4, <1>5, <1>6, <1>7 DEF ApartInv, FoldApart
LEMMA HeadStep ==
  ASSUME LogSound, ApartInv, todo # <<>>, IsSeq(todo), Head(todo).do \in {"prompt", "resume", "apply"}
  PROVE  /\ Awaits(st, children, todo) /\ Ending(st, children, todo)
         /\ Head(todo) = StepOf(st, Head(todo).do) /\ Head(todo).step \in Steps
<1>1. Head(todo) = todo[1] /\ 1 \in 1 .. Len(todo)
  BY TailPlaces
<1>2. Awaits(st, children, todo)
  BY <1>1 DEF ApartInv, PlanApart, ForChild
<1>3. Ending(st, children, todo)
  BY <1>2, AwaitsIs
<1>4. Head(todo) = StepOf(st, Head(todo).do)
  BY <1>3, EndingIs
<1>5. st.steps # <<>>
  BY <1>2 DEF Awaits, OpenStep
<1>6. Last(st.steps).step \in Steps
  <2>1. RecordsSound(st)
    BY DEF ApartInv, FoldApart
  <2> QED BY <1>5, <2>1, LastFacts
<1>7. Head(todo).step = Last(st.steps).step
  BY <1>4 DEF StepOf, Do
<1> QED BY <1>2, <1>3, <1>4, <1>6, <1>7

LEMMA OthersStep ==
  ASSUME LockInv, ApartInv, [Next]_vars
  PROVE  OthersSound'
<1>1. OthersSound /\ LogSound /\ "step" \in DOMAIN turn /\ IsSeq(todo)
  BY DEF ApartInv, LockInv, LockSound, PlanSound
<1> USE BoundsAssumption DEF OthersSound, Steps
<1>2. CASE Moves
  <2>1. \A t : Decide(t) => OthersSound'
    BY <1>1 DEF Decide, world, counts
  <2> QED BY <1>2, <2>1 DEF Moves, StartFirstStep, ReAwaitChild, EndStep, Follow, ActOnChecks,
                            ActOnPush, ActOnWord
<1>3. CASE WriteEvent \/ PostComment \/ InstallBinary \/ WaitForCi \/ RenderFails \/ UNCHANGED vars
           \/ ApplyEnd \/ WeighPush \/ CreateChild
  BY <1>1, <1>3 DEF WriteEvent, PostComment, InstallBinary, WaitForCi, RenderFails, ApplyEnd, WeighPush,
                    CreateChild, world, counts, vars
<1> DEFINE freed == held' \in BOOLEAN /\ lock' \in {"free", "mine", "other"}
<1>16. Unlock => freed
  BY <1>1 DEF Unlock
<1>17. Mishap => mishaps' \in 0 .. MaxMishaps
  BY <1>1 DEF Mishap
<1>4. CASE AskPerson \/ FinishRun
  <2>1. freed /\ UNCHANGED <<wf, up, turn, head, remote, issueOpen, answers, mishaps>>
    BY <1>4, <1>16 DEF AskPerson, FinishRun, world, counts
  <2> QED BY <1>1, <2>1
<1>5. CASE FailMove \/ StopUnreadable \/ LeaveFinished
  <2>1. freed /\ up' = FALSE /\ turn' = NoTurn /\ UNCHANGED <<wf, head, remote, issueOpen, answers, mishaps>>
    BY <1>5, <1>16 DEF FailMove, StopUnreadable, LeaveFinished, Ends, world, counts
  <2> QED BY <1>1, <2>1 DEF NoTurn
<1>6. CASE CallFails \/ ChildDies \/ Crash
  <2>1. freed
    BY <1>6, <1>16 DEF CallFails, ChildDies, Crash, Ends
  <2>2. mishaps' \in 0 .. MaxMishaps
    BY <1>6, <1>17 DEF CallFails, ChildDies, Crash
  <2>3. up' = FALSE /\ turn' = NoTurn /\ UNCHANGED <<wf, head, remote, issueOpen, answers>>
    BY <1>6 DEF CallFails, ChildDies, Crash, Ends, world
  <2> QED BY <1>1, <2>1, <2>2, <2>3 DEF NoTurn
<1>7. CASE TakeWriteLock
  BY <1>1, <1>7 DEF TakeWriteLock, world, counts
<1>8. CASE PostPrompt \/ ResumeChild
  <2>1. Head(todo).step \in Steps
    BY <1>1, <1>8, HeadStep DEF PostPrompt, ResumeChild, Doing
  <2>2. turn' = turn \/ turn'.step = Head(todo).step
    BY <1>8 DEF PostPrompt, ResumeChild, Begin
  <2>3. UNCHANGED <<wf, up, held, lock, head, remote, issueOpen, answers, mishaps>>
    BY <1>8 DEF PostPrompt, ResumeChild, world, counts
  <2> QED BY <1>1, <2>1, <2>2, <2>3
<1>9. CASE PushBranch
  <2>1. UNCHANGED <<wf, up, held, lock, turn, head, issueOpen, answers, mishaps>>
        /\ remote' \in {remote, head}
    BY <1>9 DEF PushBranch, counts
  <2> QED BY <1>1, <2>1
<1>10. CASE CloseIssue
  <2>1. mishaps' = mishaps \/ mishaps' \in 0 .. MaxMishaps
    BY <1>10, <1>17 DEF CloseIssue
  <2>2. UNCHANGED <<wf, up, held, lock, turn, head, remote, answers>> /\ issueOpen' \in {issueOpen, FALSE}
    BY <1>10 DEF CloseIssue
  <2> QED BY <1>1, <2>1, <2>2
<1>11. CASE ChildCalls
  <2>1. turn'.step = turn.step
    BY <1>1, <1>11 DEF ChildCalls
  <2> QED BY <1>1, <1>11, <2>1 DEF ChildCalls, counts
<1>12. CASE ChildReports
  BY <1>1, <1>12 DEF ChildReports, counts
<1>13. CASE ChildEnds
  BY <1>1, <1>13 DEF ChildEnds, NoTurn, counts
<1>14. CASE Answer
  <2>1. UNCHANGED <<wf, up, held, lock, turn, head, remote, issueOpen, mishaps>>
        /\ answers < MaxAnswers /\ answers' = answers + 1
    BY <1>14 DEF Answer, world
  <2> QED BY <1>1, <2>1
<1>15. CASE Start \/ RivalLocks \/ RemoteMoves
  <2>1. mishaps' = mishaps \/ mishaps' \in 0 .. MaxMishaps
    BY <1>15, <1>17 DEF Start, RivalLocks, RemoteMoves, counts
  <2>2. lock' \in {"free", "mine", "other"} /\ up' \in BOOLEAN /\ remote' \in {remote, Stranger}
    BY <1>1, <1>15 DEF Start, RivalLocks, RemoteMoves, world
  <2>3. UNCHANGED <<wf, held, turn, head, issueOpen, answers>>
    BY <1>15 DEF Start, RivalLocks, RemoteMoves, world, counts
  <2> QED BY <1>1, <2>1, <2>2, <2>3
<1> QED BY <1>2, <1>3, <1>4, <1>5, <1>6, <1>7, <1>8, <1>9, <1>10, <1>11, <1>12, <1>13, <1>14, <1>15
        DEF Next, Effects, Turns, Stops, Environment
(* A step that leaves the log and the children's logs alone.               *)
LEMMA PlanKept ==
  ASSUME ApartInv, OthersSound', UNCHANGED <<wf, lead, st, children>>,
         NEW t, todo' = t, PlanApart(st, lead, children, t)
  PROVE  ApartInv'
<1> PICK f, q, cs : f = st /\ q = lead /\ cs = children
  OBVIOUS
<1>1. FoldApart(f, q) /\ ChildrenApart(f, cs) /\ PlanApart(f, q, cs, t)
  BY DEF ApartInv
<1>2. st' = f /\ lead' = q /\ children' = cs /\ wf' = wf
  OBVIOUS
<1> QED BY <1>1, <1>2, ApartKept

(* A step that writes one event.                                           *)
LEMMA EventKept ==
  ASSUME WorkflowsRunOn, LockInv, PushInv, ApartInv, OthersSound', wf' = wf,
         NEW e, EventSound(e), Fitting(st, lead, children, e),
         lead' = Append(lead, e), st' = After(st, e),
         SamePrompts(children, children'), DOMAIN children' = DOMAIN children,
         NEW t, todo' = t,
         \A g, p : g = After(st, e) /\ p = Append(lead, e) => PlanApart(g, p, children, t)
  PROVE  ApartInv'
<1> PICK f, q, cs, ds : f = st /\ q = lead /\ cs = children /\ ds = children'
  OBVIOUS
<1> PICK g, p : g = After(f, e) /\ p = Append(q, e)
  OBVIOUS
<1>1. /\ FoldSound(f) /\ IsSeq(q) /\ FoldBacked(f, q) /\ FoldApart(f, q) /\ ChildrenApart(f, cs)
      /\ LogsSound(cs) /\ wf \in Workflows
  BY DEF LockInv, LogSound, LeadSound, PushInv, ApartInv, ChildrenSound, LogsSound
<1>2. FoldApart(g, p)
  BY <1>1, FoldApartOn
<1>3. ChildrenApart(g, cs)
  BY <1>1, ChildrenOn
<1>4. IsSeq(g.steps)
  <2>1. FoldSound(g)
    BY <1>1, AfterFollows DEF Follows
  <2> QED BY <2>1 DEF FoldSound
<1>5. SamePrompts(cs, ds) /\ DOMAIN ds = DOMAIN cs
  OBVIOUS
<1>6. ChildrenApart(g, ds)
  BY <1>1, <1>3, <1>4, <1>5, ChildrenSame DEF ChildrenApart
<1>7. PlanApart(g, p, cs, t)
  OBVIOUS
<1>8. PlanApart(g, p, ds, t)
  BY <1>5, <1>7, PlanSame
<1>9. st' = g /\ lead' = p /\ children' = ds
  OBVIOUS
<1> QED BY <1>2, <1>6, <1>8, <1>9, ApartKept

LEMMA PromptsStay ==
  ASSUME UNCHANGED children
  PROVE  SamePrompts(children, children') /\ DOMAIN children' = DOMAIN children
<1> PICK cs, ds : cs = children /\ ds = children'
  OBVIOUS
<1>1. SamePrompts(cs, ds) /\ DOMAIN ds = DOMAIN cs
  BY DEF SamePrompts
<1> QED BY <1>1

LEMMA MovesApart ==
  ASSUME WorkflowsLoad, WorkflowsRunOn, LockInv, PushInv, ApartInv, OthersSound', Moves
  PROVE  ApartInv'
<1>1. ASSUME NEW t, PlanApart(st, lead, children, t), Decide(t) PROVE ApartInv'
  <2>1. todo' = t /\ UNCHANGED <<wf, lead, st, children>>
    BY <1>1 DEF Decide, log, world
  <2> QED BY <1>1, <2>1, PlanKept
<1>2. ASSUME NEW t, Free(st, lead, children, t), Decide(t) PROVE ApartInv'
  BY <1>1, <1>2, FreeApart
<1>3. ~st.broken => Moving
  BY DEF Moving, LockInv, ApartInv
<1>4. st.last \in Decisive
  BY DEF LockInv, LogSound, FoldSound
<1>5. CASE StartFirstStep
  <2>1. ~st.broken /\ NextMove(st).do = "StartFirstStep"
    BY <1>5 DEF StartFirstStep, At, Due
  <2>2. st.last = "run_started"
    BY <1>4, <2>1, MoveKinds
  <2>3. Free(st, lead, children, StartStep(wf.first, 1, 0))
    BY <1>3, <2>1, <2>2, FirstStepFree
  <2> QED BY <1>2, <1>5, <2>3 DEF StartFirstStep
<1>6. CASE ReAwaitChild
  <2>1. PICK m \in Due("ReAwait") : Decide(ReAwait(m.step, m.attempt, m.child))
    BY <1>6 DEF ReAwaitChild
  <2>2. ~st.broken /\ m = NextMove(st) /\ m.do = "ReAwait"
    BY <2>1 DEF Due
  <2>3. PlanApart(st, lead, children, ReAwait(m.step, m.attempt, m.child))
    BY <1>3, <2>2, ReAwaitApart
  <2> QED BY <1>1, <2>1, <2>3
<1>7. CASE EndStep
  <2>1. PICK m \in Due("AfterStep"),
             outcome \in {"pass", "fail"} \union (IF "checks" \in Faults THEN {"error"} ELSE {}) :
                Decide(AfterStep(m.step, m.attempt, outcome))
    BY <1>7 DEF EndStep
  <2>2. ~st.broken /\ m = NextMove(st) /\ m.do = "AfterStep"
    BY <2>1 DEF Due
  <2>3. Free(st, lead, children, AfterStep(m.step, m.attempt, outcome))
    BY <1>3, <2>2, AfterStepFree
  <2> QED BY <1>2, <2>1, <2>3
<1>8. CASE Follow
  <2>1. ~st.broken /\ NextMove(st).do = "FollowRoute"
    BY <1>8 DEF Follow, At, Due
  <2>2. st.last = "route_taken"
    BY <1>4, <2>1, MoveKinds
  <2> QED BY <1>2, <1>3, <1>8, <2>1, <2>2, FollowRouteFree DEF Follow
<1>9. CASE ActOnChecks
  <2>1. PICK m \in Due("ChecksDone") : Decide(ChecksDone(m.step, m.attempt))
    BY <1>9 DEF ActOnChecks
  <2>2. ~st.broken /\ m = NextMove(st) /\ m.do = "ChecksDone"
    BY <2>1 DEF Due
  <2>3. Free(st, lead, children, ChecksDone(m.step, m.attempt))
    BY <1>3, <2>2, ChecksDoneFree
  <2> QED BY <1>2, <2>1, <2>3
<1>10. CASE ActOnPush
  <2>1. PICK m \in Due("Pushed") : Decide(AfterPushed(m.step))
    BY <1>10 DEF ActOnPush
  <2>2. ~st.broken /\ m = NextMove(st) /\ m.do = "Pushed"
    BY <2>1 DEF Due
  <2>3. Free(st, lead, children, AfterPushed(m.step))
    BY <1>3, <2>2, AfterPushedFree
  <2> QED BY <1>2, <2>1, <2>3
<1>11. CASE ActOnWord
  <2>1. ~st.broken /\ NextMove(st).do = "Answered"
    BY <1>11 DEF ActOnWord, At, Due
  <2>2. st.last = "checkpoint_answered"
    BY <1>4, <2>1, MoveKinds
  <2> QED BY <1>2, <1>3, <1>11, <2>1, <2>2, ActOnAnswerFree DEF ActOnWord
<1> QED BY <1>5, <1>6, <1>7, <1>8, <1>9, <1>10, <1>11 DEF Moves

LEMMA EventsApart ==
  ASSUME WorkflowsRunOn, LockInv, PathSound, PushInv, ApartInv, OthersSound',
         WriteEvent \/ AskPerson \/ FinishRun
  PROVE  ApartInv'
<1> PICK t : t = todo
  OBVIOUS
<1> PICK h : h = Head(t)
  OBVIOUS
<1> PICK r : r = Tail(t)
  OBVIOUS
<1>1. t # <<>> /\ todo' = r /\ wf' = wf /\ UNCHANGED children
      /\ h.do \in {"write", "ask", "finish"}
  BY DEF WriteEvent, AskPerson, FinishRun, Doing, world
<1>2. EffectSound(h) /\ IsSeq(t) /\ PlanApart(st, lead, children, t)
  BY <1>1, Rest DEF LockInv, PlanSound, ApartInv
<1>3. Rested(h) => Rests(st, lead, children, h)
  <2>1. h = t[1] /\ 1 \in 1 .. Len(t)
    BY <1>1, <1>2, TailPlaces
  <2> QED BY <1>2, <2>1 DEF PlanApart
<1>4. Claims(h) => Justified(st, lead, h.event)
  <2>1. PlanBacked(st, lead, t) /\ Records(h)
    BY <1>1 DEF PushInv, Records
  <2> QED BY <1>1, <1>2, <2>1, RestBacked
<1>5. ASSUME NEW e, EventSound(e), Fitting(st, lead, children, e),
             lead' = Append(lead, e), st' = After(st, e),
             h.do = "write" => e = h.event
      PROVE  ApartInv'
  <2>1. ASSUME NEW g, NEW p, g = After(st, e), p = Append(lead, e)
        PROVE  PlanApart(g, p, children, r)
    <3>1. st.broken => g.broken
      BY <2>1 DEF After
    <3>2. /\ ~g.broken => Kids(st) \subseteq Kids(g)
          /\ ~g.broken /\ e.kind = "step_started" => e.child \in Kids(g)
      <4>1. FoldSound(st) /\ LogsSound(children) /\ ChildrenApart(st, children)
        BY DEF LockInv, LogSound, ChildrenSound, LogsSound, ApartInv
      <4> QED BY <1>5, <2>1, <4>1, ChildrenOn
    <3>3. Records(h)
      BY <1>1 DEF Records
    <3> QED BY <1>1, <1>2, <1>5, <3>1, <3>2, <3>3, EventApart
  <2> QED BY <1>1, <1>5, <2>1, PromptsStay, EventKept
<1>6. CASE WriteEvent
  <2> PICK e : e = h.event
    OBVIOUS
  <2>1. h.do = "write" /\ lead' = Append(lead, e) /\ st' = After(st, e)
    BY <1>6 DEF WriteEvent, Doing, Appends
  <2>2. EventSound(e) /\ e.kind \notin {"checkpoint_asked", "run_finished"}
    BY <1>2, <2>1 DEF EffectSound
  <2>3. e.kind \in {"checks_run", "pushed", "budget_raised"} => Justified(st, lead, e)
    BY <1>4, <2>1 DEF Claims
  <2>4. st.last = "checkpoint_asked" => e.kind = "checkpoint_answered"
    <3> HAVE st.last = "checkpoint_asked"
    <3>1. Says(t[1])
      BY <1>1 DEF PathSound, OnCourse, Over
    <3>2. t[1] = h
      BY <1>1, HeadDone DEF PathSound
    <3> QED BY <3>1, <3>2 DEF Says
  <2>5. /\ e.kind = "step_started" => Startable(st, lead, e)
        /\ e.kind = "route_taken" /\ e.taken \in Steps => Ahead(st, e.taken)
        /\ e.kind = "step_finished" => Finishable(st, children, e)
    BY <1>3, <2>1 DEF Rested, Rests
  <2>6. Fitting(st, lead, children, e)
    BY <2>2, <2>3, <2>4, <2>5 DEF Fitting
  <2> QED BY <1>5, <2>1, <2>2, <2>6
<1>7. ASSUME h.do # "write" PROVE st.last # "checkpoint_asked"
  BY <1>1, <1>7, Busy DEF OnCourse
<1>8. CASE AskPerson
  <2> DEFINE e == [kind |-> "checkpoint_asked", gate |-> h.gate, options |-> h.options]
  <2>1. h.do = "ask" /\ lead' = Append(lead, e) /\ st' = After(st, e)
    BY <1>8 DEF AskPerson, Doing, Appends
  <2>2. EventSound(e) /\ e.kind = "checkpoint_asked" /\ e.gate = h.gate
    BY DEF EventSound, Decisive
  <2> HIDE DEF e
  <2>3. h.gate \notin {BudgetGate, StepStop} => GateSound(st, lead, h.gate)
    BY <1>3, <2>1 DEF Rested, Rests
  <2>4. Fitting(st, lead, children, e)
    BY <1>7, <2>1, <2>2, <2>3 DEF Fitting
  <2> QED BY <1>5, <2>1, <2>2, <2>4
<1>9. CASE FinishRun
  <2> DEFINE e == [kind |-> "run_finished", outcome |-> h.outcome]
  <2>1. h.do = "finish" /\ lead' = Append(lead, e) /\ st' = After(st, e)
    BY <1>9 DEF FinishRun, Doing, Appends
  <2>2. EventSound(e) /\ e.kind = "run_finished"
    BY DEF EventSound, Decisive
  <2> HIDE DEF e
  <2>3. Fitting(st, lead, children, e)
    BY <1>7, <2>1, <2>2 DEF Fitting
  <2> QED BY <1>5, <2>1, <2>2, <2>3
<1> QED BY <1>6, <1>8, <1>9
(* A step that leaves the log, and the prompts in the children's logs.     *)
LEMMA LogKept ==
  ASSUME LockInv, ApartInv, OthersSound', UNCHANGED <<wf, lead, st>>,
         SamePrompts(children, children'), ~st.broken => DOMAIN children' \subseteq Kids(st),
         NEW t, todo' = t, PlanApart(st, lead, children, t)
  PROVE  ApartInv'
<1> PICK f, q, cs, ds : f = st /\ q = lead /\ cs = children /\ ds = children'
  OBVIOUS
<1>1. /\ FoldApart(f, q) /\ ChildrenApart(f, cs) /\ LogsSound(cs) /\ IsSeq(f.steps)
  BY DEF ApartInv, LockInv, LogSound, FoldSound, ChildrenSound, LogsSound
<1>2. SamePrompts(cs, ds) /\ (~f.broken => DOMAIN ds \subseteq Kids(f))
  OBVIOUS
<1>3. ChildrenApart(f, ds)
  BY <1>1, <1>2, ChildrenSame
<1>4. PlanApart(f, q, ds, t)
  BY <1>2, PlanSame
<1>5. st' = f /\ lead' = q /\ children' = ds /\ wf' = wf
  OBVIOUS
<1> QED BY <1>1, <1>3, <1>4, <1>5, ApartKept

LEMMA EmptyApart == \A f, q, cs : PlanApart(f, q, cs, <<>>)
BY FewBare, BareFree, FreeApart

LEMMA AnswerApart ==
  ASSUME WorkflowsRunOn, LockInv, PushInv, ApartInv, OthersSound', Answer
  PROVE  ApartInv'
<1>1. PICK word, usd : Appends(AnsweredEvent(word, usd))
  BY DEF Answer
<1> PICK e : e = AnsweredEvent(word, usd)
  OBVIOUS
<1> PICK t : t = todo
  OBVIOUS
<1>2. todo' = t /\ t = <<>> /\ wf' = wf /\ UNCHANGED children
      /\ lead' = Append(lead, e) /\ st' = After(st, e)
  BY <1>1 DEF Answer, At, Due, Idle, world, Appends
<1>3. EventSound(e) /\ e.kind = "checkpoint_answered"
  BY DEF EventSound, AnsweredEvent, Decisive
<1>4. Fitting(st, lead, children, e)
  BY <1>3 DEF Fitting
<1> QED BY <1>2, <1>3, <1>4, EmptyApart, PromptsStay, EventKept

(* An event of the turn is no prompt.                                      *)
LEMMA TurnAddsOn ==
  ASSUME LockInv, NEW x, x.k # "prompt", Adds(x)
  PROVE  SamePrompts(children, children') /\ DOMAIN children' = DOMAIN children
<1> PICK cs, ds, c : cs = children /\ ds = children' /\ c = turn.child
  OBVIOUS
<1>1. LogsSound(cs) /\ ds = [cs EXCEPT ![c] = Append(@, x)]
  BY DEF LockInv, ChildrenSound, LogsSound, Adds
<1>2. Adding(cs, c, x, ds)
  BY <1>1 DEF Adding
<1>3. SamePrompts(cs, ds) /\ DOMAIN ds = DOMAIN cs
  BY <1>2, TurnAdds
<1> QED BY <1>3

LEMMA GivenUpApart ==
  ASSUME WorkflowsRunOn, LockInv, PushInv, ApartInv, OthersSound',
         FailMove \/ CallFails \/ StopUnreadable \/ LeaveFinished \/ Crash \/ ChildDies
  PROVE  ApartInv'
<1> PICK t : t = <<>>
  OBVIOUS
<1>1. todo' = t /\ wf' = wf /\ (Notes \/ UNCHANGED <<lead, st>>)
  BY DEF FailMove, CallFails, StopUnreadable, LeaveFinished, Crash, ChildDies, Ends, log, world
<1>2. SamePrompts(children, children') /\ DOMAIN children' = DOMAIN children
  <2>1. CASE UNCHANGED children
    BY <2>1, PromptsStay
  <2>2. CASE ~UNCHANGED children
    <3>1. ChildDies
      BY <2>2 DEF FailMove, CallFails, StopUnreadable, LeaveFinished, Crash, world
    <3>2. PICK reason : Adds([k |-> "end", reason |-> reason])
      BY <3>1 DEF ChildDies
    <3> PICK x : x = [k |-> "end", reason |-> reason]
      OBVIOUS
    <3>3. x.k # "prompt" /\ Adds(x)
      BY <3>2
    <3> QED BY <3>3, TurnAddsOn
  <2> QED BY <2>1, <2>2
<1>3. CASE UNCHANGED <<lead, st>>
  <2>1. ~st.broken => DOMAIN children' \subseteq Kids(st)
    BY <1>2 DEF ApartInv, ChildrenApart
  <2> QED BY <1>1, <1>2, <1>3, <2>1, EmptyApart, LogKept
<1>4. CASE Notes /\ ~UNCHANGED <<lead, st>>
  <2> DEFINE e == [kind |-> "run_errored"]
  <2>1. lead' = Append(lead, e) /\ st' = After(st, e)
    BY <1>4 DEF Notes, Appends, log
  <2>2. EventSound(e) /\ e.kind = "run_errored"
    BY DEF EventSound
  <2> HIDE DEF e
  <2>3. Fitting(st, lead, children, e)
    BY <2>2 DEF Fitting
  <2> QED BY <1>1, <1>2, <2>1, <2>2, <2>3, EmptyApart, EventKept
<1> QED BY <1>1, <1>3, <1>4

LEMMA ReportIsNoPrompt == \A s : \A x \in Reports(s) : x.k # "prompt"
<1> SUFFICES ASSUME NEW s, NEW x \in Reports(s) PROVE x.k # "prompt"
  OBVIOUS
<1> DEFINE report(status, word, usd, go) ==
             [k |-> "report", status |-> status, word |-> word, usd |-> usd, go |-> go]
           routed == DOMAIN wf.steps[s].routes # {}
           decides == \E d \in DOMAIN wf.steps : wf.steps[d].decidedBy = s
           words == IF routed THEN DOMAIN wf.steps[s].routes \union {"other"} ELSE {None}
           figures == IF routed THEN Proposals ELSE {0}
           goes == IF decides THEN BOOLEAN ELSE {FALSE}
           short == {report(status, None, 0, FALSE) : status \in {"partial", "empty"}}
           full == {report("done", word, usd, go) : word \in words, usd \in figures, go \in goes}
<1>1. Reports(s) = short \union full
  BY DEF Reports
<1>2. \A r \in short : r.k = "report"
  OBVIOUS
<1> HIDE DEF short, words, figures, goes
<1>3. \A r \in full : r.k = "report"
  OBVIOUS
<1> HIDE DEF full
<1> QED BY <1>1, <1>2, <1>3

LEMMA BesideApart ==
  ASSUME LockInv, ApartInv, OthersSound',
         Turns \/ Start \/ RivalLocks \/ RemoteMoves \/ UNCHANGED vars
  PROVE  ApartInv'
<1> PICK t : t = todo
  OBVIOUS
<1>1. UNCHANGED <<wf, lead, st>> /\ todo' = t
  BY DEF Turns, ChildCalls, ChildReports, ChildEnds, Start, RivalLocks, RemoteMoves, log, world, vars
<1>2. PlanApart(st, lead, children, t)
  BY DEF ApartInv
<1>3. SamePrompts(children, children') /\ DOMAIN children' = DOMAIN children
  <2>1. CASE UNCHANGED children
    BY <2>1, PromptsStay
  <2>2. ASSUME NEW x, x.k # "prompt", Adds(x)
        PROVE  SamePrompts(children, children') /\ DOMAIN children' = DOMAIN children
    BY <2>2, TurnAddsOn
  <2>3. CASE ChildCalls
    <3>1. Adds([k |-> "call"])
      BY <2>3 DEF ChildCalls
    <3> QED BY <2>2, <3>1
  <2>4. CASE ChildReports
    BY <2>2, <2>4, ReportIsNoPrompt DEF ChildReports
  <2>5. CASE ChildEnds
    <3>1. PICK reason : Adds([k |-> "end", reason |-> reason])
      BY <2>5 DEF ChildEnds
    <3> QED BY <2>2, <3>1
  <2> QED BY <2>1, <2>3, <2>4, <2>5 DEF Turns, Start, RivalLocks, RemoteMoves, world, vars
<1>4. ~st.broken => DOMAIN children' \subseteq Kids(st)
  BY <1>3 DEF ApartInv, ChildrenApart
<1> QED BY <1>1, <1>2, <1>3, <1>4, LogKept
-----------------------------------------------------------------------------
(* The effects that record nothing                                         *)

(* A push that is decided takes the place of its weighing.                 *)
LEMMA SwapApart ==
  ASSUME NEW f, NEW q, NEW cs, NEW t, IsSeq(t), t # <<>>, PlanApart(f, q, cs, t),
         Head(t).do = "weigh", NEW p, p.do = "push"
  PROVE  PlanApart(f, q, cs, <<p>> \o Tail(t))
<1> PICK r : r = Tail(t)
  OBVIOUS
<1> PICK u : u = <<p>> \o r
  OBVIOUS
<1>1. /\ Head(t) = t[1] /\ Len(t) \in Nat /\ Len(t) >= 1 /\ 1 \in 1 .. Len(t)
      /\ Len(r) = Len(t) - 1 /\ IsSeq(r)
      /\ \A i \in 1 .. Len(r) : r[i] = t[i + 1] /\ i + 1 \in 1 .. Len(t)
  BY TailPlaces
<1>2. \A i \in 1 .. Len(t) : /\ Rested(t[i]) => /\ Rests(f, q, cs, t[i])
                                              /\ \A k \in 1 .. (i - 1) : ~Records(t[k])
                             /\ MadeFor(f, t, i)
  BY DEF PlanApart
<1>3. /\ Len(u) = Len(t) /\ u[1] = p
      /\ \A i \in 1 .. Len(t) : i # 1 => u[i] = t[i]
  <2>1. r \in Seq(Range(r)) /\ Len(r) \in Nat
    BY <1>1 DEF IsSeq
  <2>2. <<p>> \in Seq({p}) /\ Len(<<p>>) = 1 /\ <<p>>[1] = p
    OBVIOUS
  <2> PICK o : o = <<p>>
    OBVIOUS
  <2> PICK S : S = {p} \union Range(r)
    OBVIOUS
  <2>3. o \in Seq(S) /\ r \in Seq(S) /\ Len(o) = 1 /\ o[1] = p
    BY <2>1, <2>2
  <2>4. u = o \o r /\ Len(u) = 1 + Len(r)
    BY <2>3
  <2>5. \A i \in 1 .. Len(u) : u[i] = IF i <= 1 THEN o[i] ELSE r[i - 1]
    BY <2>3, <2>4
  <2>6. Len(u) = Len(t)
    BY <1>1, <2>1, <2>4
  <2>7. u[1] = p
    BY <1>1, <2>3, <2>5, <2>6
  <2>8. ASSUME NEW i \in 1 .. Len(t), i # 1 PROVE u[i] = t[i]
    <3>1. i - 1 \in 1 .. Len(r) /\ (i - 1) + 1 = i /\ ~(i <= 1)
      BY <1>1, <2>8
    <3>2. r[i - 1] = t[i]
      BY <1>1, <3>1
    <3> QED BY <2>5, <2>6, <3>1, <3>2
  <2> QED BY <2>6, <2>7, <2>8
<1>4. \A i \in 1 .. Len(t) : ~ForChild(t[i])
  <2> SUFFICES ASSUME NEW i \in 1 .. Len(t), ForChild(t[i]) PROVE FALSE
    OBVIOUS
  <2>1. Awaits(f, cs, t)
    BY DEF PlanApart
  <2> QED BY <2>1, AwaitsIs
<1>5. ASSUME NEW i \in 1 .. Len(t)
      PROVE  /\ ~ForChild(u[i]) /\ MadeFor(f, u, i)
             /\ Rested(u[i]) => /\ Rests(f, q, cs, u[i])
                                /\ \A k \in 1 .. (i - 1) : ~Records(u[k])
  <2>1. CASE i = 1
    BY <1>3, <2>1 DEF ForChild, MadeFor, Rested
  <2>2. CASE i # 1
    <3>1. u[i] = t[i] /\ \A k \in 1 .. (i - 1) : k \in 1 .. Len(t) /\ (k # 1 => u[k] = t[k])
      BY <1>1, <1>3, <2>2
    <3>2. \A k \in 1 .. (i - 1) : ~Records(t[k]) => ~Records(u[k])
      BY <1>3, <3>1 DEF Records
    <3>3. MadeFor(f, u, i)
      <4> SUFFICES ASSUME u[i].do = "create", ~f.broken, u[i].child \notin Kids(f)
                   PROVE  \E k \in 1 .. (i - 1) : /\ u[k].do = "write"
                                                  /\ u[k].event.kind = "step_started"
                                                  /\ u[k].event.child = u[i].child
        BY DEF MadeFor
      <4>1. PICK k \in 1 .. (i - 1) : /\ t[k].do = "write" /\ t[k].event.kind = "step_started"
                                      /\ t[k].event.child = u[i].child
        BY <1>2, <3>1 DEF MadeFor
      <4>2. k # 1
        BY <1>1, <4>1
      <4> QED BY <3>1, <4>1, <4>2
    <3> QED BY <1>2, <1>4, <3>1, <3>2, <3>3
  <2> QED BY <2>1, <2>2
<1>6. PlanApart(f, q, cs, u)
  BY <1>3, <1>5 DEF PlanApart
<1> QED BY <1>6

(* The child a record waits for is made.                                   *)
LEMMA CreateApart ==
  ASSUME LockInv, ApartInv, OthersSound', CreateChild
  PROVE  ApartInv'
<1> PICK t, r, h : t = todo /\ r = Tail(t) /\ h = Head(t)
  OBVIOUS
<1> PICK f, q, cs, ds : f = st /\ q = lead /\ cs = children /\ ds = children'
  OBVIOUS
<1> PICK c : c = h.child
  OBVIOUS
<1>1. /\ wf' = wf /\ st' = f /\ lead' = q /\ children' = ds /\ todo' = r
      /\ t # <<>> /\ h.do = "create"
      /\ ds = IF c \in DOMAIN cs THEN cs ELSE Append(cs, <<>>)
  BY DEF CreateChild, Doing, log
<1>2. /\ FoldApart(f, q) /\ ChildrenApart(f, cs) /\ LogsSound(cs) /\ IsSeq(f.steps) /\ IsSeq(t)
      /\ RecordsSound(f) /\ PlanApart(f, q, cs, t) /\ LogSound
  BY DEF ApartInv, LockInv, LogSound, FoldSound, ChildrenSound, LogsSound, PlanSound, FoldApart
<1>3. h = t[1] /\ 1 \in 1 .. Len(t)
  BY <1>1, <1>2, TailPlaces
<1>4. f.broken \/ c \in Kids(f)
  <2>1. MadeFor(f, t, 1) /\ t[1].do = "create" /\ t[1].child = c
    BY <1>1, <1>2, <1>3 DEF PlanApart
  <2>2. \A k \in 1 .. (1 - 1) : FALSE
    OBVIOUS
  <2> QED BY <2>1, <2>2 DEF MadeFor
<1>5. /\ SamePrompts(cs, ds) /\ (~f.broken => DOMAIN ds \subseteq Kids(f))
      /\ ~f.broken /\ f.steps # <<>> /\ c = Last(f.steps).child => c \in DOMAIN ds
  <2>1. CASE c \in DOMAIN cs
    <3>1. ds = cs
      BY <1>1, <2>1
    <3> QED BY <1>2, <2>1, <3>1 DEF SamePrompts, ChildrenApart
  <2>2. CASE c \notin DOMAIN cs
    <3>1. ds = Append(cs, <<>>)
      BY <1>1, <2>2
    <3> QED BY <1>2, <1>4, <2>2, <3>1, MadeApart
  <2> QED BY <2>1, <2>2
<1>6. ChildrenApart(f, ds)
  BY <1>2, <1>5, ChildrenSame
<1>7. PlanApart(f, q, ds, r)
  <2>1. CASE \A i \in 1 .. Len(t) : ~ForChild(t[i])
    <3>1. ~Records(h)
      BY <1>1 DEF Records
    <3>2. PlanApart(f, q, cs, r)
      BY <1>1, <1>2, <2>1, <3>1, TailApart
    <3> QED BY <1>5, <3>2, PlanSame
  <2>2. CASE \E i \in 1 .. Len(t) : ForChild(t[i])
    <3>1. Awaits(f, cs, t)
      BY <1>2, <2>2 DEF PlanApart
    <3>2. ~f.broken /\ OpenStep(f) /\ Ending(f, cs, t)
      BY <1>1, <3>1, AwaitsIs DEF Awaits
    <3>3. /\ h = StepOf(f, "create") /\ ~Paid(f, cs)
          /\ r = <<StepOf(f, "prompt"), StepOf(f, "apply")>>
      BY <1>1, <3>2, EndingIs
    <3>4. c = Last(f.steps).child /\ f.steps # <<>>
      BY <3>2, <3>3 DEF StepOf, Do, OpenStep
    <3>5. c \in DOMAIN ds /\ c \in Kids(f)
      BY <1>4, <1>5, <3>2, <3>4
    <3>6. ~Paid(f, ds)
      BY <1>5, <3>3 DEF Paid, Owes, SamePrompts
    <3>7. Ending(f, ds, r)
      BY <3>3, <3>4, <3>5, <3>6 DEF Ending
    <3> QED BY <3>2, <3>4, <3>5, <3>7, EndingApart
  <2> QED BY <2>1, <2>2
<1> QED BY <1>1, <1>2, <1>6, <1>7, ApartKept

(* The open record's prompt is posted.                                     *)
LEMMA PromptKept ==
  ASSUME LockInv, ApartInv, OthersSound', PostPrompt
  PROVE  ApartInv'
<1> PICK t, r, h : t = todo /\ r = Tail(t) /\ h = Head(t)
  OBVIOUS
<1> PICK f, q, cs, ds : f = st /\ q = lead /\ cs = children /\ ds = children'
  OBVIOUS
<1> PICK c : c = h.child
  OBVIOUS
<1> PICK x : x = [k |-> "prompt"]
  OBVIOUS
<1>1. /\ wf' = wf /\ st' = f /\ lead' = q /\ children' = ds /\ todo' = r
      /\ t # <<>> /\ h.do = "prompt"
      /\ ds = [cs EXCEPT ![c] = Append(@, x)]
  BY DEF PostPrompt, Doing, log
<1>2. /\ FoldApart(f, q) /\ ChildrenApart(f, cs) /\ LogsSound(cs) /\ IsSeq(f.steps) /\ IsSeq(t)
      /\ RecordsSound(f) /\ ClosedBefore(f) /\ LogSound
  BY DEF ApartInv, LockInv, LogSound, FoldSound, ChildrenSound, LogsSound, PlanSound, FoldApart,
         RecordsSound
<1>3. ~f.broken /\ OpenStep(f) /\ Ending(f, cs, t) /\ h = StepOf(f, "prompt")
  BY <1>1, <1>2, HeadStep DEF Awaits
<1>4. ~Paid(f, cs) /\ Last(f.steps).child \in DOMAIN cs /\ r = <<StepOf(f, "apply")>>
  BY <1>1, <1>3, EndingIs
<1>5. c = Last(f.steps).child /\ f.steps # <<>>
  BY <1>3 DEF StepOf, Do, OpenStep
<1>6. c \in Kids(f)
  BY <1>2, <1>5, LastFacts
<1>7. ChildrenApart(f, ds) /\ ~Owes(f, ds, c)
  <2>1. Owes(f, cs, c) /\ x.k = "prompt" /\ Adding(cs, c, x, ds)
    BY <1>1, <1>2, <1>4, <1>5 DEF Paid, Adding
  <2> QED BY <1>2, <1>4, <1>5, <2>1, PromptApart
<1>8. Ending(f, ds, r)
  BY <1>4, <1>5, <1>7 DEF Ending, Paid
<1>9. PlanApart(f, q, ds, r)
  BY <1>3, <1>5, <1>6, <1>8, EndingApart
<1> QED BY <1>1, <1>2, <1>7, <1>9, ApartKept

(* A head that records nothing is done, or gives the run to a person.      *)
LEMMA HeadApart ==
  ASSUME WorkflowsRunOn, LockInv, ApartInv, OthersSound', UNCHANGED <<wf, lead, st, children>>,
         todo # <<>>,
         \/ /\ todo' = Tail(todo) /\ ~Records(Head(todo))
            /\ Head(todo).do \notin {"create", "prompt"}
         \/ \E gate \in RunnerGates \ {"checks_failed"} : todo' = <<Escalate(gate)>>
         \/ \E room : todo' = ParkSpent(room)
  PROVE  ApartInv'
<1> PICK t, r : t = todo /\ r = Tail(t)
  OBVIOUS
<1>1. IsSeq(t) /\ PlanApart(st, lead, children, t) /\ wf \in Workflows
  BY DEF ApartInv, LockInv, LogSound, PlanSound
<1>2. CASE todo' = r /\ ~Records(Head(t)) /\ Head(t).do \notin {"create", "prompt"}
  <2>1. PlanApart(st, lead, children, r)
    BY <1>1, <1>2, TailApart
  <2> QED BY <1>2, <2>1, PlanKept
<1>3. CASE \E gate \in RunnerGates \ {"checks_failed"} : todo' = <<Escalate(gate)>>
  <2>1. PICK gate \in RunnerGates \ {"checks_failed"} : todo' = <<Escalate(gate)>>
    BY <1>3
  <2> PICK u : u = <<Escalate(gate)>>
    OBVIOUS
  <2>2. PlanApart(st, lead, children, u)
    BY <1>1, EscalateFree, FreeApart
  <2> QED BY <2>1, <2>2, PlanKept
<1>4. CASE \E room : todo' = ParkSpent(room)
  <2>1. PICK room : todo' = ParkSpent(room)
    BY <1>4
  <2> PICK u : u = ParkSpent(room)
    OBVIOUS
  <2>2. PlanApart(st, lead, children, u)
    BY ParksBare, BareFree, FreeApart
  <2> QED BY <2>1, <2>2, PlanKept
<1> QED BY <1>2, <1>3, <1>4

LEMMA EffectsApart ==
  ASSUME WorkflowsRunOn, LockInv, ApartInv, OthersSound',
         \/ TakeWriteLock \/ CreateChild \/ PostPrompt \/ ResumeChild \/ ApplyEnd \/ PostComment
         \/ InstallBinary \/ WaitForCi \/ CloseIssue \/ RenderFails \/ WeighPush \/ PushBranch
  PROVE  ApartInv'
<1> PICK t, r, h : t = todo /\ r = Tail(t) /\ h = Head(t)
  OBVIOUS
<1> PICK p : p = [h EXCEPT !.do = "push"]
  OBVIOUS
<1>1. UNCHANGED <<wf, lead, st>> /\ t # <<>>
  BY DEF TakeWriteLock, CreateChild, PostPrompt, ResumeChild, ApplyEnd, PostComment,
         InstallBinary, WaitForCi, CloseIssue, RenderFails, WeighPush, PushBranch, Doing, log, world
<1>2. CASE CreateChild
  BY <1>2, CreateApart
<1>3. CASE PostPrompt
  BY <1>3, PromptKept
<1>4. CASE ~CreateChild /\ ~PostPrompt
  <2>1. UNCHANGED children
    BY <1>4 DEF TakeWriteLock, ResumeChild, ApplyEnd, PostComment, InstallBinary, WaitForCi,
                CloseIssue, RenderFails, WeighPush, PushBranch, world
  <2>2. {"write_lock", "install_mismatch", "ci_failed", "ci_missing", "ci_timeout", "remote_moved",
         "push_error", "render_failed"} \subseteq RunnerGates \ {"checks_failed"}
    BY DEF RunnerGates
  <2>3. CASE ApplyEnd
    <3> PICK u : u = EndOf(h.step, h.attempt, h.child)
      OBVIOUS
    <3>1. h.do = "apply" /\ todo' = u
      BY <2>3 DEF ApplyEnd, Doing
    <3>2. IsSeq(t) /\ LogSound /\ LogsSound(children) /\ IsSeq(st.steps)
      BY DEF LockInv, PlanSound, LogSound, FoldSound, ChildrenSound, LogsSound
    <3>3. Awaits(st, children, t) /\ Ending(st, children, t) /\ h = StepOf(st, "apply")
      BY <1>1, <3>1, <3>2, HeadStep
    <3>4. Paid(st, children) /\ ~st.broken /\ OpenStep(st)
      BY <3>1, <3>3, EndingIs DEF Awaits
    <3>5. h.step = Last(st.steps).step /\ h.attempt = Last(st.steps).attempt
          /\ h.child = Last(st.steps).child
      BY <3>3 DEF StepOf, Do
    <3>6. PlanApart(st, lead, children, u)
      BY <3>2, <3>4, <3>5, EndOfFree, FreeApart
    <3> QED BY <1>1, <2>1, <3>1, <3>6, PlanKept
  <2>4. CASE h.do = "weigh" /\ todo' = <<p>> \o r
    <3>1. IsSeq(t) /\ PlanApart(st, lead, children, t)
      BY DEF LockInv, PlanSound, ApartInv
    <3>2. p.do = "push"
      <4>1. EffectSound(h)
        BY <1>1, Rest DEF LockInv, PlanSound
      <4>2. h = Do("weigh", h.step, h.attempt, h.child)
        BY <2>4, <4>1 DEF EffectSound
      <4> QED BY <4>2 DEF Do
    <3> PICK u : u = <<p>> \o r
      OBVIOUS
    <3>3. PlanApart(st, lead, children, u)
      BY <1>1, <2>4, <3>1, <3>2, SwapApart
    <3> QED BY <1>1, <2>1, <2>4, <3>3, PlanKept
  <2>5. CASE ~ApplyEnd /\ ~(h.do = "weigh" /\ todo' = <<p>> \o r)
    <3>1. \/ /\ todo' = r /\ h.do \in {"lock", "resume", "comment", "install", "ci", "close",
                                       "approve", "weigh", "push"}
          \/ \E gate \in RunnerGates \ {"checks_failed"} : todo' = <<Escalate(gate)>>
          \/ \E room : todo' = ParkSpent(room)
      <4>1. CASE TakeWriteLock
        BY <2>2, <4>1 DEF TakeWriteLock, Doing
      <4>2. CASE ResumeChild
        BY <2>2, <4>2 DEF ResumeChild, Doing
      <4>3. CASE PostComment \/ InstallBinary
        BY <2>2, <4>3 DEF PostComment, InstallBinary, Doing
      <4>4. CASE WaitForCi \/ CloseIssue
        BY <2>2, <4>4 DEF WaitForCi, CloseIssue, Doing
      <4>5. CASE RenderFails
        BY <2>2, <4>5 DEF RenderFails
      <4>6. CASE WeighPush
        BY <2>2, <2>5, <4>6 DEF WeighPush, Doing
      <4>7. CASE PushBranch
        BY <2>2, <4>7 DEF PushBranch, Doing
      <4> QED BY <1>4, <2>5, <4>1, <4>2, <4>3, <4>4, <4>5, <4>6, <4>7
    <3>2. h.do \in {"lock", "resume", "comment", "install", "ci", "close", "approve", "weigh", "push"}
            => ~Records(h) /\ h.do \notin {"create", "prompt"}
      BY DEF Records
    <3> QED BY <1>1, <2>1, <3>1, <3>2, HeadApart
  <2> QED BY <2>3, <2>4, <2>5
<1> QED BY <1>2, <1>3, <1>4

LEMMA StepApart ==
  ASSUME WorkflowsLoad, WorkflowsRunOn, LockInv, PathSound, PushInv, ApartInv, [Next]_vars
  PROVE  ApartInv'
<1>1. OthersSound'
  BY OthersStep
<1>2. CASE Moves
  BY <1>1, <1>2, MovesApart
<1>3. CASE Effects
  BY <1>1, <1>3, EventsApart, EffectsApart, GivenUpApart DEF Effects
<1>4. CASE Turns \/ Start \/ UNCHANGED vars
  BY <1>1, <1>4, BesideApart
<1>5. CASE Stops
  BY <1>1, <1>5, GivenUpApart DEF Stops
<1>6. CASE Environment
  BY <1>1, <1>6, EffectsApart, GivenUpApart, AnswerApart, BesideApart DEF Environment
<1> QED BY <1>2, <1>3, <1>4, <1>5, <1>6 DEF Next
-----------------------------------------------------------------------------
(* The attempts of a run                                                   *)

LEMMA ApartInit ==
  ASSUME WorkflowsLoad, Init
  PROVE  ApartInv
<1> DEFINE e == [kind |-> "run_started", budget |-> wf.budget]
<1> PICK f, q, cs, t : f = st /\ q = lead /\ cs = children /\ t = todo
  OBVIOUS
<1>1. f = [Zero EXCEPT !.last = "run_started", !.budget = e.budget]
  <2>1. lead[1] = e /\ st = After(Zero, e)
    BY DEF Init
  <2>2. ~Zero.broken /\ Zero.last = None
    BY DEF Zero
  <2> QED BY <2>1, <2>2 DEF After
<1>2. /\ f.last = "run_started" /\ f.pending = None /\ f.steps = <<>>
      /\ DOMAIN f.steps = {} /\ Len(f.steps) = 0
  BY <1>1 DEF Zero
<1>3. /\ q = <<e>> /\ Len(q) = 1 /\ DOMAIN q = {1} /\ q[1] = e /\ e.kind = "run_started"
      /\ cs = <<>> /\ DOMAIN cs = {} /\ t = <<>>
  BY DEF Init
<1> HIDE DEF e
<1>4. OthersSound
  <2>1. turn = NoTurn /\ NoTurn.step = None
    BY DEF Init, NoTurn
  <2>2. 0 \in 0 .. MaxAnswers /\ 0 \in 0 .. MaxMishaps
    BY BoundsAssumption
  <2> QED BY <2>1, <2>2 DEF Init, OthersSound
<1>5. Kids(f) = {} /\ ~OpenStep(f)
  BY <1>2 DEF Kids, OpenStep
<1>6. RecordsSound(f)
  <2>1. 0 \in Nat /\ Kids(f) = 1 .. 0
    BY <1>5
  <2>2. KidsSound(f)
    BY <1>2, <2>1 DEF KidsSound
  <2> QED BY <1>2, <2>2 DEF RecordsSound, Numbered, ClosedBefore, Climbs
<1>7. LogMatches(f, q)
  <2>1. \A s, c, n : StartsIn(q, s, c, n) = {} /\ RecordsIn(f, s, c, n) = {}
    BY <1>2, <1>3 DEF StartsIn, RecordsIn
  <2>2. \A s : PartialsIn(q, s) = {} /\ PartialRecords(f, s) = {}
    BY <1>2, <1>3 DEF PartialsIn, PartialEvent, PartialRecords
  <2>3. Cardinality({}) <= Cardinality({})
    BY FS_EmptySet
  <2>4. \A i \in DOMAIN q : ~NewestFinish(q, i) /\ q[i].kind = f.last
    BY <1>2, <1>3 DEF NewestFinish
  <2> QED BY <2>1, <2>2, <2>3, <2>4 DEF LogMatches
<1>8. CourseSound(f, q)
  <2>1. MayCall(f) = {"run_started"} /\ \A gate : gate # None => ~AskedAt(f, gate)
    BY <1>2 DEF MayCall, AskedAt, BudgetGate, StepStop, None
  <2>2. Leads(f, "run_started")
    BY <1>2 DEF Leads
  <2> QED BY <2>1, <2>2 DEF CourseSound
<1>9. LogSentBack(q)
  BY <1>3 DEF LogSentBack
<1>10. ChildrenApart(f, cs)
  BY <1>2, <1>3, <1>5 DEF ChildrenApart, PromptsSound, ReportsSound
<1>11. PlanApart(f, q, cs, t)
  BY <1>3, EmptyApart
<1> QED BY <1>4, <1>6, <1>7, <1>8, <1>9, <1>10, <1>11 DEF ApartInv, FoldApart

LEMMA BegunInit == Init => Begun
<1> SUFFICES ASSUME Init PROVE Begun
  OBVIOUS
<1> DEFINE e == [kind |-> "run_started", budget |-> wf.budget]
<1>1. lead = <<e>> /\ e.kind = "run_started"
  BY DEF Init
<1> HIDE DEF e
<1> QED BY <1>1 DEF Begun

LEMMA BegunStep ==
  ASSUME LockInv, Begun, [Next]_vars
  PROVE  Begun'
<1>1. lead' = lead \/ \E e : lead' = Append(lead, e)
  <2>1. CASE Moves \/ Turns \/ Start \/ UNCHANGED vars
    BY <2>1 DEF Moves, StartFirstStep, ReAwaitChild, EndStep, Follow, ActOnChecks, ActOnPush,
                ActOnWord, Decide, Turns, ChildCalls, ChildReports, ChildEnds, Start, vars, log
  <2>2. CASE Effects
    BY <2>2 DEF Effects, WriteEvent, AskPerson, FinishRun, FailMove, TakeWriteLock,
                CreateChild, PostPrompt, ResumeChild, ApplyEnd, PostComment,
                WeighPush, PushBranch, InstallBinary, WaitForCi, CloseIssue, Notes, Appends, log
  <2>3. CASE Stops \/ Environment
    BY <2>3 DEF Stops, StopUnreadable, LeaveFinished, Environment, RenderFails, CallFails,
                ChildDies, Answer, Crash, RivalLocks, RemoteMoves, Notes, Appends, log
  <2> QED BY <2>1, <2>2, <2>3 DEF Next
<1>2. ASSUME NEW e, lead' = Append(lead, e) PROVE Begun'
  <2>1. IsSeq(lead)
    BY DEF LockInv, LogSound, LeadSound
  <2>2. lead \in Seq(Range(lead)) /\ Len(lead) \in Nat /\ Len(lead) # 0
    BY <2>1 DEF IsSeq, Begun
  <2> PICK S : S = Range(lead) \union {e}
    OBVIOUS
  <2>3. lead \in Seq(S) /\ e \in S
    BY <2>2
  <2> PICK q, p : q = lead /\ p = lead'
    OBVIOUS
  <2>4. q \in Seq(S) /\ p = Append(q, e) /\ 1 \in 1 .. Len(q)
    BY <1>2, <2>2, <2>3
  <2>5. p # <<>> /\ p[1] = q[1]
    BY <2>3, <2>4
  <2> QED BY <2>5 DEF Begun
<1> QED BY <1>1, <1>2 DEF Begun

LEMMA ApartTyped ==
  ASSUME LockInv, ApartInv
  PROVE  TypeOK
<1>1. \A i \in DOMAIN st.steps :
        st.steps[i].attempt =
        Cardinality({j \in 1 .. i : st.steps[j].step = st.steps[i].step})
  BY DEF ApartInv, FoldApart, RecordsSound, Numbered, Until
<1> QED BY <1>1 DEF TypeOK, ApartInv, OthersSound, Steps, LockInv, LogSound

LEMMA ApartPrompted ==
  ASSUME ApartInv
  PROVE  PromptedOnce
<1> SUFFICES ASSUME NEW c \in DOMAIN children
             PROVE  LET records == {i \in DOMAIN st.steps : st.steps[i].child = c}
                        closed == {i \in records : st.steps[i].status # "open"}
                    IN  /\ Cardinality(Prompts(c)) <= Cardinality(records)
                        /\ Cardinality(closed) <= Cardinality(Prompts(c))
  BY DEF PromptedOnce
<1>1. Prompts(c) = PromptsIn(children, c)
  BY DEF Prompts, PromptsIn, Child, LogIn
<1>2. /\ Cardinality(ClosedIn(st, c)) <= Cardinality(PromptsIn(children, c))
      /\ Cardinality(PromptsIn(children, c)) <= Cardinality(In(st, c))
  BY DEF ApartInv, ChildrenApart, PromptsSound
<1> QED BY <1>1, <1>2 DEF ClosedIn, In

LEMMA ApartReports ==
  ASSUME ApartInv
  PROVE  ReportIsOwnUnlessRenumbered
<1> SUFFICES ASSUME ~Renumbered, NEW i \in DOMAIN st.steps, st.steps[i].report # 0
             PROVE  LET c == st.steps[i].child
                        nth == Cardinality({j \in 1 .. i : st.steps[j].child = c})
                    IN  st.steps[i].report > PromptAt(c, nth)
  BY DEF ReportIsOwnUnlessRenumbered, ReportIsOwn
<1> PICK c : c = st.steps[i].child
  OBVIOUS
<1> PICK n : n = Cardinality(UntilIn(st, i, c))
  OBVIOUS
<1>1. st.steps[i].attempt = n
  BY DEF Renumbered, UntilIn
<1>2. st.steps[i].report > PromptNo(children, c, n)
  BY <1>1 DEF ApartInv, ChildrenApart, ReportsSound, ReportFits
<1>3. PromptAt(c, n) = PromptNo(children, c, n)
  BY DEF PromptAt, PromptNo, Prompts, PromptsIn, Child, LogIn
<1>4. n = Cardinality({j \in 1 .. i : st.steps[j].child = c})
  BY DEF UntilIn
<1> QED BY <1>2, <1>3, <1>4

(* The decisive event before a place.                                      *)
LEMMA BeforeIs ==
  ASSUME IsSeq(lead), Begun, NEW i \in DOMAIN lead, lead[i].kind # "run_started"
  PROVE  \E b \in 1 .. (i - 1) :
           /\ Before(i) = lead[b] /\ lead[b].kind # "run_errored"
           /\ \A j \in (b + 1) .. (i - 1) : lead[j].kind = "run_errored"
<1>1. DOMAIN lead = 1 .. Len(lead) /\ Len(lead) \in Nat
  BY Places
<1> DEFINE A == {j \in 1 .. (i - 1) : lead[j].kind # "run_errored"}
<1>2. A \in SUBSET DOMAIN lead
  BY <1>1
<1>3. 1 \in A
  <2>1. i # 1 /\ lead[1].kind # "run_errored"
    BY DEF Begun
  <2> QED BY <1>1, <2>1
<1>4. Before(i) = lead[Max(A)]
  BY DEF Before
<1>5. Max(A) \in A /\ \A j \in DOMAIN lead : j > Max(A) => j \notin A
  <2> HIDE DEF A
  <2> QED BY <1>2, <1>3, NewestPlace
<1> PICK b : b = Max(A)
  OBVIOUS
<1>6. b \in 1 .. (i - 1) /\ lead[b].kind # "run_errored"
  BY <1>5
<1>7. ASSUME NEW j \in (b + 1) .. (i - 1) PROVE lead[j].kind = "run_errored"
  <2>1. j \in DOMAIN lead /\ j > b /\ j \in 1 .. (i - 1)
    BY <1>1, <1>6
  <2> QED BY <1>5, <2>1
<1> QED BY <1>4, <1>6, <1>7

LEMMA ApartSentBack ==
  ASSUME LockInv, ApartInv, Begun
  PROVE  SentBackOnce
<1>1. IsSeq(lead) /\ DOMAIN lead = 1 .. Len(lead) /\ Len(lead) \in Nat
  BY Places DEF LockInv, LogSound, LeadSound
<1> SUFFICES ASSUME NEW s, NEW kind \in {"checks_run", "step_finished"}
             PROVE  Cardinality({i \in Where("step_started") :
                                   lead[i].step = s /\ Before(i).kind = kind}) <= 1
  BY DEF SentBackOnce
<1> DEFINE A == {i \in Where("step_started") : lead[i].step = s /\ Before(i).kind = kind}
<1>2. \A i \in A : /\ i \in DOMAIN lead /\ lead[i].kind = "step_started"
                   /\ lead[i].step = s /\ Before(i).kind = kind
  BY DEF Where, LeadHas
<1>3. ASSUME NEW i \in A, NEW k \in A, i < k PROVE FALSE
  <2>1. /\ i \in 1 .. Len(lead) /\ k \in 1 .. Len(lead)
        /\ lead[i].kind = "step_started" /\ lead[k].kind = "step_started"
        /\ lead[i].step = s /\ lead[k].step = s /\ Before(i).kind = kind /\ Before(k).kind = kind
    BY <1>1, <1>2
  <2>2. PICK b \in 1 .. (i - 1) :
          /\ Before(i) = lead[b] /\ lead[b].kind # "run_errored"
          /\ \A j \in (b + 1) .. (i - 1) : lead[j].kind = "run_errored"
    BY <1>1, <2>1, BeforeIs
  <2>3. PICK d \in 1 .. (k - 1) :
          /\ Before(k) = lead[d] /\ lead[d].kind # "run_errored"
          /\ \A j \in (d + 1) .. (k - 1) : lead[j].kind = "run_errored"
    BY <1>1, <2>1, BeforeIs
  <2>4. SentBack(lead, i) /\ SentBack(lead, k)
    BY <1>1, <2>1 DEF ApartInv, FoldApart, LogSentBack
  <2>5. d >= i
    <3>1. i \notin (d + 1) .. (k - 1)
      BY <2>1, <2>3
    <3> QED BY <1>3, <2>1, <2>3, <3>1
  <2>6. b \in 1 .. (k - 1) /\ b # d
    BY <1>3, <2>1, <2>2, <2>3, <2>5
  <2>7. CASE kind = "checks_run"
    <3>1. FailEvent(lead[b], s)
      BY <2>1, <2>2, <2>4, <2>7 DEF SentBack
    <3>2. \A j \in 1 .. (k - 1) : FailEvent(lead[j], s) => j = d
      BY <2>1, <2>3, <2>4, <2>7 DEF SentBack
    <3> QED BY <2>6, <3>1, <3>2
  <2>8. CASE kind = "step_finished"
    <3>1. PartialEvent(lead[b], s)
      BY <2>1, <2>2, <2>4, <2>8 DEF SentBack
    <3>2. \A j \in 1 .. (k - 1) : PartialEvent(lead[j], s) => j = d
      BY <2>1, <2>3, <2>4, <2>8 DEF SentBack
    <3> QED BY <2>6, <3>1, <3>2
  <2> QED BY <2>7, <2>8
<1>4. A = {} \/ \E i : A = {i}
  <2>1. ASSUME NEW i \in A, NEW k \in A PROVE i = k
    <3>1. i \in Nat /\ k \in Nat
      BY <1>1, <1>2
    <3>2. ~(i < k) /\ ~(k < i)
      BY <1>3
    <3> QED BY <3>1, <3>2
  <2> HIDE DEF A
  <2> QED BY <2>1
<1>5. Cardinality(A) <= 1
  <2> HIDE DEF A
  <2>1. CASE A = {}
    <3>1. Cardinality(A) = 0
      BY <2>1, FS_EmptySet
    <3> QED BY <3>1
  <2>2. CASE \E i : A = {i}
    <3>1. PICK i : A = {i}
      BY <2>2
    <3>2. Cardinality(A) = 1
      BY <3>1, FS_Singleton
    <3> QED BY <3>2
  <2> QED BY <1>4, <2>1, <2>2
<1> QED BY <1>5

(* The attempts of a step stay apart, whatever was resumed, retried or     *)
(* raised: each is numbered, prompted once and closed with its own report, *)
(* and the runner on its own sends a step back once.  The workflows only   *)
(* go on, as the shipped ones do.                                          *)
THEOREM AttemptsApartAlways ==
  ASSUME WorkflowsLoad, WorkflowsRunOn PROVE Spec => []AttemptsApart
<1>1. Init => PathSound /\ PushInv /\ ApartInv /\ Begun
  BY PathInit, PushInit, ApartInit, BegunInit
<1>2. LockInv /\ PathSound /\ PushInv /\ ApartInv /\ Begun /\ [Next]_vars
        => PathSound' /\ PushInv' /\ ApartInv' /\ Begun'
  BY StepShown, StepBacked, StepApart, BegunStep
<1>3. LockInv /\ ApartInv /\ Begun => AttemptsApart
  BY ApartTyped, ApartPrompted, ApartReports, ApartSentBack DEF AttemptsApart
<1> QED BY <1>1, <1>2, <1>3, LockInvAlways, PTL DEF Spec
=============================================================================
