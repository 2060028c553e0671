--------------------------- MODULE CompactionProofs ---------------------------
(***************************************************************************)
(* What holds of a thread's context however long the conversation, however *)
(* the settings change between starts and wherever the daemon dies: nothing *)
(* that was said is lost or repeated, the summaries are one chain, a call  *)
(* and its result are shown alike, the measure is of what is shown, and a  *)
(* sweep frees what it is worth.                                           *)
(***************************************************************************)
EXTENDS Compaction, FiniteSetTheorems, SequenceTheorems, WellFoundedInduction, TLAPS

IsSeq(q) == q \in Seq(Range(q))
Summaries == Of(Now, "summary")
InTurn == {"top", "link", "net", "cut", "request", "call"}

(* The messages between two places.                                        *)
Said(from, to) ==
  {i \in DOMAIN log : from <= i /\ i <= to /\ log[i].kind \in Messages}

(* An event is well formed, whatever its place.                            *)
EventSound(e) ==
  /\ e.kind \in Messages \cup Marks \cup {"ended", "saturated"}
  /\ e.kind = "user" => e.size \in Nat
  /\ e.kind = "reply" => e.tool \in Tools \cup {None}
  /\ e.kind = "result" => e.tool \in Tools /\ e.error \in BOOLEAN
  /\ e.kind = "summary" => e.size \in Nat /\ e.from \in Nat /\ e.to \in Nat
LogSound == IsSeq(log) /\ \A i \in DOMAIN log : EventSound(log[i])

(* A result comes right after its call, and a call waits for its result    *)
(* only while it runs.                                                     *)
Calls(i) == log[i].kind = "reply" /\ log[i].tool # None
PairsSound ==
  /\ \A i \in DOMAIN log : log[i].kind = "result" =>
       i - 1 \in DOMAIN log /\ Calls(i - 1) /\ log[i - 1].tool = log[i].tool
  /\ \A i \in DOMAIN log : Calls(i) =>
       \/ i + 1 \in DOMAIN log /\ log[i + 1].kind = "result"
       \/ pc = "call" /\ i = Len(log)
  /\ pc = "call" => Len(log) \in DOMAIN log /\ Calls(Len(log))

(* A turn in progress has a message behind the last turn's end.            *)
TurnSound == pc \in InTurn => TurnOpen

(* A summary is of the words between two turn ends; it begins where an     *)
(* earlier one ended or takes their place, and it reaches further.         *)
SummarySound(s) ==
  /\ log[s].to \in Ends /\ log[s].to < s /\ log[s].from <= log[s].to
  /\ log[s].text = Said(log[s].from, log[s].to)
  /\ \A t \in Summaries : t < s => log[t].to < log[s].to
  /\ \/ log[s].from = 0
     \/ /\ \E t \in Summaries : t < s /\ log[s].from = log[t].to + 1
        /\ \A t \in Summaries : t < s => log[t].to < log[s].from
ChainInv == \A s \in Summaries : SummarySound(s)

(* A batch reaches to the end of a turn.                                   *)
BatchesSound == \A b \in Of(Now, "stubbed") : log[b].through \in Ends /\ log[b].through < b

(* The range a summary is written of is the chain's next link, or all of   *)
(* the log up to a turn end that no summary has reached.                   *)
ReachesFurther(rg) ==
  /\ rg \in Nat \X Nat /\ rg[2] \in Ends /\ rg[1] <= rg[2]
  /\ \A s \in Summaries : log[s].to < rg[2]
IsNextLink(rg) ==
  /\ \E s \in Summaries : rg[1] = log[s].to + 1
  /\ \A s \in Summaries : log[s].to < rg[1]
RangeSound ==
  /\ pc \in {"link", "cut", "ask"} <=> range # None
  /\ range # None =>
       /\ ReachesFurther(range)
       /\ range[1] = 0 \/ (pc = "link" /\ IsNextLink(range))

(* Nothing has rewritten the context since it was measured.                *)
MeasureSound ==
  measured # None =>
    /\ measured.prompt \in Nat /\ measured.len \in Nat /\ measured.reminded \in BOOLEAN
    /\ measured.at \in 0 .. Len(log)
    /\ \A i \in DOMAIN log : i > measured.at => log[i].kind \notin Marks
    /\ measured.at \in DOMAIN log => ~Calls(measured.at)
    /\ ~measured.reminded =>
         measured.len = Cardinality(DOMAIN Shown(Reading(1 .. measured.at, {})))

SettingsSound ==
  /\ pc \in InTurn \cup {"idle", "ask"}
  /\ settings \in Settings /\ ratio \in Ratios /\ oddities \in 0 .. MaxOddities

CompactInv ==
  /\ LogSound /\ PairsSound /\ TurnSound /\ ChainInv /\ BatchesSound
  /\ RangeSound /\ MeasureSound /\ SettingsSound

-----------------------------------------------------------------------------
(* Greatest and least places                                               *)

LEMMA LeastNat ==
  ASSUME NEW S \in SUBSET Nat, S # {}
  PROVE  \E m \in S : \A n \in S : m <= n
<1>1. PICK m \in S : \A n \in S : ~ (<<n, m>> \in OpToRel(<, Nat))
  BY NatLessThanWellFounded, WFMin
<1>2. \A n \in S : ~ (n < m)
  BY <1>1 DEF OpToRel
<1> QED BY <1>2

LEMMA LastIs ==
  ASSUME NEW n \in Nat, NEW S \in SUBSET (1 .. n)
  PROVE  /\ LastOf(S) \in 0 .. n
         /\ S = {} => LastOf(S) = 0
         /\ S # {} => LastOf(S) \in S
         /\ \A x \in S : x <= LastOf(S)
<1>1. CASE S = {}
  BY <1>1 DEF LastOf
<1>2. CASE S # {}
  <2> DEFINE T == {n - x : x \in S}
  <2>1. T \in SUBSET Nat /\ T # {}
    <3>1. \A x \in S : x \in Nat /\ x <= n /\ n - x \in Nat
      OBVIOUS
    <3> QED BY <1>2, <3>1
  <2>2. PICK m \in T : \A t \in T : m <= t
    BY <2>1, LeastNat
  <2>3. PICK x \in S : m = n - x
    BY <2>2
  <2>4. \A y \in S : x >= y
    BY <2>2, <2>3
  <2>5. Max(S) \in S /\ \A y \in S : Max(S) >= y
    BY <2>4 DEF Max
  <2>6. LastOf(S) = Max(S)
    BY <1>2 DEF LastOf
  <2>7. Max(S) \in 1 .. n
    BY <2>5
  <2> HIDE DEF T
  <2>8. \A y \in S : y <= Max(S)
    BY <2>5, <2>7
  <2> QED BY <1>2, <2>5, <2>6, <2>7, <2>8
<1> QED BY <1>1, <1>2

(* The log's places.                                                       *)
LEMMA LogPlaces ==
  ASSUME IsSeq(log)
  PROVE  Len(log) \in Nat /\ DOMAIN log = 1 .. Len(log)
BY DEF IsSeq

(* The events of a kind that a reading has.                                *)
LEMMA OfPlaces ==
  ASSUME IsSeq(log), NEW r, r.seen \in SUBSET DOMAIN log, NEW kind
  PROVE  /\ Of(r, kind) \in SUBSET (1 .. Len(log))
         /\ Of(r, kind) = {i \in r.seen : log[i].kind = kind}
BY LogPlaces DEF Of

LEMMA NowIs ==
  /\ Now.seen = DOMAIN log /\ Now.probes = {}
  /\ \A kind : Of(Now, kind) = {i \in DOMAIN log : log[i].kind = kind}
BY DEF Now, Of, Reading

LEMMA LastEndIs ==
  ASSUME IsSeq(log)
  PROVE  /\ LastEnd(Now) \in 0 .. Len(log)
         /\ LastEnd(Now) # 0 => LastEnd(Now) \in Ends
         /\ \A e \in Ends : e <= LastEnd(Now)
<1>1. Ends \in SUBSET (1 .. Len(log)) /\ Len(log) \in Nat
  BY NowIs, LogPlaces DEF Ends
<1> QED BY <1>1, LastIs DEF LastEnd, Ends

-----------------------------------------------------------------------------
(* The summary that covers an event                                        *)

LEMMA CoverIs ==
  ASSUME IsSeq(log), NEW r, r.seen \in SUBSET DOMAIN log, NEW i
  PROVE  LET c == Covering(r, i)
             S == {s \in Of(r, "summary") : log[s].from <= i /\ i <= log[s].to}
         IN  /\ c \in 0 .. Len(log)
             /\ c # 0 => c \in S
             /\ \A s \in S : s <= c /\ c # 0
<1> DEFINE S == {s \in Of(r, "summary") : log[s].from <= i /\ i <= log[s].to}
<1>1. S \in SUBSET (1 .. Len(log)) /\ Len(log) \in Nat
  BY OfPlaces, LogPlaces
<1> HIDE DEF S
<1>2. LastOf(S) \in 0 .. Len(log) /\ (S = {} => LastOf(S) = 0) /\ (S # {} => LastOf(S) \in S)
      /\ \A x \in S : x <= LastOf(S)
  BY <1>1, LastIs
<1>3. \A s \in S : s <= LastOf(S) /\ LastOf(S) # 0
  BY <1>1, <1>2
<1>4. LastOf(S) # 0 => LastOf(S) \in S
  BY <1>2
<1> QED BY <1>2, <1>3, <1>4 DEF Covering, S

LEMMA CoverNow ==
  ASSUME IsSeq(log), NEW i
  PROVE  /\ Covering(Now, i) \in 0 .. Len(log)
         /\ Covering(Now, i) # 0 =>
              /\ Covering(Now, i) \in Summaries
              /\ log[Covering(Now, i)].from <= i /\ i <= log[Covering(Now, i)].to
         /\ \A s \in Summaries : log[s].from <= i /\ i <= log[s].to =>
              s <= Covering(Now, i) /\ Covering(Now, i) # 0
<1>1. Now.seen \in SUBSET DOMAIN log
  BY NowIs
<1> QED BY <1>1, CoverIs DEF Summaries

(* No item is called a summary but a summary.                              *)
LEMMA FormIs == \A r, i : FormOf(r, i) # "summary"
BY DEF FormOf

(* What is shown of a reading: the messages no summary covers, and each    *)
(* summary at the first place it covers.                                   *)
Uncovered(r) == {i \in r.seen : Covering(r, i) = 0 /\ log[i].kind \in Messages}
Firsts(r) ==
  {i \in r.seen : /\ Covering(r, i) # 0
                  /\ ~\E j \in r.seen : j < i /\ Covering(r, j) = Covering(r, i)}

LEMMA ShownIs ==
  ASSUME NEW r
  PROVE  /\ DOMAIN Shown(r) = Uncovered(r) \cup Firsts(r)
         /\ \A i \in Uncovered(r) : Shown(r)[i] = [of |-> i, form |-> FormOf(r, i)]
         /\ \A i \in Firsts(r) : Shown(r)[i] = [of |-> Covering(r, i), form |-> "summary"]
<1> DEFINE cover == [i \in r.seen |-> Covering(r, i)]
           places == {i \in r.seen :
                        IF cover[i] = 0 THEN log[i].kind \in Messages
                        ELSE ~\E j \in r.seen : j < i /\ cover[j] = cover[i]}
           shown == [i \in places |->
                       IF cover[i] = 0 THEN [of |-> i, form |-> FormOf(r, i)]
                       ELSE [of |-> cover[i], form |-> "summary"]]
<1>1. \A i \in r.seen : cover[i] = Covering(r, i)
  OBVIOUS
<1>2. places = Uncovered(r) \cup Firsts(r)
  <2>1. \A i : i \in places <=> i \in Uncovered(r) \cup Firsts(r)
    <3> HIDE DEF cover
    <3> QED BY <1>1 DEF Uncovered, Firsts
  <2> QED BY <2>1
<1>3. Shown(r) = shown
  BY DEF Shown
<1>4. \A i \in Uncovered(r) : i \in r.seen /\ cover[i] = 0
  BY <1>1 DEF Uncovered
<1>5. \A i \in Firsts(r) : i \in r.seen /\ cover[i] # 0 /\ cover[i] = Covering(r, i)
  BY <1>1 DEF Firsts
<1> HIDE DEF cover, places
<1> QED BY <1>2, <1>3, <1>4, <1>5

LEMMA ShownRead ==
  ASSUME NEW r
  PROVE  /\ DOMAIN Shown(r) = Uncovered(r) \cup Firsts(r)
         /\ \A i \in Uncovered(r) :
              /\ Shown(r)[i].of = i /\ Shown(r)[i].form = FormOf(r, i)
              /\ Shown(r)[i].form # "summary"
         /\ \A i \in Firsts(r) :
              Shown(r)[i].of = Covering(r, i) /\ Shown(r)[i].form = "summary"
<1>1. ASSUME NEW i \in Uncovered(r)
      PROVE  Shown(r)[i].of = i /\ Shown(r)[i].form = FormOf(r, i)
  <2>1. Shown(r)[i] = [of |-> i, form |-> FormOf(r, i)]
    BY ShownIs
  <2> QED BY <2>1
<1>2. ASSUME NEW i \in Firsts(r)
      PROVE  Shown(r)[i].of = Covering(r, i) /\ Shown(r)[i].form = "summary"
  <2>1. Shown(r)[i] = [of |-> Covering(r, i), form |-> "summary"]
    BY ShownIs
  <2> QED BY <2>1
<1>3. \A i : FormOf(r, i) # "summary"
  BY FormIs
<1>4. DOMAIN Shown(r) = Uncovered(r) \cup Firsts(r)
  BY ShownIs
<1> QED BY <1>1, <1>2, <1>3, <1>4

-----------------------------------------------------------------------------
(* The words of a reading                                                  *)

(* The first place of those a summary covers.                              *)
LEMMA FirstFound ==
  ASSUME NEW r, r.seen \in SUBSET Nat, NEW i \in r.seen, Covering(r, i) # 0
  PROVE  \E j \in Firsts(r) : j <= i /\ Covering(r, j) = Covering(r, i)
<1> DEFINE T == {j \in r.seen : Covering(r, j) = Covering(r, i)}
<1>1. T \in SUBSET Nat /\ i \in T
  OBVIOUS
<1>2. PICK m \in T : \A n \in T : m <= n
  <2> HIDE DEF T
  <2> QED BY <1>1, LeastNat
<1>3. m \in r.seen /\ m <= i /\ Covering(r, m) = Covering(r, i)
  BY <1>1, <1>2
<1>4. ~\E j \in r.seen : j < m /\ Covering(r, j) = Covering(r, m)
  BY <1>2, <1>3
<1>5. m \in Firsts(r)
  BY <1>3, <1>4 DEF Firsts
<1> QED BY <1>3, <1>5

LEMMA WordsRead ==
  ASSUME NEW r, r.seen \in SUBSET Nat
  PROVE  Words(r) = Uncovered(r) \cup
                    UNION {log[Covering(r, i)].text : i \in {j \in r.seen : Covering(r, j) # 0}}
<1> DEFINE word(i) == IF Shown(r)[i].form = "summary" THEN log[Shown(r)[i].of].text
                                                      ELSE {Shown(r)[i].of}
           covered == {j \in r.seen : Covering(r, j) # 0}
<1>1. /\ DOMAIN Shown(r) = Uncovered(r) \cup Firsts(r)
      /\ \A i \in Uncovered(r) : word(i) = {i}
      /\ \A i \in Firsts(r) : word(i) = log[Covering(r, i)].text
  BY ShownRead
<1>2. Words(r) = UNION {word(i) : i \in DOMAIN Shown(r)}
  BY DEF Words
<1>3. \A i \in Firsts(r) : i \in covered
  BY DEF Firsts
<1>4. \A i \in covered : \E j \in Firsts(r) : Covering(r, j) = Covering(r, i)
  BY FirstFound
<1> HIDE DEF word, covered
<1>5. \A x : x \in Words(r) <=>
         x \in Uncovered(r) \/ \E i \in covered : x \in log[Covering(r, i)].text
  <2>1. ASSUME NEW x, x \in Words(r)
        PROVE  x \in Uncovered(r) \/ \E i \in covered : x \in log[Covering(r, i)].text
    <3>1. PICK i \in DOMAIN Shown(r) : x \in word(i)
      BY <1>2, <2>1
    <3> QED BY <1>1, <1>3, <3>1
  <2>2. ASSUME NEW x, x \in Uncovered(r)
        PROVE  x \in Words(r)
    BY <1>1, <1>2, <2>2
  <2>3. ASSUME NEW x, NEW i \in covered, x \in log[Covering(r, i)].text
        PROVE  x \in Words(r)
    <3>1. PICK j \in Firsts(r) : Covering(r, j) = Covering(r, i)
      BY <1>4, <2>3
    <3>2. j \in DOMAIN Shown(r) /\ x \in word(j)
      BY <1>1, <2>3, <3>1
    <3> QED BY <1>2, <3>2
  <2> QED BY <2>1, <2>2, <2>3
<1>6. Words(r) = Uncovered(r) \cup UNION {log[Covering(r, i)].text : i \in covered}
  BY <1>5
<1> QED BY <1>6 DEF covered

-----------------------------------------------------------------------------
(* The chain                                                               *)

LEMMA ChainIs ==
  ASSUME IsSeq(log), LogSound, ChainInv, NEW s \in Summaries
  PROVE  /\ s \in 1 .. Len(log) /\ log[s].kind = "summary"
         /\ log[s].from \in Nat /\ log[s].to \in Nat /\ log[s].to \in 1 .. Len(log)
         /\ log[log[s].to].kind = "ended" /\ log[s].from <= log[s].to
         /\ SummarySound(s)
<1>1. s \in 1 .. Len(log) /\ log[s].kind = "summary" /\ s \in DOMAIN log
  BY NowIs, LogPlaces DEF Summaries
<1>2. SummarySound(s)
  BY DEF ChainInv
<1>3. log[s].to \in Ends
  BY <1>2 DEF SummarySound
<1>4. log[s].to \in DOMAIN log /\ log[log[s].to].kind = "ended"
  BY <1>3, NowIs DEF Ends
<1>5. log[s].from \in Nat /\ log[s].to \in Nat
  BY <1>1 DEF LogSound, EventSound
<1> QED BY <1>1, <1>2, <1>4, <1>5, LogPlaces DEF SummarySound

(* The ranges of two summaries that are shown do not meet.                 *)
LEMMA ShownApart ==
  ASSUME LogSound, ChainInv, NEW i \in Nat, NEW j \in Nat,
         Covering(Now, i) # 0, Covering(Now, j) # 0, Covering(Now, i) < Covering(Now, j)
  PROVE  log[Covering(Now, i)].to < log[Covering(Now, j)].from
<1> DEFINE c == Covering(Now, i)
           d == Covering(Now, j)
<1>1. IsSeq(log)
  BY DEF LogSound
<1>2. c \in Summaries /\ log[c].from <= i /\ i <= log[c].to /\ d \in Summaries /\ c \in Nat /\ d \in Nat
  BY <1>1, CoverNow
<1>3. \A s \in Summaries : log[s].from <= i /\ i <= log[s].to => s <= c
  BY <1>1, CoverNow
<1>4. SummarySound(d) /\ log[d].to \in Nat /\ log[c].to \in Nat /\ log[d].from \in Nat
  BY <1>1, <1>2, ChainIs
<1>5. c < d
  OBVIOUS
<1> HIDE DEF c, d
<1>6. log[c].to < log[d].to
  BY <1>2, <1>4, <1>5 DEF SummarySound
<1>7. log[d].from # 0
  BY <1>2, <1>3, <1>4, <1>5, <1>6
<1>8. log[c].to < log[d].from
  BY <1>2, <1>4, <1>5, <1>7 DEF SummarySound
<1> QED BY <1>8 DEF c, d

(* The words of every message are in what is shown.                        *)
LEMMA NothingIsForgotten == LogSound /\ ChainInv => NothingForgotten
<1> SUFFICES ASSUME LogSound, ChainInv, NEW i \in DOMAIN log, log[i].kind \in Messages
             PROVE  i \in Words(Now)
  BY DEF NothingForgotten
<1>1. IsSeq(log) /\ DOMAIN log \in SUBSET Nat /\ i \in Nat
  BY LogPlaces DEF LogSound
<1>2. Words(Now) = Uncovered(Now) \cup
        UNION {log[Covering(Now, j)].text : j \in {k \in DOMAIN log : Covering(Now, k) # 0}}
  BY <1>1, WordsRead, NowIs
<1>3. CASE Covering(Now, i) = 0
  BY <1>2, <1>3 DEF Uncovered, Now, Reading
<1>4. CASE Covering(Now, i) # 0
  <2> DEFINE c == Covering(Now, i)
  <2>1. c \in Summaries /\ log[c].from <= i /\ i <= log[c].to
    BY <1>1, <1>4, CoverNow
  <2>2. log[c].text = Said(log[c].from, log[c].to)
    BY <1>1, <2>1, ChainIs DEF SummarySound
  <2>3. i \in log[c].text
    BY <2>1, <2>2 DEF Said
  <2> QED BY <1>2, <1>4, <2>3
<1> QED BY <1>3, <1>4

(* ... and only once.                                                      *)
LEMMA NothingTwice == LogSound /\ ChainInv => SaidOnce
<1> SUFFICES ASSUME LogSound, ChainInv PROVE SaidOnce
  OBVIOUS
<1> DEFINE shown == Shown(Now)
           words(i) == IF shown[i].form = "summary" THEN log[shown[i].of].text ELSE {shown[i].of}
<1>1. IsSeq(log) /\ DOMAIN log = 1 .. Len(log) /\ Len(log) \in Nat
  BY LogPlaces DEF LogSound
<1>2. /\ DOMAIN shown = Uncovered(Now) \cup Firsts(Now)
      /\ \A i \in Uncovered(Now) : words(i) = {i}
      /\ \A i \in Firsts(Now) : words(i) = log[Covering(Now, i)].text
  BY ShownRead
<1>3. ASSUME NEW i \in Firsts(Now)
      PROVE  LET c == Covering(Now, i)
             IN  /\ i \in Nat /\ c # 0 /\ c \in Nat /\ log[c].text = Said(log[c].from, log[c].to)
                 /\ log[c].from \in Nat /\ log[c].to \in Nat /\ c \in Summaries
  <2>1. i \in DOMAIN log /\ Covering(Now, i) # 0
    BY DEF Firsts, Now, Reading
  <2>2. Covering(Now, i) \in Summaries /\ Covering(Now, i) \in Nat
    BY <1>1, <2>1, CoverNow
  <2> QED BY <1>1, <2>1, <2>2, ChainIs DEF SummarySound
<1>4. \A i \in Uncovered(Now) : i \in DOMAIN log /\ Covering(Now, i) = 0
  BY DEF Uncovered, Now, Reading
<1> HIDE DEF shown, words
<1>5. ASSUME NEW i \in Uncovered(Now), NEW j \in Firsts(Now)
      PROVE  words(i) \cap words(j) = {}
  <2> DEFINE c == Covering(Now, j)
  <2>1. i \notin log[c].text
    BY <1>1, <1>3, <1>4, CoverNow DEF Said
  <2> QED BY <1>2, <2>1
<1>6. ASSUME NEW i \in Firsts(Now), NEW j \in Firsts(Now), Covering(Now, i) < Covering(Now, j)
      PROVE  words(i) \cap words(j) = {}
  <2>1. log[Covering(Now, i)].to < log[Covering(Now, j)].from
    BY <1>3, <1>6, ShownApart
  <2>2. \A x \in words(i) : x \in Nat /\ x <= log[Covering(Now, i)].to
    BY <1>1, <1>2, <1>3 DEF Said
  <2>3. \A x \in words(j) : x \in Nat /\ log[Covering(Now, j)].from <= x
    BY <1>1, <1>2, <1>3 DEF Said
  <2>4. log[Covering(Now, i)].to \in Nat /\ log[Covering(Now, j)].from \in Nat
    BY <1>3
  <2> QED BY <2>1, <2>2, <2>3, <2>4
<1>7. \A i, j \in Firsts(Now) : i # j => Covering(Now, i) # Covering(Now, j)
  <2> SUFFICES ASSUME NEW i \in Firsts(Now), NEW j \in Firsts(Now), i # j,
                      Covering(Now, i) = Covering(Now, j)
               PROVE  FALSE
    OBVIOUS
  <2>1. i < j \/ j < i
    BY <1>3
  <2> QED BY <2>1 DEF Firsts
<1>8. \A i, j \in DOMAIN shown : i # j => words(i) \cap words(j) = {}
  <2> SUFFICES ASSUME NEW i \in DOMAIN shown, NEW j \in DOMAIN shown, i # j
               PROVE  words(i) \cap words(j) = {}
    OBVIOUS
  <2>1. CASE i \in Uncovered(Now) /\ j \in Uncovered(Now)
    BY <1>2, <2>1
  <2>2. CASE i \in Uncovered(Now) /\ j \in Firsts(Now)
    BY <1>5, <2>2
  <2>3. CASE i \in Firsts(Now) /\ j \in Uncovered(Now)
    BY <1>5, <2>3
  <2>4. CASE i \in Firsts(Now) /\ j \in Firsts(Now)
    <3>1. Covering(Now, i) < Covering(Now, j) \/ Covering(Now, j) < Covering(Now, i)
      BY <1>3, <1>7, <2>4
    <3> QED BY <1>6, <2>4, <3>1
  <2> QED BY <1>2, <2>1, <2>2, <2>3, <2>4
<1> QED BY <1>8 DEF SaidOnce, shown, words

(* The summaries that are shown: those no nested summary has replaced.     *)
Links == {s \in Summaries : \A u \in Summaries : s < u => log[u].from # 0}

LEMMA LinksShown ==
  ASSUME LogSound, ChainInv
  PROVE  LET shown == Shown(Now)
         IN  {shown[i].of : i \in {j \in DOMAIN shown : shown[j].form = "summary"}} = Links
<1> DEFINE shown == Shown(Now)
           places == {j \in DOMAIN shown : shown[j].form = "summary"}
<1>1. IsSeq(log) /\ DOMAIN log = 1 .. Len(log) /\ Len(log) \in Nat
  BY LogPlaces DEF LogSound
<1>2. places = Firsts(Now) /\ \A i \in Firsts(Now) : shown[i].of = Covering(Now, i)
  <2>1. /\ DOMAIN shown = Uncovered(Now) \cup Firsts(Now)
        /\ \A i \in Uncovered(Now) : shown[i].form # "summary"
        /\ \A i \in Firsts(Now) : shown[i].of = Covering(Now, i) /\ shown[i].form = "summary"
    BY ShownRead
  <2> HIDE DEF shown
  <2> QED BY <2>1
<1>3. ASSUME NEW i \in Firsts(Now)
      PROVE  Covering(Now, i) \in Links
  <2> DEFINE c == Covering(Now, i)
  <2>1. i \in 1 .. Len(log) /\ c # 0
    BY <1>1, NowIs DEF Firsts
  <2>2. c \in Summaries /\ i <= log[c].to /\ c \in Nat
        /\ \A s \in Summaries : log[s].from <= i /\ i <= log[s].to => s <= c
    BY <1>1, <2>1, CoverNow
  <2>3. log[c].to \in Nat
    BY <1>1, <2>2, ChainIs
  <2> HIDE DEF c
  <2>4. ASSUME NEW u \in Summaries, c < u, log[u].from = 0
        PROVE  FALSE
    <3>1. SummarySound(u) /\ log[u].to \in Nat /\ u \in Nat
      BY <1>1, ChainIs
    <3>2. log[c].to < log[u].to
      BY <2>2, <2>4, <3>1 DEF SummarySound
    <3> QED BY <2>1, <2>2, <2>3, <2>4, <3>1, <3>2
  <2>5. c \in Links
    BY <2>2, <2>4 DEF Links
  <2> QED BY <2>5 DEF c
<1>4. ASSUME NEW s \in Links
      PROVE  \E i \in Firsts(Now) : Covering(Now, i) = s
  <2> DEFINE p == IF log[s].from = 0 THEN 1 ELSE log[s].from
  <2>1. s \in Summaries /\ \A u \in Summaries : s < u => log[u].from # 0
    BY DEF Links
  <2>2. /\ s \in 1 .. Len(log) /\ log[s].from \in Nat /\ log[s].to \in 1 .. Len(log)
        /\ log[s].from <= log[s].to
    BY <1>1, <2>1, ChainIs
  <2>3. p \in 1 .. Len(log) /\ log[s].from <= p /\ p <= log[s].to
    BY <1>1, <2>2
  <2> HIDE DEF p
  <2>4. Covering(Now, p) # 0 /\ s <= Covering(Now, p)
    BY <1>1, <2>1, <2>3, CoverNow
  <2>5. ASSUME s < Covering(Now, p)
        PROVE  FALSE
    <3> DEFINE u == Covering(Now, p)
    <3>1. u \in Summaries /\ log[u].from <= p
      BY <1>1, <2>4, CoverNow
    <3>2. SummarySound(u) /\ log[u].from \in Nat /\ log[u].from # 0
      BY <1>1, <2>1, <2>5, <3>1, ChainIs
    <3> HIDE DEF u
    <3>3. s < u
      BY <2>5 DEF u
    <3>4. log[s].to < log[u].from
      BY <2>1, <3>2, <3>3 DEF SummarySound
    <3> QED BY <2>2, <2>3, <3>1, <3>2, <3>4
  <2>6. Covering(Now, p) \in Nat
    BY <1>1, CoverNow
  <2>7. Covering(Now, p) = s
    BY <2>2, <2>4, <2>5, <2>6
  <2>8. Now.seen \in SUBSET Nat /\ p \in Now.seen
    BY <1>1, <2>3, NowIs
  <2> QED BY <2>4, <2>7, <2>8, FirstFound
<1> HIDE DEF shown, places
<1>5. {shown[i].of : i \in places} = Links
  <2>1. \A s \in {shown[i].of : i \in places} : s \in Links
    BY <1>2, <1>3
  <2>2. \A s \in Links : s \in {shown[i].of : i \in places}
    <3> SUFFICES ASSUME NEW s \in Links PROVE \E i \in places : shown[i].of = s
      OBVIOUS
    <3>1. PICK i \in Firsts(Now) : Covering(Now, i) = s
      BY <1>4
    <3> QED BY <1>2, <3>1
  <2> QED BY <2>1, <2>2
<1> QED BY <1>5 DEF shown, places

(* The summaries that are shown are side by side and without gaps.         *)
LEMMA ChainIsContiguous == LogSound /\ ChainInv => ChainContiguous
<1> SUFFICES ASSUME LogSound, ChainInv PROVE ChainContiguous
  OBVIOUS
<1>1. IsSeq(log) /\ DOMAIN log = 1 .. Len(log) /\ Len(log) \in Nat
  BY LogPlaces DEF LogSound
<1>2. ASSUME NEW s \in Summaries
      PROVE  /\ s \in 1 .. Len(log) /\ log[s].from \in Nat /\ log[s].to \in 1 .. Len(log)
             /\ SummarySound(s)
  BY <1>1, ChainIs
<1>3. Summaries # {} => \E s \in Links : log[s].from = 0
  <2> SUFFICES ASSUME Summaries # {} PROVE \E s \in Links : log[s].from = 0
    OBVIOUS
  <2>1. PICK first \in Summaries : \A s \in Summaries : first <= s
    BY <1>2, LeastNat
  <2>2. log[first].from = 0
    <3>1. SummarySound(first)
      BY <1>2
    <3>2. ~\E t \in Summaries : t < first
      BY <1>2, <2>1
    <3> QED BY <3>1, <3>2 DEF SummarySound
  <2> DEFINE whole == {s \in Summaries : log[s].from = 0}
  <2>3. whole \in SUBSET (1 .. Len(log)) /\ whole # {}
    BY <1>2, <2>2
  <2>4. LastOf(whole) \in whole /\ \A s \in whole : s <= LastOf(whole)
    <3> HIDE DEF whole
    <3> QED BY <1>1, <2>3, LastIs
  <2>5. PICK z \in whole : \A s \in whole : s <= z
    BY <2>4
  <2>6. \A u \in Summaries : z < u => log[u].from # 0
    BY <1>2, <2>5
  <2> QED BY <2>5, <2>6 DEF Links
<1>4. ASSUME NEW s \in Links
      PROVE  \/ log[s].to = CompactedThrough
             \/ \E t \in Links : log[t].from = log[s].to + 1 /\ t > s
  <2>1. s \in Summaries /\ \A u \in Summaries : s < u => log[u].from # 0
    BY DEF Links
  <2> DEFINE later == {t \in Summaries : s < t}
             tos == {log[t].to : t \in Summaries}
  <2>2. CASE later = {}
    <3>1. \A t \in Summaries : t = s \/ t < s
      BY <1>2, <2>1, <2>2
    <3>2. \A t \in Summaries : log[t].to <= log[s].to
      <4>1. SummarySound(s) /\ log[s].to \in Nat
        BY <1>2, <2>1
      <4>2. \A t \in Summaries : t < s => log[t].to < log[s].to
        BY <4>1 DEF SummarySound
      <4> QED BY <1>2, <2>1, <3>1, <4>1, <4>2
    <3>3. tos \in SUBSET (1 .. Len(log)) /\ log[s].to \in tos
      BY <1>2, <2>1
    <3>4. LastOf(tos) \in tos /\ log[s].to <= LastOf(tos)
      <4> HIDE DEF tos
      <4> QED BY <1>1, <3>3, LastIs
    <3>5. LastOf(tos) <= log[s].to
      BY <3>2, <3>4
    <3>6. LastOf(tos) = log[s].to
      BY <1>2, <2>1, <3>3, <3>4, <3>5
    <3> QED BY <3>6 DEF CompactedThrough, Summaries
  <2>3. CASE later # {}
    <3>0. later \in SUBSET Nat
      BY <1>2
    <3>1. PICK t \in later : \A u \in later : t <= u
      <4> HIDE DEF later
      <4> QED BY <2>3, <3>0, LeastNat
    <3>2. t \in Summaries /\ s < t /\ log[t].from # 0
      BY <2>1, <3>1
    <3>3. SummarySound(t) /\ SummarySound(s)
      BY <1>2, <2>1, <3>2
    <3>4. PICK p \in Summaries : p < t /\ log[t].from = log[p].to + 1
      BY <3>2, <3>3 DEF SummarySound
    <3>5. log[s].to < log[t].from
      BY <2>1, <3>2, <3>3 DEF SummarySound
    <3>6. p <= s
      BY <1>2, <2>1, <3>1, <3>2, <3>4
    <3>7. p < s => log[p].to < log[s].to
      BY <3>3, <3>4 DEF SummarySound
    <3>8. log[p].to \in Nat /\ log[s].to \in Nat /\ p \in Nat /\ s \in Nat
      BY <1>2, <2>1
    <3>9. p = s
      BY <3>4, <3>5, <3>6, <3>7, <3>8
    <3>10. t \in Links
      BY <1>2, <2>1, <3>2 DEF Links
    <3> QED BY <3>2, <3>4, <3>9, <3>10
  <2> QED BY <2>2, <2>3
<1>5. Links # {} => Summaries # {}
  BY DEF Links
<1>6. LET shown == Shown(Now)
      IN  {shown[i].of : i \in {j \in DOMAIN shown : shown[j].form = "summary"}} = Links
  BY LinksShown
<1> QED BY <1>3, <1>4, <1>5, <1>6 DEF ChainContiguous

(* A summary always reaches further than the ones before it.               *)
LEMMA BoundaryOnlyAdvances == ChainInv => BoundaryAdvances
BY DEF ChainInv, SummarySound, BoundaryAdvances, Summaries

-----------------------------------------------------------------------------
(* A call and its result                                                   *)

LEMMA ReadingIs ==
  ASSUME NEW seen, NEW probes
  PROVE  Reading(seen, probes).seen = seen /\ Reading(seen, probes).probes = probes
BY DEF Reading

(* A reading of the log up to a place at which no call waits.              *)
Settled(r, n) ==
  /\ r = Reading(1 .. n, {}) /\ n \in 0 .. Len(log)
  /\ n \in DOMAIN log => ~Calls(n) \/ (pc = "call" /\ n = Len(log))

LEMMA NowSettled == LogSound /\ PairsSound => Settled(Now, Len(log))
<1> SUFFICES ASSUME LogSound, PairsSound PROVE Settled(Now, Len(log))
  OBVIOUS
<1>1. DOMAIN log = 1 .. Len(log) /\ Len(log) \in Nat
  BY LogPlaces DEF LogSound
<1>2. Len(log) + 1 \notin DOMAIN log
  BY <1>1
<1> QED BY <1>1, <1>2 DEF Settled, Now, PairsSound

(* The one result that answers a call comes right after it.                *)
LEMMA AnswerIs ==
  ASSUME LogSound, PairsSound, NEW r, NEW n, Settled(r, n),
         NEW i \in 1 .. n, log[i].kind = "reply"
  PROVE  /\ AnswerTo(r, i) = IF Calls(i) /\ i < n THEN {i + 1} ELSE {}
         /\ Calls(i) /\ i < n => log[i + 1].kind = "result" /\ i + 1 \in DOMAIN log
         /\ Calls(i) => i < n \/ (pc = "call" /\ i = Len(log))
<1>1. DOMAIN log = 1 .. Len(log) /\ Len(log) \in Nat /\ n \in 0 .. Len(log) /\ n \in Nat
  <2>1. DOMAIN log = 1 .. Len(log) /\ Len(log) \in Nat
    BY LogPlaces DEF LogSound
  <2>2. n \in 0 .. Len(log)
    BY DEF Settled
  <2> QED BY <2>1, <2>2
<1>2. r.seen = 1 .. n
  BY ReadingIs DEF Settled
<1>3. ASSUME Calls(i), i < n
      PROVE  log[i + 1].kind = "result" /\ i + 1 \in DOMAIN log
  <2>1. i \in DOMAIN log /\ i # Len(log)
    BY <1>1, <1>3
  <2> QED BY <1>3, <2>1 DEF PairsSound
<1>4. ASSUME NEW j \in AnswerTo(r, i)
      PROVE  Calls(i) /\ i < n /\ j = i + 1
  <2>0. /\ j \in Of(r, "result") /\ j > i
        /\ ~\E k \in Of(r, "reply") : i < k /\ k < j
    BY DEF AnswerTo
  <2>1. /\ j \in 1 .. n /\ log[j].kind = "result" /\ j > i
        /\ ~\E k \in 1 .. n : log[k].kind = "reply" /\ i < k /\ k < j
    BY <1>2, <2>0 DEF Of
  <2>2. j - 1 \in DOMAIN log /\ Calls(j - 1)
    BY <1>1, <2>1 DEF PairsSound
  <2>3. log[j - 1].kind = "reply" /\ j - 1 \in 1 .. n
    BY <1>1, <2>1, <2>2 DEF Calls
  <2>4. j - 1 = i
    BY <1>1, <2>1, <2>3
  <2> QED BY <1>1, <2>1, <2>2, <2>4
<1>5. ASSUME Calls(i), i < n
      PROVE  i + 1 \in AnswerTo(r, i)
  <2>1. i + 1 \in 1 .. n /\ log[i + 1].kind = "result"
    BY <1>1, <1>3, <1>5
  <2>2. ~\E k \in 1 .. n : i < k /\ k < i + 1
    BY <1>1
  <2>3. i + 1 \in Of(r, "result") /\ i + 1 > i
    BY <1>1, <1>2, <2>1 DEF Of
  <2>4. ~\E k \in Of(r, "reply") : i < k /\ k < i + 1
    BY <1>2, <2>2 DEF Of
  <2> QED BY <2>3, <2>4 DEF AnswerTo
<1>6. Calls(i) => i < n \/ (pc = "call" /\ i = Len(log))
  <2>1. i < n \/ (i = n /\ n \in DOMAIN log)
    BY <1>1
  <2> QED BY <2>1 DEF Settled
<1>7. AnswerTo(r, i) = IF Calls(i) /\ i < n THEN {i + 1} ELSE {}
  <2>1. CASE Calls(i) /\ i < n
    BY <1>4, <1>5, <2>1
  <2>2. CASE ~(Calls(i) /\ i < n)
    BY <1>4, <2>2
  <2> QED BY <2>1, <2>2
<1> QED BY <1>3, <1>6, <1>7

(* How an event is shown.                                                  *)
LEMMA FormRead ==
  ASSUME NEW r, NEW i
  PROVE  /\ log[i].kind = "result" =>
              FormOf(r, i) = IF IsStub(r, i) THEN "stub"
                             ELSE IF Reaches(r, "truncated", i) THEN "cut" ELSE "whole"
         /\ log[i].kind = "reply" =>
              FormOf(r, i) = IF \E j \in AnswerTo(r, i) : IsStub(r, j) THEN "stub" ELSE "whole"
         /\ log[i].kind \notin {"result", "reply"} => FormOf(r, i) = "whole"
<1>1. CASE log[i].kind = "result"
  BY <1>1 DEF FormOf
<1>2. CASE log[i].kind = "reply"
  BY <1>2 DEF FormOf
<1>3. CASE log[i].kind \notin {"result", "reply"}
  BY <1>3 DEF FormOf
<1> QED BY <1>1, <1>2, <1>3

(* No summary takes one of the two.                                        *)
LEMMA PairCovered ==
  ASSUME LogSound, ChainInv, NEW i \in DOMAIN log, i + 1 \in DOMAIN log,
         log[i].kind = "reply", log[i + 1].kind = "result"
  PROVE  Covering(Now, i) = 0 <=> Covering(Now, i + 1) = 0
<1>1. IsSeq(log) /\ DOMAIN log = 1 .. Len(log) /\ Len(log) \in Nat /\ i \in Nat
  BY LogPlaces DEF LogSound
<1>2. ASSUME NEW s \in Summaries
      PROVE  /\ log[s].from <= i /\ i <= log[s].to => log[s].from <= i + 1 /\ i + 1 <= log[s].to
             /\ log[s].from <= i + 1 /\ i + 1 <= log[s].to => log[s].from <= i /\ i <= log[s].to
  <2>1. /\ log[s].from \in Nat /\ log[s].to \in Nat /\ log[log[s].to].kind = "ended"
        /\ SummarySound(s)
    BY <1>1, ChainIs
  <2>2. i # log[s].to
    BY <2>1
  <2>3. log[s].from # i + 1
    <3>1. SUFFICES ASSUME log[s].from = i + 1 PROVE FALSE
      OBVIOUS
    <3>2. PICK t \in Summaries : log[s].from = log[t].to + 1
      BY <1>1, <2>1, <3>1 DEF SummarySound
    <3>3. log[t].to \in Nat /\ log[log[t].to].kind = "ended"
      BY <1>1, ChainIs
    <3>4. log[t].to = i
      BY <1>1, <3>1, <3>2, <3>3
    <3> QED BY <3>3, <3>4
  <2> QED BY <1>1, <2>1, <2>2, <2>3
<1>3. CASE Covering(Now, i) # 0
  <2>1. \E s \in Summaries : log[s].from <= i /\ i <= log[s].to
    BY <1>1, <1>3, CoverNow
  <2>2. \E s \in Summaries : log[s].from <= i + 1 /\ i + 1 <= log[s].to
    BY <1>2, <2>1
  <2> QED BY <1>1, <1>3, <2>2, CoverNow
<1>4. CASE Covering(Now, i + 1) # 0
  <2>1. \E s \in Summaries : log[s].from <= i + 1 /\ i + 1 <= log[s].to
    BY <1>1, <1>4, CoverNow
  <2>2. \E s \in Summaries : log[s].from <= i /\ i <= log[s].to
    BY <1>2, <2>1
  <2> QED BY <1>1, <1>4, <2>2, CoverNow
<1> QED BY <1>3, <1>4

(* The result of a call that is shown is shown next to it, and in one form. *)
LEMMA PairShown ==
  ASSUME LogSound, PairsSound, ChainInv, NEW i \in DOMAIN log, i + 1 \in DOMAIN log,
         Calls(i), log[i + 1].kind = "result"
  PROVE  /\ i \in Uncovered(Now) <=> i + 1 \in Uncovered(Now)
         /\ FormOf(Now, i) = "stub" <=> FormOf(Now, i + 1) = "stub"
<1>1. DOMAIN log = 1 .. Len(log) /\ Len(log) \in Nat
  BY LogPlaces DEF LogSound
<1>2. log[i].kind = "reply"
  BY DEF Calls
<1>3. i \in Uncovered(Now) <=> i + 1 \in Uncovered(Now)
  BY <1>2, PairCovered, NowIs DEF Uncovered, Messages
<1>4. i \in 1 .. Len(log) /\ i < Len(log)
  BY <1>1
<1>5. AnswerTo(Now, i) = {i + 1}
  BY <1>2, <1>4, NowSettled, AnswerIs
<1>6. FormOf(Now, i) = "stub" <=> IsStub(Now, i + 1)
  BY <1>2, <1>5, FormRead
<1>7. FormOf(Now, i + 1) = "stub" <=> IsStub(Now, i + 1)
  BY FormRead
<1> QED BY <1>3, <1>6, <1>7

LEMMA PairsAreKept == LogSound /\ PairsSound /\ ChainInv => PairsKept
<1> SUFFICES ASSUME LogSound, PairsSound, ChainInv PROVE PairsKept
  OBVIOUS
<1> DEFINE shown == Shown(Now)
           next(i) == {j \in DOMAIN shown : j > i /\ \A k \in DOMAIN shown : k > i => j <= k}
           is(i, kind) == shown[i].form # "summary" /\ log[i].kind = kind
<1>1. DOMAIN log = 1 .. Len(log) /\ Len(log) \in Nat
  BY LogPlaces DEF LogSound
<1>2. /\ DOMAIN shown = Uncovered(Now) \cup Firsts(Now)
      /\ \A i \in Uncovered(Now) : shown[i].form = FormOf(Now, i) /\ shown[i].form # "summary"
      /\ \A i \in Firsts(Now) : shown[i].form = "summary"
  BY ShownRead
<1>3. DOMAIN shown \subseteq DOMAIN log
  BY <1>2, NowIs DEF Uncovered, Firsts
<1> HIDE DEF shown
<1>4. ASSUME NEW i \in Uncovered(Now), i + 1 \in Uncovered(Now)
      PROVE  i + 1 \in next(i)
  <2>1. \A k \in DOMAIN shown : k > i => i + 1 <= k
    BY <1>1, <1>2, <1>3
  <2>2. i \in Nat
    BY <1>1, <1>2, <1>3
  <2> QED BY <1>2, <1>4, <2>1, <2>2
<1>5. ASSUME NEW i \in DOMAIN shown, is(i, "reply"), log[i].tool # None,
             ~(pc = "call" /\ i = Len(log))
      PROVE  \E j \in next(i) : is(j, "result") /\ (shown[i].form = "stub" <=> shown[j].form = "stub")
  <2>1. i \in Uncovered(Now) /\ i \in DOMAIN log /\ Calls(i)
    BY <1>2, <1>3, <1>5 DEF Calls
  <2>2. i + 1 \in DOMAIN log /\ log[i + 1].kind = "result"
    BY <1>5, <2>1 DEF PairsSound
  <2>3. i + 1 \in Uncovered(Now) /\ (FormOf(Now, i) = "stub" <=> FormOf(Now, i + 1) = "stub")
    BY <2>1, <2>2, PairShown
  <2>4. i + 1 \in next(i)
    BY <1>4, <2>1, <2>3
  <2>5. is(i + 1, "result") /\ (shown[i].form = "stub" <=> shown[i + 1].form = "stub")
    BY <1>2, <2>1, <2>2, <2>3
  <2> HIDE DEF next, is
  <2> QED BY <2>4, <2>5
<1>6. ASSUME NEW j \in DOMAIN shown, is(j, "result")
      PROVE  \E i \in DOMAIN shown : is(i, "reply") /\ j \in next(i)
  <2> DEFINE i == j - 1
  <2>1. j \in Uncovered(Now) /\ j \in DOMAIN log /\ log[j].kind = "result"
    BY <1>2, <1>3, <1>6
  <2>2. i \in DOMAIN log /\ Calls(i) /\ i + 1 = j
    BY <1>1, <2>1 DEF PairsSound
  <2> HIDE DEF i
  <2>3. i \in Uncovered(Now)
    BY <2>1, <2>2, PairShown
  <2>4. j \in next(i)
    <3> HIDE DEF next
    <3> QED BY <1>4, <2>1, <2>2, <2>3
  <2>5. i \in DOMAIN shown /\ is(i, "reply")
    BY <1>2, <2>2, <2>3 DEF Calls
  <2> HIDE DEF next, is
  <2> QED BY <2>4, <2>5
<1> QED BY <1>5, <1>6 DEF PairsKept, shown

-----------------------------------------------------------------------------
(* What a call was sent, and what is shown since                           *)

(* A reading up to a place no mark comes behind.                           *)
Sent(r, n) ==
  /\ r.seen = 1 .. n /\ r.probes = {}
  /\ \A i \in DOMAIN log : i > n => log[i].kind \notin Marks

LEMMA SentOf ==
  ASSUME IsSeq(log), NEW r, NEW n \in 0 .. Len(log), Sent(r, n)
  PROVE  /\ r.seen = 1 .. n /\ r.probes = {} /\ n \in Nat /\ r.seen \in SUBSET DOMAIN log
         /\ DOMAIN log = 1 .. Len(log) /\ Len(log) \in Nat
         /\ \A kind : Of(r, kind) = {i \in Of(Now, kind) : i <= n}
         /\ \A kind \in Marks : Of(r, kind) = Of(Now, kind)
<1>1. DOMAIN log = 1 .. Len(log) /\ Len(log) \in Nat /\ n \in Nat
  BY LogPlaces
<1>2. r.seen = 1 .. n /\ r.probes = {} /\ \A i \in DOMAIN log : i > n => log[i].kind \notin Marks
  BY DEF Sent
<1>3. \A kind : Of(r, kind) = {i \in Of(Now, kind) : i <= n}
  <2> SUFFICES ASSUME NEW kind PROVE Of(r, kind) = {i \in Of(Now, kind) : i <= n}
    OBVIOUS
  <2>1. Of(r, kind) = {i \in 1 .. n : log[i].kind = kind}
    BY <1>2 DEF Of
  <2>2. Of(Now, kind) = {i \in 1 .. Len(log) : log[i].kind = kind}
    BY <1>1, NowIs
  <2> QED BY <1>1, <2>1, <2>2
<1>4. \A kind \in Marks : Of(r, kind) = Of(Now, kind)
  <2> SUFFICES ASSUME NEW kind \in Marks PROVE Of(r, kind) = Of(Now, kind)
    OBVIOUS
  <2>1. \A i \in Of(Now, kind) : i <= n
    BY <1>1, <1>2, NowIs
  <2> QED BY <1>3, <2>1
<1> QED BY <1>1, <1>2, <1>3, <1>4

LEMMA SentTurn ==
  ASSUME IsSeq(log), NEW r, NEW n \in 0 .. Len(log), Sent(r, n), NEW i \in 1 .. n
  PROVE  TurnOf(r, i) = TurnOf(Now, i)
<1>1. Of(r, "ended") = {e \in Of(Now, "ended") : e <= n} /\ n \in Nat
      /\ Of(Now, "ended") \in SUBSET Nat
  BY SentOf, NowIs
<1>2. {e \in Of(r, "ended") : e < i} = {e \in Of(Now, "ended") : e < i}
  BY <1>1
<1> QED BY <1>2 DEF TurnOf

LEMMA SentReaches ==
  ASSUME IsSeq(log), NEW r, NEW n \in 0 .. Len(log), Sent(r, n), NEW i \in 1 .. n,
         NEW kind \in {"evicted", "truncated", "stubbed"}
  PROVE  Reaches(r, kind, i) <=> Reaches(Now, kind, i)
<1>1. Of(r, kind) = Of(Now, kind) /\ r.probes = {} /\ Now.probes = {}
  BY SentOf, NowIs DEF Marks
<1>2. Of(r, kind) \in SUBSET (1 .. n)
  BY SentOf, OfPlaces
<1>3. \A m \in Of(r, kind) : TurnOf(r, m) = TurnOf(Now, m)
  BY <1>2, SentTurn
<1>4. TurnOf(r, i) = TurnOf(Now, i)
  BY SentTurn
<1> QED BY <1>1, <1>3, <1>4 DEF Reaches

LEMMA SentBatched ==
  ASSUME LogSound, BatchesSound, NEW r, NEW n \in 0 .. Len(log), Sent(r, n),
         NEW i \in 1 .. n, log[i].kind = "result"
  PROVE  Batched(r, i) <=> Batched(Now, i)
<1>1. IsSeq(log) /\ n \in Nat /\ DOMAIN log = 1 .. Len(log) /\ Len(log) \in Nat
  BY LogPlaces DEF LogSound
<1>2. Of(r, "ended") = {e \in Ends : e <= n} /\ Of(r, "stubbed") = Of(Now, "stubbed")
      /\ Of(r, "stubbed") \in SUBSET (1 .. n) /\ Now.probes = {}
  BY <1>1, SentOf, OfPlaces, NowIs DEF Marks, Ends
<1>3. Of(r, "ended") \in SUBSET (1 .. n)
  BY <1>1, SentOf, OfPlaces
<1>4. LastEnd(r) \in 0 .. n /\ \A e \in Of(r, "ended") : e <= LastEnd(r)
  BY <1>1, <1>3, LastIs DEF LastEnd
<1>5. LastEnd(r) # 0 => LastEnd(r) \in Of(r, "ended")
  BY <1>1, <1>3, LastIs DEF LastEnd
<1>6. LastEnd(Now) \in Nat /\ \A e \in Ends : e <= LastEnd(Now)
  BY <1>1, LastEndIs
<1>7. LastEnd(r) <= LastEnd(Now)
  BY <1>1, <1>2, <1>4, <1>5, <1>6
<1>8. Reaches(r, "stubbed", i) <=> Reaches(Now, "stubbed", i)
  BY <1>1, SentReaches
<1>9. ASSUME Reaches(Now, "stubbed", i)
      PROVE  i < LastEnd(r)
  <2>1. PICK m \in Of(Now, "stubbed") : i <= log[m].through
    BY <1>2, <1>9 DEF Reaches
  <2>2. log[m].through \in Ends /\ log[m].through < m /\ m \in 1 .. n
    BY <1>2, <2>1 DEF BatchesSound
  <2>3. log[log[m].through].kind = "ended" /\ log[m].through \in 1 .. Len(log)
    BY <1>1, <2>2, NowIs DEF Ends
  <2>4. log[m].through \in Of(r, "ended") /\ i # log[m].through
    BY <1>1, <1>2, <2>2, <2>3
  <2> QED BY <1>1, <1>4, <2>1, <2>3, <2>4
<1>10. i \in Nat
  BY <1>1
<1> QED BY <1>4, <1>6, <1>7, <1>8, <1>9, <1>10, <1>1 DEF Batched

(* A result is stubbed as it was, or a newer one has taken its place.      *)
LEMMA SentStub ==
  ASSUME LogSound, BatchesSound, NEW r, NEW n \in 0 .. Len(log), Sent(r, n),
         NEW i \in 1 .. n, log[i].kind = "result"
  PROVE  \/ IsStub(r, i) <=> IsStub(Now, i)
         \/ \E j \in Of(Now, "result") :
              j > n /\ log[i].tool = log[j].tool /\ TurnOf(Now, i) = TurnOf(Now, j)
<1>1. IsSeq(log) /\ n \in Nat /\ i \in Nat
  BY LogPlaces DEF LogSound
<1>2. Of(r, "result") = {j \in Of(Now, "result") : j <= n} /\ Of(Now, "result") \in SUBSET Nat
      /\ Of(r, "result") \in SUBSET (1 .. n)
  BY <1>1, SentOf, NowIs, OfPlaces
<1>3. \A j \in 1 .. n : TurnOf(r, j) = TurnOf(Now, j)
  BY <1>1, SentTurn
<1>4. SUFFICES ASSUME ~\E j \in Of(Now, "result") :
                         j > n /\ log[i].tool = log[j].tool /\ TurnOf(Now, i) = TurnOf(Now, j)
               PROVE  IsStub(r, i) <=> IsStub(Now, i)
  OBVIOUS
<1>5. LastOfTool(r, i) <=> LastOfTool(Now, i)
  <2>1. ASSUME NEW j \in Of(Now, "result"), j > i, log[j].tool = log[i].tool,
               TurnOf(Now, j) = TurnOf(Now, i)
        PROVE  j \in Of(r, "result") /\ TurnOf(r, j) = TurnOf(r, i)
    <3>1. j <= n
      BY <1>1, <1>2, <1>4, <2>1
    <3> QED BY <1>2, <1>3, <2>1, <3>1
  <2>2. ASSUME NEW j \in Of(r, "result"), TurnOf(r, j) = TurnOf(r, i)
        PROVE  j \in Of(Now, "result") /\ TurnOf(Now, j) = TurnOf(Now, i)
    BY <1>2, <1>3, <2>2
  <2> QED BY <2>1, <2>2 DEF LastOfTool
<1>6. Reaches(r, "evicted", i) <=> Reaches(Now, "evicted", i)
  BY <1>1, SentReaches
<1>7. Batched(r, i) <=> Batched(Now, i)
  BY SentBatched
<1> QED BY <1>5, <1>6, <1>7 DEF IsStub, Swept

LEMMA SentForm ==
  ASSUME LogSound, PairsSound, BatchesSound, NEW n \in 0 .. Len(log),
         Sent(Reading(1 .. n, {}), n), n \in DOMAIN log => ~Calls(n),
         NEW i \in 1 .. n
  PROVE  FormOf(Reading(1 .. n, {}), i) = FormOf(Now, i) \/ Superseded(i, n)
<1> DEFINE r == Reading(1 .. n, {})
<1>1. IsSeq(log) /\ n \in Nat /\ DOMAIN log = 1 .. Len(log) /\ Len(log) \in Nat /\ i \in DOMAIN log
  BY LogPlaces DEF LogSound
<1>2. Sent(r, n) /\ Settled(r, n)
  BY DEF Settled
<1> HIDE DEF r
<1>3. CASE log[i].kind = "result"
  <2>1. Reaches(r, "truncated", i) <=> Reaches(Now, "truncated", i)
    BY <1>1, <1>2, SentReaches
  <2>2. CASE IsStub(r, i) <=> IsStub(Now, i)
    <3>1. FormOf(r, i) = FormOf(Now, i)
      BY <1>3, <2>1, <2>2, FormRead
    <3> QED BY <3>1 DEF r
  <2>3. CASE \E j \in Of(Now, "result") :
               j > n /\ log[i].tool = log[j].tool /\ TurnOf(Now, i) = TurnOf(Now, j)
    BY <1>3, <2>3 DEF Superseded
  <2> QED BY <1>2, <1>3, <2>2, <2>3, SentStub
<1>4. CASE log[i].kind = "reply" /\ Calls(i) /\ i < n
  <2>1. log[i + 1].kind = "result" /\ AnswerTo(r, i) = {i + 1} /\ i + 1 \in 1 .. n
    BY <1>1, <1>2, <1>4, AnswerIs
  <2>2. AnswerTo(Now, i) = {i + 1}
    <3>1. Settled(Now, Len(log)) /\ i \in 1 .. Len(log) /\ i < Len(log)
      BY <1>1, <1>4, NowSettled
    <3> QED BY <1>4, <3>1, AnswerIs
  <2>3. CASE IsStub(r, i + 1) <=> IsStub(Now, i + 1)
    <3>1. FormOf(r, i) = IF IsStub(r, i + 1) THEN "stub" ELSE "whole"
      BY <1>4, <2>1, FormRead
    <3>2. FormOf(Now, i) = IF IsStub(Now, i + 1) THEN "stub" ELSE "whole"
      BY <1>4, <2>2, FormRead
    <3> QED BY <2>3, <3>1, <3>2 DEF r
  <2>4. CASE \E j \in Of(Now, "result") :
               j > n /\ log[i + 1].tool = log[j].tool /\ TurnOf(Now, i + 1) = TurnOf(Now, j)
    BY <2>1, <2>2, <2>4 DEF Superseded
  <2> QED BY <1>2, <2>1, <2>3, <2>4, SentStub
<1>5. CASE log[i].kind = "reply" /\ ~(Calls(i) /\ i < n)
  <2>1. ~Calls(i)
    BY <1>1, <1>5
  <2>2. AnswerTo(r, i) = {} /\ AnswerTo(Now, i) = {}
    BY <1>1, <1>2, <1>5, <2>1, NowSettled, AnswerIs
  <2>3. FormOf(r, i) = "whole" /\ FormOf(Now, i) = "whole"
    BY <1>5, <2>2, FormRead
  <2> QED BY <2>3 DEF r
<1>6. CASE log[i].kind \notin {"result", "reply"}
  BY <1>6, FormRead
<1> QED BY <1>3, <1>4, <1>5, <1>6 DEF r

LEMMA SentPlaces ==
  ASSUME LogSound, NEW r, NEW n \in 0 .. Len(log), Sent(r, n)
  PROVE  /\ \A i : Covering(r, i) = Covering(Now, i)
         /\ Uncovered(r) = {i \in Uncovered(Now) : i <= n}
         /\ Firsts(r) = {i \in Firsts(Now) : i <= n}
<1>1. IsSeq(log) /\ n \in Nat /\ DOMAIN log = 1 .. Len(log) /\ Len(log) \in Nat
  BY LogPlaces DEF LogSound
<1>2. r.seen = 1 .. n /\ Now.seen = 1 .. Len(log) /\ Of(r, "summary") = Of(Now, "summary")
  BY <1>1, SentOf, NowIs DEF Marks
<1>3. \A i : Covering(r, i) = Covering(Now, i)
  BY <1>2 DEF Covering
<1>4. Uncovered(r) = {i \in Uncovered(Now) : i <= n}
  BY <1>1, <1>2, <1>3 DEF Uncovered
<1>5. ASSUME NEW i \in 1 .. n
      PROVE  i \in Firsts(r) <=> i \in Firsts(Now)
  <2>1. \A j \in 1 .. Len(log) : j < i => j \in 1 .. n
    BY <1>1
  <2>2. \A j \in 1 .. n : j \in 1 .. Len(log)
    BY <1>1
  <2> QED BY <1>2, <1>3, <2>1, <2>2 DEF Firsts
<1>6. Firsts(r) \subseteq 1 .. n /\ Firsts(Now) \subseteq 1 .. Len(log)
  BY <1>2 DEF Firsts
<1>7. Firsts(r) = {i \in Firsts(Now) : i <= n}
  BY <1>1, <1>5, <1>6
<1> QED BY <1>3, <1>4, <1>7

LEMMA MeasureIsFit == LogSound /\ PairsSound /\ BatchesSound /\ MeasureSound => MeasureFits
<1> SUFFICES ASSUME LogSound, PairsSound, BatchesSound, MeasureSound, measured # None
             PROVE  LET sent == Shown(Reading(1 .. measured.at, {}))
                        shown == Shown(Now)
                    IN /\ {i \in DOMAIN shown : i <= measured.at} = DOMAIN sent
                       /\ \A i \in DOMAIN sent : shown[i] = sent[i] \/ Superseded(i, measured.at)
                       /\ ~measured.reminded => measured.len = Cardinality(DOMAIN sent)
  BY DEF MeasureFits
<1> DEFINE n == measured.at
           r == Reading(1 .. n, {})
           sent == Shown(r)
           shown == Shown(Now)
<1>1. n \in 0 .. Len(log) /\ (n \in DOMAIN log => ~Calls(n))
      /\ \A i \in DOMAIN log : i > n => log[i].kind \notin Marks
  BY DEF MeasureSound
<1>2. ~measured.reminded => measured.len = Cardinality(DOMAIN sent)
  BY DEF MeasureSound
<1>3. Sent(r, n)
  BY <1>1, ReadingIs DEF Sent
<1>4. Len(log) \in Nat /\ IsSeq(log)
  BY LogPlaces DEF LogSound
<1> HIDE DEF n
<1>5. \A i \in 1 .. n : FormOf(r, i) = FormOf(Now, i) \/ Superseded(i, n)
  BY <1>1, <1>3, SentForm
<1>6. r.seen = 1 .. n
  BY ReadingIs
<1> HIDE DEF r
<1>7. /\ \A i : Covering(r, i) = Covering(Now, i)
      /\ Uncovered(r) = {i \in Uncovered(Now) : i <= n}
      /\ Firsts(r) = {i \in Firsts(Now) : i <= n}
  BY <1>1, <1>3, SentPlaces
<1>8. /\ DOMAIN sent = Uncovered(r) \cup Firsts(r)
      /\ \A i \in Uncovered(r) : sent[i] = [of |-> i, form |-> FormOf(r, i)]
      /\ \A i \in Firsts(r) : sent[i] = [of |-> Covering(r, i), form |-> "summary"]
  BY ShownIs
<1>9. /\ DOMAIN shown = Uncovered(Now) \cup Firsts(Now)
      /\ \A i \in Uncovered(Now) : shown[i] = [of |-> i, form |-> FormOf(Now, i)]
      /\ \A i \in Firsts(Now) : shown[i] = [of |-> Covering(Now, i), form |-> "summary"]
  BY ShownIs
<1> HIDE DEF sent, shown
<1>10. {i \in DOMAIN shown : i <= n} = DOMAIN sent
  BY <1>7, <1>8, <1>9
<1>11. ASSUME NEW i \in DOMAIN sent
       PROVE  shown[i] = sent[i] \/ Superseded(i, n)
  <2>1. CASE i \in Uncovered(r)
    <3>1. i \in 1 .. n /\ i \in Uncovered(Now)
      BY <1>6, <1>7, <2>1 DEF Uncovered
    <3>2. CASE FormOf(r, i) = FormOf(Now, i)
      BY <1>8, <1>9, <2>1, <3>1, <3>2
    <3> QED BY <1>5, <3>1, <3>2
  <2>2. CASE i \in Firsts(r)
    BY <1>7, <1>8, <1>9, <2>2
  <2> QED BY <1>8, <2>1, <2>2
<1> QED BY <1>2, <1>10, <1>11 DEF sent, shown, r, n

-----------------------------------------------------------------------------
(* Events are appended                                                     *)

LEMMA SeqSelf ==
  ASSUME NEW S, NEW q \in Seq(S)
  PROVE  IsSeq(q) /\ DOMAIN q = 1 .. Len(q) /\ Range(q) \subseteq S
<1>1. DOMAIN q = 1 .. Len(q) /\ Len(q) \in Nat /\ \A i \in 1 .. Len(q) : q[i] \in S
  BY SeqDef
<1>2. Range(q) \subseteq S
  BY <1>1 DEF Range
<1>3. q \in [1 .. Len(q) -> Range(q)]
  BY <1>1 DEF Range
<1> QED BY <1>1, <1>2, <1>3, SeqDef DEF IsSeq

(* The log stays as it is, or gets events behind it.                       *)
Grows ==
  /\ IsSeq(log') /\ Len(log) <= Len(log')
  /\ \A i \in DOMAIN log : log'[i] = log[i]
NewPlaces == {i \in DOMAIN log' : i > Len(log)}

LEMMA Stays ==
  ASSUME IsSeq(log), log' = log
  PROVE  Grows /\ NewPlaces = {}
<1>1. DOMAIN log = 1 .. Len(log) /\ Len(log) \in Nat
  BY LogPlaces
<1> QED BY <1>1 DEF Grows, NewPlaces

LEMMA GetsOne ==
  ASSUME IsSeq(log), NEW e, Write(e)
  PROVE  /\ Grows /\ NewPlaces = {Len(log) + 1} /\ log'[Len(log) + 1] = e
         /\ Len(log') = Len(log) + 1
<1> DEFINE S == Range(log) \cup {e}
           q == Append(log, e)
<1>1. log \in Seq(S)
  BY SeqDef DEF IsSeq
<1>2. /\ q \in Seq(S) /\ Len(q) = Len(log) + 1 /\ q[Len(log) + 1] = e
      /\ \A i \in 1 .. Len(log) : q[i] = log[i]
  BY <1>1
<1>3. IsSeq(q) /\ DOMAIN q = 1 .. Len(q)
  <2> HIDE DEF q, S
  <2> QED BY <1>2, SeqSelf
<1>4. log' = q
  BY DEF Write
<1>5. DOMAIN log = 1 .. Len(log) /\ Len(log) \in Nat
  BY LogPlaces
<1> HIDE DEF q, S
<1>6. /\ IsSeq(log') /\ DOMAIN log' = 1 .. Len(log) + 1 /\ Len(log') = Len(log) + 1
      /\ log'[Len(log) + 1] = e /\ \A i \in 1 .. Len(log) : log'[i] = log[i]
  BY <1>2, <1>3, <1>4
<1>7. Grows
  BY <1>5, <1>6 DEF Grows
<1>8. NewPlaces = {Len(log) + 1}
  BY <1>5, <1>6 DEF NewPlaces
<1> QED BY <1>6, <1>7, <1>8

LEMMA GetsTwo ==
  ASSUME IsSeq(log), NEW a, NEW b, log' = log \o <<a, b>>
  PROVE  /\ Grows /\ NewPlaces = {Len(log) + 1, Len(log) + 2}
         /\ log'[Len(log) + 1] = a /\ log'[Len(log) + 2] = b
         /\ Len(log') = Len(log) + 2
<1> DEFINE S == Range(log) \cup {a, b}
           q == log \o <<a, b>>
<1>1. log \in Seq(S) /\ <<a, b>> \in Seq(S)
  BY SeqDef DEF IsSeq
<1>2. q \in Seq(S) /\ Len(q) = Len(log) + 2
  <2>1. Len(<<a, b>>) = 2
    OBVIOUS
  <2> QED BY <1>1, <2>1, ConcatProperties
<1>3. IsSeq(q) /\ DOMAIN q = 1 .. Len(q)
  <2> HIDE DEF q, S
  <2> QED BY <1>2, SeqSelf
<1>4. DOMAIN log = 1 .. Len(log) /\ Len(log) \in Nat
  BY LogPlaces
<1>5. q[Len(log) + 1] = a /\ q[Len(log) + 2] = b /\ \A i \in 1 .. Len(log) : q[i] = log[i]
  <2>1. /\ \A i \in 1 .. Len(log) + 2 :
             q[i] = IF i <= Len(log) THEN log[i] ELSE <<a, b>>[i - Len(log)]
    BY <1>1, ConcatProperties
  <2>2. Len(log) + 1 - Len(log) = 1 /\ Len(log) + 2 - Len(log) = 2
    BY <1>4
  <2>3. <<a, b>>[1] = a /\ <<a, b>>[2] = b
    OBVIOUS
  <2> HIDE DEF q
  <2> QED BY <1>4, <2>1, <2>2, <2>3
<1> HIDE DEF S
<1>6. /\ IsSeq(log') /\ DOMAIN log' = 1 .. Len(log) + 2 /\ Len(log') = Len(log) + 2
      /\ log'[Len(log) + 1] = a /\ log'[Len(log) + 2] = b
      /\ \A i \in 1 .. Len(log) : log'[i] = log[i]
  <2>1. log' = q
    OBVIOUS
  <2> HIDE DEF q
  <2> QED BY <1>2, <1>3, <1>5, <2>1
<1>7. Grows
  BY <1>4, <1>6 DEF Grows
<1>8. NewPlaces = {Len(log) + 1, Len(log) + 2}
  BY <1>4, <1>6 DEF NewPlaces
<1> QED BY <1>6, <1>7, <1>8

LEMMA AppendedOne ==
  ASSUME IsSeq(log), NEW e
  PROVE  log \o <<e>> = Append(log, e)
<1>1. PICK S : log \in Seq(S)
  BY DEF IsSeq
<1> QED BY <1>1

LEMMA AppendedTwo ==
  ASSUME IsSeq(log), NEW e, NEW f
  PROVE  Append(log, e) \o <<f>> = log \o <<e, f>>
<1>1. log \in Seq(Range(log) \cup {e, f})
  BY SeqDef DEF IsSeq
<1>2. Append(log, e) = log \o <<e>> /\ <<e>> \in Seq(Range(log) \cup {e, f})
      /\ <<f>> \in Seq(Range(log) \cup {e, f})
  BY <1>1
<1>3. (log \o <<e>>) \o <<f>> = log \o (<<e>> \o <<f>>)
  BY <1>1, <1>2, ConcatAssociative
<1>4. <<e>> \o <<f>> = <<e, f>>
  <2> DEFINE q == <<e>> \o <<f>>
  <2>1. <<e>> \in Seq({e, f}) /\ <<f>> \in Seq({e, f}) /\ <<e, f>> \in Seq({e, f})
        /\ Len(<<e>>) = 1 /\ Len(<<f>>) = 1 /\ Len(<<e, f>>) = 2
    OBVIOUS
  <2>2. q \in Seq({e, f}) /\ Len(q) = 1 + 1
        /\ \A i \in 1 .. 1 + 1 : q[i] = IF i <= 1 THEN <<e>>[i] ELSE <<f>>[i - 1]
    BY <2>1, ConcatProperties
  <2> HIDE DEF q
  <2>3. q[1] = e /\ q[2] = f /\ <<e, f>>[1] = e /\ <<e, f>>[2] = f
    BY <2>2
  <2>4. \A i \in 1 .. Len(q) : q[i] = <<e, f>>[i]
    <3>1. \A i \in 1 .. Len(q) : i = 1 \/ i = 2
      BY <2>2
    <3> QED BY <2>3, <3>1
  <2>5. q = <<e, f>>
    BY <2>1, <2>2, <2>4, SeqEqual
  <2> QED BY <2>5 DEF q
<1> QED BY <1>2, <1>3, <1>4

LEMMA GrownIs ==
  ASSUME IsSeq(log), Grows
  PROVE  /\ Len(log) \in Nat /\ Len(log') \in Nat /\ Len(log) <= Len(log')
         /\ DOMAIN log = 1 .. Len(log) /\ DOMAIN log' = 1 .. Len(log')
         /\ DOMAIN log' = DOMAIN log \cup NewPlaces
         /\ \A i \in NewPlaces : i \in Nat /\ i > Len(log) /\ i \in DOMAIN log'
         /\ \A i \in DOMAIN log : log'[i] = log[i] /\ i \in DOMAIN log' /\ i \in Nat /\ i <= Len(log)
<1>1. Len(log) \in Nat /\ DOMAIN log = 1 .. Len(log)
  BY LogPlaces
<1>2. Len(log') \in Nat /\ DOMAIN log' = 1 .. Len(log') /\ Len(log) <= Len(log')
  BY DEF Grows, IsSeq
<1> QED BY <1>1, <1>2 DEF Grows, NewPlaces

(* The events of a kind: the old ones and the new.                         *)
LEMMA GrownOf ==
  ASSUME IsSeq(log), Grows, NEW kind
  PROVE  /\ Of(Now, kind)' = Of(Now, kind) \cup {i \in NewPlaces : log'[i].kind = kind}
         /\ Of(Now, kind) \subseteq DOMAIN log
         /\ \A i \in Of(Now, kind)' : i \in DOMAIN log' /\ log'[i].kind = kind
<1>1. Of(Now, kind) = {i \in DOMAIN log : log[i].kind = kind}
  BY DEF Of, Now, Reading
<1>2. Of(Now, kind)' = {i \in DOMAIN log' : log'[i].kind = kind}
  BY DEF Of, Now, Reading
<1> QED BY <1>1, <1>2, GrownIs

LEMMA GrownEnds ==
  ASSUME IsSeq(log), Grows
  PROVE  /\ Ends \subseteq Ends'
         /\ (\A i \in NewPlaces : log'[i].kind # "ended") =>
              Ends' = Ends /\ LastEnd(Now)' = LastEnd(Now)
<1>1. Ends = Of(Now, "ended") /\ Ends' = Of(Now, "ended")'
  BY DEF Ends
<1>2. Of(Now, "ended")' = Of(Now, "ended") \cup {i \in NewPlaces : log'[i].kind = "ended"}
  BY GrownOf
<1>3. LastEnd(Now) = LastOf(Ends) /\ LastEnd(Now)' = LastOf(Ends')
  BY DEF LastEnd, Ends
<1> QED BY <1>1, <1>2, <1>3

LEMMA GrownSummaries ==
  ASSUME IsSeq(log), Grows
  PROVE  Summaries' = Summaries \cup {i \in NewPlaces : log'[i].kind = "summary"}
         /\ Summaries \subseteq DOMAIN log
BY GrownOf DEF Summaries

LEMMA GrownSaid ==
  ASSUME IsSeq(log), Grows, NEW from \in Nat, NEW to \in Nat, to <= Len(log)
  PROVE  Said(from, to)' = Said(from, to)
<1>1. Said(from, to) = {i \in DOMAIN log : from <= i /\ i <= to /\ log[i].kind \in Messages}
  BY DEF Said
<1>2. Said(from, to)' = {i \in DOMAIN log' : from <= i /\ i <= to /\ log'[i].kind \in Messages}
  BY DEF Said
<1> QED BY <1>1, <1>2, GrownIs

-----------------------------------------------------------------------------
(* What appended events leave sound                                        *)

LEMMA LogStaysSound ==
  ASSUME LogSound, Grows, \A i \in NewPlaces : EventSound(log'[i])
  PROVE  LogSound'
<1>1. IsSeq(log)
  BY DEF LogSound
<1>2. ASSUME NEW i \in DOMAIN log'
      PROVE  EventSound(log'[i])
  <2>1. CASE i \in DOMAIN log
    <3>1. log'[i] = log[i]
      BY <1>1, <2>1, GrownIs
    <3>2. EventSound(log[i])
      BY <2>1 DEF LogSound
    <3> QED BY <3>1, <3>2
  <2> QED BY <1>1, <1>2, <2>1, GrownIs
<1>3. IsSeq(log')
  BY DEF Grows
<1> QED BY <1>2, <1>3 DEF LogSound

(* No call runs, and neither a call nor a result is appended.              *)
LEMMA PairsStaySound ==
  ASSUME LogSound, PairsSound, Grows, pc # "call", pc' # "call",
         \A i \in NewPlaces : log'[i].kind # "result" /\ ~Calls(i)'
  PROVE  PairsSound'
<1>1. IsSeq(log)
  BY DEF LogSound
<1>2. /\ \A i \in DOMAIN log' : i \in DOMAIN log \/ i \in NewPlaces
      /\ \A i \in DOMAIN log : log'[i] = log[i] /\ i \in DOMAIN log'
  BY <1>1, GrownIs
<1>3. ASSUME NEW i \in DOMAIN log', log'[i].kind = "result"
      PROVE  i - 1 \in DOMAIN log' /\ Calls(i - 1)' /\ log'[i - 1].tool = log'[i].tool
  <2>1. i \in DOMAIN log /\ log[i].kind = "result"
    BY <1>2, <1>3
  <2>2. i - 1 \in DOMAIN log /\ Calls(i - 1) /\ log[i - 1].tool = log[i].tool
    BY <2>1 DEF PairsSound
  <2> QED BY <1>2, <2>1, <2>2 DEF Calls
<1>4. ASSUME NEW i \in DOMAIN log', Calls(i)'
      PROVE  i + 1 \in DOMAIN log' /\ log'[i + 1].kind = "result"
  <2>1. i \in DOMAIN log /\ Calls(i)
    BY <1>2, <1>4 DEF Calls
  <2>2. i + 1 \in DOMAIN log /\ log[i + 1].kind = "result"
    BY <2>1 DEF PairsSound
  <2> QED BY <1>2, <2>2
<1> QED BY <1>3, <1>4 DEF PairsSound

(* A call is appended.                                                     *)
LEMMA CallIsPaired ==
  ASSUME LogSound, PairsSound, pc # "call", pc' = "call",
         NEW tool \in Tools, Write(Reply(tool))
  PROVE  PairsSound'
<1>1. IsSeq(log)
  BY DEF LogSound
<1>2. Grows /\ NewPlaces = {Len(log) + 1} /\ log'[Len(log) + 1] = Reply(tool)
      /\ Len(log') = Len(log) + 1
  BY <1>1, GetsOne
<1>3. Calls(Len(log))' /\ log'[Len(log) + 1].kind # "result"
  BY <1>2, SizesAssumption DEF Calls, Reply
<1>4. /\ \A i \in DOMAIN log' : i \in DOMAIN log \/ i = Len(log')
      /\ \A i \in DOMAIN log : log'[i] = log[i] /\ i \in DOMAIN log'
      /\ Len(log') \in DOMAIN log'
  BY <1>1, <1>2, GrownIs
<1>5. ASSUME NEW i \in DOMAIN log', log'[i].kind = "result"
      PROVE  i - 1 \in DOMAIN log' /\ Calls(i - 1)' /\ log'[i - 1].tool = log'[i].tool
  <2>1. i \in DOMAIN log /\ log[i].kind = "result"
    BY <1>2, <1>3, <1>4, <1>5
  <2>2. i - 1 \in DOMAIN log /\ Calls(i - 1) /\ log[i - 1].tool = log[i].tool
    BY <2>1 DEF PairsSound
  <2> QED BY <1>4, <2>1, <2>2 DEF Calls
<1>6. ASSUME NEW i \in DOMAIN log', Calls(i)', i # Len(log')
      PROVE  i + 1 \in DOMAIN log' /\ log'[i + 1].kind = "result"
  <2>1. i \in DOMAIN log /\ Calls(i)
    BY <1>4, <1>6 DEF Calls
  <2>2. i + 1 \in DOMAIN log /\ log[i + 1].kind = "result"
    BY <2>1 DEF PairsSound
  <2> QED BY <1>4, <2>2
<1> QED BY <1>2, <1>3, <1>4, <1>5, <1>6 DEF PairsSound

(* Its result is appended, and perhaps what is no call behind it.          *)
LEMMA ResultIsPaired ==
  ASSUME LogSound, PairsSound, Grows, pc = "call", pc' # "call",
         Len(log) + 1 \in NewPlaces, log'[Len(log) + 1].kind = "result",
         log'[Len(log) + 1].tool = log[Len(log)].tool,
         \A i \in NewPlaces : i = Len(log) + 1 \/ (log'[i].kind # "result" /\ ~Calls(i)')
  PROVE  PairsSound'
<1>1. IsSeq(log)
  BY DEF LogSound
<1>2. /\ \A i \in DOMAIN log' : i \in DOMAIN log \/ i \in NewPlaces
      /\ \A i \in DOMAIN log : log'[i] = log[i] /\ i \in DOMAIN log' /\ i \in Nat
      /\ \A i \in NewPlaces : i \in DOMAIN log'
      /\ Len(log) \in Nat
  BY <1>1, GrownIs
<1>3. Len(log) \in DOMAIN log /\ Calls(Len(log))
  BY DEF PairsSound
<1>4. ASSUME NEW i \in DOMAIN log', log'[i].kind = "result"
      PROVE  i - 1 \in DOMAIN log' /\ Calls(i - 1)' /\ log'[i - 1].tool = log'[i].tool
  <2>1. CASE i \in DOMAIN log
    <3>1. log[i].kind = "result"
      BY <1>2, <1>4, <2>1
    <3>2. i - 1 \in DOMAIN log /\ Calls(i - 1) /\ log[i - 1].tool = log[i].tool
      BY <2>1, <3>1 DEF PairsSound
    <3> QED BY <1>2, <2>1, <3>2 DEF Calls
  <2>2. CASE i = Len(log) + 1
    <3>1. i - 1 = Len(log)
      BY <1>2, <2>2
    <3> QED BY <1>2, <1>3, <2>2, <3>1 DEF Calls
  <2> QED BY <1>2, <1>4, <2>1, <2>2
<1>5. ASSUME NEW i \in DOMAIN log', Calls(i)'
      PROVE  i + 1 \in DOMAIN log' /\ log'[i + 1].kind = "result"
  <2>1. i \in DOMAIN log /\ Calls(i)
    <3>1. i # Len(log) + 1
      BY <1>5 DEF Calls
    <3> QED BY <1>2, <1>5, <3>1 DEF Calls
  <2>2. CASE i = Len(log)
    BY <1>2, <2>2
  <2>3. CASE i # Len(log)
    <3>1. i + 1 \in DOMAIN log /\ log[i + 1].kind = "result"
      BY <2>1, <2>3 DEF PairsSound
    <3> QED BY <1>2, <3>1
  <2> QED BY <2>2, <2>3
<1> QED BY <1>4, <1>5 DEF PairsSound

(* No turn ends, and one goes on.                                          *)
LEMMA TurnStaysOpen ==
  ASSUME LogSound, Grows, TurnOpen, \A i \in NewPlaces : log'[i].kind # "ended"
  PROVE  TurnOpen'
<1>1. IsSeq(log)
  BY DEF LogSound
<1>2. LastEnd(Now)' = LastEnd(Now) /\ Of(Now, "user") \subseteq Of(Now, "user")'
  BY <1>1, GrownEnds, GrownOf
<1>3. TurnOpen <=> \E i \in Of(Now, "user") : i > LastEnd(Now)
  BY DEF TurnOpen
<1>4. TurnOpen' <=> \E i \in Of(Now, "user")' : i > LastEnd(Now)'
  BY DEF TurnOpen
<1> QED BY <1>2, <1>3, <1>4

(* A message opens one.                                                    *)
LEMMA MessageOpens ==
  ASSUME LogSound, Grows, \A i \in NewPlaces : log'[i].kind # "ended",
         \E i \in NewPlaces : log'[i].kind = "user"
  PROVE  TurnOpen'
<1>1. IsSeq(log)
  BY DEF LogSound
<1>2. PICK i \in NewPlaces : log'[i].kind = "user"
  OBVIOUS
<1>3. i \in Of(Now, "user")'
  BY <1>1, <1>2, GrownOf
<1>4. i > LastEnd(Now)'
  <2>1. LastEnd(Now)' = LastEnd(Now) /\ LastEnd(Now) \in 0 .. Len(log)
    BY <1>1, GrownEnds, LastEndIs
  <2> QED BY <1>1, <2>1, GrownIs
<1>5. TurnOpen' <=> \E j \in Of(Now, "user")' : j > LastEnd(Now)'
  BY DEF TurnOpen
<1> QED BY <1>3, <1>4, <1>5

(* No summary is appended.                                                 *)
LEMMA ChainStaysSound ==
  ASSUME LogSound, ChainInv, Grows, \A i \in NewPlaces : log'[i].kind # "summary"
  PROVE  ChainInv' /\ Summaries' = Summaries
         /\ \A s \in Summaries : log'[s] = log[s]
<1>1. IsSeq(log)
  BY DEF LogSound
<1>2. Summaries' = Summaries /\ \A s \in Summaries : log'[s] = log[s]
  BY <1>1, GrownSummaries, GrownIs
<1>3. ASSUME NEW s \in Summaries
      PROVE  SummarySound(s)'
  <2>1. /\ SummarySound(s) /\ log[s].from \in Nat /\ log[s].to \in Nat
        /\ log[s].to \in 1 .. Len(log)
    BY <1>1, ChainIs
  <2>2. log'[s].to \in Ends' /\ log'[s].to < s /\ log'[s].from <= log'[s].to
    BY <1>1, <1>2, <2>1, GrownEnds DEF SummarySound
  <2>3. (log[s].text = Said(log[s].from, log[s].to))'
    <3>2. \A x, y \in Nat : y <= Len(log) => Said(x, y)' = Said(x, y)
      BY <1>1, GrownSaid
    <3>3. log[s].text = Said(log[s].from, log[s].to) /\ log[s].to <= Len(log)
      BY <1>1, <2>1, LogPlaces DEF SummarySound
    <3>4. PICK x \in Nat, y \in Nat : x = log[s].from /\ y = log[s].to
      BY <2>1
    <3>5. Said(x, y)' = log'[s].text /\ log'[s].from = x /\ log'[s].to = y
      BY <1>2, <3>2, <3>3, <3>4
    <3> QED BY <3>5 DEF Said
  <2> QED BY <1>2, <2>1, <2>2, <2>3 DEF SummarySound
<1> QED BY <1>2, <1>3 DEF ChainInv

(* A summary of the range that was compacted is appended.                  *)
LEMMA ChainGetsLonger ==
  ASSUME LogSound, ChainInv, NEW from \in Nat, NEW to \in Ends, from <= to, NEW size,
         Write(Summary(from, to, Said(from, to), size)),
         \A s \in Summaries : log[s].to < to,
         \/ from = 0
         \/ /\ \E s \in Summaries : from = log[s].to + 1
            /\ \A s \in Summaries : log[s].to < from
  PROVE  ChainInv'
<1> DEFINE e == Summary(from, to, Said(from, to), size)
           n == Len(log) + 1
<1>1. IsSeq(log)
  BY DEF LogSound
<1>2. Grows /\ NewPlaces = {n} /\ log'[n] = e
  BY <1>1, GetsOne
<1>3. e.kind = "summary" /\ e.from = from /\ e.to = to /\ e.text = Said(from, to)
  BY DEF Summary
<1>4. to \in Nat /\ to <= Len(log) /\ n \in Nat /\ Len(log) \in Nat
  BY <1>1, LogPlaces, NowIs DEF Ends
<1>5. Summaries' = Summaries \cup {n} /\ Summaries \subseteq DOMAIN log
      /\ \A s \in Summaries : log'[s] = log[s] /\ s \in Nat /\ s <= Len(log)
  BY <1>1, <1>2, <1>3, GrownSummaries, GrownIs
<1>6. Ends \subseteq Ends'
  BY <1>1, <1>2, GrownEnds
<1>7. \A x, y \in Nat : y <= Len(log) => Said(x, y)' = Said(x, y)
  BY <1>1, <1>2, GrownSaid
<1> HIDE DEF e, n
<1>8. ASSUME NEW s \in Summaries
      PROVE  SummarySound(s)'
  <2>1. /\ SummarySound(s) /\ log[s].from \in Nat /\ log[s].to \in Nat
        /\ log[s].to \in 1 .. Len(log)
    BY <1>1, ChainIs
  <2>2. log'[s].to \in Ends' /\ log'[s].to < s /\ log'[s].from <= log'[s].to
    BY <1>5, <1>6, <2>1 DEF SummarySound
  <2>3. (log[s].text = Said(log[s].from, log[s].to))'
    <3>1. PICK x \in Nat, y \in Nat : x = log[s].from /\ y = log[s].to
      BY <2>1
    <3>2. log[s].text = Said(x, y) /\ y <= Len(log)
      BY <1>4, <2>1, <3>1 DEF SummarySound
    <3>3. Said(x, y)' = log'[s].text /\ log'[s].from = x /\ log'[s].to = y
      BY <1>5, <1>7, <3>1, <3>2
    <3> QED BY <3>3 DEF Said
  <2>4. \A t \in Summaries' : t < s => t \in Summaries /\ log'[t] = log[t]
    BY <1>4, <1>5 DEF n
  <2>5. \A t \in Summaries' : t < s => log'[t].to < log'[s].to
    BY <1>5, <2>1, <2>4 DEF SummarySound
  <2>6. \/ log'[s].from = 0
        \/ /\ \E t \in Summaries' : t < s /\ log'[s].from = log'[t].to + 1
           /\ \A t \in Summaries' : t < s => log'[t].to < log'[s].from
    BY <1>5, <2>1, <2>4 DEF SummarySound
  <2> QED BY <2>2, <2>3, <2>5, <2>6 DEF SummarySound
<1>9. \A k : k = n => SummarySound(k)'
  <2> SUFFICES ASSUME NEW k, k = n PROVE SummarySound(k)'
    OBVIOUS
  <2>0. log'[k].from = from /\ log'[k].to = to /\ log'[k].text = Said(from, to)
    BY <1>2, <1>3
  <2>1. log'[k].to \in Ends' /\ log'[k].to < k /\ log'[k].from <= log'[k].to
    BY <1>4, <1>6, <2>0 DEF n
  <2>2. (log[k].text = Said(log[k].from, log[k].to))'
    <3>1. PICK x \in Nat, y \in Nat : x = from /\ y = to
      BY <1>4
    <3>2. Said(x, y)' = log'[k].text /\ log'[k].from = x /\ log'[k].to = y
      BY <1>4, <1>7, <2>0, <3>1
    <3> QED BY <3>2 DEF Said
  <2>3. \A t \in Summaries' : t < k => t \in Summaries /\ log'[t] = log[t]
    BY <1>4, <1>5
  <2>4. \A t \in Summaries' : t < k => log'[t].to < log'[k].to
    BY <2>0, <2>3
  <2>5. \/ log'[k].from = 0
        \/ /\ \E t \in Summaries' : t < k /\ log'[k].from = log'[t].to + 1
           /\ \A t \in Summaries' : t < k => log'[t].to < log'[k].from
    <3>1. \A t \in Summaries : t \in Summaries' /\ t < k /\ log'[t] = log[t]
      BY <1>4, <1>5 DEF n
    <3> QED BY <2>0, <2>3, <3>1
  <2> QED BY <2>1, <2>2, <2>4, <2>5 DEF SummarySound
<1> QED BY <1>5, <1>8, <1>9 DEF ChainInv

(* A batch that is appended reaches to the end of a turn.                  *)
LEMMA BatchesStaySound ==
  ASSUME LogSound, BatchesSound, Grows,
         \A i \in NewPlaces : log'[i].kind = "stubbed" => log'[i].through \in Ends
  PROVE  BatchesSound'
<1>1. IsSeq(log)
  BY DEF LogSound
<1>2. /\ \A i \in DOMAIN log' : i \in DOMAIN log \/ i \in NewPlaces
      /\ \A i \in DOMAIN log : log'[i] = log[i]
      /\ \A i \in NewPlaces : i \in Nat /\ i > Len(log)
      /\ Len(log) \in Nat /\ DOMAIN log = 1 .. Len(log)
  BY <1>1, GrownIs
<1>3. Ends \subseteq Ends' /\ Ends \subseteq DOMAIN log
  BY <1>1, GrownEnds, NowIs DEF Ends
<1>4. Of(Now, "stubbed")' = Of(Now, "stubbed") \cup {i \in NewPlaces : log'[i].kind = "stubbed"}
      /\ Of(Now, "stubbed") \subseteq DOMAIN log
  BY <1>1, GrownOf
<1>5. ASSUME NEW b \in Of(Now, "stubbed")'
      PROVE  log'[b].through \in Ends' /\ log'[b].through < b
  <2>1. CASE b \in Of(Now, "stubbed")
    <3>1. log'[b] = log[b] /\ log[b].through \in Ends /\ log[b].through < b
      BY <1>2, <1>4, <2>1 DEF BatchesSound
    <3> QED BY <1>3, <3>1
  <2>2. CASE b \in NewPlaces /\ log'[b].kind = "stubbed"
    BY <1>2, <1>3, <2>2
  <2> QED BY <1>4, <2>1, <2>2
<1> QED BY <1>5 DEF BatchesSound

-----------------------------------------------------------------------------
(* What a summary is written of                                            *)

(* A link reads the messages of its range, and nothing else.               *)
LEMMA LinkText ==
  ASSUME LogSound, NEW from \in Nat, NEW to \in Nat, NEW mark
  PROVE  Words(LinkInputs(from, to, mark)) = Said(from, to)
<1> DEFINE r == LinkInputs(from, to, mark)
<1>1. IsSeq(log) /\ DOMAIN log = 1 .. Len(log) /\ Len(log) \in Nat
  BY LogPlaces DEF LogSound
<1>2. r.seen = {i \in from .. to : i \in DOMAIN log /\ log[i].kind \notin Marks}
  BY ReadingIs DEF LinkInputs
<1> HIDE DEF r
<1>3. Of(r, "summary") = {} /\ r.seen \in SUBSET DOMAIN log /\ r.seen \in SUBSET Nat
  BY <1>1, <1>2 DEF Of, Marks
<1>4. \A i : Covering(r, i) = 0
  <2> SUFFICES ASSUME NEW i PROVE Covering(r, i) = 0
    OBVIOUS
  <2>1. {s \in Of(r, "summary") : log[s].from <= i /\ i <= log[s].to} = {}
    BY <1>3
  <2> QED BY <2>1 DEF Covering, LastOf
<1>5. Words(r) = Uncovered(r) \cup
        UNION {log[Covering(r, i)].text : i \in {j \in r.seen : Covering(r, j) # 0}}
  BY <1>3, WordsRead
<1>6. Words(r) = Uncovered(r)
  BY <1>4, <1>5
<1>7. Uncovered(r) = {i \in r.seen : log[i].kind \in Messages}
  BY <1>4 DEF Uncovered
<1>8. Said(from, to) = {i \in r.seen : log[i].kind \in Messages}
  BY <1>1, <1>2 DEF Said, Messages, Marks
<1> QED BY <1>6, <1>7, <1>8 DEF r

(* A nested summary reads the range's own messages and, where summaries    *)
(* cover them, the summaries.                                              *)
LEMMA SummaryText ==
  ASSUME LogSound, ChainInv, NEW to \in Ends, \A s \in Summaries : log[s].to < to
  PROVE  Words(SummaryInput(to)) = Said(0, to)
<1> DEFINE r == SummaryInput(to)
           covered == {j \in r.seen : Covering(r, j) # 0}
<1>1. IsSeq(log) /\ DOMAIN log = 1 .. Len(log) /\ Len(log) \in Nat /\ to \in Nat
  BY LogPlaces, NowIs DEF LogSound, Ends
<1>2. r.seen = {i \in DOMAIN log : i <= to \/ log[i].kind \in {"summary", "truncated"}}
  BY ReadingIs DEF SummaryInput
<1> HIDE DEF r
<1>3. Of(r, "summary") = Summaries /\ r.seen \in SUBSET DOMAIN log /\ r.seen \in SUBSET Nat
  BY <1>1, <1>2, NowIs DEF Of, Summaries
<1>4. \A i : Covering(r, i) = Covering(Now, i)
  BY <1>3 DEF Covering, Summaries
<1>5. Words(r) = Uncovered(r) \cup UNION {log[Covering(r, i)].text : i \in covered}
  BY <1>3, WordsRead
<1>6. Uncovered(r) = {i \in r.seen : Covering(Now, i) = 0 /\ log[i].kind \in Messages}
  BY <1>4 DEF Uncovered
<1>7. \A i \in covered : i \in r.seen /\ Covering(Now, i) # 0
  BY <1>4
<1>8. \A i \in r.seen : Covering(Now, i) # 0 => i \in covered
  BY <1>4
<1> HIDE DEF covered
<1>9. ASSUME NEW x \in Words(r)
      PROVE  x \in Said(0, to)
  <2>1. CASE x \in Uncovered(r)
    <3>1. x \in DOMAIN log /\ log[x].kind \in Messages /\ x \in r.seen
      BY <1>3, <1>6, <2>1
    <3>2. x <= to /\ 0 <= x
      BY <1>1, <1>2, <3>1 DEF Messages
    <3> QED BY <3>1, <3>2 DEF Said
  <2>2. CASE x \notin Uncovered(r)
    <3>1. PICK i \in covered : x \in log[Covering(r, i)].text
      BY <1>5, <2>2
    <3>2. Covering(Now, i) # 0 /\ Covering(Now, i) = Covering(r, i)
      BY <1>4, <1>7, <3>1
    <3>3. PICK c \in Summaries : c = Covering(Now, i)
      BY <1>1, <3>2, CoverNow
    <3>4. log[c].text = Said(log[c].from, log[c].to) /\ log[c].to \in Nat /\ log[c].from \in Nat
      BY <1>1, ChainIs DEF SummarySound
    <3>5. x \in DOMAIN log /\ log[x].kind \in Messages /\ x <= log[c].to
      BY <3>1, <3>2, <3>3, <3>4 DEF Said
    <3>6. log[c].to < to
      OBVIOUS
    <3>7. x <= to /\ 0 <= x
      BY <1>1, <3>4, <3>5, <3>6
    <3> QED BY <3>5, <3>7 DEF Said
  <2> QED BY <2>1, <2>2
<1>10. ASSUME NEW x \in Said(0, to)
       PROVE  x \in Words(r)
  <2>1. x \in DOMAIN log /\ log[x].kind \in Messages /\ x <= to
    BY DEF Said
  <2>2. x \in r.seen
    BY <1>2, <2>1
  <2>3. CASE Covering(Now, x) = 0
    BY <1>5, <1>6, <2>1, <2>2, <2>3
  <2>4. CASE Covering(Now, x) # 0
    <3>1. PICK c \in Summaries : c = Covering(Now, x) /\ log[c].from <= x /\ x <= log[c].to
      BY <1>1, <2>4, CoverNow
    <3>2. log[c].text = Said(log[c].from, log[c].to)
      BY <1>1, ChainIs DEF SummarySound
    <3>3. x \in log[Covering(r, x)].text
      BY <1>4, <2>1, <3>1, <3>2 DEF Said
    <3>4. x \in covered
      BY <1>8, <2>2, <2>4
    <3> QED BY <1>5, <3>3, <3>4
  <2> QED BY <2>3, <2>4
<1>11. Words(r) = Said(0, to)
  BY <1>9, <1>10
<1> QED BY <1>11 DEF r

LEMMA CompactedIs ==
  ASSUME LogSound, ChainInv
  PROVE  /\ CompactedThrough \in Nat
         /\ \A s \in Summaries : log[s].to <= CompactedThrough /\ CompactedThrough # 0
                                 /\ log[s].to \in Nat
         /\ CompactedThrough # 0 => \E s \in Summaries : CompactedThrough = log[s].to
<1> DEFINE tos == {log[s].to : s \in Summaries}
<1>1. IsSeq(log) /\ Len(log) \in Nat
  BY LogPlaces DEF LogSound
<1>2. \A s \in Summaries : log[s].to \in 1 .. Len(log)
  BY <1>1, ChainIs
<1>3. tos \in SUBSET (1 .. Len(log)) /\ \A s \in Summaries : log[s].to \in tos
  BY <1>2
<1>4. \A x \in tos : \E s \in Summaries : x = log[s].to
  OBVIOUS
<1>5. CompactedThrough = LastOf(tos)
  BY DEF CompactedThrough, Summaries
<1> HIDE DEF tos
<1>6. /\ LastOf(tos) \in 0 .. Len(log) /\ \A x \in tos : x <= LastOf(tos)
      /\ tos = {} => LastOf(tos) = 0
      /\ tos # {} => LastOf(tos) \in tos
  BY <1>1, <1>3, LastIs
<1> QED BY <1>1, <1>2, <1>3, <1>4, <1>5, <1>6

(* compactable_range: from the beginning, and further than any summary.    *)
LEMMA CompactableIs ==
  ASSUME LogSound, ChainInv, NEW rg \in CompactableRange
  PROVE  ReachesFurther(rg) /\ rg[1] = 0 /\ rg # None
<1>1. PICK e \in KeepEnd : rg = <<0, e>> /\ CompactedThrough < e
  BY DEF CompactableRange
<1>2. e \in Ends /\ Ends \subseteq Nat
  BY LogPlaces, NowIs DEF KeepEnd, Ends, LogSound
<1>3. \A s \in Summaries : log[s].to < e
  BY <1>1, <1>2, CompactedIs
<1>4. rg \in Nat \X Nat /\ rg[1] = 0 /\ rg[2] = e
  BY <1>1, <1>2
<1>5. rg[1] <= rg[2]
  BY <1>2, <1>4
<1> QED BY <1>2, <1>3, <1>4, <1>5, SizesAssumption DEF ReachesFurther

(* link_range: right behind the last summary.                              *)
LEMMA LinkIs ==
  ASSUME LogSound, ChainInv, NEW rg \in LinkOfBatch
  PROVE  ReachesFurther(rg) /\ (rg[1] = 0 \/ IsNextLink(rg)) /\ rg # None
<1> DEFINE from == IF CompactedThrough = 0 THEN 0 ELSE CompactedThrough + 1
<1>1. PICK e \in KeepEnd : rg = <<from, e>> /\ from <= e
  <2>1. rg \in LinkRange
    BY DEF LinkOfBatch
  <2> QED BY <2>1 DEF LinkRange
<1>2. e \in Ends /\ Ends \subseteq Nat
  BY LogPlaces, NowIs DEF KeepEnd, Ends, LogSound
<1>3. /\ CompactedThrough \in Nat
      /\ \A s \in Summaries : log[s].to <= CompactedThrough /\ CompactedThrough # 0
                              /\ log[s].to \in Nat
      /\ CompactedThrough # 0 => \E s \in Summaries : CompactedThrough = log[s].to
  BY CompactedIs
<1>4. from \in Nat /\ \A s \in Summaries : log[s].to < from
  BY <1>3
<1>5. from = 0 \/ \E s \in Summaries : from = log[s].to + 1
  BY <1>3
<1> HIDE DEF from
<1>6. rg \in Nat \X Nat /\ rg[1] = from /\ rg[2] = e
  BY <1>1, <1>2, <1>4
<1>7. \A s \in Summaries : log[s].to < e
  BY <1>1, <1>2, <1>3, <1>4
<1>8. ReachesFurther(rg)
  BY <1>1, <1>2, <1>6, <1>7 DEF ReachesFurther
<1>9. rg[1] = 0 \/ IsNextLink(rg)
  BY <1>4, <1>5, <1>6 DEF IsNextLink
<1> QED BY <1>6, <1>8, <1>9, SizesAssumption

(* A range stays what it is until a summary is written.                    *)
LEMMA RangeStays ==
  ASSUME LogSound, ChainInv, Grows, \A i \in NewPlaces : log'[i].kind # "summary", NEW rg
  PROVE  /\ ReachesFurther(rg) => ReachesFurther(rg)'
         /\ IsNextLink(rg) => IsNextLink(rg)'
<1>1. IsSeq(log)
  BY DEF LogSound
<1>2. Summaries' = Summaries /\ \A s \in Summaries : log'[s] = log[s]
  BY ChainStaysSound
<1>3. Ends \subseteq Ends'
  BY <1>1, GrownEnds
<1> QED BY <1>2, <1>3 DEF ReachesFurther, IsNextLink

-----------------------------------------------------------------------------
(* Sums                                                                    *)

(* One member after the other, in the order of a choice.                   *)
Adding(S, w, choice, f) ==
  [T \in SUBSET S |-> IF T = {} THEN 0 ELSE w[choice[T]] + f[T \ {choice[T]}]]

(* The function that adds up the members of a set exists.                  *)
LEMMA SumExists ==
  ASSUME NEW S, IsFiniteSet(S), NEW w \in [S -> Nat],
         NEW choice, \A T \in SUBSET S : T # {} => choice[T] \in T
  PROVE  \E f : f = Adding(S, w, choice, f)
<1> DEFINE Upto(n) == {T \in SUBSET S : Cardinality(T) <= n}
           Sums(f, n) ==
             /\ f \in [Upto(n) -> Nat]
             /\ \A T \in Upto(n) :
                  f[T] = IF T = {} THEN 0 ELSE w[choice[T]] + f[T \ {choice[T]}]
           Bad == {n \in Nat : ~\E f : Sums(f, n)}
<1>1. \A T \in SUBSET S : /\ IsFiniteSet(T) /\ Cardinality(T) \in Nat
                          /\ Cardinality(T) <= Cardinality(S)
                          /\ Cardinality(T) = 0 <=> T = {}
  BY FS_Subset, FS_CardinalityType, FS_EmptySet
<1>2. \A T \in SUBSET S : T # {} =>
         /\ T \ {choice[T]} \in SUBSET S
         /\ Cardinality(T \ {choice[T]}) = Cardinality(T) - 1
  BY <1>1, FS_RemoveElement
<1>3. Bad = {}
  <2> SUFFICES ASSUME Bad # {} PROVE FALSE
    OBVIOUS
  <2>0. Bad \in SUBSET Nat
    OBVIOUS
  <2>1. PICK m \in Bad : \A n \in Bad : m <= n
    <3> HIDE DEF Bad
    <3> QED BY <2>0, LeastNat
  <2>2. m \in Nat /\ ~\E f : Sums(f, m)
    BY <2>1
  <2>3. CASE m = 0
    <3> DEFINE f == [T \in Upto(0) |-> 0]
    <3>1. \A T \in Upto(0) : T = {}
      BY <1>1
    <3>2. f \in [Upto(0) -> Nat] /\ \A T \in Upto(0) : f[T] = 0
      OBVIOUS
    <3> HIDE DEF f
    <3>3. Sums(f, 0)
      BY <3>1, <3>2
    <3> QED BY <2>2, <2>3, <3>3
  <2>4. CASE m # 0
    <3>1. m - 1 \in Nat /\ m - 1 \notin Bad
      <4>1. m - 1 \in Nat /\ ~(m <= m - 1)
        BY <2>2, <2>4
      <4> HIDE DEF Bad
      <4> QED BY <2>1, <4>1
    <3>2. PICK f : Sums(f, m - 1)
      BY <3>1
    <3> DEFINE g == [T \in Upto(m) |->
                       IF T = {} THEN 0 ELSE w[choice[T]] + f[T \ {choice[T]}]]
    <3>3. ASSUME NEW T \in Upto(m), T # {}
          PROVE  T \ {choice[T]} \in Upto(m - 1) /\ choice[T] \in S
      <4>1. T \in SUBSET S /\ Cardinality(T) <= m /\ choice[T] \in T
        BY <3>3
      <4> DEFINE U == T \ {choice[T]}
      <4>2. U \in SUBSET S /\ Cardinality(U) = Cardinality(T) - 1 /\ Cardinality(T) \in Nat
        BY <1>1, <1>2, <3>3, <4>1
      <4> HIDE DEF U
      <4>3. U \in Upto(m - 1)
        BY <2>2, <4>1, <4>2
      <4> QED BY <4>1, <4>3 DEF U
    <3>4. f \in [Upto(m - 1) -> Nat] /\
          \A T \in Upto(m - 1) :
             f[T] = IF T = {} THEN 0 ELSE w[choice[T]] + f[T \ {choice[T]}]
      BY <3>2
    <3>5. \A T \in Upto(m - 1) : T \in Upto(m)
      BY <1>1, <2>2
    <3> HIDE DEF Upto
    <3>6. \A T \in Upto(m) :
             g[T] = IF T = {} THEN 0 ELSE w[choice[T]] + f[T \ {choice[T]}]
      OBVIOUS
    <3>7. g \in [Upto(m) -> Nat]
      <4>1. \A T \in Upto(m) : T # {} => w[choice[T]] \in Nat /\ f[T \ {choice[T]}] \in Nat
        BY <3>3, <3>4
      <4>2. \A T \in Upto(m) : g[T] \in Nat
        BY <3>6, <4>1
      <4> QED BY <4>2
    <3>8. \A T \in Upto(m - 1) : g[T] = f[T]
      BY <3>4, <3>5, <3>6
    <3> HIDE DEF g
    <3>9. \A T \in Upto(m) :
             g[T] = IF T = {} THEN 0 ELSE w[choice[T]] + g[T \ {choice[T]}]
      BY <3>3, <3>6, <3>8
    <3>10. Sums(g, m)
      BY <3>7, <3>9
    <3> QED BY <2>2, <3>10
  <2> QED BY <2>3, <2>4
<1>4. Cardinality(S) \in Nat
  BY FS_CardinalityType
<1>5. PICK f : Sums(f, Cardinality(S))
  BY <1>3, <1>4
<1>6. Upto(Cardinality(S)) = SUBSET S
  BY <1>1
<1>7. f \in [SUBSET S -> Nat] /\
      \A T \in SUBSET S : f[T] = IF T = {} THEN 0 ELSE w[choice[T]] + f[T \ {choice[T]}]
  BY <1>5, <1>6
<1>8. f = Adding(S, w, choice, f)
  BY <1>7 DEF Adding
<1> QED BY <1>8

(* A number is the sum of the weights of a set's members.                  *)
AnyOf(S) == [T \in SUBSET S |-> CHOOSE x \in T : TRUE]
Adds(S, w, n) == \E f : f = Adding(S, w, AnyOf(S), f) /\ n = f[S]

LEMMA AddsGrows ==
  ASSUME NEW S, IsFiniteSet(S), NEW v \in [S -> Nat], NEW w \in [S -> Nat],
         \A i \in S : v[i] <= w[i], NEW m, NEW n, Adds(S, v, m), Adds(S, w, n)
  PROVE  m \in Nat /\ n \in Nat /\ m <= n
<1> DEFINE choice == AnyOf(S)
<1>1. \A T \in SUBSET S : T # {} => choice[T] \in T
  BY DEF AnyOf
<1>2. PICK f : f = Adding(S, v, choice, f) /\ m = f[S]
  BY DEF Adds
<1>3. PICK g : g = Adding(S, w, choice, g) /\ n = g[S]
  BY DEF Adds
<1> HIDE DEF choice
<1> DEFINE Bad == {k \in Nat : \E T \in SUBSET S :
                     /\ Cardinality(T) = k
                     /\ ~(f[T] \in Nat /\ g[T] \in Nat /\ f[T] <= g[T])}
<1>4. \A T \in SUBSET S : /\ IsFiniteSet(T) /\ Cardinality(T) \in Nat
                          /\ Cardinality(T) = 0 <=> T = {}
  BY FS_Subset, FS_CardinalityType, FS_EmptySet
<1>5. \A T \in SUBSET S : T # {} =>
         /\ T \ {choice[T]} \in SUBSET S
         /\ Cardinality(T \ {choice[T]}) = Cardinality(T) - 1
  BY <1>1, <1>4, FS_RemoveElement
<1>6. \A T \in SUBSET S : f[T] = IF T = {} THEN 0 ELSE v[choice[T]] + f[T \ {choice[T]}]
  <2> DEFINE h == Adding(S, v, choice, f)
  <2>1. \A T \in SUBSET S : h[T] = IF T = {} THEN 0 ELSE v[choice[T]] + f[T \ {choice[T]}]
    BY DEF Adding
  <2>2. f = h
    BY <1>2
  <2> HIDE DEF h
  <2> QED BY <2>1, <2>2
<1>7. \A T \in SUBSET S : g[T] = IF T = {} THEN 0 ELSE w[choice[T]] + g[T \ {choice[T]}]
  <2> DEFINE h == Adding(S, w, choice, g)
  <2>1. \A T \in SUBSET S : h[T] = IF T = {} THEN 0 ELSE w[choice[T]] + g[T \ {choice[T]}]
    BY DEF Adding
  <2>2. g = h
    BY <1>3
  <2> HIDE DEF h
  <2> QED BY <2>1, <2>2
<1>8. Bad = {}
  <2> SUFFICES ASSUME Bad # {} PROVE FALSE
    OBVIOUS
  <2>0. Bad \in SUBSET Nat
    OBVIOUS
  <2>1. PICK k \in Bad : \A j \in Bad : k <= j
    <3> HIDE DEF Bad
    <3> QED BY <2>0, LeastNat
  <2>2. PICK T \in SUBSET S :
          Cardinality(T) = k /\ ~(f[T] \in Nat /\ g[T] \in Nat /\ f[T] <= g[T])
    BY <2>1
  <2>3. T # {}
    <3>1. f[{}] = 0 /\ g[{}] = 0
      BY <1>6, <1>7
    <3>2. T = {} => f[T] = f[{}] /\ g[T] = g[{}]
      BY Zenon
    <3> QED BY <2>2, <3>1, <3>2
  <2> DEFINE U == T \ {choice[T]}
  <2>4. U \in SUBSET S /\ Cardinality(U) = k - 1 /\ k - 1 \in Nat
    <3>1. Cardinality(T) \in Nat /\ Cardinality(T) # 0 /\ Cardinality(T) = k
      BY <1>4, <2>2, <2>3
    <3>2. U \in SUBSET S /\ Cardinality(U) = Cardinality(T) - 1
      BY <1>5, <2>3
    <3> HIDE DEF U
    <3> QED BY <3>1, <3>2
  <2>5. k - 1 \notin Bad
    BY <2>1, <2>4
  <2>6. f[U] \in Nat /\ g[U] \in Nat /\ f[U] <= g[U]
    <3> HIDE DEF U
    <3> QED BY <2>4, <2>5
  <2>7. choice[T] \in S
    BY <1>1, <2>3
  <2>8. /\ f[T] = v[choice[T]] + f[U] /\ g[T] = w[choice[T]] + g[U]
        /\ v[choice[T]] \in Nat /\ w[choice[T]] \in Nat /\ v[choice[T]] <= w[choice[T]]
    BY <1>6, <1>7, <2>3, <2>7
  <2> HIDE DEF U
  <2> QED BY <2>2, <2>6, <2>8
<1>9. S \in SUBSET S /\ Cardinality(S) \in Nat
  BY FS_CardinalityType
<1>10. f[S] \in Nat /\ g[S] \in Nat /\ f[S] <= g[S]
  BY <1>8, <1>9
<1> QED BY <1>2, <1>3, <1>10

(* An estimate is such a sum.                                              *)
EstimatesAdd ==
  \A shown, S : IsFiniteSet(S) /\ (\A i \in S : SizeOf(shown[i]) \in Nat) =>
    Adds(S, [i \in S |-> SizeOf(shown[i])], Estimate(shown, S))

LEMMA EstimateAdds == EstimatesAdd
<1> SUFFICES ASSUME NEW shown, NEW S, IsFiniteSet(S), \A i \in S : SizeOf(shown[i]) \in Nat
             PROVE  Adds(S, [i \in S |-> SizeOf(shown[i])], Estimate(shown, S))
  BY DEF EstimatesAdd
<1> DEFINE w == [i \in S |-> SizeOf(shown[i])]
           choice == AnyOf(S)
           Body(f) == [T \in SUBSET S |->
                         IF T = {} THEN 0
                         ELSE LET x == CHOOSE x \in T : TRUE
                              IN  SizeOf(shown[x]) + f[T \ {x}]]
<1>1. w \in [S -> Nat] /\ \A T \in SUBSET S : T # {} => choice[T] \in T
  BY DEF AnyOf
<1>2. \A f : Body(f) = Adding(S, w, choice, f)
  <2> SUFFICES ASSUME NEW f PROVE Body(f) = Adding(S, w, choice, f)
    OBVIOUS
  <2>1. ASSUME NEW T \in SUBSET S, T # {}
        PROVE  (LET x == CHOOSE x \in T : TRUE IN SizeOf(shown[x]) + f[T \ {x}])
                 = w[choice[T]] + f[T \ {choice[T]}]
    <3>1. choice[T] = CHOOSE x \in T : TRUE
      BY DEF AnyOf
    <3>2. choice[T] \in S
      BY <1>1, <2>1
    <3>3. w[choice[T]] = SizeOf(shown[choice[T]])
      BY <3>2
    <3> HIDE DEF w, choice
    <3> QED BY <3>1, <3>3
  <2> QED BY <2>1 DEF Adding
<1>3. \E f : f = Body(f)
  <2>1. \E f : f = Adding(S, w, choice, f)
    <3> HIDE DEF w, choice
    <3> QED BY <1>1, SumExists
  <2> QED BY <1>2, <2>1
<1> DEFINE sum == CHOOSE f : f = Body(f)
<1>4. sum = Body(sum)
  <2> HIDE DEF Body
  <2> QED BY <1>3
<1>5. Estimate(shown, S) = sum[S]
  BY DEF Estimate, MapThenSumSet, MapThenFoldSet
<1> HIDE DEF sum
<1>6. sum = Adding(S, w, choice, sum)
  BY <1>2, <1>4
<1>7. Adds(S, w, sum[S])
  <2> HIDE DEF w
  <2> QED BY <1>6 DEF Adds
<1> QED BY <1>5, <1>7

LEMMA SizesAdd ==
  ASSUME NEW shown, NEW S, IsFiniteSet(S), \A i \in S : SizeOf(shown[i]) \in Nat
  PROVE  Estimate(shown, S) \in Nat
<1> DEFINE w == [i \in S |-> SizeOf(shown[i])]
<1>1. Adds(S, w, Estimate(shown, S))
  BY EstimateAdds DEF EstimatesAdd
<1>2. w \in [S -> Nat] /\ \A i \in S : w[i] <= w[i]
  OBVIOUS
<1> HIDE DEF w
<1> QED BY <1>1, <1>2, AddsGrows

-----------------------------------------------------------------------------
(* The measure                                                             *)

ShownPlaces == \A r : DOMAIN Shown(r) = Uncovered(r) \cup Firsts(r)
LEMMA ShownAtPlaces == ShownPlaces
BY ShownIs DEF ShownPlaces

(* What is shown of a reading is shown of it when the log is longer.       *)
LEMMA ShownStays ==
  ASSUME LogSound, Grows, NEW n \in 0 .. Len(log)
  PROVE  (DOMAIN Shown(Reading(1 .. n, {})))' = DOMAIN Shown(Reading(1 .. n, {}))
<1> DEFINE r == Reading(1 .. n, {})
<1>1. IsSeq(log) /\ n \in Nat /\ Len(log) \in Nat
  BY LogPlaces DEF LogSound
<1>2. r.seen = 1 .. n
  BY ReadingIs
<1>3. \A i \in 1 .. n : log'[i] = log[i]
  BY <1>1, GrownIs
<1>4. Of(r, "summary") = {i \in 1 .. n : log[i].kind = "summary"}
  BY <1>2 DEF Of
<1>5. Of(r, "summary")' = {i \in 1 .. n : log'[i].kind = "summary"}
  BY <1>2 DEF Of, Reading
<1>6. Of(r, "summary")' = Of(r, "summary") /\ Of(r, "summary") \subseteq 1 .. n
  BY <1>3, <1>4, <1>5
<1>7. ASSUME NEW i
      PROVE  Covering(r, i)' = Covering(r, i)
  <2> DEFINE S == {s \in Of(r, "summary") : log[s].from <= i /\ i <= log[s].to}
             T == {s \in Of(r, "summary")' : log'[s].from <= i /\ i <= log'[s].to}
  <2>1. S = T
    <3> HIDE DEF r
    <3> QED BY <1>3, <1>6
  <2>2. Covering(r, i) = LastOf(S)
    BY DEF Covering
  <2>3. Covering(r, i)' = LastOf(T)
    BY DEF Covering, Reading
  <2> HIDE DEF S, T, r
  <2> QED BY <2>1, <2>2, <2>3
<1>8. DOMAIN Shown(r) = Uncovered(r) \cup Firsts(r)
  BY ShownIs
<1>9. (DOMAIN Shown(r))' = Uncovered(r)' \cup Firsts(r)'
  <2>1. ShownPlaces'
    BY ShownAtPlaces, PTL
  <2>2. (\A q : DOMAIN Shown(q) = Uncovered(q) \cup Firsts(q))'
    BY <2>1 DEF ShownPlaces
  <2> QED BY <2>2
<1>10. Uncovered(r) = {i \in 1 .. n : Covering(r, i) = 0 /\ log[i].kind \in Messages}
  BY <1>2 DEF Uncovered
<1>11. Uncovered(r)' = {i \in 1 .. n : Covering(r, i)' = 0 /\ log'[i].kind \in Messages}
  BY <1>2 DEF Uncovered, Reading
<1>12. Firsts(r) = {i \in 1 .. n : /\ Covering(r, i) # 0
                                   /\ ~\E j \in 1 .. n : j < i /\ Covering(r, j) = Covering(r, i)}
  BY <1>2 DEF Firsts
<1>13. Firsts(r)' = {i \in 1 .. n : /\ Covering(r, i)' # 0
                                    /\ ~\E j \in 1 .. n : j < i /\ Covering(r, j)' = Covering(r, i)'}
  BY <1>2 DEF Firsts, Reading
<1> HIDE DEF r
<1>14. Uncovered(r)' = Uncovered(r)
  BY <1>3, <1>7, <1>10, <1>11
<1>15. Firsts(r)' = Firsts(r)
  BY <1>7, <1>12, <1>13
<1>16. (DOMAIN Shown(r))' = DOMAIN Shown(r)
  BY <1>8, <1>9, <1>14, <1>15
<1> QED BY <1>16 DEF r

(* Everything that is shown has a size.                                    *)
LEMMA EventSize ==
  ASSUME LogSound, NEW i \in DOMAIN log, log[i].kind \in Messages \cup {"summary"}
  PROVE  FullSize(i) \in Nat
<1>1. EventSound(log[i])
  BY DEF LogSound
<1>2. CASE log[i].kind = "user"
  BY <1>1, <1>2 DEF EventSound, FullSize
<1>3. CASE log[i].kind = "reply"
  <2>1. log[i].tool # None => ArgsOf[log[i].tool] \in Nat
    BY <1>1, <1>3, SizesAssumption DEF EventSound
  <2> QED BY <1>3, <2>1 DEF FullSize
<1>4. CASE log[i].kind = "result"
  <2>1. ResultOf[log[i].tool] \in Nat
    BY <1>1, <1>4, SizesAssumption DEF EventSound
  <2> QED BY <1>4, <2>1 DEF FullSize
<1>5. CASE log[i].kind = "summary"
  BY <1>1, <1>5 DEF EventSound, FullSize
<1> QED BY <1>2, <1>3, <1>4, <1>5 DEF Messages

LEMMA ShownSizes ==
  ASSUME LogSound, ChainInv
  PROVE  LET shown == Shown(Now)
         IN  /\ DOMAIN shown \subseteq 1 .. Len(log)
             /\ IsFiniteSet(DOMAIN shown) /\ Cardinality(DOMAIN shown) \in Nat
             /\ Estimate(shown, DOMAIN shown) \in Nat
<1> DEFINE shown == Shown(Now)
<1>1. IsSeq(log) /\ DOMAIN log = 1 .. Len(log) /\ Len(log) \in Nat
  BY LogPlaces DEF LogSound
<1>2. /\ DOMAIN shown = Uncovered(Now) \cup Firsts(Now)
      /\ \A i \in Uncovered(Now) : shown[i].of = i /\ shown[i].form = FormOf(Now, i)
      /\ \A i \in Firsts(Now) : shown[i].of = Covering(Now, i) /\ shown[i].form = "summary"
  BY ShownRead
<1>3. DOMAIN shown \subseteq 1 .. Len(log)
  BY <1>1, <1>2, NowIs DEF Uncovered, Firsts
<1>4. IsFiniteSet(DOMAIN shown)
  <2>1. IsFiniteSet(1 .. Len(log))
    BY <1>1, FS_Interval
  <2> HIDE DEF shown
  <2> QED BY <1>3, <2>1, FS_Subset
<1>5. Cardinality(DOMAIN shown) \in Nat
  BY <1>4, FS_CardinalityType
<1> HIDE DEF shown
<1>6. ASSUME NEW i \in DOMAIN shown
      PROVE  FullSize(shown[i].of) \in Nat
  <2>1. CASE i \in Uncovered(Now)
    <3>1. i \in DOMAIN log /\ log[i].kind \in Messages
      BY <2>1, NowIs DEF Uncovered
    <3> QED BY <1>2, <2>1, <3>1, EventSize
  <2>2. CASE i \in Firsts(Now)
    <3>1. Covering(Now, i) # 0
      BY <2>2 DEF Firsts
    <3>2. Covering(Now, i) \in DOMAIN log /\ log[Covering(Now, i)].kind = "summary"
      BY <1>1, <3>1, CoverNow, NowIs DEF Summaries
    <3>3. FullSize(Covering(Now, i)) \in Nat
      BY <3>2, EventSize
    <3> QED BY <1>2, <2>2, <3>3
  <2> QED BY <1>2, <2>1, <2>2
<1>7. \A i \in DOMAIN shown : SizeOf(shown[i]) \in Nat
  BY <1>6, SizesAssumption DEF SizeOf, Least
<1>8. Estimate(shown, DOMAIN shown) \in Nat
  BY <1>4, <1>7, SizesAdd
<1> QED BY <1>3, <1>4, <1>5, <1>8 DEF shown

(* The measure is kept while nothing rewrites the context.                 *)
LEMMA MeasureStaysSound ==
  ASSUME LogSound, MeasureSound, Grows, UNCHANGED measured,
         \A i \in NewPlaces : log'[i].kind \notin Marks
  PROVE  MeasureSound'
<1> SUFFICES ASSUME measured # None PROVE MeasureSound'
  BY DEF MeasureSound
<1>1. IsSeq(log)
  BY DEF LogSound
<1>2. /\ measured.prompt \in Nat /\ measured.len \in Nat /\ measured.reminded \in BOOLEAN
      /\ measured.at \in 0 .. Len(log)
      /\ \A i \in DOMAIN log : i > measured.at => log[i].kind \notin Marks
      /\ measured.at \in DOMAIN log => ~Calls(measured.at)
  BY DEF MeasureSound
<1>3. ~measured.reminded =>
         measured.len = Cardinality(DOMAIN Shown(Reading(1 .. measured.at, {})))
  BY DEF MeasureSound
<1>4. PICK n \in 0 .. Len(log) : n = measured.at
  BY <1>2
<1>5. /\ Len(log) \in Nat /\ Len(log') \in Nat /\ Len(log) <= Len(log')
      /\ DOMAIN log = 1 .. Len(log) /\ DOMAIN log' = DOMAIN log \cup NewPlaces
      /\ \A i \in NewPlaces : i \in Nat /\ i > Len(log)
      /\ \A i \in DOMAIN log : log'[i] = log[i]
  BY <1>1, GrownIs
<1>6. measured' = measured
  OBVIOUS
<1>7. measured'.at \in 0 .. Len(log')
  BY <1>2, <1>5, <1>6
<1>8. \A i \in DOMAIN log' : i > measured'.at => log'[i].kind \notin Marks
  BY <1>2, <1>5, <1>6
<1>9. measured'.at \in DOMAIN log' => measured.at \in DOMAIN log
  BY <1>2, <1>5, <1>6
<1>10. measured'.at \in DOMAIN log' => ~Calls(measured.at)'
  BY <1>2, <1>5, <1>6, <1>9 DEF Calls
<1>11. DOMAIN Shown(Reading(1 .. n, {})) = (DOMAIN Shown(Reading(1 .. n, {})))'
  BY ShownStays
<1>12. (~measured.reminded =>
          measured.len = Cardinality(DOMAIN Shown(Reading(1 .. measured.at, {}))))'
  <2>1. (DOMAIN Shown(Reading(1 .. n, {})))' = (DOMAIN Shown(Reading(1 .. measured.at, {})))'
    <3>1. n = measured'.at
      BY <1>4, <1>6
    <3> QED BY <3>1
  <2>2. DOMAIN Shown(Reading(1 .. n, {})) = DOMAIN Shown(Reading(1 .. measured.at, {}))
    BY <1>4
  <2>3. (~measured.reminded)' =>
          measured'.len = Cardinality((DOMAIN Shown(Reading(1 .. measured.at, {})))')
    BY <1>3, <1>6, <1>11, <2>1, <2>2
  <2> QED BY <2>3
<1> QED BY <1>2, <1>6, <1>7, <1>8, <1>10, <1>12 DEF MeasureSound

(* A call is counted, and its reply is appended.                           *)
LEMMA AskedIsMeasured ==
  ASSUME LogSound, PairsSound, ChainInv, SettingsSound, Grows, Asked, pc # "call",
         \A i \in NewPlaces : log'[i].kind \notin Marks
  PROVE  MeasureSound' /\ ratio' \in Ratios
<1>1. IsSeq(log)
  BY DEF LogSound
<1>2. CASE measured' = None /\ UNCHANGED ratio
  BY <1>2 DEF MeasureSound, SettingsSound
<1>3. ASSUME NEW sample \in Ratios, NEW reminded \in BOOLEAN,
             LET shown == Shown(Now)
             IN  measured' = [prompt |-> ((Estimate(shown, DOMAIN shown) + Overhead) * sample) \div 100,
                              len |-> Cardinality(DOMAIN shown) + (IF reminded THEN 1 ELSE 0),
                              at |-> Len(log), reminded |-> reminded],
             ratio' \in Ratios
      PROVE  MeasureSound' /\ ratio' \in Ratios
  <2> DEFINE shown == Shown(Now)
             total == Estimate(shown, DOMAIN shown)
  <2>1. total \in Nat /\ Cardinality(DOMAIN shown) \in Nat
    BY ShownSizes
  <2>2. /\ measured'.prompt = ((total + Overhead) * sample) \div 100
        /\ measured'.len = Cardinality(DOMAIN shown) + (IF reminded THEN 1 ELSE 0)
        /\ measured'.at = Len(log) /\ measured'.reminded = reminded
    BY <1>3
  <2> HIDE DEF total
  <2>3. measured'.prompt \in Nat
    <3>1. sample \in Nat /\ total + Overhead \in Nat
      BY <2>1, SizesAssumption
    <3>2. \A x, y \in Nat : x * y \in Nat
      OBVIOUS
    <3>3. (total + Overhead) * sample \in Nat
      BY <3>1, <3>2
    <3>4. \A x \in Nat : x \div 100 \in Nat
      OBVIOUS
    <3> QED BY <2>2, <3>3, <3>4
  <2>4. measured'.len \in Nat /\ measured'.reminded \in BOOLEAN
        /\ (~measured'.reminded => measured'.len = Cardinality(DOMAIN shown))
    BY <2>1, <2>2
  <2>5. /\ Len(log) \in Nat /\ Len(log') \in Nat /\ Len(log) <= Len(log')
        /\ DOMAIN log = 1 .. Len(log) /\ DOMAIN log' = DOMAIN log \cup NewPlaces
        /\ \A i \in NewPlaces : i \in Nat /\ i > Len(log)
        /\ \A i \in DOMAIN log : log'[i] = log[i]
    BY <1>1, GrownIs
  <2>6. measured'.at \in 0 .. Len(log')
        /\ \A i \in DOMAIN log' : i > measured'.at => log'[i].kind \notin Marks
    BY <2>2, <2>5
  <2>7. PICK n \in 0 .. Len(log) : n = Len(log)
    <3>1. Len(log) \in Nat
      BY <2>5
    <3> QED BY <3>1
  <2>8. (measured.at \in DOMAIN log => ~Calls(measured.at))'
    <3>1. Len(log) + 1 \notin DOMAIN log
      BY <2>5
    <3>2. Len(log) \in DOMAIN log => ~Calls(Len(log))
      BY <3>1 DEF PairsSound
    <3>3. n \in DOMAIN log' => n \in DOMAIN log
      BY <2>5, <2>7
    <3>4. n \in DOMAIN log' => ~Calls(n)'
      BY <2>5, <2>7, <3>2, <3>3 DEF Calls
    <3>5. measured'.at = n
      BY <2>2, <2>7
    <3> QED BY <3>4, <3>5 DEF Calls
  <2>9. (~measured.reminded =>
           measured.len = Cardinality(DOMAIN Shown(Reading(1 .. measured.at, {}))))'
    <3>1. (DOMAIN Shown(Reading(1 .. n, {})))' = DOMAIN Shown(Reading(1 .. n, {}))
      BY ShownStays
    <3>2. (DOMAIN Shown(Reading(1 .. n, {})))' = (DOMAIN Shown(Reading(1 .. measured.at, {})))'
      <4>1. n = measured'.at
        BY <2>2, <2>7
      <4> QED BY <4>1
    <3>3. DOMAIN Shown(Reading(1 .. n, {})) = DOMAIN shown
      <4>1. Now = Reading(1 .. n, {})
        BY <2>5, <2>7 DEF Now
      <4> QED BY <4>1
    <3>4. (~measured.reminded)' =>
            measured'.len = Cardinality((DOMAIN Shown(Reading(1 .. measured.at, {})))')
      BY <2>4, <3>1, <3>2, <3>3
    <3> QED BY <3>4
  <2>10. MeasureSound'
    BY <2>3, <2>4, <2>6, <2>8, <2>9 DEF MeasureSound
  <2> QED BY <1>3, <2>10
<1>4. ASSUME NEW sample \in Ratios, NEW reminded \in BOOLEAN,
             ratio' \in {x \in Ratios : Between(x, ratio, sample)}
      PROVE  ratio' \in Ratios
  BY <1>4
<1> QED BY <1>2, <1>3, <1>4 DEF Asked

-----------------------------------------------------------------------------
(* The invariant holds from the start                                      *)

LEMMA CompactInit == Init => CompactInv
<1> SUFFICES ASSUME Init PROVE CompactInv
  OBVIOUS
<1>1. /\ log = <<>> /\ pc = "idle" /\ settings \in Settings
      /\ ratio = 100 /\ measured = None /\ range = None /\ oddities = 0
  BY DEF Init
<1>2. IsSeq(log) /\ DOMAIN log = {} /\ Len(log) = 0
  <2>1. <<>> \in Seq({})
    OBVIOUS
  <2>2. IsSeq(<<>>)
    BY <2>1, SeqSelf
  <2> QED BY <1>1, <2>2
<1>3. LogSound /\ PairsSound
  BY <1>1, <1>2 DEF LogSound, PairsSound
<1>4. TurnSound
  BY <1>1 DEF TurnSound, InTurn
<1>5. \A kind : Of(Now, kind) = {}
  BY <1>2, NowIs
<1>6. ChainInv /\ BatchesSound
  BY <1>5 DEF ChainInv, Summaries, BatchesSound
<1>7. RangeSound /\ MeasureSound
  BY <1>1 DEF RangeSound, MeasureSound
<1>8. SettingsSound
  BY <1>1, SizesAssumption, BoundsAssumption DEF SettingsSound
<1> QED BY <1>3, <1>4, <1>6, <1>7, <1>8 DEF CompactInv

(* What the invariant has to say about a place that a batch reaches.       *)
LEMMA BatchReaches ==
  ASSUME LogSound, BatchesSound, LastEnd(Now) > BatchedThrough
  PROVE  LastEnd(Now) \in Ends
<1> DEFINE T == {log[b].through : b \in Of(Now, "stubbed")}
<1>1. IsSeq(log) /\ DOMAIN log = 1 .. Len(log) /\ Len(log) \in Nat
  BY LogPlaces DEF LogSound
<1>2. Ends \subseteq 1 .. Len(log)
  BY <1>1, NowIs DEF Ends
<1>3. T \in SUBSET (1 .. Len(log))
  BY <1>2 DEF BatchesSound
<1>4. BatchedThrough \in 0 .. Len(log)
  <2> HIDE DEF T
  <2>1. LastOf(T) \in 0 .. Len(log)
    BY <1>1, <1>3, LastIs
  <2> QED BY <2>1 DEF BatchedThrough, T
<1>5. LastEnd(Now) \in 0 .. Len(log) /\ (LastEnd(Now) # 0 => LastEnd(Now) \in Ends)
  BY <1>1, LastEndIs
<1> QED BY <1>1, <1>4, <1>5

-----------------------------------------------------------------------------
(* ... and every step keeps it                                             *)

(* What the log's parts of the invariant become, whatever is appended, as  *)
(* long as it is no call, no result and no summary.                        *)
LEMMA LogPartsKept ==
  ASSUME CompactInv, Grows, pc # "call", pc' # "call",
         \A i \in NewPlaces :
           /\ EventSound(log'[i])
           /\ log'[i].kind \notin {"result", "summary"}
           /\ ~(log'[i].kind = "reply" /\ log'[i].tool # None)
           /\ log'[i].kind = "stubbed" => log'[i].through \in Ends
  PROVE  LogSound' /\ PairsSound' /\ ChainInv' /\ BatchesSound'
<1>1. LogSound /\ PairsSound /\ ChainInv /\ BatchesSound
  BY DEF CompactInv
<1>2. LogSound'
  BY <1>1, LogStaysSound
<1>3. \A i \in NewPlaces : log'[i].kind # "result" /\ ~Calls(i)'
  BY DEF Calls
<1>4. PairsSound'
  BY <1>1, <1>3, PairsStaySound
<1>5. ChainInv'
  BY <1>1, ChainStaysSound
<1>6. BatchesSound'
  BY <1>1, BatchesStaySound
<1> QED BY <1>2, <1>4, <1>5, <1>6

(* An event is written, as far as it is no call, no result, no summary.    *)
LEMMA Written ==
  ASSUME CompactInv, NEW e, Write(e), pc # "call", pc' # "call", EventSound(e),
         e.kind \notin {"result", "summary"}, ~(e.kind = "reply" /\ e.tool # None),
         e.kind = "stubbed" => e.through \in Ends
  PROVE  /\ LogSound' /\ PairsSound' /\ ChainInv' /\ BatchesSound'
         /\ Grows /\ \A i \in NewPlaces : log'[i].kind # "summary"
         /\ measured' = None \/ (e.kind \notin Marks /\ UNCHANGED measured) => MeasureSound'
         /\ e.kind # "ended" /\ (TurnOpen \/ e.kind = "user") => TurnOpen'
<1>1. LogSound /\ MeasureSound
  BY DEF CompactInv
<1>2. Grows /\ NewPlaces = {Len(log) + 1} /\ log'[Len(log) + 1] = e
  BY <1>1, GetsOne DEF LogSound
<1>3. \A i \in NewPlaces : log'[i] = e
  BY <1>2
<1>4. LogSound' /\ PairsSound' /\ ChainInv' /\ BatchesSound'
  BY <1>2, <1>3, LogPartsKept
<1>5. ASSUME measured' = None \/ (e.kind \notin Marks /\ UNCHANGED measured)
      PROVE  MeasureSound'
  <2>1. CASE measured' = None
    BY <2>1 DEF MeasureSound
  <2>2. CASE e.kind \notin Marks /\ UNCHANGED measured
    BY <1>1, <1>2, <1>3, <2>2, MeasureStaysSound
  <2> QED BY <1>5, <2>1, <2>2
<1>6. ASSUME e.kind # "ended", TurnOpen \/ e.kind = "user"
      PROVE  TurnOpen'
  <2>1. \A i \in NewPlaces : log'[i].kind # "ended"
    BY <1>3, <1>6
  <2>2. CASE TurnOpen
    BY <1>1, <1>2, <2>1, <2>2, TurnStaysOpen
  <2>3. CASE e.kind = "user"
    <3>1. \E i \in NewPlaces : log'[i].kind = "user"
      BY <1>2, <2>3
    <3> QED BY <1>1, <1>2, <2>1, <3>1, MessageOpens
  <2> QED BY <1>6, <2>2, <2>3
<1>7. \A i \in NewPlaces : log'[i].kind # "summary"
  BY <1>3
<1> QED BY <1>2, <1>4, <1>5, <1>6, <1>7

(* Nothing is written.                                                     *)
LEMMA Unwritten ==
  ASSUME CompactInv, log' = log, pc # "call", pc' # "call"
  PROVE  /\ LogSound' /\ PairsSound' /\ ChainInv' /\ BatchesSound'
         /\ Grows /\ NewPlaces = {}
         /\ measured' = None \/ UNCHANGED measured => MeasureSound'
         /\ TurnOpen => TurnOpen'
<1>1. LogSound /\ MeasureSound
  BY DEF CompactInv
<1>2. Grows /\ NewPlaces = {}
  BY <1>1, Stays DEF LogSound
<1>3. LogSound' /\ PairsSound' /\ ChainInv' /\ BatchesSound'
  BY <1>2, LogPartsKept
<1>4. measured' = None => MeasureSound'
  BY DEF MeasureSound
<1>5. UNCHANGED measured => MeasureSound'
  BY <1>1, <1>2, MeasureStaysSound
<1>6. TurnOpen => TurnOpen'
  BY <1>1, <1>2, TurnStaysOpen
<1> QED BY <1>2, <1>3, <1>4, <1>5, <1>6

(* A summary is written, of the range and with the range's words.          *)
LEMMA SummaryIsWritten ==
  ASSUME CompactInv, pc # "call", pc' # "call",
         ReachesFurther(range), range[1] = 0 \/ IsNextLink(range),
         AppendSummary(range[1], range[2], Said(range[1], range[2]))
  PROVE  /\ LogSound' /\ PairsSound' /\ ChainInv' /\ BatchesSound' /\ MeasureSound'
         /\ TurnOpen => TurnOpen'
<1>1. LogSound /\ PairsSound /\ ChainInv /\ BatchesSound
  BY DEF CompactInv
<1>2. /\ range[1] \in Nat /\ range[2] \in Ends /\ range[1] <= range[2] /\ range[2] \in Nat
      /\ \A s \in Summaries : log[s].to < range[2]
  BY DEF ReachesFurther
<1>3. PICK from \in Nat, to \in Ends : from = range[1] /\ to = range[2]
  BY <1>2
<1>4. PICK size \in 1 .. Cap : Write(Summary(from, to, Said(from, to), size))
  BY <1>3 DEF AppendSummary
<1> DEFINE e == Summary(from, to, Said(from, to), size)
<1>5. Grows /\ NewPlaces = {Len(log) + 1} /\ log'[Len(log) + 1] = e
  BY <1>1, <1>4, GetsOne DEF LogSound
<1>6. /\ e.kind = "summary" /\ e.size = size /\ e.from = from /\ e.to = to
  BY DEF Summary
<1>7. EventSound(e)
  <2>1. size \in Nat /\ to \in Nat
    BY <1>2, <1>3, SizesAssumption
  <2> HIDE DEF e
  <2> QED BY <1>6, <2>1 DEF EventSound, Marks
<1> HIDE DEF e
<1>8. \A i \in NewPlaces : log'[i] = e
  BY <1>5
<1>9. LogSound'
  BY <1>1, <1>5, <1>7, <1>8, LogStaysSound
<1>10. PairsSound'
  <2>1. \A i \in NewPlaces : log'[i].kind # "result" /\ ~Calls(i)'
    BY <1>6, <1>8 DEF Calls
  <2> QED BY <1>1, <1>5, <2>1, PairsStaySound
<1>11. ChainInv'
  <2>1. from <= to /\ \A s \in Summaries : log[s].to < to
    BY <1>2, <1>3
  <2>2. \/ from = 0
        \/ /\ \E s \in Summaries : from = log[s].to + 1
           /\ \A s \in Summaries : log[s].to < from
    BY <1>3 DEF IsNextLink
  <2> QED BY <1>1, <1>4, <2>1, <2>2, ChainGetsLonger
<1>12. BatchesSound'
  BY <1>1, <1>5, <1>6, <1>8, BatchesStaySound
<1>13. MeasureSound'
  BY DEF AppendSummary, MeasureSound
<1>14. TurnOpen => TurnOpen'
  BY <1>1, <1>5, <1>6, <1>8, TurnStaysOpen
<1> QED BY <1>9, <1>10, <1>11, <1>12, <1>13, <1>14

(* No summary is being written, or one of a range that was found.          *)
LEMMA NoRange ==
  ASSUME range' = None, pc' \notin {"link", "cut", "ask"}
  PROVE  RangeSound'
BY DEF RangeSound

LEMMA RangeIsFound ==
  ASSUME CompactInv, Grows, \A i \in NewPlaces : log'[i].kind # "summary",
         NEW rg, range' = rg, rg # None, pc' \in {"link", "cut", "ask"}, ReachesFurther(rg),
         rg[1] = 0 \/ (pc' = "link" /\ IsNextLink(rg))
  PROVE  RangeSound'
<1>1. ReachesFurther(rg)' /\ (rg[1] = 0 \/ (pc' = "link" /\ IsNextLink(rg)'))
  BY RangeStays DEF CompactInv
<1>2. ReachesFurther(range)'
  BY <1>1 DEF ReachesFurther
<1>3. range'[1] = 0 \/ (pc' = "link" /\ IsNextLink(range)')
  BY <1>1 DEF IsNextLink
<1> QED BY <1>2, <1>3 DEF RangeSound

(* What a step finds: no range before the rules ask for one, and a turn.   *)
LEMMA Found ==
  ASSUME CompactInv
  PROVE  /\ pc \notin {"link", "cut", "ask"} => range = None
         /\ pc \in {"link", "cut", "ask"} =>
              /\ range # None /\ ReachesFurther(range)
              /\ range[1] = 0 \/ (pc = "link" /\ IsNextLink(range))
         /\ pc \in InTurn => TurnOpen
         /\ settings \in Settings /\ ratio \in Ratios /\ oddities \in 0 .. MaxOddities
BY DEF CompactInv, RangeSound, TurnSound, SettingsSound

LEMMA PostKeeps == CompactInv /\ Post => CompactInv'
<1> SUFFICES ASSUME CompactInv, Post PROVE CompactInv'
  OBVIOUS
<1>1. PICK size \in Posts : Write(User(size))
  BY DEF Post
<1>2. pc = "idle" /\ pc' = "top" /\ UNCHANGED <<settings, ratio, measured, range, oddities>>
  BY DEF Post
<1>3. EventSound(User(size)) /\ User(size).kind = "user"
  BY SizesAssumption DEF EventSound, User, Messages
<1>4. /\ LogSound' /\ PairsSound' /\ ChainInv' /\ BatchesSound' /\ MeasureSound' /\ TurnOpen'
  BY <1>1, <1>2, <1>3, Written DEF Marks
<1>5. RangeSound'
  BY <1>2, Found, NoRange
<1>6. SettingsSound' /\ TurnSound'
  BY <1>2, <1>4, Found DEF SettingsSound, TurnSound, InTurn
<1> QED BY <1>4, <1>5, <1>6 DEF CompactInv

LEMMA SteerKeeps == CompactInv /\ Steer => CompactInv'
<1> SUFFICES ASSUME CompactInv, Steer PROVE CompactInv'
  OBVIOUS
<1>1. PICK size \in Posts : Write(User(size))
  BY DEF Steer
<1>2. pc = "top" /\ pc' = "top" /\ UNCHANGED <<settings, ratio, measured, range, oddities>>
  BY DEF Steer
<1>3. EventSound(User(size)) /\ User(size).kind = "user"
  BY SizesAssumption DEF EventSound, User, Messages
<1>4. /\ LogSound' /\ PairsSound' /\ ChainInv' /\ BatchesSound' /\ MeasureSound' /\ TurnOpen'
  BY <1>1, <1>2, <1>3, Written DEF Marks
<1>5. RangeSound'
  BY <1>2, Found, NoRange
<1>6. SettingsSound' /\ TurnSound'
  BY <1>2, <1>4, Found DEF SettingsSound, TurnSound, InTurn
<1> QED BY <1>4, <1>5, <1>6 DEF CompactInv

LEMMA EndAtTopKeeps == CompactInv /\ EndAtTop => CompactInv'
<1> SUFFICES ASSUME CompactInv, EndAtTop PROVE CompactInv'
  OBVIOUS
<1>1. /\ Write(Ended) /\ pc = "top" /\ pc' = "idle"
      /\ UNCHANGED <<settings, ratio, measured, range, oddities>>
  BY DEF EndAtTop
<1>2. EventSound(Ended) /\ Ended.kind = "ended"
  BY DEF EventSound, Ended
<1>3. /\ LogSound' /\ PairsSound' /\ ChainInv' /\ BatchesSound' /\ MeasureSound'
  BY <1>1, <1>2, Written DEF Marks
<1>4. RangeSound'
  BY <1>1, Found, NoRange
<1>5. SettingsSound' /\ TurnSound'
  BY <1>1, Found DEF SettingsSound, TurnSound, InTurn
<1> QED BY <1>3, <1>4, <1>5 DEF CompactInv

(* The seam's four outcomes.                                               *)
LEMMA BatchKeeps == CompactInv /\ pc = "top" /\ BatchDue /\ BatchStale => CompactInv'
<1> SUFFICES ASSUME CompactInv, pc = "top", BatchDue, BatchStale PROVE CompactInv'
  OBVIOUS
<1> DEFINE e == Stubbed(LastEnd(Now))
<1>1. /\ Write(e) /\ measured' = None /\ UNCHANGED <<settings, ratio, oddities>>
      /\ \/ range' = None /\ pc' = "net"
         \/ range' \in LinkOfBatch /\ pc' = "link"
  BY DEF BatchStale
<1>2. LastEnd(Now) \in Ends
  BY BatchReaches DEF BatchDue, CompactInv
<1>3. e.kind = "stubbed" /\ e.through = LastEnd(Now)
  BY DEF Stubbed
<1> HIDE DEF e
<1>4. EventSound(e)
  BY <1>3 DEF EventSound, Marks
<1>5. TurnOpen
  BY Found DEF InTurn
<1>6. /\ LogSound' /\ PairsSound' /\ ChainInv' /\ BatchesSound' /\ MeasureSound' /\ TurnOpen'
      /\ Grows /\ \A i \in NewPlaces : log'[i].kind # "summary"
  BY <1>1, <1>2, <1>3, <1>4, <1>5, Written
<1>7. RangeSound'
  <2>1. CASE range' = None /\ pc' = "net"
    BY <2>1, NoRange
  <2>2. CASE range' \in LinkOfBatch /\ pc' = "link"
    <3>1. PICK rg \in LinkOfBatch : range' = rg
      BY <2>2
    <3>2. ReachesFurther(rg) /\ (rg[1] = 0 \/ IsNextLink(rg)) /\ rg # None
      BY LinkIs DEF CompactInv
    <3> QED BY <1>6, <2>2, <3>1, <3>2, RangeIsFound
  <2> QED BY <1>1, <2>1, <2>2
<1>8. SettingsSound' /\ TurnSound'
  BY <1>1, <1>6, Found DEF SettingsSound, TurnSound, InTurn
<1> QED BY <1>6, <1>7, <1>8 DEF CompactInv

LEMMA EvictKeeps == CompactInv /\ pc = "top" /\ EvictStale => CompactInv'
<1> SUFFICES ASSUME CompactInv, pc = "top", EvictStale PROVE CompactInv'
  OBVIOUS
<1> DEFINE e == Evicted(NthCall(SweepDepth))
<1>1. /\ Write(e) /\ measured' = None /\ pc' = "net"
      /\ UNCHANGED <<settings, ratio, range, oddities>>
  BY DEF EvictStale
<1>2. e.kind = "evicted"
  BY DEF Evicted
<1> HIDE DEF e
<1>3. EventSound(e)
  BY <1>2 DEF EventSound, Marks
<1>4. TurnOpen
  BY Found DEF InTurn
<1>5. /\ LogSound' /\ PairsSound' /\ ChainInv' /\ BatchesSound' /\ MeasureSound' /\ TurnOpen'
  BY <1>1, <1>2, <1>3, <1>4, Written
<1>6. RangeSound'
  BY <1>1, Found, NoRange
<1>7. SettingsSound' /\ TurnSound'
  BY <1>1, <1>5, Found DEF SettingsSound, TurnSound, InTurn
<1> QED BY <1>5, <1>6, <1>7 DEF CompactInv

LEMMA SaturatedKeeps == CompactInv /\ pc = "top" /\ SaySaturated => CompactInv'
<1> SUFFICES ASSUME CompactInv, pc = "top", SaySaturated PROVE CompactInv'
  OBVIOUS
<1>1. /\ Write(Saturated) /\ pc' = "net"
      /\ UNCHANGED <<settings, ratio, measured, range, oddities>>
  BY DEF SaySaturated
<1>2. EventSound(Saturated) /\ Saturated.kind = "saturated"
  BY DEF EventSound, Saturated
<1>3. TurnOpen
  BY Found DEF InTurn
<1>4. /\ LogSound' /\ PairsSound' /\ ChainInv' /\ BatchesSound' /\ MeasureSound' /\ TurnOpen'
  BY <1>1, <1>2, <1>3, Written DEF Marks
<1>5. RangeSound'
  BY <1>1, Found, NoRange
<1>6. SettingsSound' /\ TurnSound'
  BY <1>1, <1>4, Found DEF SettingsSound, TurnSound, InTurn
<1> QED BY <1>4, <1>5, <1>6 DEF CompactInv

LEMMA HoldKeeps == CompactInv /\ pc = "top" /\ HoldSweep => CompactInv'
<1> SUFFICES ASSUME CompactInv, pc = "top", HoldSweep PROVE CompactInv'
  OBVIOUS
<1>1. pc' = "net" /\ UNCHANGED <<log, settings, ratio, measured, range, oddities>>
  BY DEF HoldSweep
<1>2. TurnOpen
  BY Found DEF InTurn
<1>3. /\ LogSound' /\ PairsSound' /\ ChainInv' /\ BatchesSound' /\ MeasureSound' /\ TurnOpen'
  BY <1>1, <1>2, Unwritten
<1>4. RangeSound'
  BY <1>1, Found, NoRange
<1>5. SettingsSound' /\ TurnSound'
  BY <1>1, <1>3, Found DEF SettingsSound, TurnSound, InTurn
<1> QED BY <1>3, <1>4, <1>5 DEF CompactInv

LEMMA SeamKeeps == CompactInv /\ Seam => CompactInv'
BY BatchKeeps, EvictKeeps, SaturatedKeeps, HoldKeeps DEF Seam

(* The link is written or skipped.                                         *)
LEMMA LinkWrittenKeeps == CompactInv /\ LinkWritten => CompactInv'
<1> SUFFICES ASSUME CompactInv, LinkWritten PROVE CompactInv'
  OBVIOUS
<1>1. /\ pc = "link" /\ pc' = "net" /\ range' = None /\ UNCHANGED <<settings, ratio, oddities>>
      /\ AppendSummary(range[1], range[2],
           Words(LinkInputs(range[1], range[2], Truncated(range[1], range[2]))))
  BY DEF LinkWritten
<1>2. ReachesFurther(range) /\ (range[1] = 0 \/ IsNextLink(range)) /\ TurnOpen
  BY <1>1, Found DEF InTurn
<1>3. range[1] \in Nat /\ range[2] \in Nat
  BY <1>2 DEF ReachesFurther
<1>4. Words(LinkInputs(range[1], range[2], Truncated(range[1], range[2])))
        = Said(range[1], range[2])
  BY <1>3, LinkText DEF CompactInv
<1>5. AppendSummary(range[1], range[2], Said(range[1], range[2]))
  BY <1>1, <1>4
<1>6. /\ LogSound' /\ PairsSound' /\ ChainInv' /\ BatchesSound' /\ MeasureSound' /\ TurnOpen'
  BY <1>1, <1>2, <1>5, SummaryIsWritten
<1>7. RangeSound'
  BY <1>1, NoRange
<1>8. SettingsSound' /\ TurnSound'
  BY <1>1, <1>6, Found DEF SettingsSound, TurnSound, InTurn
<1> QED BY <1>6, <1>7, <1>8 DEF CompactInv

LEMMA LinkSkippedKeeps == CompactInv /\ LinkSkipped => CompactInv'
<1> SUFFICES ASSUME CompactInv, LinkSkipped PROVE CompactInv'
  OBVIOUS
<1>1. /\ pc = "link" /\ pc' = "net" /\ range' = None
      /\ UNCHANGED <<log, settings, ratio, measured, oddities>>
  BY DEF LinkSkipped
<1>2. TurnOpen
  BY <1>1, Found DEF InTurn
<1>3. /\ LogSound' /\ PairsSound' /\ ChainInv' /\ BatchesSound' /\ MeasureSound' /\ TurnOpen'
  BY <1>1, <1>2, Unwritten
<1>4. RangeSound'
  BY <1>1, NoRange
<1>5. SettingsSound' /\ TurnSound'
  BY <1>1, <1>3, Found DEF SettingsSound, TurnSound, InTurn
<1> QED BY <1>3, <1>4, <1>5 DEF CompactInv

(* The emergency net.                                                      *)
LEMMA NoEmergencyKeeps == CompactInv /\ NoEmergency => CompactInv'
<1> SUFFICES ASSUME CompactInv, NoEmergency PROVE CompactInv'
  OBVIOUS
<1>1. /\ pc = "net" /\ pc' = "request"
      /\ UNCHANGED <<log, settings, ratio, measured, range, oddities>>
  BY DEF NoEmergency
<1>2. TurnOpen
  BY <1>1, Found DEF InTurn
<1>3. /\ LogSound' /\ PairsSound' /\ ChainInv' /\ BatchesSound' /\ MeasureSound' /\ TurnOpen'
  BY <1>1, <1>2, Unwritten
<1>4. RangeSound'
  BY <1>1, Found, NoRange
<1>5. SettingsSound' /\ TurnSound'
  BY <1>1, <1>3, Found DEF SettingsSound, TurnSound, InTurn
<1> QED BY <1>3, <1>4, <1>5 DEF CompactInv

LEMMA TruncateKeeps == CompactInv /\ Truncate => CompactInv'
<1> SUFFICES ASSUME CompactInv, Truncate PROVE CompactInv'
  OBVIOUS
<1>1. PICK rg \in CompactableRange : Write(Truncated(rg[1], rg[2])) /\ range' = rg
  BY DEF Truncate
<1>2. /\ pc = "net" /\ pc' = "cut" /\ measured' = None /\ UNCHANGED <<settings, ratio, oddities>>
  BY DEF Truncate
<1> DEFINE e == Truncated(rg[1], rg[2])
<1>3. e.kind = "truncated" /\ Write(e)
  BY <1>1 DEF Truncated
<1> HIDE DEF e
<1>4. EventSound(e)
  BY <1>3 DEF EventSound, Marks
<1>5. TurnOpen
  BY <1>2, Found DEF InTurn
<1>6. /\ LogSound' /\ PairsSound' /\ ChainInv' /\ BatchesSound' /\ MeasureSound' /\ TurnOpen'
      /\ Grows /\ \A i \in NewPlaces : log'[i].kind # "summary"
  BY <1>2, <1>3, <1>4, <1>5, Written
<1>7. RangeSound'
  <2>1. ReachesFurther(rg) /\ rg[1] = 0 /\ rg # None
    BY CompactableIs DEF CompactInv
  <2> QED BY <1>1, <1>2, <1>6, <2>1, RangeIsFound
<1>8. SettingsSound' /\ TurnSound'
  BY <1>2, <1>6, Found DEF SettingsSound, TurnSound, InTurn
<1> QED BY <1>6, <1>7, <1>8 DEF CompactInv

LEMMA EnoughCutKeeps == CompactInv /\ EnoughCut => CompactInv'
<1> SUFFICES ASSUME CompactInv, EnoughCut PROVE CompactInv'
  OBVIOUS
<1>1. /\ pc = "cut" /\ pc' = "request" /\ range' = None
      /\ UNCHANGED <<log, settings, ratio, measured, oddities>>
  BY DEF EnoughCut
<1>2. TurnOpen
  BY <1>1, Found DEF InTurn
<1>3. /\ LogSound' /\ PairsSound' /\ ChainInv' /\ BatchesSound' /\ MeasureSound' /\ TurnOpen'
  BY <1>1, <1>2, Unwritten
<1>4. RangeSound'
  BY <1>1, NoRange
<1>5. SettingsSound' /\ TurnSound'
  BY <1>1, <1>3, Found DEF SettingsSound, TurnSound, InTurn
<1> QED BY <1>3, <1>4, <1>5 DEF CompactInv

LEMMA NotEnoughCutKeeps == CompactInv /\ NotEnoughCut => CompactInv'
<1> SUFFICES ASSUME CompactInv, NotEnoughCut PROVE CompactInv'
  OBVIOUS
<1>1. /\ pc = "cut" /\ pc' = "ask"
      /\ UNCHANGED <<log, settings, ratio, measured, range, oddities>>
  BY DEF NotEnoughCut
<1>2. /\ LogSound' /\ PairsSound' /\ ChainInv' /\ BatchesSound' /\ MeasureSound'
      /\ Grows /\ NewPlaces = {}
  BY <1>1, Unwritten
<1>3. PICK rg : rg = range
  OBVIOUS
<1>4. RangeSound'
  <2>1. ReachesFurther(rg) /\ rg[1] = 0 /\ rg # None
    BY <1>1, <1>3, Found
  <2>2. range' = rg
    BY <1>1, <1>3
  <2> QED BY <1>1, <1>2, <2>1, <2>2, RangeIsFound
<1>5. SettingsSound' /\ TurnSound'
  BY <1>1, Found DEF SettingsSound, TurnSound, InTurn
<1> QED BY <1>2, <1>4, <1>5 DEF CompactInv

LEMMA SummariseKeeps == CompactInv /\ Summarise => CompactInv'
<1> SUFFICES ASSUME CompactInv, Summarise PROVE CompactInv'
  OBVIOUS
<1>1. PICK rg \in CompactableRange : range' = rg
  BY DEF Summarise
<1>2. pc = "net" /\ pc' = "ask" /\ UNCHANGED <<log, settings, ratio, measured, oddities>>
  BY DEF Summarise
<1>3. /\ LogSound' /\ PairsSound' /\ ChainInv' /\ BatchesSound' /\ MeasureSound'
      /\ Grows /\ NewPlaces = {}
  BY <1>2, Unwritten
<1>4. RangeSound'
  <2>1. ReachesFurther(rg) /\ rg[1] = 0 /\ rg # None
    BY CompactableIs DEF CompactInv
  <2> QED BY <1>1, <1>2, <1>3, <2>1, RangeIsFound
<1>5. SettingsSound' /\ TurnSound'
  BY <1>2, Found DEF SettingsSound, TurnSound, InTurn
<1> QED BY <1>3, <1>4, <1>5 DEF CompactInv

(* The nested summary is written, is empty, or fails.                      *)
LEMMA SummaryWrittenKeeps == CompactInv /\ SummaryWritten => CompactInv'
<1> SUFFICES ASSUME CompactInv, SummaryWritten PROVE CompactInv'
  OBVIOUS
<1>1. /\ pc = "ask" /\ pc' = (IF TurnOpen THEN "request" ELSE "idle") /\ range' = None
      /\ UNCHANGED <<settings, ratio, oddities>>
      /\ AppendSummary(range[1], range[2], Words(SummaryInput(range[2])))
  BY DEF SummaryWritten, Back
<1>2. ReachesFurther(range) /\ range[1] = 0
  BY <1>1, Found
<1>3. range[2] \in Ends /\ \A s \in Summaries : log[s].to < range[2]
  BY <1>2 DEF ReachesFurther
<1>4. Words(SummaryInput(range[2])) = Said(range[1], range[2])
  BY <1>2, <1>3, SummaryText DEF CompactInv
<1>5. AppendSummary(range[1], range[2], Said(range[1], range[2]))
  BY <1>1, <1>4
<1>6. /\ LogSound' /\ PairsSound' /\ ChainInv' /\ BatchesSound' /\ MeasureSound'
      /\ TurnOpen => TurnOpen'
  BY <1>1, <1>2, <1>5, SummaryIsWritten
<1>7. RangeSound'
  BY <1>1, NoRange
<1>8. SettingsSound' /\ TurnSound'
  BY <1>1, <1>6, Found DEF SettingsSound, TurnSound, InTurn
<1> QED BY <1>6, <1>7, <1>8 DEF CompactInv

LEMMA SummaryEmptyKeeps == CompactInv /\ SummaryEmpty => CompactInv'
<1> SUFFICES ASSUME CompactInv, SummaryEmpty PROVE CompactInv'
  OBVIOUS
<1>1. /\ pc = "ask" /\ pc' = (IF TurnOpen THEN "request" ELSE "idle") /\ range' = None
      /\ UNCHANGED <<log, settings, ratio, measured, oddities>>
  BY DEF SummaryEmpty, Back
<1>2. /\ LogSound' /\ PairsSound' /\ ChainInv' /\ BatchesSound' /\ MeasureSound'
      /\ TurnOpen => TurnOpen'
  BY <1>1, Unwritten
<1>3. RangeSound'
  BY <1>1, NoRange
<1>4. SettingsSound' /\ TurnSound'
  BY <1>1, <1>2, Found DEF SettingsSound, TurnSound, InTurn
<1> QED BY <1>2, <1>3, <1>4 DEF CompactInv

LEMMA SummaryFailsKeeps == CompactInv /\ SummaryFails => CompactInv'
<1> SUFFICES ASSUME CompactInv, SummaryFails PROVE CompactInv'
  OBVIOUS
<1>1. /\ pc = "ask" /\ pc' = "idle" /\ range' = None
      /\ UNCHANGED <<settings, ratio, measured, oddities>>
      /\ Write(Ended) \/ log' = log
  BY DEF SummaryFails
<1>2. EventSound(Ended) /\ Ended.kind = "ended"
  BY DEF EventSound, Ended
<1>3. /\ LogSound' /\ PairsSound' /\ ChainInv' /\ BatchesSound' /\ MeasureSound'
  <2>1. CASE Write(Ended)
    BY <1>1, <1>2, <2>1, Written DEF Marks
  <2>2. CASE log' = log
    BY <1>1, <2>2, Unwritten
  <2> QED BY <1>1, <2>1, <2>2
<1>4. RangeSound'
  BY <1>1, NoRange
<1>5. SettingsSound' /\ TurnSound'
  BY <1>1, Found DEF SettingsSound, TurnSound, InTurn
<1> QED BY <1>3, <1>4, <1>5 DEF CompactInv

LEMMA CompactNowKeeps == CompactInv /\ CompactNow => CompactInv'
<1> SUFFICES ASSUME CompactInv, CompactNow PROVE CompactInv'
  OBVIOUS
<1>1. PICK rg \in CompactableRange :
         /\ range' = rg
         /\ \/ Write(Truncated(rg[1], rg[2])) /\ measured' = None
            \/ UNCHANGED <<log, measured>>
  BY DEF CompactNow
<1>2. /\ pc = "idle" /\ pc' = "ask" /\ oddities < MaxOddities /\ oddities' = oddities + 1
      /\ UNCHANGED <<settings, ratio>>
  BY DEF CompactNow
<1> DEFINE e == Truncated(rg[1], rg[2])
<1>3. e.kind = "truncated"
  BY DEF Truncated
<1>4. /\ LogSound' /\ PairsSound' /\ ChainInv' /\ BatchesSound' /\ MeasureSound'
      /\ Grows /\ \A i \in NewPlaces : log'[i].kind # "summary"
  <2>1. CASE Write(e) /\ measured' = None
    <3> HIDE DEF e
    <3>1. EventSound(e)
      BY <1>3 DEF EventSound, Marks
    <3> QED BY <1>2, <1>3, <2>1, <3>1, Written
  <2>2. CASE UNCHANGED <<log, measured>>
    BY <1>2, <2>2, Unwritten
  <2> QED BY <1>1, <2>1, <2>2
<1>5. RangeSound'
  <2>1. ReachesFurther(rg) /\ rg[1] = 0 /\ rg # None
    BY CompactableIs DEF CompactInv
  <2> QED BY <1>1, <1>2, <1>4, <2>1, RangeIsFound
<1>6. oddities' \in 0 .. MaxOddities
  BY <1>2, Found, BoundsAssumption
<1>7. SettingsSound' /\ TurnSound'
  BY <1>2, <1>6, Found DEF SettingsSound, TurnSound, InTurn
<1> QED BY <1>4, <1>5, <1>7 DEF CompactInv

(* The model call.                                                         *)
LEMMA AnswerKeeps == CompactInv /\ Answer => CompactInv'
<1> SUFFICES ASSUME CompactInv, Answer PROVE CompactInv'
  OBVIOUS
<1>1. /\ pc = "request" /\ Asked /\ log' = log \o <<Reply(None), Ended>> /\ pc' = "idle"
      /\ UNCHANGED <<settings, range, oddities>>
  BY DEF Answer
<1>2. LogSound /\ PairsSound /\ ChainInv /\ SettingsSound /\ IsSeq(log)
  BY DEF CompactInv, LogSound
<1>3. /\ Grows /\ NewPlaces = {Len(log) + 1, Len(log) + 2}
      /\ log'[Len(log) + 1] = Reply(None) /\ log'[Len(log) + 2] = Ended
  BY <1>1, <1>2, GetsTwo
<1>4. /\ EventSound(Reply(None)) /\ Reply(None).kind = "reply" /\ Reply(None).tool = None
      /\ EventSound(Ended) /\ Ended.kind = "ended"
  BY DEF EventSound, Reply, Ended, Messages
<1>5. \A i \in NewPlaces : log'[i] = Reply(None) \/ log'[i] = Ended
  BY <1>3
<1>6. LogSound' /\ PairsSound' /\ ChainInv' /\ BatchesSound'
  BY <1>1, <1>3, <1>4, <1>5, LogPartsKept
<1>7. MeasureSound' /\ ratio' \in Ratios
  <2>1. \A i \in NewPlaces : log'[i].kind \notin Marks
    BY <1>4, <1>5 DEF Marks
  <2> QED BY <1>1, <1>2, <1>3, <2>1, AskedIsMeasured
<1>8. RangeSound'
  BY <1>1, Found, NoRange
<1>9. SettingsSound' /\ TurnSound'
  BY <1>1, <1>7, Found DEF SettingsSound, TurnSound, InTurn
<1> QED BY <1>6, <1>7, <1>8, <1>9 DEF CompactInv

(* A request that fails leaves the end of its turn, and perhaps its measure. *)
LEMMA RequestFailsKeeps == CompactInv /\ RequestFails => CompactInv'
<1> SUFFICES ASSUME CompactInv, RequestFails PROVE CompactInv'
  OBVIOUS
<1>1. /\ pc = "request" /\ (Asked \/ UNCHANGED <<ratio, measured>>) /\ Write(Ended) /\ pc' = "idle"
      /\ UNCHANGED <<settings, range, oddities>>
  BY DEF RequestFails
<1>2. EventSound(Ended) /\ Ended.kind = "ended"
  BY DEF EventSound, Ended
<1>3. LogSound /\ PairsSound /\ ChainInv /\ SettingsSound /\ IsSeq(log)
  BY DEF CompactInv, LogSound
<1>4. Grows /\ NewPlaces = {Len(log) + 1} /\ log'[Len(log) + 1] = Ended
  BY <1>1, <1>3, GetsOne
<1>5. LogSound' /\ PairsSound' /\ ChainInv' /\ BatchesSound'
  BY <1>1, <1>2, <1>4, LogPartsKept
<1>6. MeasureSound' /\ ratio' \in Ratios
  <2>1. CASE Asked
    <3>1. \A i \in NewPlaces : log'[i].kind \notin Marks
      BY <1>2, <1>4 DEF Marks
    <3> QED BY <1>1, <1>3, <1>4, <2>1, <3>1, AskedIsMeasured
  <2>2. CASE UNCHANGED <<ratio, measured>>
    BY <1>1, <1>2, <1>3, <2>2, Written DEF Marks, SettingsSound
  <2> QED BY <1>1, <2>1, <2>2
<1>7. RangeSound'
  BY <1>1, Found, NoRange
<1>8. SettingsSound' /\ TurnSound'
  BY <1>1, <1>6, Found DEF SettingsSound, TurnSound, InTurn
<1> QED BY <1>5, <1>6, <1>7, <1>8 DEF CompactInv

LEMMA CallKeeps == CompactInv /\ Call => CompactInv'
<1> SUFFICES ASSUME CompactInv, Call PROVE CompactInv'
  OBVIOUS
<1>1. PICK tool \in Tools : Write(Reply(tool))
  BY DEF Call
<1>2. /\ pc = "request" /\ Asked /\ pc' = "call" /\ UNCHANGED <<settings, range, oddities>>
  BY DEF Call
<1>3. LogSound /\ PairsSound /\ ChainInv /\ BatchesSound /\ SettingsSound /\ IsSeq(log)
  BY DEF CompactInv, LogSound
<1> DEFINE e == Reply(tool)
<1>4. EventSound(e) /\ e.kind = "reply"
  BY DEF EventSound, Reply, Messages
<1>5. Write(e)
  BY <1>1
<1> HIDE DEF e
<1>6. Grows /\ \A i \in NewPlaces : log'[i] = e
  BY <1>3, <1>5, GetsOne
<1>7. LogSound'
  BY <1>3, <1>4, <1>6, LogStaysSound
<1>8. PairsSound'
  BY <1>1, <1>2, <1>3, CallIsPaired
<1>9. ChainInv'
  BY <1>3, <1>4, <1>6, ChainStaysSound
<1>10. BatchesSound'
  BY <1>3, <1>4, <1>6, BatchesStaySound
<1>11. MeasureSound' /\ ratio' \in Ratios
  <2>1. \A i \in NewPlaces : log'[i].kind \notin Marks
    BY <1>4, <1>6 DEF Marks
  <2> QED BY <1>2, <1>3, <1>6, <2>1, AskedIsMeasured
<1>12. TurnOpen'
  <2>1. TurnOpen
    BY <1>2, Found DEF InTurn
  <2> QED BY <1>3, <1>4, <1>6, <2>1, TurnStaysOpen
<1>13. RangeSound'
  BY <1>2, Found, NoRange
<1>14. SettingsSound' /\ TurnSound'
  BY <1>2, <1>11, <1>12, Found DEF SettingsSound, TurnSound, InTurn
<1> QED BY <1>7, <1>8, <1>9, <1>10, <1>11, <1>13, <1>14 DEF CompactInv

LEMMA RanKeeps == CompactInv /\ Ran => CompactInv'
<1> SUFFICES ASSUME CompactInv, Ran PROVE CompactInv'
  OBVIOUS
<1>1. PICK error \in BOOLEAN : Write(Result(log[Len(log)].tool, error))
  BY DEF Ran
<1>2. pc = "call" /\ pc' = "top" /\ UNCHANGED <<settings, ratio, measured, range, oddities>>
  BY DEF Ran
<1>3. /\ LogSound /\ PairsSound /\ ChainInv /\ BatchesSound /\ MeasureSound /\ IsSeq(log)
  BY DEF CompactInv, LogSound
<1> DEFINE e == Result(log[Len(log)].tool, error)
<1>4. log[Len(log)].tool \in Tools
  <2>1. Len(log) \in DOMAIN log /\ Calls(Len(log))
    BY <1>2, <1>3 DEF PairsSound
  <2> QED BY <1>3, <2>1 DEF LogSound, EventSound, Calls
<1>5. /\ e.kind = "result" /\ e.tool = log[Len(log)].tool /\ e.error = error
  BY DEF Result
<1>6. Write(e)
  BY <1>1
<1> HIDE DEF e
<1>7. EventSound(e)
  BY <1>4, <1>5 DEF EventSound, Messages
<1>8. Grows /\ NewPlaces = {Len(log) + 1} /\ log'[Len(log) + 1] = e
  BY <1>3, <1>6, GetsOne
<1>9. \A i \in NewPlaces : log'[i] = e
  BY <1>8
<1>10. LogSound'
  BY <1>3, <1>7, <1>8, <1>9, LogStaysSound
<1>11. PairsSound'
  BY <1>2, <1>3, <1>5, <1>8, ResultIsPaired
<1>12. ChainInv' /\ BatchesSound' /\ MeasureSound'
  <2>1. \A i \in NewPlaces : log'[i].kind \notin Marks
    BY <1>5, <1>9 DEF Marks
  <2>2. ChainInv'
    BY <1>3, <1>5, <1>8, <1>9, ChainStaysSound
  <2>3. BatchesSound'
    BY <1>3, <1>5, <1>8, <1>9, BatchesStaySound
  <2> QED BY <1>2, <1>3, <1>8, <2>1, <2>2, <2>3, MeasureStaysSound
<1>13. TurnOpen'
  <2>1. TurnOpen
    BY <1>2, Found DEF InTurn
  <2> QED BY <1>3, <1>5, <1>8, <1>9, <2>1, TurnStaysOpen
<1>14. RangeSound'
  BY <1>2, Found, NoRange
<1>15. SettingsSound' /\ TurnSound'
  BY <1>2, <1>13, Found DEF SettingsSound, TurnSound, InTurn
<1> QED BY <1>10, <1>11, <1>12, <1>14, <1>15 DEF CompactInv

(* The daemon dies; an open turn is repaired and continued.                *)
LEMMA CrashKeeps == CompactInv /\ Crash => CompactInv'
<1> SUFFICES ASSUME CompactInv, Crash PROVE CompactInv'
  OBVIOUS
<1>1. /\ oddities < MaxOddities /\ oddities' = oddities + 1 /\ settings' \in Settings
      /\ ratio' = 100 /\ measured' = None /\ range' = None
      /\ pc' = IF TurnOpen THEN "top" ELSE "idle"
      /\ log' = IF ~TurnOpen THEN log
                ELSE (IF pc = "call" THEN Append(log, Result(log[Len(log)].tool, TRUE)) ELSE log)
                       \o <<User(1)>>
  BY DEF Crash
<1>2. LogSound /\ PairsSound /\ ChainInv /\ BatchesSound /\ IsSeq(log)
  BY DEF CompactInv, LogSound
<1>3. EventSound(User(1)) /\ User(1).kind = "user"
  BY DEF EventSound, User, Messages
<1>4. /\ LogSound' /\ PairsSound' /\ ChainInv' /\ BatchesSound'
      /\ TurnOpen => TurnOpen'
  <2>1. CASE ~TurnOpen
    <3>1. pc # "call"
      BY <2>1, Found DEF InTurn
    <3> QED BY <1>1, <2>1, <3>1, Unwritten
  <2>2. CASE TurnOpen /\ pc # "call"
    <3>1. log \o <<User(1)>> = Append(log, User(1))
      BY <1>2, AppendedOne
    <3>2. Write(User(1))
      BY <1>1, <2>2, <3>1 DEF Write
    <3> QED BY <1>1, <1>3, <2>2, <3>2, Written
  <2>3. CASE TurnOpen /\ pc = "call"
    <3> DEFINE e == Result(log[Len(log)].tool, TRUE)
               f == User(1)
    <3>1. log[Len(log)].tool \in Tools
      <4>1. Len(log) \in DOMAIN log /\ Calls(Len(log))
        BY <1>2, <2>3 DEF PairsSound
      <4> QED BY <1>2, <4>1 DEF LogSound, EventSound, Calls
    <3>2. e.kind = "result" /\ e.tool = log[Len(log)].tool /\ e.error = TRUE
      BY DEF Result
    <3>3. log' = Append(log, e) \o <<f>>
      BY <1>1, <2>3
    <3>4. f.kind = "user" /\ EventSound(f)
      BY <1>3
    <3> HIDE DEF e, f
    <3>5. EventSound(e)
      BY <3>1, <3>2 DEF EventSound, Messages
    <3>6. Append(log, e) \o <<f>> = log \o <<e, f>>
      BY <1>2, AppendedTwo
    <3>7. /\ Grows /\ NewPlaces = {Len(log) + 1, Len(log) + 2}
          /\ log'[Len(log) + 1] = e /\ log'[Len(log) + 2] = f
      BY <1>2, <3>3, <3>6, GetsTwo
    <3>8. \A i \in NewPlaces : log'[i] = e \/ log'[i] = f
      BY <3>7
    <3>9. LogSound'
      BY <1>2, <3>4, <3>5, <3>7, <3>8, LogStaysSound
    <3>10. PairsSound'
      <4>1. Len(log) + 1 \in NewPlaces
        BY <3>7
      <4>2. \A i \in NewPlaces : i = Len(log) + 1 \/ (log'[i].kind # "result" /\ ~Calls(i)')
        BY <3>4, <3>7 DEF Calls
      <4>3. pc = "call" /\ pc' # "call"
        BY <1>1, <2>3
      <4> QED BY <1>2, <3>2, <3>7, <4>1, <4>2, <4>3, ResultIsPaired
    <3>11. ChainInv'
      BY <1>2, <3>2, <3>4, <3>7, <3>8, ChainStaysSound
    <3>12. BatchesSound'
      BY <1>2, <3>2, <3>4, <3>7, <3>8, BatchesStaySound
    <3>13. TurnOpen'
      BY <1>2, <2>3, <3>2, <3>4, <3>7, <3>8, TurnStaysOpen
    <3> QED BY <3>9, <3>10, <3>11, <3>12, <3>13
  <2> QED BY <2>1, <2>2, <2>3
<1>5. MeasureSound'
  BY <1>1 DEF MeasureSound
<1>6. RangeSound'
  BY <1>1, NoRange
<1>7. oddities' \in 0 .. MaxOddities
  BY <1>1, Found, BoundsAssumption
<1>8. SettingsSound' /\ TurnSound'
  BY <1>1, <1>4, <1>7, SizesAssumption DEF SettingsSound, TurnSound, InTurn
<1> QED BY <1>4, <1>5, <1>6, <1>8 DEF CompactInv

LEMMA StutterKeeps == CompactInv /\ UNCHANGED vars => CompactInv'
<1> SUFFICES ASSUME CompactInv, UNCHANGED vars PROVE CompactInv'
  OBVIOUS
<1>1. UNCHANGED <<log, pc, settings, ratio, measured, range, oddities>>
  BY DEF vars
<1>2. LogSound /\ PairsSound /\ MeasureSound /\ ChainInv /\ BatchesSound
  BY DEF CompactInv
<1>3. LogSound' /\ PairsSound' /\ TurnSound'
  BY <1>1 DEF CompactInv, LogSound, PairsSound, Calls, TurnSound, TurnOpen, LastEnd, Of, Now, Reading
<1>4. Grows /\ NewPlaces = {}
  BY <1>1, <1>2, Stays DEF LogSound
<1>5. ChainInv' /\ BatchesSound' /\ MeasureSound'
  <2>1. ChainInv'
    BY <1>2, <1>4, ChainStaysSound
  <2>2. BatchesSound'
    BY <1>2, <1>4, BatchesStaySound
  <2> QED BY <1>1, <1>2, <1>4, <2>1, <2>2, MeasureStaysSound
<1>6. RangeSound'
  <2>1. CASE range = None
    BY <1>1, <2>1, Found, NoRange DEF CompactInv, RangeSound
  <2>2. CASE range # None
    <3>1. PICK rg : rg = range
      OBVIOUS
    <3>2. pc \in {"link", "cut", "ask"}
      BY <2>2 DEF CompactInv, RangeSound
    <3> QED BY <1>1, <1>4, <3>1, <3>2, Found, RangeIsFound
  <2> QED BY <2>1, <2>2
<1>7. SettingsSound'
  BY <1>1 DEF CompactInv, SettingsSound
<1> QED BY <1>3, <1>5, <1>6, <1>7 DEF CompactInv

LEMMA CompactStep == CompactInv /\ [Next]_vars => CompactInv'
<1> SUFFICES ASSUME CompactInv, [Next]_vars PROVE CompactInv'
  OBVIOUS
<1>1. CASE UNCHANGED vars
  BY <1>1, StutterKeeps
<1>2. CASE Post
  BY <1>2, PostKeeps
<1>3. CASE CompactNow
  BY <1>3, CompactNowKeeps
<1>4. CASE Crash
  BY <1>4, CrashKeeps
<1>5. CASE TurnStep
  <2>1. CASE Steer \/ EndAtTop \/ Seam \/ LinkWritten \/ LinkSkipped
    BY <2>1, SteerKeeps, EndAtTopKeeps, SeamKeeps, LinkWrittenKeeps, LinkSkippedKeeps
  <2>2. CASE NoEmergency \/ Truncate \/ EnoughCut \/ NotEnoughCut \/ Summarise
    BY <2>2, NoEmergencyKeeps, TruncateKeeps, EnoughCutKeeps, NotEnoughCutKeeps, SummariseKeeps
  <2>3. CASE SummaryWritten \/ SummaryEmpty \/ SummaryFails
    BY <2>3, SummaryWrittenKeeps, SummaryEmptyKeeps, SummaryFailsKeeps
  <2>4. CASE Answer \/ RequestFails \/ Call \/ Ran
    BY <2>4, AnswerKeeps, RequestFailsKeeps, CallKeeps, RanKeeps
  <2> QED BY <1>5, <2>1, <2>2, <2>3, <2>4 DEF TurnStep
<1> QED BY <1>1, <1>2, <1>3, <1>4, <1>5 DEF Next

(* Every state of a conversation satisfies the invariant.                  *)
THEOREM CompactAlways == Spec => []CompactInv
BY CompactInit, CompactStep, PTL DEF Spec

-----------------------------------------------------------------------------
(* What follows from it                                                    *)

LEMMA TypesHold == CompactInv => TypeOK
<1> SUFFICES ASSUME CompactInv PROVE TypeOK
  OBVIOUS
<1>1. \A i \in DOMAIN log : log[i].kind \in Messages \cup Marks \cup {"ended", "saturated"}
  BY DEF CompactInv, LogSound, EventSound
<1>2. /\ pc \in {"idle", "top", "link", "net", "cut", "ask", "request", "call"}
      /\ settings \in Settings /\ ratio \in Ratios /\ oddities \in 0 .. MaxOddities
  BY DEF CompactInv, SettingsSound, InTurn
<1>3. measured # None => measured.prompt \in Nat /\ measured.len \in Nat
  BY DEF CompactInv, MeasureSound
<1>4. /\ pc \in {"link", "cut", "ask"} <=> range # None
      /\ range # None => range[1] \in Nat /\ range[2] \in Ends /\ range[1] <= range[2]
  BY DEF CompactInv, RangeSound, ReachesFurther
<1> QED BY <1>1, <1>2, <1>3, <1>4 DEF TypeOK

(* project, append_compaction, summarise_link: whatever was cut, stubbed,  *)
(* linked and nested, every message's words are in what the model is       *)
(* shown, in their own place or in a summary, and in no two places.        *)
THEOREM WordsKeptAlways == Spec => []WordsKept
<1>1. CompactInv => WordsKept
  BY NothingIsForgotten, NothingTwice DEF CompactInv, WordsKept
<1> QED BY <1>1, CompactAlways, PTL

(* link_range, compactable_range: the summaries that are shown are one     *)
(* chain without gaps from the log's beginning to the end of what was      *)
(* compacted, and each reaches further than those before it.               *)
THEOREM ChainSoundAlways == Spec => []ChainSound
<1>1. CompactInv => ChainSound
  BY TypesHold, ChainIsContiguous, BoundaryOnlyAdvances DEF CompactInv, ChainSound
<1> QED BY <1>1, CompactAlways, PTL

(* project, repair: every call that is shown has its result next to it,    *)
(* every result its call, and both are shortened together, after a crash   *)
(* too.                                                                    *)
THEOREM PairsKeptAlways == Spec => []PairsKept
<1>1. CompactInv => PairsKept
  BY PairsAreKept DEF CompactInv
<1> QED BY <1>1, CompactAlways, PTL

(* fill: what the last call's prompt was counted for is still what the     *)
(* context begins with, but for a result superseded since.                 *)
THEOREM MeasureFitsAlways == Spec => []MeasureFits
<1>1. CompactInv => MeasureFits
  BY MeasureIsFit DEF CompactInv
<1> QED BY <1>1, CompactAlways, PTL

-----------------------------------------------------------------------------
(* How far a sweep reaches                                                 *)

(* The nth of a set of places is there.                                    *)
LEMMA NthIsThere ==
  ASSUME NEW N \in Nat, NEW C \in SUBSET (1 .. N), NEW n \in 1 .. Cardinality(C)
  PROVE  \E i \in C : Cardinality({j \in C : j <= i}) = n
<1> DEFINE Below(i) == {j \in C : j <= i}
           Enough == {i \in Nat : n <= Cardinality(Below(i))}
<1>1. IsFiniteSet(C) /\ Cardinality(C) \in Nat /\ n \in Nat /\ n >= 1
  <2>1. IsFiniteSet(1 .. N)
    BY FS_Interval
  <2>2. IsFiniteSet(C) /\ Cardinality(C) \in Nat
    BY <2>1, FS_Subset, FS_CardinalityType
  <2> QED BY <2>2
<1>2. \A i : IsFiniteSet(Below(i)) /\ Cardinality(Below(i)) \in Nat
  BY <1>1, FS_Subset, FS_CardinalityType
<1>3. N \in Enough
  <2>1. \A j \in C : j <= N
    OBVIOUS
  <2>2. Below(N) = C
    BY <2>1
  <2> QED BY <1>1, <2>2
<1>4. PICK i \in Enough : \A j \in Enough : i <= j
  <2>1. Enough \in SUBSET Nat /\ Enough # {}
    BY <1>3
  <2> HIDE DEF Enough
  <2> QED BY <2>1, LeastNat
<1>5. i \in Nat /\ n <= Cardinality(Below(i))
  BY <1>4
<1>6. i # 0
  <2>1. \A j \in C : ~(j <= 0)
    OBVIOUS
  <2>2. Below(0) = {}
    BY <2>1
  <2>3. Cardinality(Below(0)) = 0
    BY <2>2, FS_EmptySet
  <2> QED BY <1>1, <1>5, <2>3
<1>7. Cardinality(Below(i - 1)) < n
  <2>1. i - 1 \in Nat /\ ~(i <= i - 1)
    BY <1>5, <1>6
  <2>2. i - 1 \notin Enough
    BY <1>4, <2>1
  <2>3. Cardinality(Below(i - 1)) \in Nat
    BY <1>2
  <2>4. ~(n <= Cardinality(Below(i - 1)))
    BY <2>1, <2>2
  <2> HIDE DEF Below
  <2> QED BY <1>1, <2>3, <2>4
<1>8. i \in C
  <2> SUFFICES ASSUME i \notin C PROVE FALSE
    OBVIOUS
  <2>1. \A j \in C : j <= i <=> j <= i - 1
    BY <1>5
  <2>2. Below(i) = Below(i - 1)
    BY <2>1
  <2>3. Cardinality(Below(i)) = Cardinality(Below(i - 1)) /\ Cardinality(Below(i)) \in Nat
    BY <1>2, <2>2
  <2> HIDE DEF Below
  <2> QED BY <1>1, <1>5, <1>7, <2>3
<1>9. Below(i) = Below(i - 1) \cup {i} /\ i \notin Below(i - 1)
  <2>1. \A j \in C : j <= i <=> (j <= i - 1 \/ j = i)
    BY <1>5
  <2>2. ~(i <= i - 1)
    BY <1>5
  <2> QED BY <1>8, <2>1, <2>2
<1>10. Cardinality(Below(i)) = Cardinality(Below(i - 1)) + 1
  <2>1. PICK B : B = Below(i - 1) /\ IsFiniteSet(B) /\ i \notin B
    BY <1>2, <1>9
  <2>2. Cardinality(B \cup {i}) = Cardinality(B) + 1
    BY <2>1, FS_AddElement
  <2> HIDE DEF Below
  <2> QED BY <1>9, <2>1, <2>2
<1>11. Cardinality(Below(i)) = n
  <2>1. Cardinality(Below(i)) \in Nat /\ Cardinality(Below(i - 1)) \in Nat
    BY <1>2
  <2> HIDE DEF Below
  <2> QED BY <1>1, <1>5, <1>7, <1>10, <2>1
<1> QED BY <1>8, <1>11

(* With as many members up to it as lie before a place, it lies there too. *)
LEMMA NthLiesBefore ==
  ASSUME NEW N \in Nat, NEW C \in SUBSET (1 .. N), NEW s \in Nat, NEW i \in C,
         Cardinality({j \in C : j <= i}) = Cardinality({j \in C : j <= s})
  PROVE  i <= s
<1> SUFFICES ASSUME ~(i <= s) PROVE FALSE
  OBVIOUS
<1> DEFINE A == {j \in C : j <= s}
           B == {j \in C : j <= i}
<1>1. IsFiniteSet(C)
  <2>1. IsFiniteSet(1 .. N)
    BY FS_Interval
  <2> QED BY <2>1, FS_Subset
<1>2. IsFiniteSet(B) /\ A \in SUBSET B
  <2>1. IsFiniteSet(B)
    BY <1>1, FS_Subset
  <2>2. \A j \in C : j <= s => j <= i
    OBVIOUS
  <2> QED BY <2>1, <2>2
<1>3. A = B
  <2>1. Cardinality(B) = Cardinality(A)
    OBVIOUS
  <2> HIDE DEF A, B
  <2> QED BY <1>2, <2>1, FS_Subset
<1>4. i \in Nat /\ i \in B /\ i \notin A
  OBVIOUS
<1> QED BY <1>3, <1>4

(* The deepest sweep is of calls that are there.                           *)
LEMMA WholeBlocks ==
  ASSUME NEW a \in Nat, NEW b \in Nat \ {0}
  PROVE  (a \div b) * b \in Nat /\ (a \div b) * b <= a
<1>1. PICK q \in Nat : q = a \div b /\ b * q <= a
  BY SMT
<1>2. q * b = b * q /\ q * b \in Nat
  BY <1>1, SMT
<1> QED BY <1>1, <1>2

LEMMA DepthIs ==
  ASSUME LogSound, settings \in Settings
  PROVE  /\ CompletedCalls \in SUBSET (1 .. Len(log)) /\ Len(log) \in Nat
         /\ Cardinality(CompletedCalls) \in Nat
         /\ SweepDepth \in 0 .. Cardinality(CompletedCalls)
<1>1. IsSeq(log) /\ DOMAIN log = 1 .. Len(log) /\ Len(log) \in Nat
  BY LogPlaces DEF LogSound
<1>2. CompletedCalls \in SUBSET (1 .. Len(log))
  BY <1>1, NowIs DEF CompletedCalls
<1>3. Cardinality(CompletedCalls) \in Nat
  <2>1. IsFiniteSet(1 .. Len(log))
    BY <1>1, FS_Interval
  <2> QED BY <1>2, <2>1, FS_Subset, FS_CardinalityType
<1>4. /\ settings.lastCalls \in Nat /\ settings.target \in Nat /\ Block \in Nat \ {0}
  BY SizesAssumption
<1>5. PICK calls \in Nat : calls = Cardinality(CompletedCalls)
  BY <1>3
<1>6. \A x \in Nat : Minus(calls, x) \in Nat /\ Minus(calls, x) <= calls
  BY DEF Minus
<1>7. PICK m \in Nat : m = Minus(calls, settings.lastCalls) /\ m <= calls
  BY <1>4, <1>6
<1>8. (m \div Block) * Block \in Nat /\ (m \div Block) * Block <= m
  BY <1>4, WholeBlocks
<1>9. PICK d \in Nat : d = (m \div Block) * Block /\ d <= m
  BY <1>8
<1>10. SweepDepth = IF settings.target = 0 THEN d ELSE Minus(calls, Block)
  BY <1>5, <1>7, <1>9 DEF SweepDepth
<1>11. SweepDepth \in 0 .. calls
  BY <1>4, <1>6, <1>7, <1>9, <1>10
<1> QED BY <1>1, <1>2, <1>3, <1>5, <1>11

LEMMA NthIs ==
  ASSUME LogSound, settings \in Settings, NEW n \in 1 .. Cardinality(CompletedCalls)
  PROVE  /\ NthCall(n) \in CompletedCalls
         /\ Cardinality({j \in CompletedCalls : j <= NthCall(n)}) = n
<1>1. \E i \in CompletedCalls : Cardinality({j \in CompletedCalls : j <= i}) = n
  BY DepthIs, NthIsThere
<1> QED BY <1>1 DEF NthCall

-----------------------------------------------------------------------------
(* What a sweep shortens                                                   *)

(* The calls of the open turn up to a place.                               *)
Sweeps(k, i) == LastEnd(Now) = TurnOf(Now, i) /\ i <= k

(* A reading with the sweep projected has the log's events, and shows more *)
(* results as stubs.                                                       *)
LEMMA ProbeIs ==
  ASSUME NEW k, NEW r, r = Probe(Evicted(k))
  PROVE  /\ r.seen = DOMAIN log
         /\ \A kind : Of(r, kind) = Of(Now, kind)
         /\ LastEnd(r) = LastEnd(Now)
         /\ \A i : /\ TurnOf(r, i) = TurnOf(Now, i) /\ Covering(r, i) = Covering(Now, i)
                   /\ AnswerTo(r, i) = AnswerTo(Now, i)
                   /\ LastOfTool(r, i) <=> LastOfTool(Now, i)
         /\ Uncovered(r) = Uncovered(Now) /\ Firsts(r) = Firsts(Now)
         /\ \A i : Reaches(r, "evicted", i) <=> Reaches(Now, "evicted", i) \/ Sweeps(k, i)
         /\ \A i : Reaches(r, "truncated", i) <=> Reaches(Now, "truncated", i)
         /\ \A i : Reaches(r, "stubbed", i) <=> Reaches(Now, "stubbed", i)
<1>1. r.seen = DOMAIN log /\ r.probes = {Evicted(k)}
      /\ Now.seen = DOMAIN log /\ Now.probes = {}
  BY ReadingIs DEF Probe, Now
<1>2. Evicted(k).kind = "evicted" /\ Evicted(k).through = k
  BY DEF Evicted
<1>3. \A kind : Of(r, kind) = Of(Now, kind)
  BY <1>1 DEF Of
<1>4. LastEnd(r) = LastEnd(Now) /\ \A i : TurnOf(r, i) = TurnOf(Now, i)
  BY <1>3 DEF LastEnd, TurnOf
<1>5. \A i : Covering(r, i) = Covering(Now, i) /\ AnswerTo(r, i) = AnswerTo(Now, i)
  BY <1>3 DEF Covering, AnswerTo
<1>6. \A i : LastOfTool(r, i) <=> LastOfTool(Now, i)
  BY <1>3, <1>4 DEF LastOfTool
<1>7. Uncovered(r) = Uncovered(Now) /\ Firsts(r) = Firsts(Now)
  BY <1>1, <1>5 DEF Uncovered, Firsts
<1>8. ASSUME NEW i
      PROVE  Reaches(r, "evicted", i) <=> Reaches(Now, "evicted", i) \/ Sweeps(k, i)
  <2>1. Reaches(r, "evicted", i) <=>
          \/ \E m \in Of(Now, "evicted") :
               TurnOf(Now, m) = TurnOf(Now, i) /\ i <= log[m].through
          \/ LastEnd(Now) = TurnOf(Now, i) /\ i <= k
    BY <1>1, <1>2, <1>3, <1>4 DEF Reaches
  <2>2. Reaches(Now, "evicted", i) <=>
          \E m \in Of(Now, "evicted") : TurnOf(Now, m) = TurnOf(Now, i) /\ i <= log[m].through
    BY <1>1 DEF Reaches
  <2> QED BY <2>1, <2>2 DEF Sweeps
<1>9. ASSUME NEW i
      PROVE  /\ Reaches(r, "truncated", i) <=> Reaches(Now, "truncated", i)
             /\ Reaches(r, "stubbed", i) <=> Reaches(Now, "stubbed", i)
  BY <1>1, <1>2, <1>3 DEF Reaches
<1> QED BY <1>1, <1>3, <1>4, <1>5, <1>6, <1>7, <1>8, <1>9

(* A result is a stub with the sweep, if it was one or is swept now.       *)
StubWith(k, i) ==
  ~log[i].error /\ (Batched(Now, i) \/ (~LastOfTool(Now, i) /\ (Reaches(Now, "evicted", i) \/ Sweeps(k, i))))
FormWith(k, i) ==
  IF log[i].kind = "result"
  THEN IF StubWith(k, i) THEN "stub"
       ELSE IF Reaches(Now, "truncated", i) THEN "cut" ELSE "whole"
  ELSE IF log[i].kind = "reply" /\ \E j \in AnswerTo(Now, i) : StubWith(k, j) THEN "stub" ELSE "whole"

LEMMA FormsRead ==
  ASSUME NEW r, NEW i
  PROVE  FormOf(r, i) =
           IF log[i].kind = "result"
           THEN IF IsStub(r, i) THEN "stub"
                ELSE IF Reaches(r, "truncated", i) THEN "cut" ELSE "whole"
           ELSE IF log[i].kind = "reply" /\ \E j \in AnswerTo(r, i) : IsStub(r, j)
                THEN "stub" ELSE "whole"
BY DEF FormOf

LEMMA ProbeForm ==
  ASSUME NEW k, NEW i
  PROVE  FormOf(Probe(Evicted(k)), i) = FormWith(k, i)
<1>1. PICK r : r = Probe(Evicted(k))
  OBVIOUS
<1>2. /\ LastEnd(r) = LastEnd(Now) /\ AnswerTo(r, i) = AnswerTo(Now, i)
      /\ Reaches(r, "truncated", i) <=> Reaches(Now, "truncated", i)
  BY <1>1, ProbeIs
<1>3. \A j : IsStub(r, j) <=> StubWith(k, j)
  BY <1>1, ProbeIs DEF IsStub, Batched, Swept, StubWith
<1>4. FormOf(r, i) = FormWith(k, i)
  BY <1>2, <1>3, FormsRead DEF FormWith
<1> QED BY <1>1, <1>4

(* What has been swept to is shown as it is, swept again.                  *)
LEMMA SweptAlready ==
  ASSUME LogSound, NEW k, \A i \in Nat : Sweeps(k, i) => Reaches(Now, "evicted", i),
         NEW i \in DOMAIN log
  PROVE  FormWith(k, i) = FormOf(Now, i)
<1>1. DOMAIN log = 1 .. Len(log)
  BY LogPlaces DEF LogSound
<1>2. \A j \in DOMAIN log : IsStub(Now, j) <=> StubWith(k, j)
  BY <1>1 DEF IsStub, Swept, StubWith
<1>3. AnswerTo(Now, i) \subseteq DOMAIN log
  BY NowIs DEF AnswerTo
<1> QED BY <1>2, <1>3, FormsRead DEF FormWith

(* Of a place: the event that is shown there, and its size in some form.   *)
SizeIn(form, i) ==
  IF form = "stub" THEN 1 ELSE IF form = "cut" THEN Least(FullSize(i), MaxResult) ELSE FullSize(i)

LEMMA SizeRead ==
  ASSUME NEW item
  PROVE  SizeOf(item) = SizeIn(item.form, item.of)
BY DEF SizeOf, SizeIn

(* A stub is the shortest of an event's forms.                             *)
LEMMA StubIsShort ==
  ASSUME LogSound, NEW i \in DOMAIN log, log[i].kind \in {"reply", "result"},
         NEW form
  PROVE  SizeIn(form, i) \in Nat /\ 1 <= SizeIn(form, i)
<1>1. EventSound(log[i])
  BY DEF LogSound
<1>2. FullSize(i) \in Nat \ {0}
  <2>1. CASE log[i].kind = "reply"
    <3>1. log[i].tool # None => ArgsOf[log[i].tool] \in Nat \ {0}
      BY <1>1, <2>1, SizesAssumption DEF EventSound
    <3> QED BY <2>1, <3>1 DEF FullSize
  <2>2. CASE log[i].kind = "result"
    <3>1. ResultOf[log[i].tool] \in Nat \ {0}
      BY <1>1, <2>2, SizesAssumption DEF EventSound
    <3> QED BY <2>2, <3>1 DEF FullSize
  <2> QED BY <2>1, <2>2
<1>3. MaxResult \in Nat \ {0}
  BY SizesAssumption
<1> QED BY <1>2, <1>3 DEF SizeIn, Least

(* The sweep makes nothing longer.                                         *)
LEMMA SweptIsShorter ==
  ASSUME LogSound, NEW k, NEW i \in DOMAIN log, log[i].kind \in Messages
  PROVE  /\ SizeIn(FormWith(k, i), i) \in Nat /\ SizeIn(FormOf(Now, i), i) \in Nat
         /\ SizeIn(FormWith(k, i), i) <= SizeIn(FormOf(Now, i), i)
<1>1. \A j : IsStub(Now, j) => StubWith(k, j)
  BY DEF IsStub, Swept, StubWith
<1>2. CASE log[i].kind = "user"
  <2>1. FormWith(k, i) = "whole" /\ FormOf(Now, i) = "whole"
    BY <1>2, FormsRead DEF FormWith
  <2>2. FullSize(i) \in Nat
    BY EventSize
  <2> QED BY <2>1, <2>2 DEF SizeIn
<1>3. CASE log[i].kind \in {"reply", "result"}
  <2>1. FormWith(k, i) = "stub" \/ FormWith(k, i) = FormOf(Now, i)
    <3>1. CASE log[i].kind = "result"
      BY <1>1, <3>1, FormsRead DEF FormWith
    <3>2. CASE log[i].kind = "reply"
      BY <1>1, <3>2, FormsRead DEF FormWith
    <3> QED BY <1>3, <3>1, <3>2
  <2>2. /\ SizeIn(FormWith(k, i), i) \in Nat
        /\ SizeIn(FormOf(Now, i), i) \in Nat /\ 1 <= SizeIn(FormOf(Now, i), i)
    BY <1>3, StubIsShort
  <2>3. SizeIn("stub", i) = 1
    BY DEF SizeIn
  <2>4. CASE FormWith(k, i) = "stub"
    BY <2>2, <2>3, <2>4
  <2>5. CASE FormWith(k, i) = FormOf(Now, i)
    BY <2>2, <2>5
  <2> QED BY <2>1, <2>4, <2>5
<1> QED BY <1>2, <1>3 DEF Messages

-----------------------------------------------------------------------------
(* What a context counts                                                   *)

Places == Uncovered(Now) \cup Firsts(Now)
Sized(form, i) == IF i \in Uncovered(Now) THEN SizeIn(form, i) ELSE FullSize(Covering(Now, i))

LEMMA PlacesAre ==
  ASSUME LogSound
  PROVE  /\ IsFiniteSet(Places) /\ Places \subseteq DOMAIN log
         /\ \A i \in Uncovered(Now) : i \in DOMAIN log /\ log[i].kind \in Messages
         /\ \A i \in Firsts(Now) :
              /\ i \notin Uncovered(Now) /\ Covering(Now, i) \in DOMAIN log
              /\ FullSize(Covering(Now, i)) \in Nat
<1>1. IsSeq(log) /\ DOMAIN log = 1 .. Len(log) /\ Len(log) \in Nat
  BY LogPlaces DEF LogSound
<1>2. Places \subseteq DOMAIN log
  BY NowIs DEF Places, Uncovered, Firsts
<1>3. IsFiniteSet(Places)
  <2>1. IsFiniteSet(1 .. Len(log))
    BY <1>1, FS_Interval
  <2> QED BY <1>1, <1>2, <2>1, FS_Subset
<1>4. \A i \in Uncovered(Now) : i \in DOMAIN log /\ log[i].kind \in Messages
  BY NowIs DEF Uncovered
<1>5. ASSUME NEW i \in Firsts(Now)
      PROVE  /\ i \notin Uncovered(Now) /\ Covering(Now, i) \in DOMAIN log
             /\ FullSize(Covering(Now, i)) \in Nat
  <2>1. Covering(Now, i) # 0 /\ i \notin Uncovered(Now)
    BY DEF Firsts, Uncovered
  <2>2. Covering(Now, i) \in DOMAIN log /\ log[Covering(Now, i)].kind = "summary"
    BY <1>1, <2>1, CoverNow, NowIs DEF Summaries
  <2> QED BY <2>1, <2>2, EventSize
<1> QED BY <1>2, <1>3, <1>4, <1>5

(* The tokens of a reading with the log's events, by the forms it gives.   *)
LEMMA TokensAre ==
  ASSUME LogSound, NEW r, Uncovered(r) = Uncovered(Now), Firsts(r) = Firsts(Now),
         \A i : Covering(r, i) = Covering(Now, i),
         \A i \in Uncovered(Now) : SizeIn(FormOf(r, i), i) \in Nat
  PROVE  \E n : /\ Adds(Places, [i \in Places |-> Sized(FormOf(r, i), i)], n)
                /\ ContextTokens(r) = Calibrated(n)
<1> DEFINE shown == Shown(r)
           n == Estimate(shown, DOMAIN shown)
<1>1. /\ DOMAIN shown = Places
      /\ \A i \in Uncovered(Now) : shown[i].of = i /\ shown[i].form = FormOf(r, i)
      /\ \A i \in Firsts(Now) : shown[i].of = Covering(Now, i) /\ shown[i].form = "summary"
  <2>1. /\ DOMAIN shown = Uncovered(r) \cup Firsts(r)
        /\ \A i \in Uncovered(r) : shown[i].of = i /\ shown[i].form = FormOf(r, i)
        /\ \A i \in Firsts(r) : shown[i].of = Covering(r, i) /\ shown[i].form = "summary"
    BY ShownRead
  <2> HIDE DEF shown
  <2> QED BY <2>1 DEF Places
<1>2. ContextTokens(r) = Calibrated(n)
  BY DEF ContextTokens
<1> HIDE DEF shown
<1>3. ASSUME NEW i \in Places
      PROVE  SizeOf(shown[i]) = Sized(FormOf(r, i), i) /\ SizeOf(shown[i]) \in Nat
  <2>1. SizeOf(shown[i]) = SizeIn(shown[i].form, shown[i].of)
    BY SizeRead
  <2>2. CASE i \in Uncovered(Now)
    BY <1>1, <2>1, <2>2 DEF Sized
  <2>3. CASE i \in Firsts(Now)
    <3>1. SizeIn("summary", Covering(Now, i)) = FullSize(Covering(Now, i))
      BY DEF SizeIn
    <3> QED BY <1>1, <2>1, <2>3, <3>1, PlacesAre DEF Sized
  <2> QED BY <2>2, <2>3 DEF Places
<1>4. Adds(Places, [i \in Places |-> SizeOf(shown[i])], n)
  BY <1>1, <1>3, PlacesAre, EstimateAdds DEF EstimatesAdd
<1>5. [i \in Places |-> SizeOf(shown[i])] = [i \in Places |-> Sized(FormOf(r, i), i)]
  BY <1>3
<1> HIDE DEF n
<1> QED BY <1>2, <1>4, <1>5

WithForms(k) == [i \in Places |-> Sized(FormWith(k, i), i)]
NowForms == [i \in Places |-> Sized(FormOf(Now, i), i)]

(* Of the log as it is ...                                                 *)
NowAdds == \E n : Adds(Places, NowForms, n) /\ ContextTokens(Now) = Calibrated(n)
LEMMA NowAddsUp == LogSound => NowAdds
<1> SUFFICES ASSUME LogSound PROVE NowAdds
  OBVIOUS
<1>1. \A i \in Uncovered(Now) : SizeIn(FormOf(Now, i), i) \in Nat
  BY PlacesAre, SweptIsShorter
<1> QED BY <1>1, TokensAre DEF NowAdds, NowForms

(* ... and with a sweep.                                                   *)
LEMMA ProbeAddsUp ==
  ASSUME LogSound, NEW k
  PROVE  \E n : Adds(Places, WithForms(k), n) /\ ContextTokens(Probe(Evicted(k))) = Calibrated(n)
<1>1. PICK r : r = Probe(Evicted(k))
  OBVIOUS
<1>2. \A i : FormOf(r, i) = FormWith(k, i)
  BY <1>1, ProbeForm
<1>3. \A i \in Uncovered(Now) : SizeIn(FormOf(r, i), i) \in Nat
  BY <1>2, PlacesAre, SweptIsShorter
<1>4. Uncovered(r) = Uncovered(Now) /\ Firsts(r) = Firsts(Now)
      /\ \A i : Covering(r, i) = Covering(Now, i)
  BY <1>1, ProbeIs
<1>5. PICK n : /\ Adds(Places, [i \in Places |-> Sized(FormOf(r, i), i)], n)
               /\ ContextTokens(r) = Calibrated(n)
  BY <1>3, <1>4, TokensAre
<1>6. [i \in Places |-> Sized(FormOf(r, i), i)] = WithForms(k)
  BY <1>2 DEF WithForms
<1> QED BY <1>1, <1>5, <1>6

(* More to count is no fewer tokens.                                       *)
LEMMA CalibratedGrows ==
  ASSUME NEW m \in Nat, NEW n \in Nat, m <= n, ratio \in Ratios
  PROVE  Calibrated(m) \in Nat /\ Calibrated(n) \in Nat /\ Calibrated(m) <= Calibrated(n)
<1>1. PICK q \in Nat : q = ratio
  BY SizesAssumption
<1>2. PICK a \in Nat : a = m + Overhead
  BY SizesAssumption
<1>3. PICK d \in Nat : n + Overhead = a + d
  <2>1. n - m \in Nat /\ n + Overhead = a + (n - m)
    BY <1>2, SizesAssumption
  <2> QED BY <2>1
<1>4. (a + d) * q = a * q + d * q /\ a * q \in Nat /\ d * q \in Nat
  OBVIOUS
<1>5. \A x, y \in Nat : x \div 100 \in Nat /\ x \div 100 <= (x + y) \div 100 /\ (x + y) \div 100 \in Nat
  OBVIOUS
<1>6. Calibrated(m) = (a * q) \div 100
  BY <1>1, <1>2 DEF Calibrated
<1>7. Calibrated(n) = (a * q + d * q) \div 100
  BY <1>1, <1>3, <1>4 DEF Calibrated
<1> QED BY <1>4, <1>5, <1>6, <1>7

(* What is counted with a sweep is no more than without it, and as much    *)
(* where the sweep reaches nothing new.                                    *)
LEMMA SweepCounts ==
  ASSUME LogSound, NEW k, ratio \in Ratios
  PROVE  LET was == ContextTokens(Now)
             is == ContextTokens(Probe(Evicted(k)))
         IN  /\ was \in Nat /\ is \in Nat /\ is <= was
             /\ (\A i \in Nat : Sweeps(k, i) => Reaches(Now, "evicted", i)) => was = is
<1>1. PICK m : Adds(Places, NowForms, m) /\ ContextTokens(Now) = Calibrated(m)
  BY NowAddsUp DEF NowAdds
<1>2. PICK n : Adds(Places, WithForms(k), n) /\ ContextTokens(Probe(Evicted(k))) = Calibrated(n)
  BY ProbeAddsUp
<1>3. \A i \in Places : /\ Sized(FormWith(k, i), i) \in Nat /\ Sized(FormOf(Now, i), i) \in Nat
                        /\ Sized(FormWith(k, i), i) <= Sized(FormOf(Now, i), i)
  BY PlacesAre, SweptIsShorter DEF Sized, Places
<1>4. IsFiniteSet(Places) /\ NowForms \in [Places -> Nat] /\ WithForms(k) \in [Places -> Nat]
      /\ \A i \in Places : WithForms(k)[i] <= NowForms[i]
  BY <1>3, PlacesAre DEF NowForms, WithForms
<1>5. m \in Nat /\ n \in Nat /\ n <= m
  BY <1>1, <1>2, <1>4, AddsGrows
<1>6. ASSUME \A i \in Nat : Sweeps(k, i) => Reaches(Now, "evicted", i)
      PROVE  m <= n
  <2>1. \A i \in Places : FormWith(k, i) = FormOf(Now, i)
    BY <1>6, SweptAlready, PlacesAre
  <2>2. WithForms(k) = NowForms
    BY <2>1 DEF WithForms, NowForms
  <2> QED BY <1>1, <1>2, <1>4, <2>2, AddsGrows
<1>7. /\ Calibrated(m) \in Nat /\ Calibrated(n) \in Nat /\ Calibrated(n) <= Calibrated(m)
      /\ m <= n => Calibrated(m) <= Calibrated(n)
  BY <1>5, CalibratedGrows
<1> QED BY <1>1, <1>2, <1>6, <1>7

-----------------------------------------------------------------------------
(* The sweep is written                                                    *)

(* An append changes no place's turn ...                                   *)
LEMMA SweptLog ==
  ASSUME LogSound, ChainInv, NEW k, Write(Evicted(k))
  PROVE  /\ \A i \in DOMAIN log : log'[i] = log[i] /\ i \in Nat /\ i <= Len(log)
         /\ Len(log) \in Nat /\ DOMAIN log' = DOMAIN log \cup {Len(log) + 1}
         /\ log'[Len(log) + 1].kind = "evicted" /\ log'[Len(log) + 1].through = k
         /\ \A kind : kind # "evicted" => Of(Now, kind)' = Of(Now, kind)
         /\ Of(Now, "evicted")' = Of(Now, "evicted") \cup {Len(log) + 1}
         /\ \A kind : Of(Now, kind) \subseteq DOMAIN log
         /\ LastEnd(Now)' = LastEnd(Now)
         /\ \A i : TurnOf(Now, i)' = TurnOf(Now, i)
         /\ TurnOf(Now, Len(log) + 1) = LastEnd(Now)
<1>1. IsSeq(log) /\ Evicted(k).kind = "evicted" /\ Evicted(k).through = k
  BY DEF LogSound, Evicted
<1>2. Grows /\ NewPlaces = {Len(log) + 1} /\ log'[Len(log) + 1] = Evicted(k)
  BY <1>1, GetsOne
<1>3. /\ \A i \in DOMAIN log : log'[i] = log[i] /\ i \in Nat /\ i <= Len(log)
      /\ Len(log) \in Nat /\ DOMAIN log' = DOMAIN log \cup {Len(log) + 1}
  BY <1>1, <1>2, GrownIs
<1>4. \A kind : /\ Of(Now, kind)' = Of(Now, kind) \cup {i \in NewPlaces : log'[i].kind = kind}
                /\ Of(Now, kind) \subseteq DOMAIN log
  BY <1>1, <1>2, GrownOf
<1>5. \A kind : kind # "evicted" => Of(Now, kind)' = Of(Now, kind)
  <2> SUFFICES ASSUME NEW kind, kind # "evicted" PROVE Of(Now, kind)' = Of(Now, kind)
    OBVIOUS
  <2>1. \A i \in NewPlaces : log'[i].kind # kind
    BY <1>1, <1>2
  <2>2. {i \in NewPlaces : log'[i].kind = kind} = {}
    BY <2>1
  <2>3. Of(Now, kind)' = Of(Now, kind) \cup {i \in NewPlaces : log'[i].kind = kind}
    BY <1>4
  <2> QED BY <2>2, <2>3
<1>6. Of(Now, "evicted")' = Of(Now, "evicted") \cup {Len(log) + 1}
  BY <1>1, <1>2, <1>4
<1>7. Of(Now, "ended")' = Of(Now, "ended")
  BY <1>5
<1>8. LastEnd(Now)' = LastEnd(Now) /\ \A i : TurnOf(Now, i)' = TurnOf(Now, i)
  BY <1>7 DEF LastEnd, TurnOf
<1>9. {e \in Of(Now, "ended") : e < Len(log) + 1} = Of(Now, "ended")
  <2>1. \A e \in Of(Now, "ended") : e < Len(log) + 1
    BY <1>3, <1>4
  <2> QED BY <2>1
<1>10. TurnOf(Now, Len(log) + 1) = LastEnd(Now)
  BY <1>9 DEF TurnOf, LastEnd
<1> QED BY <1>1, <1>2, <1>3, <1>4, <1>5, <1>6, <1>8, <1>10

(* ... and shows what the projected sweep showed.                          *)
LEMMA SweptReaches ==
  ASSUME LogSound, ChainInv, NEW k, Write(Evicted(k)), NEW i \in DOMAIN log
  PROVE  /\ Reaches(Now, "evicted", i)' <=> Reaches(Now, "evicted", i) \/ Sweeps(k, i)
         /\ Reaches(Now, "truncated", i)' <=> Reaches(Now, "truncated", i)
         /\ Reaches(Now, "stubbed", i)' <=> Reaches(Now, "stubbed", i)
<1>1. Now.probes = {}
  BY NowIs
<1>2. Now.probes' = {}
  BY DEF Now, Reading
<1>3. /\ \A j \in DOMAIN log : log'[j] = log[j]
      /\ log'[Len(log) + 1].through = k
      /\ \A kind : kind # "evicted" => Of(Now, kind)' = Of(Now, kind)
      /\ Of(Now, "evicted")' = Of(Now, "evicted") \cup {Len(log) + 1}
      /\ \A kind : Of(Now, kind) \subseteq DOMAIN log
      /\ \A j : TurnOf(Now, j)' = TurnOf(Now, j)
      /\ TurnOf(Now, Len(log) + 1) = LastEnd(Now)
  BY SweptLog
<1>4. Reaches(Now, "evicted", i) <=>
        \E m \in Of(Now, "evicted") : TurnOf(Now, m) = TurnOf(Now, i) /\ i <= log[m].through
  BY <1>1 DEF Reaches
<1>5. Reaches(Now, "evicted", i)' <=>
        \E m \in Of(Now, "evicted")' : TurnOf(Now, m)' = TurnOf(Now, i)' /\ i <= log'[m].through
  BY <1>2 DEF Reaches
<1>6. Reaches(Now, "evicted", i)' <=>
        \E m \in Of(Now, "evicted") \cup {Len(log) + 1} :
          TurnOf(Now, m) = TurnOf(Now, i) /\ i <= log'[m].through
  BY <1>3, <1>5
<1>7. Reaches(Now, "evicted", i)' <=> Reaches(Now, "evicted", i) \/ Sweeps(k, i)
  BY <1>3, <1>4, <1>6 DEF Sweeps
<1>8. Reaches(Now, "truncated", i) <=>
        \E m \in Of(Now, "truncated") : log[m].from <= i /\ i <= log[m].to
  BY <1>1 DEF Reaches
<1>9. Reaches(Now, "truncated", i)' <=>
        \E m \in Of(Now, "truncated")' : log'[m].from <= i /\ i <= log'[m].to
  BY <1>2 DEF Reaches
<1>10. Reaches(Now, "stubbed", i) <=> \E m \in Of(Now, "stubbed") : i <= log[m].through
  BY <1>1 DEF Reaches
<1>11. Reaches(Now, "stubbed", i)' <=> \E m \in Of(Now, "stubbed")' : i <= log'[m].through
  BY <1>2 DEF Reaches
<1>12. Reaches(Now, "truncated", i)' <=> Reaches(Now, "truncated", i)
  BY <1>3, <1>8, <1>9
<1>13. Reaches(Now, "stubbed", i)' <=> Reaches(Now, "stubbed", i)
  BY <1>3, <1>10, <1>11
<1> QED BY <1>7, <1>12, <1>13

LEMMA SweptStubs ==
  ASSUME LogSound, ChainInv, NEW k, Write(Evicted(k)), NEW i \in DOMAIN log
  PROVE  IsStub(Now, i)' <=> StubWith(k, i)
<1>1. /\ \A j \in DOMAIN log : log'[j] = log[j]
      /\ Of(Now, "result")' = Of(Now, "result") /\ Of(Now, "result") \subseteq DOMAIN log
      /\ LastEnd(Now)' = LastEnd(Now) /\ \A j : TurnOf(Now, j)' = TurnOf(Now, j)
  BY SweptLog
<1>2. LastOfTool(Now, i)' <=>
        ~\E j \in Of(Now, "result")' :
           j > i /\ log'[j].tool = log'[i].tool /\ TurnOf(Now, j)' = TurnOf(Now, i)'
  BY DEF LastOfTool
<1>3. LastOfTool(Now, i)' <=> LastOfTool(Now, i)
  BY <1>1, <1>2 DEF LastOfTool
<1>4. Batched(Now, i)' <=> Batched(Now, i)
  <2>1. Batched(Now, i)' <=> i < LastEnd(Now)' /\ Reaches(Now, "stubbed", i)'
    BY DEF Batched
  <2> QED BY <1>1, <2>1, SweptReaches DEF Batched
<1>5. IsStub(Now, i)' <=>
        ~log'[i].error /\ (Batched(Now, i)' \/ (~LastOfTool(Now, i)' /\ Reaches(Now, "evicted", i)'))
  BY DEF IsStub, Swept
<1> QED BY <1>1, <1>3, <1>4, <1>5, SweptReaches DEF StubWith

NowFormsRead ==
  \A i : FormOf(Now, i) =
           IF log[i].kind = "result"
           THEN IF IsStub(Now, i) THEN "stub"
                ELSE IF Reaches(Now, "truncated", i) THEN "cut" ELSE "whole"
           ELSE IF log[i].kind = "reply" /\ \E j \in AnswerTo(Now, i) : IsStub(Now, j)
                THEN "stub" ELSE "whole"
LEMMA NowForm == NowFormsRead
BY FormsRead DEF NowFormsRead

LEMMA SweptForm ==
  ASSUME LogSound, ChainInv, NEW k, Write(Evicted(k)), NEW i \in DOMAIN log
  PROVE  FormOf(Now, i)' = FormWith(k, i)
<1>1. /\ \A j \in DOMAIN log : log'[j] = log[j]
      /\ Of(Now, "result")' = Of(Now, "result") /\ Of(Now, "result") \subseteq DOMAIN log
      /\ Of(Now, "reply")' = Of(Now, "reply")
  BY SweptLog
<1>2. NowFormsRead'
  BY NowForm, PTL
<1>3. FormOf(Now, i)' =
        IF log'[i].kind = "result"
        THEN IF IsStub(Now, i)' THEN "stub"
             ELSE IF Reaches(Now, "truncated", i)' THEN "cut" ELSE "whole"
        ELSE IF log'[i].kind = "reply" /\ \E j \in AnswerTo(Now, i)' : IsStub(Now, j)'
             THEN "stub" ELSE "whole"
  BY <1>2 DEF NowFormsRead
<1>4. AnswerTo(Now, i)' = AnswerTo(Now, i) /\ AnswerTo(Now, i) \subseteq DOMAIN log
  <2>1. AnswerTo(Now, i)' = {j \in Of(Now, "result")' :
                               j > i /\ ~\E m \in Of(Now, "reply")' : i < m /\ m < j}
    BY DEF AnswerTo
  <2> QED BY <1>1, <2>1 DEF AnswerTo
<1>5. \A j \in DOMAIN log : IsStub(Now, j)' <=> StubWith(k, j)
  BY SweptStubs
<1>6. (\E j \in AnswerTo(Now, i)' : IsStub(Now, j)') <=> \E j \in AnswerTo(Now, i) : StubWith(k, j)
  BY <1>4, <1>5
<1>7. Reaches(Now, "truncated", i)' <=> Reaches(Now, "truncated", i)
  BY SweptReaches
<1> QED BY <1>1, <1>3, <1>5, <1>6, <1>7 DEF FormWith

LEMMA SweptPlaces ==
  ASSUME LogSound, ChainInv, NEW k, Write(Evicted(k))
  PROVE  /\ \A i : Covering(Now, i)' = Covering(Now, i)
         /\ Uncovered(Now)' = Uncovered(Now) /\ Firsts(Now)' = Firsts(Now)
         /\ Places' = Places
<1>1. /\ \A i \in DOMAIN log : log'[i] = log[i] /\ i \in Nat /\ i <= Len(log)
      /\ Len(log) \in Nat /\ DOMAIN log' = DOMAIN log \cup {Len(log) + 1}
      /\ log'[Len(log) + 1].kind = "evicted"
      /\ Of(Now, "summary")' = Of(Now, "summary") /\ Of(Now, "summary") \subseteq DOMAIN log
  BY SweptLog
<1>2. ASSUME NEW i
      PROVE  Covering(Now, i)' = Covering(Now, i)
  <2>1. Covering(Now, i)' =
          LastOf({s \in Of(Now, "summary")' : log'[s].from <= i /\ i <= log'[s].to})
    BY DEF Covering
  <2>2. {s \in Of(Now, "summary")' : log'[s].from <= i /\ i <= log'[s].to}
          = {s \in Of(Now, "summary") : log[s].from <= i /\ i <= log[s].to}
    BY <1>1
  <2> QED BY <2>1, <2>2 DEF Covering
<1>3. Covering(Now, Len(log) + 1) = 0
  <2>1. SUFFICES ASSUME Covering(Now, Len(log) + 1) # 0 PROVE FALSE
    OBVIOUS
  <2>2. PICK s \in Summaries : Len(log) + 1 <= log[s].to
    BY <2>1, CoverNow DEF LogSound
  <2>3. log[s].to \in Ends /\ log[s].to < s /\ s \in DOMAIN log
    BY <1>1, <2>2 DEF ChainInv, SummarySound, Summaries
  <2>4. log[s].to \in DOMAIN log
    BY <2>3, NowIs DEF Ends
  <2> QED BY <1>1, <2>2, <2>4
<1>4. Now.seen = DOMAIN log /\ Now.seen' = DOMAIN log'
  BY DEF Now, Reading
<1>5. Uncovered(Now)' = {i \in DOMAIN log' : Covering(Now, i)' = 0 /\ log'[i].kind \in Messages}
  BY <1>4 DEF Uncovered
<1>6. Uncovered(Now) = {i \in DOMAIN log : Covering(Now, i) = 0 /\ log[i].kind \in Messages}
  BY <1>4 DEF Uncovered
<1>7. Uncovered(Now)' = Uncovered(Now)
  BY <1>1, <1>2, <1>5, <1>6 DEF Messages
<1>8. Firsts(Now)' =
        {i \in DOMAIN log' : /\ Covering(Now, i)' # 0
                             /\ ~\E j \in DOMAIN log' : j < i /\ Covering(Now, j)' = Covering(Now, i)'}
  BY <1>4 DEF Firsts
<1>9. Firsts(Now) =
        {i \in DOMAIN log : /\ Covering(Now, i) # 0
                            /\ ~\E j \in DOMAIN log : j < i /\ Covering(Now, j) = Covering(Now, i)}
  BY <1>4 DEF Firsts
<1>10. Firsts(Now)' = Firsts(Now)
  BY <1>1, <1>2, <1>3, <1>8, <1>9
<1>11. Places' = Uncovered(Now)' \cup Firsts(Now)'
  BY DEF Places
<1> QED BY <1>2, <1>7, <1>10, <1>11 DEF Places

(* So the log with the sweep counts what the projected sweep did.          *)
LEMMA SweptCounts ==
  ASSUME LogSound, LogSound', ChainInv, ratio \in Ratios, UNCHANGED ratio,
         NEW k, Write(Evicted(k))
  PROVE  ContextTokens(Now)' = ContextTokens(Probe(Evicted(k)))
<1>1. NowAdds'
  BY NowAddsUp, PTL
<1>2. PICK m : Adds(Places', NowForms', m) /\ ContextTokens(Now)' = Calibrated(m)'
  BY <1>1 DEF NowAdds, Adds
<1>3. PICK n : Adds(Places, WithForms(k), n) /\ ContextTokens(Probe(Evicted(k))) = Calibrated(n)
  BY ProbeAddsUp
<1>4. Places' = Places
  BY SweptPlaces
<1>5. ASSUME NEW i \in Places
      PROVE  Sized(FormOf(Now, i), i)' = Sized(FormWith(k, i), i)
  <2>1. /\ \A j \in DOMAIN log : log'[j] = log[j]
        /\ Uncovered(Now)' = Uncovered(Now) /\ Covering(Now, i)' = Covering(Now, i)
    BY SweptLog, SweptPlaces
  <2>2. i \in DOMAIN log /\ FormOf(Now, i)' = FormWith(k, i)
    BY PlacesAre, SweptForm
  <2>3. \A j \in DOMAIN log : FullSize(j)' = FullSize(j)
    BY <2>1 DEF FullSize
  <2>4. CASE i \in Uncovered(Now)
    <3>1. Sized(FormOf(Now, i), i)' = SizeIn(FormOf(Now, i), i)'
      BY <2>1, <2>4 DEF Sized
    <3>2. SizeIn(FormOf(Now, i), i)' = SizeIn(FormWith(k, i), i)
      BY <2>2, <2>3 DEF SizeIn
    <3> QED BY <2>4, <3>1, <3>2 DEF Sized
  <2>5. CASE i \in Firsts(Now)
    <3>1. i \notin Uncovered(Now) /\ Covering(Now, i) \in DOMAIN log
      BY <2>5, PlacesAre
    <3>2. Sized(FormOf(Now, i), i)' = FullSize(Covering(Now, i))'
      BY <2>1, <3>1 DEF Sized
    <3>3. FullSize(Covering(Now, i))' = FullSize(Covering(Now, i))
      BY <2>1, <3>1 DEF FullSize
    <3> QED BY <3>1, <3>2, <3>3 DEF Sized
  <2> QED BY <2>4, <2>5 DEF Places
<1>6. NowForms' = WithForms(k)
  <2>1. NowForms' = [i \in Places' |-> Sized(FormOf(Now, i), i)']
    BY DEF NowForms
  <2>2. WithForms(k) = [i \in Places |-> Sized(FormWith(k, i), i)]
    BY DEF WithForms
  <2> QED BY <1>4, <1>5, <2>1, <2>2
<1>7. IsFiniteSet(Places) /\ WithForms(k) \in [Places -> Nat]
  <2>1. \A i \in Places : Sized(FormWith(k, i), i) \in Nat
    BY PlacesAre, SweptIsShorter DEF Sized, Places
  <2> QED BY <2>1, PlacesAre DEF WithForms
<1>8. m \in Nat /\ n \in Nat /\ m <= n /\ n <= m
  BY <1>2, <1>3, <1>4, <1>6, <1>7, AddsGrows
<1>9. Calibrated(m)' = Calibrated(m)
  BY DEF Calibrated
<1> QED BY <1>2, <1>3, <1>8, <1>9

-----------------------------------------------------------------------------
(* A sweep is worth its cost                                               *)

(* A sweep reaches to a place of the log.                                  *)
SweepsSound == \A e \in Of(Now, "evicted") : log[e].through \in 1 .. Len(log)

LEMMA DepthIsThere ==
  ASSUME LogSound, settings \in Settings, CanSweep
  PROVE  /\ EvictedCalls \in Nat /\ SweepDepth \in 1 .. Cardinality(CompletedCalls)
         /\ NthCall(SweepDepth) \in 1 .. Len(log)
<1>1. /\ CompletedCalls \in SUBSET (1 .. Len(log)) /\ Len(log) \in Nat
      /\ SweepDepth \in 0 .. Cardinality(CompletedCalls) /\ Cardinality(CompletedCalls) \in Nat
  BY DepthIs
<1>2. EvictedCalls \in Nat
  <2>1. IsFiniteSet(1 .. Len(log))
    BY <1>1, FS_Interval
  <2>2. IsFiniteSet({i \in CompletedCalls : i <= SweptThrough})
    BY <1>1, <2>1, FS_Subset
  <2> QED BY <2>2, FS_CardinalityType DEF EvictedCalls
<1>3. SweepDepth \in 1 .. Cardinality(CompletedCalls)
  BY <1>1, <1>2 DEF CanSweep
<1>4. NthCall(SweepDepth) \in CompletedCalls
  BY <1>3, NthIs
<1> QED BY <1>1, <1>2, <1>3, <1>4

(* Up to the calls swept before, the log says so already.                  *)
LEMMA SweptBefore ==
  ASSUME LogSound, SweepsSound, settings \in Settings, NEW n \in Nat, n = EvictedCalls, n # 0,
         NEW i, Sweeps(NthCall(n), i), i \in Nat
  PROVE  Reaches(Now, "evicted", i)
<1> DEFINE Marked == {m \in Of(Now, "evicted") : m > LastEnd(Now)}
           T == {log[e].through : e \in Marked}
<1>1. /\ CompletedCalls \in SUBSET (1 .. Len(log)) /\ Len(log) \in Nat
      /\ Cardinality(CompletedCalls) \in Nat /\ IsSeq(log) /\ DOMAIN log = 1 .. Len(log)
  BY DepthIs, LogPlaces DEF LogSound
<1>2. T \in SUBSET (1 .. Len(log))
  BY DEF SweepsSound
<1>3. SweptThrough = LastOf(T)
  BY DEF SweptThrough
<1> HIDE DEF T
<1>4. SweptThrough \in 0 .. Len(log) /\ (T # {} => SweptThrough \in T) /\ (T = {} => SweptThrough = 0)
  BY <1>1, <1>2, <1>3, LastIs
<1>5. n = Cardinality({j \in CompletedCalls : j <= SweptThrough})
  BY DEF EvictedCalls
<1>6. n \in 1 .. Cardinality(CompletedCalls)
  <2>1. IsFiniteSet(CompletedCalls)
    <3>1. IsFiniteSet(1 .. Len(log))
      BY <1>1, FS_Interval
    <3> QED BY <1>1, <3>1, FS_Subset
  <2>2. {j \in CompletedCalls : j <= SweptThrough} \in SUBSET CompletedCalls
    OBVIOUS
  <2>3. n <= Cardinality(CompletedCalls)
    BY <1>5, <2>1, <2>2, FS_Subset
  <2> QED BY <1>1, <2>3
<1>7. /\ NthCall(n) \in CompletedCalls
      /\ Cardinality({j \in CompletedCalls : j <= NthCall(n)}) = n
  BY <1>6, NthIs
<1>8. NthCall(n) <= SweptThrough /\ NthCall(n) \in 1 .. Len(log)
  <2>1. PICK c \in CompletedCalls : c = NthCall(n)
    BY <1>7
  <2>2. PICK s \in Nat : s = SweptThrough
    BY <1>4
  <2>3. Cardinality({j \in CompletedCalls : j <= c}) = Cardinality({j \in CompletedCalls : j <= s})
    BY <1>5, <1>7, <2>1, <2>2
  <2>4. c <= s
    BY <1>1, <2>3, NthLiesBefore
  <2> QED BY <1>1, <2>1, <2>2, <2>4
<1>9. T # {}
  BY <1>1, <1>4, <1>8
<1>10. PICK e \in Marked : SweptThrough = log[e].through
  BY <1>4, <1>9 DEF T
<1>11. i <= log[e].through
  <2>1. i <= NthCall(n)
    BY DEF Sweeps
  <2> QED BY <1>1, <1>4, <1>8, <1>10, <2>1
<1>12. TurnOf(Now, e) = LastEnd(Now)
  <2>1. e \in DOMAIN log /\ e > LastEnd(Now) /\ e \in Of(Now, "evicted")
    BY <1>10, NowIs
  <2>2. \A x \in Of(Now, "ended") : x < e
    <3>1. LastEnd(Now) \in Nat /\ \A x \in Ends : x <= LastEnd(Now) /\ x \in Nat
      BY <1>1, LastEndIs, NowIs DEF Ends
    <3> QED BY <1>1, <2>1, <3>1 DEF Ends
  <2>3. {x \in Of(Now, "ended") : x < e} = Of(Now, "ended")
    BY <2>2
  <2> QED BY <2>3 DEF TurnOf, LastEnd
<1>13. TurnOf(Now, e) = TurnOf(Now, i)
  BY <1>12 DEF Sweeps
<1> QED BY <1>10, <1>11, <1>13 DEF Reaches

(* evict_stale: what is swept is what the rule counted.                    *)
LEMMA SweepIsWorth ==
  ASSUME CompactInv, CompactInv', SweepsSound, EvictStale, settings.target > 0
  PROVE  ContextTokens(Now) - ContextTokens(Now)' >= MinFree(settings.target)
<1>1. LogSound /\ LogSound' /\ ChainInv /\ settings \in Settings /\ ratio \in Ratios
  BY DEF CompactInv, SettingsSound
<1>2. CanSweep /\ SweepPays /\ UNCHANGED ratio
  BY DEF EvictStale
<1>3. PICK k : k = NthCall(SweepDepth) /\ Write(Evicted(k))
  BY DEF EvictStale
<1>4. EvictedCalls \in Nat /\ SweepDepth # 0
  BY <1>1, <1>2, DepthIsThere
<1>5. ProbeCalls(SweepDepth) = Probe(Evicted(k))
  BY <1>3, <1>4 DEF ProbeCalls
<1>6. ContextTokens(Now)' = ContextTokens(ProbeCalls(SweepDepth))
  BY <1>1, <1>2, <1>3, <1>5, SweptCounts
<1>7. /\ ContextTokens(Now) \in Nat /\ ContextTokens(ProbeCalls(SweepDepth)) \in Nat
      /\ ContextTokens(ProbeCalls(SweepDepth)) <= ContextTokens(Now)
  BY <1>1, <1>5, SweepCounts
<1>8. ContextTokens(ProbeCalls(EvictedCalls)) = ContextTokens(Now)
  <2>1. CASE EvictedCalls = 0
    BY <2>1 DEF ProbeCalls
  <2>2. CASE EvictedCalls # 0
    <3>1. PICK n \in Nat : n = EvictedCalls /\ n # 0
      BY <1>4, <2>2
    <3>2. PICK q : q = NthCall(n)
      OBVIOUS
    <3>3. ProbeCalls(EvictedCalls) = Probe(Evicted(q))
      BY <3>1, <3>2 DEF ProbeCalls
    <3>4. \A i \in Nat : Sweeps(q, i) => Reaches(Now, "evicted", i)
      BY <1>1, <3>1, <3>2, SweptBefore
    <3> QED BY <1>1, <3>3, <3>4, SweepCounts
  <2> QED BY <2>1, <2>2
<1>9. Minus(ContextTokens(Now), ContextTokens(ProbeCalls(SweepDepth))) >= MinFree(settings.target)
  BY <1>2, <1>8 DEF SweepPays, SweepFrees
<1> QED BY <1>6, <1>7, <1>9 DEF Minus

(* Every other step writes no sweep.                                       *)
WritesElse ==
  \/ log' = log
  \/ \E e : Write(e) /\ e.kind # "evicted"
  \/ \E e, f : log' = log \o <<e, f>> /\ e.kind # "evicted" /\ f.kind # "evicted"

LEMMA OtherKinds ==
  /\ \A size : User(size).kind # "evicted"
  /\ \A tool : Reply(tool).kind # "evicted"
  /\ \A tool, error : Result(tool, error).kind # "evicted"
  /\ \A from, to, text, size : Summary(from, to, text, size).kind # "evicted"
  /\ \A from, to : Truncated(from, to).kind # "evicted"
  /\ \A through : Stubbed(through).kind # "evicted"
  /\ Ended.kind # "evicted" /\ Saturated.kind # "evicted"
BY DEF User, Reply, Result, Summary, Truncated, Stubbed, Ended, Saturated

LEMMA CrashWritesElse == IsSeq(log) /\ Crash => WritesElse
<1> SUFFICES ASSUME IsSeq(log), Crash PROVE WritesElse
  OBVIOUS
<1> DEFINE e == Result(log[Len(log)].tool, TRUE)
           f == User(1)
<1>1. log' = IF ~TurnOpen THEN log
             ELSE (IF pc = "call" THEN Append(log, e) ELSE log) \o <<f>>
  BY DEF Crash
<1>2. e.kind # "evicted" /\ f.kind # "evicted"
  BY OtherKinds
<1> HIDE DEF e, f
<1>3. CASE ~TurnOpen
  BY <1>1, <1>3 DEF WritesElse
<1>4. CASE TurnOpen /\ pc # "call"
  <2>1. log' = Append(log, f)
    BY <1>1, <1>4, AppendedOne
  <2> QED BY <1>2, <2>1 DEF WritesElse, Write
<1>5. CASE TurnOpen /\ pc = "call"
  <2>1. log' = Append(log, e) \o <<f>>
    BY <1>1, <1>5
  <2>2. log' = log \o <<e, f>>
    BY <2>1, AppendedTwo
  <2> QED BY <1>2, <2>2 DEF WritesElse
<1> QED BY <1>3, <1>4, <1>5

LEMMA StepsWriteElse ==
  ASSUME IsSeq(log), [Next]_vars
  PROVE  EvictStale \/ WritesElse
<1>1. CASE UNCHANGED vars
  BY <1>1 DEF WritesElse, vars
<1>2. CASE Post \/ Steer
  BY <1>2, OtherKinds DEF Post, Steer, WritesElse
<1>3. CASE EndAtTop
  BY <1>3, OtherKinds DEF EndAtTop, WritesElse
<1>4. CASE Seam
  <2>1. CASE BatchStale
    BY <2>1, OtherKinds DEF BatchStale, WritesElse
  <2>2. CASE SaySaturated \/ HoldSweep
    BY <2>2, OtherKinds DEF SaySaturated, HoldSweep, WritesElse
  <2> QED BY <1>4, <2>1, <2>2 DEF Seam
<1>5. CASE LinkWritten \/ SummaryWritten
  <2>1. \A from, to, text : AppendSummary(from, to, text) => WritesElse
    BY OtherKinds DEF AppendSummary, WritesElse
  <2> QED BY <1>5, <2>1 DEF LinkWritten, SummaryWritten
<1>6. CASE Truncate
  BY <1>6, OtherKinds DEF Truncate, WritesElse
<1>7. CASE LinkSkipped \/ NoEmergency \/ EnoughCut \/ NotEnoughCut \/ Summarise \/ SummaryEmpty
  BY <1>7 DEF LinkSkipped, NoEmergency, EnoughCut, NotEnoughCut, Summarise, SummaryEmpty, WritesElse
<1>8. CASE SummaryFails
  BY <1>8, OtherKinds DEF SummaryFails, WritesElse
<1>9. CASE Answer
  <2>1. log' = log \o <<Reply(None), Ended>>
    BY <1>9 DEF Answer
  <2> QED BY <2>1, OtherKinds DEF WritesElse
<1>10. CASE RequestFails \/ Call \/ Ran
  BY <1>10, OtherKinds DEF RequestFails, Call, Ran, WritesElse
<1>11. CASE CompactNow
  BY <1>11, OtherKinds DEF CompactNow, WritesElse
<1>12. CASE Crash
  BY <1>12, CrashWritesElse
<1> QED BY <1>1, <1>2, <1>3, <1>4, <1>5, <1>6, <1>7, <1>8, <1>9, <1>10, <1>11, <1>12
        DEF Next, TurnStep

(* What is written behind the log then is no sweep.                        *)
LEMMA ElseIsNoSweep ==
  ASSUME IsSeq(log), WritesElse
  PROVE  /\ Grows /\ \A i \in NewPlaces : log'[i].kind # "evicted"
         /\ log' # log => log'[Len(log')].kind # "evicted"
<1>0. Len(log) \in Nat /\ DOMAIN log = 1 .. Len(log)
  BY LogPlaces
<1>1. CASE log' = log
  BY <1>1, Stays
<1>2. CASE \E e : Write(e) /\ e.kind # "evicted"
  BY <1>2, GetsOne
<1>3. CASE \E e, f : log' = log \o <<e, f>> /\ e.kind # "evicted" /\ f.kind # "evicted"
  <2>1. PICK e, f : log' = log \o <<e, f>> /\ e.kind # "evicted" /\ f.kind # "evicted"
    BY <1>3
  <2>2. /\ Grows /\ NewPlaces = {Len(log) + 1, Len(log) + 2}
        /\ log'[Len(log) + 1] = e /\ log'[Len(log) + 2] = f /\ Len(log') = Len(log) + 2
    BY <2>1, GetsTwo
  <2> QED BY <2>1, <2>2
<1> QED BY <1>1, <1>2, <1>3 DEF WritesElse

LEMMA SweepsInit == Init => SweepsSound
<1> SUFFICES ASSUME Init PROVE SweepsSound
  OBVIOUS
<1>1. Of(Now, "evicted") = {}
  BY NowIs DEF Init
<1> QED BY <1>1 DEF SweepsSound

LEMMA SweepsStep == CompactInv /\ SweepsSound /\ [Next]_vars => SweepsSound'
<1> SUFFICES ASSUME CompactInv, SweepsSound, [Next]_vars PROVE SweepsSound'
  OBVIOUS
<1>1. LogSound /\ ChainInv /\ IsSeq(log) /\ settings \in Settings
  BY DEF CompactInv, LogSound, SettingsSound
<1>2. CASE EvictStale
  <2>1. PICK k : k = NthCall(SweepDepth) /\ Write(Evicted(k)) /\ CanSweep
    BY <1>2 DEF EvictStale
  <2>2. k \in 1 .. Len(log)
    BY <1>1, <2>1, DepthIsThere
  <2>3. /\ \A i \in DOMAIN log : log'[i] = log[i]
        /\ Len(log) \in Nat /\ log'[Len(log) + 1].through = k
        /\ Of(Now, "evicted")' = Of(Now, "evicted") \cup {Len(log) + 1}
        /\ Of(Now, "evicted") \subseteq DOMAIN log
    BY <1>1, <2>1, SweptLog
  <2>4. Len(log') = Len(log) + 1
    BY <1>1, <2>1, GetsOne
  <2>5. \A e \in Of(Now, "evicted")' : log'[e].through \in 1 .. Len(log)
    BY <2>2, <2>3 DEF SweepsSound
  <2>6. \A e \in Of(Now, "evicted")' : log'[e].through \in 1 .. Len(log')
    BY <2>3, <2>4, <2>5
  <2> QED BY <2>6 DEF SweepsSound
<1>3. CASE WritesElse
  <2>1. Grows /\ \A i \in NewPlaces : log'[i].kind # "evicted"
    BY <1>1, <1>3, ElseIsNoSweep
  <2>2. /\ Of(Now, "evicted")' = Of(Now, "evicted") \cup {i \in NewPlaces : log'[i].kind = "evicted"}
        /\ Of(Now, "evicted") \subseteq DOMAIN log
    BY <1>1, <2>1, GrownOf
  <2>3. Of(Now, "evicted")' = Of(Now, "evicted")
    BY <2>1, <2>2
  <2>4. /\ Len(log) \in Nat /\ Len(log') \in Nat /\ Len(log) <= Len(log')
        /\ \A i \in DOMAIN log : log'[i] = log[i]
    BY <1>1, <2>1, GrownIs
  <2>5. \A e \in Of(Now, "evicted")' : log'[e].through \in 1 .. Len(log)
    BY <2>2, <2>3, <2>4 DEF SweepsSound
  <2>6. \A e \in Of(Now, "evicted")' : log'[e].through \in 1 .. Len(log')
    BY <2>4, <2>5
  <2> QED BY <2>6 DEF SweepsSound
<1> QED BY <1>1, <1>2, <1>3, StepsWriteElse

(* evict_stale: a sweep of the open turn frees at least the share of the   *)
(* working set that is worth the broken prefix, of what is shown and not   *)
(* of what the rule looked at.                                             *)
THEOREM SweepFreesEnoughAlways == Spec => SweepFreesEnough
<1>1. Spec => []SweepsSound
  BY CompactAlways, SweepsInit, SweepsStep, PTL DEF Spec
<1>2. ASSUME CompactInv, CompactInv', SweepsSound, [Next]_vars,
             log' # log, log'[Len(log')].kind = "evicted", settings.target > 0
      PROVE  ContextTokens(Now) - ContextTokens(Now)' >= MinFree(settings.target)
  <2>1. IsSeq(log)
    BY <1>2 DEF CompactInv, LogSound
  <2>2. EvictStale
    BY <1>2, <2>1, StepsWriteElse, ElseIsNoSweep
  <2> QED BY <1>2, <2>2, SweepIsWorth
<1>3. CompactInv /\ CompactInv' /\ SweepsSound /\ [Next]_vars =>
        [log' # log /\ log'[Len(log')].kind = "evicted" /\ settings.target > 0 =>
          ContextTokens(Now) - ContextTokens(Now)' >= MinFree(settings.target)]_vars
  BY <1>2
<1> QED BY <1>1, <1>3, CompactAlways, PTL DEF Spec, SweepFreesEnough

===============================================================================
