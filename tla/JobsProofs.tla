----------------------------- MODULE JobsProofs -----------------------------
(***************************************************************************)
(* What holds of any number of jobs, messages, crashes and failed writes:  *)
(* a job's return is on the front once, and it says what the job's log     *)
(* shows.                                                                  *)
(***************************************************************************)
EXTENDS Jobs, FiniteSetTheorems, TLAPS, WellFoundedInduction

FrontEvent == [k : {"yes"}, job : JobIds] \union [k : {"return"}, job : JobIds, outcome : Outcomes]
Note == [job : JobIds, outcome : Outcomes, by : Senders]
Places ==
  {"none", "starting", "made", "opening", "briefing", "driving", "late", "stopped",
   "ended", "posting", "failing", "waiting", "over", "unposted"}
Said == Outcomes \union {"none"}
Entry == {"thread", "message"} \union Reply \union TurnEnd
ScanPlaces == {"none", "due", "looking", "posting", "waiting"}

(* The parts of TypeOK, by who changes them.                               *)
FrontOK ==
  /\ up \in BOOLEAN /\ front_at \in {"idle", "turn", "noting"}
  /\ front \in Seq(FrontEvent) /\ notes \in Seq(Note)
DriverOK == driver \in [JobIds -> [at : Places, said : Said]] /\ number \in [JobIds -> Nat]
LogsOK == child \in [JobIds -> Seq(Entry)] /\ broken \subseteq JobIds
ThreadsOK ==
  /\ runs \subseteq JobIds /\ cancel \subseteq runs
  /\ actor \in [JobIds -> {"none", "approved", "narrow"}]
  /\ \A j \in runs : actor[j] # "none" /\ OpenTurn(j)
ScanOK ==
  /\ scan \in [at : ScanPlaces, left : SUBSET JobIds, job : JobIds \union {NoJob}, said : Said]
  /\ crashes \in 0..MaxCrashes /\ faults \in 0..MaxFaults

LEMMA Parts == TypeOK <=> FrontOK /\ DriverOK /\ LogsOK /\ ThreadsOK /\ ScanOK
BY DEF TypeOK, FrontOK, DriverOK, LogsOK, ThreadsOK, ScanOK, FrontEvent, Note, Places, Said,
       Entry, ScanPlaces

(* What a job's log bears out, of what may be said of it.                  *)
Backed(j, outcome) ==
  /\ outcome = "failed" => "failed" \in Logged(j)
  /\ outcome = "finished" => EndedWell(j) \/ j \in broken

(* What the front holds and what somebody is about to say is borne out.    *)
ReturnsBacked ==
  \A i \in DOMAIN front, j \in JobIds, o \in Outcomes :
    front[i].k = "return" /\ front[i].job = j /\ front[i].outcome = o => Backed(j, o)
NotesBacked ==
  \A i \in DOMAIN notes, j \in JobIds, o \in Outcomes :
    notes[i].job = j /\ notes[i].outcome = o => Backed(j, o)
SaysBacked ==
  /\ \A j \in JobIds, o \in Said :
       driver[j].at = "posting" /\ driver[j].said = o => o \in Outcomes /\ Backed(j, o)
  /\ \A j \in JobIds \union {NoJob}, o \in Said :
       scan.at = "posting" /\ scan.job = j /\ scan.said = o =>
         j \in JobIds /\ o \in Outcomes /\ Backed(j, o)

(* A driver past its job's turn has an end of one to read, or the turn     *)
(* broke.                                                                  *)
HasEnd(j) == (\E e \in TurnEnd : e \in Logged(j)) \/ j \in broken
EndToRead ==
  \A j \in JobIds :
    /\ driver[j].at = "driving" => j \in runs \/ HasEnd(j)
    /\ driver[j].at = "ended" => HasEnd(j)

(* A job's thread is made once, after its yes and before it is open.       *)
HasYes(j) == \E i \in DOMAIN front : front[i] = Yes(j)
MadeOnce ==
  \A j \in JobIds :
    /\ child[j] # <<>> \/ driver[j].at = "starting" => HasYes(j)
    /\ driver[j].at = "starting" => child[j] = <<>>
    /\ driver[j].at \in {"made", "opening", "briefing"} => child[j] # <<>>
    /\ actor[j] # "none" => child[j] # <<>>
    /\ driver[j].at = "briefing" => actor[j] # "none"

JInv ==
  /\ FrontOK /\ DriverOK /\ LogsOK /\ ThreadsOK /\ ScanOK
  /\ ReturnedOnce /\ ReturnsBacked /\ NotesBacked /\ SaysBacked /\ EndToRead /\ MadeOnce

-----------------------------------------------------------------------------
(* A set of places of a log that is not empty has a last one.              *)
LEMMA LastOne ==
  ASSUME NEW n \in Nat, NEW S \in SUBSET (1 .. n), S /= {}
  PROVE  \E m \in S : \A i \in S : i <= m
<1> DEFINE T == {n - i : i \in S}
<1>1. T \subseteq Nat
  OBVIOUS
<1>2. T /= {}
  OBVIOUS
<1>3. PICK t \in T : \A u \in T : ~ (<<u, t>> \in OpToRel(<, Nat))
  <2> HIDE DEF T
  <2> QED BY <1>1, <1>2, NatLessThanWellFounded, WFMin
<1>4. \A u \in T : ~ (u < t)
  BY <1>1, <1>3 DEF OpToRel
<1>5. PICK m \in S : t = n - m
  OBVIOUS
<1>6. ASSUME NEW i \in S PROVE i <= m
  <2>1. n - i \in T
    OBVIOUS
  <2>2. ~ (n - i < n - m)
    BY <1>4, <1>5, <2>1
  <2> QED BY <2>2
<1> QED BY <1>6

(* What a driver reads of a job that has an end is what its log bears out. *)
LEMMA ReadsBacked ==
  ASSUME LogsOK, NEW j \in JobIds, NEW late \in BOOLEAN, HasEnd(j)
  PROVE  JobReturn(j, late) \in Outcomes /\ Backed(j, JobReturn(j, late))
<1> DEFINE at == {i \in DOMAIN child[j] : child[j][i] \in TurnEnd}
<1>1. at \subseteq 1 .. Len(child[j]) /\ Len(child[j]) \in Nat
  BY DEF LogsOK
<1>2. CASE at = {}
  <2>1. j \in broken
    BY <1>2 DEF HasEnd, Logged
  <2>2. LastEnd(j) = "none"
    BY <1>2 DEF LastEnd
  <2> QED BY <2>1, <2>2 DEF JobReturn, Backed, Outcomes
<1>3. CASE at # {}
  <2>1. \E i \in at : \A n \in at : n <= i
    BY <1>1, <1>3, LastOne
  <2>2. Answered(j) => "answer" \in Logged(j)
    BY DEF Answered, Logged
  <2>3. LastEnd(j) \in Logged(j) /\ LastEnd(j) \in TurnEnd
    <3> DEFINE m == CHOOSE i \in at : \A n \in at : n <= i
    <3>1. m \in at
      BY <2>1
    <3>2. LastEnd(j) = child[j][m]
      BY <1>3 DEF LastEnd
    <3> QED BY <3>1, <3>2 DEF Logged
  <2> QED BY <2>2, <2>3 DEF JobReturn, Backed, EndedWell, Outcomes, TurnEnd
<1> QED BY <1>2, <1>3

(* What the log bore out it bears out as it grows.                         *)
LEMMA BackedStays ==
  ASSUME \A j \in JobIds : Logged(j) \subseteq Logged(j)', broken \subseteq broken',
         NEW j \in JobIds, NEW outcome
  PROVE  /\ Backed(j, outcome) => Backed(j, outcome)'
         /\ HasEnd(j) => HasEnd(j)'
BY DEF Backed, HasEnd, EndedWell

(* A log that grows by an event.                                           *)
LEMMA LogGrows ==
  ASSUME LogsOK, NEW j \in JobIds, NEW e \in Entry,
         child' = [child EXCEPT ![j] = Append(@, e)]
  PROVE  /\ child' \in [JobIds -> Seq(Entry)]
         /\ \A i \in JobIds : Logged(i) \subseteq Logged(i)'
         /\ child'[j] # <<>>
         /\ \A i \in JobIds : i # j => child'[i] = child[i] /\ (OpenTurn(i) => OpenTurn(i)')
         /\ e = "message" => OpenTurn(j)'
         /\ e \in Reply /\ OpenTurn(j) => OpenTurn(j)'
         /\ e \in TurnEnd => e \in Logged(j)'
<1>1. /\ child' \in [JobIds -> Seq(Entry)]
      /\ \A i \in JobIds : i # j => child'[i] = child[i]
      /\ child'[j] = Append(child[j], e)
  BY DEF LogsOK
<1>2. /\ Len(child'[j]) = Len(child[j]) + 1 /\ Len(child[j]) \in Nat
      /\ child'[j][Len(child[j]) + 1] = e
      /\ \A n \in 1 .. Len(child[j]) : child'[j][n] = child[j][n]
      /\ DOMAIN child[j] = 1 .. Len(child[j]) /\ DOMAIN child'[j] = 1 .. (Len(child[j]) + 1)
  BY <1>1 DEF LogsOK
<1>3. Logged(j) \subseteq Logged(j)'
  BY <1>2 DEF Logged
<1>4. \A i \in JobIds : i # j => Logged(i)' = Logged(i) /\ OpenTurn(i)' = OpenTurn(i)
  BY <1>1 DEF Logged, OpenTurn
<1>5. e = "message" => OpenTurn(j)'
  <2> SUFFICES ASSUME e = "message" PROVE OpenTurn(j)'
    OBVIOUS
  <2>1. \A n \in (Len(child[j]) + 1) .. Len(child'[j]) : child'[j][n] \notin TurnEnd
    BY <1>2 DEF TurnEnd
  <2> QED BY <1>2, <2>1 DEF OpenTurn
<1>6. e \in TurnEnd => e \in Logged(j)'
  BY <1>2 DEF Logged
<1>7. child'[j] # <<>>
  BY <1>1, <1>2
<1>8. e \in Reply /\ OpenTurn(j) => OpenTurn(j)'
  <2> SUFFICES ASSUME e \in Reply, OpenTurn(j) PROVE OpenTurn(j)'
    OBVIOUS
  <2>1. PICK i \in 1 .. Len(child[j]) :
          child[j][i] = "message" /\ \A n \in i .. Len(child[j]) : child[j][n] \notin TurnEnd
    BY <1>2 DEF OpenTurn
  <2>2. e \notin TurnEnd
    BY DEF Reply, TurnEnd
  <2>3. ASSUME NEW n \in i .. Len(child'[j]) PROVE child'[j][n] \notin TurnEnd
    <3>1. CASE n = Len(child[j]) + 1
      BY <1>2, <2>2, <3>1
    <3>2. CASE n # Len(child[j]) + 1
      BY <1>2, <2>1, <3>2
    <3> QED BY <3>1, <3>2
  <2> QED BY <1>2, <2>1, <2>3 DEF OpenTurn
<1> QED BY <1>1, <1>3, <1>4, <1>5, <1>6, <1>7, <1>8

(* A front that grows by an event.                                         *)
LEMMA FrontGrows ==
  ASSUME FrontOK, NEW e \in FrontEvent, front' = Append(front, e)
  PROVE  /\ front' \in Seq(FrontEvent)
         /\ DOMAIN front = 1 .. Len(front) /\ Len(front) \in Nat
         /\ DOMAIN front' = 1 .. (Len(front) + 1)
         /\ \A i \in 1 .. Len(front) : front'[i] = front[i]
         /\ front'[Len(front) + 1] = e
         /\ \A j \in JobIds : HasYes(j) => HasYes(j)'
<1>1. /\ front' \in Seq(FrontEvent)
      /\ DOMAIN front = 1 .. Len(front) /\ Len(front) \in Nat
      /\ DOMAIN front' = 1 .. (Len(front) + 1)
      /\ \A i \in 1 .. Len(front) : front'[i] = front[i]
      /\ front'[Len(front) + 1] = e
  BY DEF FrontOK
<1> QED BY <1>1 DEF HasYes, Yes

(* What is known of the logs stays known while nobody writes them.         *)
LEMMA SameLogs ==
  ASSUME UNCHANGED <<child, broken>>, NEW j \in JobIds
  PROVE  /\ \A outcome : Backed(j, outcome)' <=> Backed(j, outcome)
         /\ HasEnd(j)' <=> HasEnd(j)
         /\ OpenTurn(j)' <=> OpenTurn(j)
BY DEF Backed, HasEnd, EndedWell, Logged, OpenTurn

LEMMA SameFront ==
  ASSUME ReturnedOnce, ReturnsBacked, UNCHANGED front,
         \A j \in JobIds : Logged(j) \subseteq Logged(j)', broken \subseteq broken'
  PROVE  ReturnedOnce' /\ ReturnsBacked' /\ \A j \in JobIds : HasYes(j)' <=> HasYes(j)
<1>1. ReturnedOnce' /\ \A j \in JobIds : HasYes(j)' <=> HasYes(j)
  BY DEF ReturnedOnce, HasYes
<1>2. \A j \in JobIds, o \in Outcomes : Backed(j, o) => Backed(j, o)'
  BY BackedStays
<1>3. ReturnsBacked'
  BY <1>2 DEF ReturnsBacked
<1> QED BY <1>1, <1>3

-----------------------------------------------------------------------------
LEMMA JInvInit == Init => JInv
<1> SUFFICES ASSUME Init PROVE JInv
  OBVIOUS
<1> USE JobsAssumption, BoundsAssumption
<1>1. FrontOK
  <2>1. front \in Seq(FrontEvent) /\ notes \in Seq(Note)
    BY DEF Init
  <2>2. up \in BOOLEAN /\ front_at \in {"idle", "turn", "noting"}
    BY DEF Init
  <2> QED BY <2>1, <2>2 DEF FrontOK
<1>2. DriverOK
  BY DEF Init, DriverOK, NoDriver, Places, Said
<1>3. LogsOK
  BY DEF Init, LogsOK
<1>4. ThreadsOK
  BY DEF Init, ThreadsOK
<1>5. ScanOK
  BY DEF Init, ScanOK, Scan, ScanPlaces, Said
<1>6. ReturnedOnce /\ ReturnsBacked /\ NotesBacked
  BY DEF Init, ReturnedOnce, ReturnsBacked, NotesBacked
<1>7. SaysBacked
  BY DEF Init, SaysBacked, NoDriver, Scan
<1>8. EndToRead /\ MadeOnce
  BY DEF Init, EndToRead, MadeOnce, NoDriver
<1> QED BY <1>1, <1>2, <1>3, <1>4, <1>5, <1>6, <1>7, <1>8 DEF JInv

-----------------------------------------------------------------------------
(* A sender that hears of its return goes where nothing is promised of it. *)
Quiet == {"over", "waiting", "failing", "unposted"}

LEMMA Heard ==
  ASSUME DriverOK, ScanOK, NEW n \in Note, NEW place \in Quiet, Hears(n, place)
  PROVE  /\ driver' \in [JobIds -> [at : Places, said : Said]]
         /\ \A j \in JobIds : driver'[j] = driver[j] \/ driver'[j].at \in Quiet
         /\ scan' \in [at : ScanPlaces, left : SUBSET JobIds, job : JobIds \union {NoJob}, said : Said]
         /\ scan' = scan \/ scan'.at # "posting"
<1>1. CASE n.by = "scan"
  <2>1. UNCHANGED driver
    BY <1>1 DEF Hears
  <2>2. scan' = [scan EXCEPT !.at = "waiting"] \/ scan' = [Scan("looking") EXCEPT !.left = scan.left]
    BY <1>1 DEF Hears
  <2>3. CASE scan' = [scan EXCEPT !.at = "waiting"]
    BY <2>1, <2>3 DEF DriverOK, ScanOK, ScanPlaces
  <2>4. CASE scan' = [Scan("looking") EXCEPT !.left = scan.left]
    <3>1. scan' = [at |-> "looking", left |-> scan.left, job |-> NoJob, said |-> "none"]
      BY <2>4 DEF Scan
    <3> QED BY <2>1, <3>1 DEF DriverOK, ScanOK, ScanPlaces, Said
  <2> QED BY <2>2, <2>3, <2>4
<1>2. CASE n.by # "scan"
  <2>1. driver' = [driver EXCEPT ![n.job].at = place] /\ UNCHANGED scan
    BY <1>2 DEF Hears, Goes
  <2>2. n.job \in JobIds /\ place \in Places
    BY DEF Note, Quiet, Places
  <2>3. \A j \in JobIds : driver'[j] = IF j = n.job THEN [driver[j] EXCEPT !.at = place] ELSE driver[j]
    BY <2>1, <2>2 DEF DriverOK
  <2>4. driver' \in [JobIds -> [at : Places, said : Said]]
    BY <2>1, <2>2 DEF DriverOK
  <2>5. \A j \in JobIds : driver'[j] = driver[j] \/ driver'[j].at \in Quiet
    BY <2>2, <2>3, <2>4 DEF DriverOK
  <2> QED BY <2>1, <2>4, <2>5 DEF ScanOK
<1> QED BY <1>1, <1>2

(* The front writes a return it does not hold, or none.                    *)
LEMMA Noted ==
  ASSUME JInv, NEW n \in Note, Backed(n.job, n.outcome), WriteNote(n), UNCHANGED <<child, broken>>
  PROVE  /\ front' \in Seq(FrontEvent)
         /\ ReturnedOnce' /\ ReturnsBacked'
         /\ \A j \in JobIds : HasYes(j) => HasYes(j)'
         /\ faults' \in 0..MaxFaults
         /\ \E place \in Quiet : Hears(n, place)
<1> USE BoundsAssumption DEF JInv
<1>1. \A j \in JobIds : \A o : Backed(j, o)' <=> Backed(j, o)
  BY SameLogs
<1>2. \A j \in JobIds : Logged(j) \subseteq Logged(j)'
  BY DEF Logged
<1>3. /\ faults' \in 0..MaxFaults
      /\ \E place \in Quiet : Hears(n, place)
  BY DEF WriteNote, ScanOK, Quiet
<1>4. CASE UNCHANGED front
  BY <1>2, <1>3, <1>4, SameFront DEF FrontOK
<1>5. CASE ~Returned(n.job) /\ front' = Append(front, Return(n.job, n.outcome))
  <2>1. Return(n.job, n.outcome) \in FrontEvent /\ n.job \in JobIds
    BY DEF Return, FrontEvent, Note
  <2>2. /\ front' \in Seq(FrontEvent)
        /\ DOMAIN front = 1 .. Len(front) /\ Len(front) \in Nat
        /\ DOMAIN front' = 1 .. (Len(front) + 1)
        /\ \A i \in 1 .. Len(front) : front'[i] = front[i]
        /\ front'[Len(front) + 1] = Return(n.job, n.outcome)
        /\ \A j \in JobIds : HasYes(j) => HasYes(j)'
    BY <1>5, <2>1, FrontGrows
  <2>3. ReturnedOnce'
    <3>1. \A i \in 1 .. Len(front) : front[i].k = "return" => front[i].job # n.job
      BY <1>5, <2>2 DEF Returned
    <3> QED BY <2>2, <3>1 DEF ReturnedOnce, Return
  <2>4. ReturnsBacked'
    <3>1. ASSUME NEW i \in DOMAIN front', NEW j \in JobIds, NEW o \in Outcomes,
                 front'[i].k = "return", front'[i].job = j, front'[i].outcome = o
          PROVE  Backed(j, o)
      BY <2>1, <2>2, <3>1 DEF ReturnsBacked, Return
    <3> QED BY <1>1, <3>1 DEF ReturnsBacked
  <2> QED BY <1>3, <2>2, <2>3, <2>4
<1> QED BY <1>4, <1>5 DEF WriteNote

(* What a return that is heard of leaves of the rest.                      *)
LEMMA RestKept ==
  ASSUME JInv, UNCHANGED <<childVars, broken, number, crashes>>, faults' \in 0..MaxFaults,
         \A j \in JobIds : HasYes(j) => HasYes(j)',
         NEW n \in Note, NEW place \in Quiet, Hears(n, place)
  PROVE  DriverOK' /\ LogsOK' /\ ThreadsOK' /\ ScanOK' /\ SaysBacked' /\ EndToRead' /\ MadeOnce'
<1> USE DEF JInv
<1>1. /\ driver' \in [JobIds -> [at : Places, said : Said]]
      /\ \A j \in JobIds : driver'[j] = driver[j] \/ driver'[j].at \in Quiet
      /\ scan' \in [at : ScanPlaces, left : SUBSET JobIds, job : JobIds \union {NoJob}, said : Said]
      /\ scan' = scan \/ scan'.at # "posting"
  BY Heard
<1>2. \A j \in JobIds : /\ \A o : Backed(j, o)' <=> Backed(j, o)
                        /\ HasEnd(j)' <=> HasEnd(j)
                        /\ OpenTurn(j)' <=> OpenTurn(j)
  BY SameLogs DEF childVars
<1>3. DriverOK' /\ ScanOK'
  BY <1>1 DEF DriverOK, ScanOK
<1>4. LogsOK' /\ ThreadsOK'
  BY <1>2 DEF LogsOK, ThreadsOK, childVars
<1>5. SaysBacked'
  <2>1. ASSUME NEW j \in JobIds, NEW o \in Said, driver'[j].at = "posting", driver'[j].said = o
        PROVE  o \in Outcomes /\ Backed(j, o)'
    <3>1. driver'[j] = driver[j]
      BY <1>1, <2>1 DEF Quiet
    <3> QED BY <1>2, <2>1, <3>1 DEF SaysBacked
  <2>2. ASSUME NEW j \in JobIds \union {NoJob}, NEW o \in Said,
               scan'.at = "posting", scan'.job = j, scan'.said = o
        PROVE  j \in JobIds /\ o \in Outcomes /\ Backed(j, o)'
    <3>1. scan' = scan
      BY <1>1, <2>2
    <3>2. j \in JobIds /\ o \in Outcomes /\ Backed(j, o)
      BY <2>2, <3>1 DEF SaysBacked
    <3> QED BY <1>2, <3>2
  <2> QED BY <2>1, <2>2 DEF SaysBacked
<1>6. EndToRead'
  BY <1>1, <1>2 DEF EndToRead, Quiet, childVars
<1>7. MadeOnce'
  BY <1>1 DEF MadeOnce, Quiet, childVars
<1> QED BY <1>3, <1>4, <1>5, <1>6, <1>7

(* A return is written or set aside.                                       *)
LEMMA Sent ==
  ASSUME JInv, NEW n \in Note, Backed(n.job, n.outcome), Send(n),
         UNCHANGED <<up, front_at, childVars, broken, number, crashes>>
  PROVE  JInv'
<1> USE DEF JInv
<1>1. UNCHANGED <<child, broken>>
  BY DEF childVars
<1>2. \A j \in JobIds, o \in Outcomes : Backed(j, o)' <=> Backed(j, o)
  BY <1>1, SameLogs
<1>3. CASE WriteNote(n) /\ UNCHANGED notes
  <2>1. /\ front' \in Seq(FrontEvent)
        /\ ReturnedOnce' /\ ReturnsBacked'
        /\ \A j \in JobIds : HasYes(j) => HasYes(j)'
        /\ faults' \in 0..MaxFaults
    BY <1>1, <1>3, Noted
  <2>2. PICK place \in Quiet : Hears(n, place)
    BY <1>1, <1>3, Noted
  <2>3. NotesBacked'
    BY <1>2, <1>3 DEF NotesBacked
  <2>4. DriverOK' /\ LogsOK' /\ ThreadsOK' /\ ScanOK' /\ SaysBacked' /\ EndToRead' /\ MadeOnce'
    BY <2>1, <2>2, RestKept
  <2>5. FrontOK'
    BY <1>3, <2>1 DEF FrontOK
  <2> QED BY <2>1, <2>3, <2>4, <2>5
<1>4. CASE /\ notes' = Append(notes, n) /\ Hears(n, "waiting")
           /\ UNCHANGED <<front, faults>>
  <2>1. /\ notes' \in Seq(Note)
        /\ DOMAIN notes' = 1 .. (Len(notes) + 1) /\ DOMAIN notes = 1 .. Len(notes) /\ Len(notes) \in Nat
        /\ \A i \in 1 .. Len(notes) : notes'[i] = notes[i]
        /\ notes'[Len(notes) + 1] = n
    BY <1>4 DEF FrontOK
  <2>2. NotesBacked'
    BY <1>2, <2>1 DEF NotesBacked
  <2>3. \A j \in JobIds : Logged(j) \subseteq Logged(j)'
    BY <1>1 DEF Logged
  <2>4. ReturnedOnce' /\ ReturnsBacked' /\ \A j \in JobIds : HasYes(j)' <=> HasYes(j)
    BY <1>1, <1>4, <2>3, SameFront
  <2>5. faults' \in 0..MaxFaults /\ "waiting" \in Quiet
    BY <1>4 DEF ScanOK, Quiet
  <2>6. DriverOK' /\ LogsOK' /\ ThreadsOK' /\ ScanOK' /\ SaysBacked' /\ EndToRead' /\ MadeOnce'
    BY <1>4, <2>4, <2>5, RestKept
  <2>7. FrontOK'
    BY <1>4, <2>1 DEF FrontOK
  <2> QED BY <2>2, <2>4, <2>6, <2>7
<1> QED BY <1>3, <1>4 DEF Send

-----------------------------------------------------------------------------
(* The steps that say nothing: they leave the front, the notes and what    *)
(* the logs hold, and the drivers and the scan come to say nothing new.    *)
LEMMA Unsaid ==
  ASSUME JInv, UNCHANGED <<front, notes>>,
         \A j \in JobIds : Logged(j) \subseteq Logged(j)', broken \subseteq broken',
         \A j \in JobIds : driver'[j] = driver[j] \/ driver'[j].at # "posting",
         scan' = scan \/ scan'.at # "posting"
  PROVE  ReturnedOnce' /\ ReturnsBacked' /\ NotesBacked' /\ SaysBacked'
<1> USE DEF JInv
<1>1. \A j \in JobIds, o \in Said : Backed(j, o) => Backed(j, o)'
  BY BackedStays
<1>2. ReturnedOnce' /\ ReturnsBacked'
  BY SameFront
<1>3. NotesBacked'
  BY <1>1 DEF NotesBacked, Said
<1>4. ASSUME NEW j \in JobIds, NEW o \in Said, driver'[j].at = "posting", driver'[j].said = o
      PROVE  o \in Outcomes /\ Backed(j, o)'
  BY <1>1, <1>4 DEF SaysBacked
<1>5. ASSUME NEW j \in JobIds \union {NoJob}, NEW o \in Said,
             scan'.at = "posting", scan'.job = j, scan'.said = o
      PROVE  j \in JobIds /\ o \in Outcomes /\ Backed(j, o)'
  BY <1>1, <1>5 DEF SaysBacked
<1> QED BY <1>2, <1>3, <1>4, <1>5 DEF SaysBacked

(* A driver that goes on, as far as its record tells.                      *)
LEMMA Gone ==
  ASSUME DriverOK, NEW j \in JobIds, NEW place \in Places, Goes(j, place)
  PROVE  /\ driver' \in [JobIds -> [at : Places, said : Said]]
         /\ driver'[j].at = place
         /\ \A i \in JobIds : i # j => driver'[i] = driver[i]
BY DEF DriverOK, Goes

LEMMA FrontStep ==
  ASSUME JInv, FrontBegins \/ FrontEnds \/ NotesWritten
  PROVE  JInv'
<1> USE DEF JInv
<1>1. /\ UNCHANGED <<up, front, notes, driver, number, childVars, scan, bookVars>>
      /\ front_at' \in {"idle", "turn", "noting"}
  BY DEF FrontBegins, FrontEnds, NotesWritten
<1>2. FrontOK'
  BY <1>1 DEF FrontOK
<1>3. DriverOK' /\ LogsOK' /\ ScanOK'
  BY <1>1 DEF DriverOK, LogsOK, ScanOK, childVars, bookVars
<1>4. ThreadsOK'
  BY <1>1, SameLogs DEF ThreadsOK, childVars, bookVars
<1>5. ReturnedOnce' /\ ReturnsBacked' /\ NotesBacked' /\ SaysBacked'
  BY <1>1, Unsaid DEF Logged, childVars, bookVars
<1>6. EndToRead' /\ MadeOnce'
  BY <1>1 DEF EndToRead, MadeOnce, HasEnd, Logged, HasYes, childVars, bookVars
<1> QED BY <1>2, <1>3, <1>4, <1>5, <1>6

(* A yes is on the front once, and its job has no thread yet.              *)
LEMMA ApproveStep ==
  ASSUME JInv, NEW j \in JobIds, Approve(j)
  PROVE  JInv'
<1> USE DEF JInv
<1>1. /\ front' = Append(front, Yes(j)) /\ ~HasYes(j) /\ Goes(j, "starting")
      /\ UNCHANGED <<up, front_at, notes, number, childVars, scan, bookVars>>
  BY DEF Approve, HasYes
<1>2. Yes(j) \in FrontEvent /\ "starting" \in Places
  BY DEF Yes, FrontEvent, Places
<1>3. /\ front' \in Seq(FrontEvent)
      /\ DOMAIN front = 1 .. Len(front) /\ Len(front) \in Nat
      /\ DOMAIN front' = 1 .. (Len(front) + 1)
      /\ \A i \in 1 .. Len(front) : front'[i] = front[i]
      /\ front'[Len(front) + 1] = Yes(j)
      /\ \A i \in JobIds : HasYes(i) => HasYes(i)'
  BY <1>1, <1>2, FrontGrows
<1>4. /\ driver' \in [JobIds -> [at : Places, said : Said]]
      /\ driver'[j].at = "starting"
      /\ \A i \in JobIds : i # j => driver'[i] = driver[i]
  BY <1>1, <1>2, Gone
<1>5. FrontOK' /\ DriverOK' /\ LogsOK' /\ ScanOK'
  BY <1>1, <1>3, <1>4 DEF FrontOK, DriverOK, LogsOK, ScanOK, childVars, bookVars
<1>6. ThreadsOK'
  BY <1>1, SameLogs DEF ThreadsOK, childVars, bookVars
<1>7. \A i \in JobIds : /\ \A o : Backed(i, o)' <=> Backed(i, o)
                        /\ HasEnd(i)' <=> HasEnd(i)
  BY <1>1, SameLogs DEF childVars, bookVars
<1>8. ReturnedOnce'
  BY <1>3 DEF ReturnedOnce, Yes
<1>9. ReturnsBacked'
  BY <1>3, <1>7 DEF ReturnsBacked, Yes
<1>10. NotesBacked'
  BY <1>1, <1>7 DEF NotesBacked
<1>11. SaysBacked'
  <2>1. ASSUME NEW i \in JobIds, NEW o \in Said, driver'[i].at = "posting", driver'[i].said = o
        PROVE  o \in Outcomes /\ Backed(i, o)'
    BY <1>4, <1>7, <2>1 DEF SaysBacked
  <2>2. ASSUME NEW i \in JobIds \union {NoJob}, NEW o \in Said,
               scan'.at = "posting", scan'.job = i, scan'.said = o
        PROVE  i \in JobIds /\ o \in Outcomes /\ Backed(i, o)'
    BY <1>1, <1>7, <2>2 DEF SaysBacked
  <2> QED BY <2>1, <2>2 DEF SaysBacked
<1>12. EndToRead'
  BY <1>1, <1>4, <1>7 DEF EndToRead, childVars
<1>13. MadeOnce'
  <2>1. HasYes(j)'
    BY <1>3 DEF HasYes
  <2>2. child[j] = <<>>
    BY <1>1 DEF MadeOnce
  <2> QED BY <1>1, <1>3, <1>4, <2>1, <2>2 DEF MadeOnce, childVars
<1> QED BY <1>5, <1>6, <1>8, <1>9, <1>10, <1>11, <1>12, <1>13

(* The returns that are said, by whoever says them.                        *)
LEMMA SendStep ==
  ASSUME JInv, ScanPosts \/ \E j \in JobIds : PostReturn(j) \/ ReportFailure(j)
  PROVE  JInv'
<1> USE DEF JInv
<1>1. CASE ScanPosts
  <2> DEFINE n == [job |-> scan.job, outcome |-> scan.said, by |-> "scan"]
  <2>1. scan.job \in JobIds /\ scan.said \in Outcomes /\ Backed(scan.job, scan.said)
    BY <1>1 DEF ScanPosts, ScanOK, SaysBacked
  <2>2. n \in Note /\ n.job = scan.job /\ n.outcome = scan.said
    BY <2>1 DEF Note, Senders
  <2>3. Send(n) /\ UNCHANGED <<up, front_at, childVars, broken, number, crashes>>
    BY <1>1 DEF ScanPosts
  <2> QED
    <3> HIDE DEF n
    <3> QED BY <2>1, <2>2, <2>3, Sent
<1>2. ASSUME NEW j \in JobIds, PostReturn(j) PROVE JInv'
  <2> DEFINE n == [job |-> j, outcome |-> driver[j].said, by |-> "driver"]
  <2>1. driver[j].said \in Outcomes /\ Backed(j, driver[j].said)
    BY <1>2 DEF PostReturn, At, DriverOK, SaysBacked
  <2>2. n \in Note /\ n.job = j /\ n.outcome = driver[j].said
    BY <2>1 DEF Note, Senders
  <2>3. Send(n) /\ UNCHANGED <<up, front_at, childVars, broken, number, crashes>>
    BY <1>2 DEF PostReturn
  <2> QED
    <3> HIDE DEF n
    <3> QED BY <2>1, <2>2, <2>3, Sent
<1>3. ASSUME NEW j \in JobIds, ReportFailure(j) PROVE JInv'
  <2> DEFINE n == [job |-> j, outcome |-> "not run", by |-> "report"]
  <2>1. n \in Note /\ n.job = j /\ n.outcome = "not run"
    BY DEF Note, Senders, Outcomes
  <2>2. Send(n) /\ UNCHANGED <<up, front_at, childVars, broken, number, crashes>>
    BY <1>3 DEF ReportFailure
  <2>3. Backed(j, "not run")
    BY DEF Backed
  <2> QED
    <3> HIDE DEF n
    <3> QED BY <2>1, <2>2, <2>3, Sent
<1> QED BY <1>1, <1>2, <1>3

LEMMA QueuedStep ==
  ASSUME JInv, WriteQueuedNote
  PROVE  JInv'
<1> USE DEF JInv
<1> DEFINE n == Head(notes)
<1>1. /\ notes # <<>> /\ WriteNote(n) /\ notes' = Tail(notes)
      /\ UNCHANGED <<up, front_at, number, childVars, crashes, broken>>
  BY DEF WriteQueuedNote
<1>2. /\ n \in Note /\ n = notes[1] /\ 1 \in DOMAIN notes
      /\ notes' \in Seq(Note)
      /\ \A i \in DOMAIN notes' : i + 1 \in DOMAIN notes /\ notes'[i] = notes[i + 1]
  BY <1>1 DEF FrontOK
<1>3. Backed(n.job, n.outcome)
  BY <1>2 DEF NotesBacked, Note
<1>4. UNCHANGED <<child, broken>>
  BY <1>1 DEF childVars
<1> HIDE DEF n
<1>5. /\ front' \in Seq(FrontEvent)
      /\ ReturnedOnce' /\ ReturnsBacked'
      /\ \A j \in JobIds : HasYes(j) => HasYes(j)'
      /\ faults' \in 0..MaxFaults
  BY <1>1, <1>2, <1>3, <1>4, Noted
<1>6. PICK place \in Quiet : Hears(n, place)
  BY <1>1, <1>2, <1>3, <1>4, Noted
<1>7. DriverOK' /\ LogsOK' /\ ThreadsOK' /\ ScanOK' /\ SaysBacked' /\ EndToRead' /\ MadeOnce'
  BY <1>1, <1>2, <1>5, <1>6, RestKept
<1>8. \A j \in JobIds, o \in Outcomes : Backed(j, o)' <=> Backed(j, o)
  BY <1>4, SameLogs
<1>9. NotesBacked'
  BY <1>2, <1>8 DEF NotesBacked
<1>10. FrontOK'
  BY <1>1, <1>2, <1>5 DEF FrontOK
<1> QED BY <1>5, <1>7, <1>9, <1>10

-----------------------------------------------------------------------------
(* The driver's steps that write no log.                                   *)
LEMMA WaitStep ==
  ASSUME JInv, NEW j \in JobIds,
         Number(j) \/ CannotRun(j) \/ SeesIdle(j) \/ SeesLate(j) \/ StopLate(j)
  PROVE  JInv'
<1> USE DEF JInv
<1>1. /\ UNCHANGED <<up, front, front_at, notes, child, runs, actor, scan, bookVars>>
      /\ cancel' \subseteq runs /\ number' \in [JobIds -> Nat]
  <2>1. CASE Number(j)
    <3>1. number' \in [JobIds -> Nat]
      <4>1. front \in Seq(FrontEvent) /\ Approvals \subseteq 1 .. Len(front) /\ Len(front) \in Nat
        BY DEF FrontOK, Approvals
      <4>2. IsFiniteSet(1 .. Len(front))
        BY <4>1, FS_Interval
      <4>3. IsFiniteSet(Approvals)
        BY <4>1, <4>2, FS_Subset
      <4>4. Cardinality(Approvals) \in Nat
        BY <4>3, FS_CardinalityType
      <4> QED BY <2>1, <4>4 DEF Number, DriverOK
    <3> QED BY <2>1, <3>1 DEF Number, frontVars, childVars, ThreadsOK
  <2>2. CASE StopLate(j)
    BY <2>2 DEF StopLate, frontVars, ThreadsOK, DriverOK
  <2>3. CASE CannotRun(j) \/ SeesIdle(j) \/ SeesLate(j)
    BY <2>3 DEF CannotRun, SeesIdle, SeesLate, frontVars, childVars, ThreadsOK, DriverOK
  <2> QED BY <2>1, <2>2, <2>3
<1>2. \/ /\ Goes(j, "opening") /\ driver[j].at = "made"
      \/ Goes(j, "failing")
      \/ /\ Goes(j, "ended") /\ driver[j].at = "driving" /\ j \notin runs
      \/ Goes(j, "late") \/ Goes(j, "stopped")
  BY DEF Number, CannotRun, SeesIdle, SeesLate, StopLate, At
<1>3. /\ driver' \in [JobIds -> [at : Places, said : Said]]
      /\ \A i \in JobIds : i # j => driver'[i] = driver[i]
      /\ \/ driver'[j].at = "opening" /\ driver[j].at = "made"
         \/ driver'[j].at \in {"failing", "late", "stopped"}
         \/ driver'[j].at = "ended" /\ driver[j].at = "driving" /\ j \notin runs
  BY <1>2, Gone DEF Places
<1>4. FrontOK' /\ DriverOK' /\ LogsOK' /\ ScanOK'
  BY <1>1, <1>3 DEF FrontOK, DriverOK, LogsOK, ScanOK, bookVars
<1>5. ThreadsOK'
  BY <1>1, SameLogs DEF ThreadsOK, bookVars
<1>6. ReturnedOnce' /\ ReturnsBacked' /\ NotesBacked' /\ SaysBacked'
  <2>1. \A i \in JobIds : driver'[i] = driver[i] \/ driver'[i].at # "posting"
    BY <1>3
  <2> QED BY <1>1, <2>1, Unsaid DEF Logged, bookVars
<1>7. \A i \in JobIds : HasEnd(i)' <=> HasEnd(i)
  BY <1>1, SameLogs DEF bookVars
<1>8. EndToRead'
  BY <1>1, <1>3, <1>7 DEF EndToRead
<1>9. MadeOnce'
  BY <1>1, <1>3 DEF MadeOnce, HasYes
<1> QED BY <1>4, <1>5, <1>6, <1>8, <1>9

LEMMA OpenJobStep ==
  ASSUME JInv, NEW j \in JobIds, OpenJob(j)
  PROVE  JInv'
<1> USE DEF JInv
<1>1. /\ UNCHANGED <<up, front, front_at, notes, number, child, runs, cancel, scan, bookVars>>
      /\ Goes(j, "briefing") /\ driver[j].at = "opening"
      /\ actor' = [actor EXCEPT ![j] = IF @ = "none" THEN "approved" ELSE @]
  BY DEF OpenJob, frontVars, At
<1>2. /\ driver' \in [JobIds -> [at : Places, said : Said]]
      /\ driver'[j].at = "briefing"
      /\ \A i \in JobIds : i # j => driver'[i] = driver[i]
  BY <1>1, Gone DEF Places
<1>3. /\ actor' \in [JobIds -> {"none", "approved", "narrow"}]
      /\ actor'[j] # "none" /\ \A i \in JobIds : i # j => actor'[i] = actor[i]
  BY <1>1 DEF ThreadsOK
<1>4. FrontOK' /\ DriverOK' /\ LogsOK' /\ ScanOK'
  BY <1>1, <1>2 DEF FrontOK, DriverOK, LogsOK, ScanOK, bookVars
<1>5. ThreadsOK'
  <2>1. \A i \in runs : actor'[i] # "none" /\ OpenTurn(i)'
    BY <1>1, <1>3, SameLogs DEF ThreadsOK, bookVars
  <2> QED BY <1>1, <1>3, <2>1 DEF ThreadsOK
<1>6. ReturnedOnce' /\ ReturnsBacked' /\ NotesBacked' /\ SaysBacked'
  <2>1. \A i \in JobIds : driver'[i] = driver[i] \/ driver'[i].at # "posting"
    BY <1>2
  <2> QED BY <1>1, <2>1, Unsaid DEF Logged, bookVars
<1>7. \A i \in JobIds : HasEnd(i)' <=> HasEnd(i)
  BY <1>1, SameLogs DEF bookVars
<1>8. EndToRead'
  BY <1>1, <1>2, <1>7 DEF EndToRead
<1>9. MadeOnce'
  BY <1>1, <1>2, <1>3 DEF MadeOnce, HasYes
<1> QED BY <1>4, <1>5, <1>6, <1>8, <1>9

LEMMA ReadStep ==
  ASSUME JInv, NEW j \in JobIds, ReadReturn(j)
  PROVE  JInv'
<1> USE DEF JInv
<1> DEFINE late == driver[j].at = "stopped"
           said == JobReturn(j, late)
<1>1. /\ UNCHANGED <<up, front, front_at, notes, number, childVars, scan, bookVars>>
      /\ driver[j].at = "ended" \/ late
      /\ driver' = [driver EXCEPT ![j].at = "posting", ![j].said = said]
  BY DEF ReadReturn, At, frontVars
<1>2. said \in Outcomes /\ Backed(j, said)
  <2>1. CASE HasEnd(j)
    BY <2>1, ReadsBacked
  <2>2. CASE late
    BY <2>2 DEF JobReturn, Outcomes, Backed
  <2> QED BY <1>1, <2>1, <2>2 DEF EndToRead
<1>3. \A i \in JobIds : /\ \A o : Backed(i, o)' <=> Backed(i, o)
                        /\ HasEnd(i)' <=> HasEnd(i)
                        /\ OpenTurn(i)' <=> OpenTurn(i)
  BY <1>1, SameLogs DEF childVars, bookVars
<1> HIDE DEF late, said
<1>4. /\ driver' \in [JobIds -> [at : Places, said : Said]]
      /\ driver'[j].at = "posting" /\ driver'[j].said = said
      /\ \A i \in JobIds : i # j => driver'[i] = driver[i]
  BY <1>1, <1>2 DEF DriverOK, Places, Said
<1>5. FrontOK' /\ DriverOK' /\ LogsOK' /\ ScanOK'
  BY <1>1, <1>4 DEF FrontOK, DriverOK, LogsOK, ScanOK, childVars, bookVars
<1>6. ThreadsOK'
  BY <1>1, <1>3 DEF ThreadsOK, childVars
<1>7. ReturnedOnce'
  BY <1>1 DEF ReturnedOnce
<1>8. ReturnsBacked' /\ NotesBacked'
  BY <1>1, <1>3 DEF ReturnsBacked, NotesBacked
<1>9. SaysBacked'
  <2>1. ASSUME NEW i \in JobIds, NEW o \in Said, driver'[i].at = "posting", driver'[i].said = o
        PROVE  o \in Outcomes /\ Backed(i, o)'
    <3>1. CASE i = j
      BY <1>2, <1>3, <1>4, <2>1, <3>1
    <3>2. CASE i # j
      BY <1>3, <1>4, <2>1, <3>2 DEF SaysBacked
    <3> QED BY <3>1, <3>2
  <2>2. ASSUME NEW i \in JobIds \union {NoJob}, NEW o \in Said,
               scan'.at = "posting", scan'.job = i, scan'.said = o
        PROVE  i \in JobIds /\ o \in Outcomes /\ Backed(i, o)'
    BY <1>1, <1>3, <2>2 DEF SaysBacked
  <2> QED BY <2>1, <2>2 DEF SaysBacked
<1>10. EndToRead'
  BY <1>1, <1>3, <1>4 DEF EndToRead, childVars
<1>11. MadeOnce'
  BY <1>1, <1>4 DEF MadeOnce, HasYes, childVars
<1> QED BY <1>5, <1>6, <1>7, <1>8, <1>9, <1>10, <1>11

-----------------------------------------------------------------------------
(* The steps that write a job's log.                                       *)
LEMMA CreateStep ==
  ASSUME JInv, NEW j \in JobIds, CreateJob(j)
  PROVE  JInv'
<1> USE DEF JInv
<1>1. /\ UNCHANGED <<up, front, front_at, notes, number, runs, actor, cancel, scan, bookVars>>
      /\ child' = [child EXCEPT ![j] = <<"thread">>]
      /\ Goes(j, "made") /\ driver[j].at = "starting"
  BY DEF CreateJob, frontVars, At
<1>2. child[j] = <<>> /\ HasYes(j) /\ actor[j] = "none"
  BY <1>1 DEF MadeOnce
<1>3. /\ driver' \in [JobIds -> [at : Places, said : Said]]
      /\ driver'[j].at = "made"
      /\ \A i \in JobIds : i # j => driver'[i] = driver[i]
  BY <1>1, Gone DEF Places
<1>4. /\ child' \in [JobIds -> Seq(Entry)] /\ child'[j] = <<"thread">>
      /\ \A i \in JobIds : i # j => child'[i] = child[i]
  BY <1>1 DEF LogsOK, Entry
<1>5. child'[j] # <<>>
  BY <1>4
<1>6. \A i \in JobIds : Logged(i) \subseteq Logged(i)'
  BY <1>2, <1>4 DEF Logged
<1>7. FrontOK' /\ DriverOK' /\ LogsOK' /\ ScanOK'
  BY <1>1, <1>3, <1>4 DEF FrontOK, DriverOK, LogsOK, ScanOK, bookVars
<1>8. ThreadsOK'
  <2>1. \A i \in runs : i # j /\ (OpenTurn(i) => OpenTurn(i)')
    BY <1>2, <1>4 DEF ThreadsOK, OpenTurn
  <2> QED BY <1>1, <2>1 DEF ThreadsOK
<1>9. ReturnedOnce' /\ ReturnsBacked' /\ NotesBacked' /\ SaysBacked'
  <2>1. \A i \in JobIds : driver'[i] = driver[i] \/ driver'[i].at # "posting"
    BY <1>3
  <2> QED BY <1>1, <1>6, <2>1, Unsaid DEF bookVars
<1>10. \A i \in JobIds : HasEnd(i) => HasEnd(i)'
  BY <1>1, <1>6 DEF HasEnd, bookVars
<1>11. EndToRead'
  BY <1>1, <1>3, <1>10 DEF EndToRead
<1>12. MadeOnce'
  BY <1>1, <1>2, <1>3, <1>4, <1>5 DEF MadeOnce, HasYes
<1> QED BY <1>7, <1>8, <1>9, <1>11, <1>12

LEMMA MessageStep ==
  ASSUME JInv, NEW j \in JobIds, PostBrief(j) \/ VisitorPosts(j)
  PROVE  JInv'
<1> USE DEF JInv
<1>1. /\ UNCHANGED <<up, front, front_at, notes, number, actor, cancel, scan, bookVars>>
      /\ child' = [child EXCEPT ![j] = Append(@, "message")]
      /\ runs' = runs \union {j}
      /\ actor[j] # "none"
      /\ Goes(j, "driving") \/ UNCHANGED driver
  BY DEF PostBrief, VisitorPosts, Message, frontVars, At, MadeOnce
<1>2. "message" \in Entry /\ "driving" \in Places
  BY DEF Entry, Places
<1>3. /\ child' \in [JobIds -> Seq(Entry)]
      /\ \A i \in JobIds : Logged(i) \subseteq Logged(i)'
      /\ child'[j] # <<>> /\ OpenTurn(j)'
      /\ \A i \in JobIds : i # j => child'[i] = child[i] /\ (OpenTurn(i) => OpenTurn(i)')
  BY <1>1, <1>2, LogGrows
<1>4. /\ driver' \in [JobIds -> [at : Places, said : Said]]
      /\ \A i \in JobIds : driver'[i] = driver[i] \/ (i = j /\ driver'[i].at = "driving")
  BY <1>1, <1>2, Gone DEF DriverOK
<1>5. FrontOK' /\ DriverOK' /\ LogsOK' /\ ScanOK'
  BY <1>1, <1>3, <1>4 DEF FrontOK, DriverOK, LogsOK, ScanOK, bookVars
<1>6. ThreadsOK'
  BY <1>1, <1>3 DEF ThreadsOK
<1>7. ReturnedOnce' /\ ReturnsBacked' /\ NotesBacked' /\ SaysBacked'
  <2>1. \A i \in JobIds : driver'[i] = driver[i] \/ driver'[i].at # "posting"
    BY <1>4
  <2> QED BY <1>1, <1>3, <2>1, Unsaid DEF bookVars
<1>8. \A i \in JobIds : HasEnd(i) => HasEnd(i)'
  BY <1>1, <1>3 DEF HasEnd, bookVars
<1>9. EndToRead'
  BY <1>1, <1>4, <1>8 DEF EndToRead
<1>10. MadeOnce'
  <2>1. child[j] # <<>> /\ HasYes(j) /\ driver[j].at # "starting"
    BY <1>1 DEF MadeOnce
  <2> QED BY <1>1, <1>3, <1>4, <2>1 DEF MadeOnce, HasYes
<1> QED BY <1>5, <1>6, <1>7, <1>9, <1>10

(* A reply of the model leaves the turn open.                              *)
LEMMA ReplyStep ==
  ASSUME JInv, NEW j \in JobIds, Replies(j)
  PROVE  JInv'
<1> USE DEF JInv
<1> DEFINE e == IF Answered(j) THEN "call" ELSE "answer"
<1>1. /\ UNCHANGED <<up, front, front_at, notes, driver, number, runs, actor, cancel, scan, bookVars>>
      /\ child' = [child EXCEPT ![j] = Append(@, e)]
      /\ j \in runs
  BY DEF Replies, frontVars
<1>2. e \in Entry /\ e \in Reply
  BY DEF Entry, Reply
<1> HIDE DEF e
<1>3. /\ child' \in [JobIds -> Seq(Entry)]
      /\ \A i \in JobIds : Logged(i) \subseteq Logged(i)'
      /\ child'[j] # <<>> /\ (OpenTurn(j) => OpenTurn(j)')
      /\ \A i \in JobIds : i # j => child'[i] = child[i] /\ (OpenTurn(i) => OpenTurn(i)')
  BY <1>1, <1>2, LogGrows
<1>4. FrontOK' /\ DriverOK' /\ LogsOK' /\ ScanOK'
  BY <1>1, <1>3 DEF FrontOK, DriverOK, LogsOK, ScanOK, bookVars
<1>5. ThreadsOK'
  BY <1>1, <1>3 DEF ThreadsOK
<1>6. ReturnedOnce' /\ ReturnsBacked' /\ NotesBacked' /\ SaysBacked'
  BY <1>1, <1>3, Unsaid DEF bookVars
<1>7. \A i \in JobIds : HasEnd(i) => HasEnd(i)'
  BY <1>1, <1>3 DEF HasEnd, bookVars
<1>8. EndToRead'
  BY <1>1, <1>7 DEF EndToRead
<1>9. MadeOnce'
  <2>1. child[j] # <<>> /\ HasYes(j) /\ driver[j].at # "starting"
    BY <1>1 DEF MadeOnce, ThreadsOK
  <2> QED BY <1>1, <1>3, <2>1 DEF MadeOnce, HasYes
<1> QED BY <1>4, <1>5, <1>6, <1>8, <1>9

(* A turn of a job's thread ends in its log, or breaks.                    *)
LEMMA TurnStep ==
  ASSUME JInv, NEW j \in JobIds, TurnEnds(j) \/ TurnBreaks(j)
  PROVE  JInv'
<1> USE DEF JInv
<1>1. /\ UNCHANGED <<up, front, front_at, notes, driver, number, actor, scan, crashes, faults>>
      /\ j \in runs /\ runs' = runs \ {j} /\ cancel' = cancel \ {j}
  BY DEF TurnEnds, Ends, TurnBreaks, frontVars, bookVars
<1>2. /\ child' \in [JobIds -> Seq(Entry)] /\ broken' \subseteq JobIds
      /\ broken \subseteq broken'
      /\ \A i \in JobIds : Logged(i) \subseteq Logged(i)'
      /\ \A i \in JobIds : (child[i] # <<>> => child'[i] # <<>>)
      /\ \A i \in JobIds : i # j => child'[i] = child[i] /\ (OpenTurn(i) => OpenTurn(i)')
      /\ HasEnd(j)'
  <2>1. CASE TurnBreaks(j)
    BY <2>1 DEF TurnBreaks, LogsOK, Logged, OpenTurn, HasEnd
  <2>2. ASSUME NEW e \in TurnEnd, Ends(j, e)
        PROVE  /\ child' \in [JobIds -> Seq(Entry)] /\ broken' \subseteq JobIds
               /\ broken \subseteq broken'
               /\ \A i \in JobIds : Logged(i) \subseteq Logged(i)'
               /\ \A i \in JobIds : (child[i] # <<>> => child'[i] # <<>>)
               /\ \A i \in JobIds : i # j => child'[i] = child[i] /\ (OpenTurn(i) => OpenTurn(i)')
               /\ HasEnd(j)'
    <3>1. e \in Entry /\ child' = [child EXCEPT ![j] = Append(@, e)] /\ UNCHANGED broken
      BY <2>2 DEF Ends, Entry, bookVars
    <3>2. /\ child' \in [JobIds -> Seq(Entry)]
          /\ \A i \in JobIds : Logged(i) \subseteq Logged(i)'
          /\ child'[j] # <<>> /\ e \in Logged(j)'
          /\ \A i \in JobIds : i # j => child'[i] = child[i] /\ (OpenTurn(i) => OpenTurn(i)')
      BY <3>1, LogGrows
    <3> QED BY <3>1, <3>2 DEF HasEnd, LogsOK
  <2>3. TurnEnds(j) => \E e \in TurnEnd : Ends(j, e)
    BY DEF TurnEnds, TurnEnd
  <2> QED BY <2>1, <2>2, <2>3
<1>3. FrontOK' /\ DriverOK' /\ LogsOK' /\ ScanOK'
  BY <1>1, <1>2 DEF FrontOK, DriverOK, LogsOK, ScanOK
<1>4. ThreadsOK'
  BY <1>1, <1>2 DEF ThreadsOK
<1>5. ReturnedOnce' /\ ReturnsBacked' /\ NotesBacked' /\ SaysBacked'
  BY <1>1, <1>2, Unsaid
<1>6. \A i \in JobIds : HasEnd(i) => HasEnd(i)'
  BY <1>2 DEF HasEnd
<1>7. EndToRead'
  BY <1>1, <1>2, <1>6 DEF EndToRead
<1>8. MadeOnce'
  <2>1. child[j] # <<>> /\ driver[j].at # "starting"
    BY <1>1 DEF MadeOnce, ThreadsOK
  <2> QED BY <1>1, <1>2, <2>1 DEF MadeOnce, HasYes
<1> QED BY <1>3, <1>4, <1>5, <1>7, <1>8

-----------------------------------------------------------------------------
(* People who open a job's thread, and the sweeper that unloads it.        *)
LEMMA VisitStep ==
  ASSUME JInv, NEW j \in JobIds, Visit(j) \/ Unload(j)
  PROVE  JInv'
<1> USE DEF JInv
<1>1. /\ UNCHANGED <<up, front, front_at, notes, driver, number, child, cancel, scan, bookVars>>
      /\ \/ /\ child[j] # <<>> /\ actor' = [actor EXCEPT ![j] = "narrow"]
            /\ runs' = runs \/ (runs' = runs \union {j} /\ OpenTurn(j))
         \/ /\ actor' = [actor EXCEPT ![j] = "none"]
            /\ j \notin runs /\ driver[j].at # "briefing" /\ runs' = runs
  BY DEF Visit, Unload, frontVars
<1>2. /\ actor' \in [JobIds -> {"none", "approved", "narrow"}]
      /\ \A i \in JobIds : i # j => actor'[i] = actor[i]
      /\ \/ /\ child[j] # <<>> /\ actor'[j] = "narrow"
            /\ runs' = runs \/ (runs' = runs \union {j} /\ OpenTurn(j))
         \/ /\ actor'[j] = "none"
            /\ j \notin runs /\ driver[j].at # "briefing" /\ runs' = runs
  BY <1>1 DEF ThreadsOK
<1>3. FrontOK' /\ DriverOK' /\ LogsOK' /\ ScanOK'
  BY <1>1 DEF FrontOK, DriverOK, LogsOK, ScanOK, bookVars
<1>4. \A i \in JobIds : OpenTurn(i)' <=> OpenTurn(i)
  BY <1>1, SameLogs DEF bookVars
<1>5. ThreadsOK'
  BY <1>1, <1>2, <1>4 DEF ThreadsOK
<1>6. ReturnedOnce' /\ ReturnsBacked' /\ NotesBacked' /\ SaysBacked'
  BY <1>1, Unsaid DEF Logged, bookVars
<1>7. \A i \in JobIds : HasEnd(i)' <=> HasEnd(i)
  BY <1>1, SameLogs DEF bookVars
<1>8. EndToRead'
  BY <1>1, <1>7 DEF EndToRead
<1>9. MadeOnce'
  BY <1>1, <1>2 DEF MadeOnce, HasYes
<1> QED BY <1>3, <1>5, <1>6, <1>8, <1>9

(* The scan and the restart.                                               *)
LEMMA ScanStep ==
  ASSUME JInv, ScanBegins \/ Restart \/ \E j \in JobIds : ScanLooks(j)
  PROVE  JInv'
<1> USE DEF JInv
<1>1. /\ UNCHANGED <<front, front_at, notes, driver, number, childVars, bookVars>>
      /\ up' \in BOOLEAN
  <2>1. UNCHANGED <<front, front_at, notes, driver, number, childVars, bookVars>>
    BY DEF ScanBegins, Restart, ScanLooks, frontVars
  <2>2. up' = up \/ up' = TRUE
    BY DEF ScanBegins, Restart, ScanLooks
  <2>3. up' \in BOOLEAN
    BY <2>2 DEF FrontOK
  <2> QED BY <2>1, <2>3
<1>2. /\ scan' \in [at : ScanPlaces, left : SUBSET JobIds, job : JobIds \union {NoJob}, said : Said]
      /\ scan'.at = "posting" =>
           scan'.job \in JobIds /\ scan'.said \in Outcomes
           /\ \A j \in JobIds, o \in Said : scan'.job = j /\ scan'.said = o => Backed(j, o)
  <2>1. CASE ScanBegins \/ Restart
    BY <2>1 DEF ScanBegins, Restart, Scan, ScanPlaces, Said
  <2>2. ASSUME NEW j \in JobIds, ScanLooks(j)
        PROVE  /\ scan' \in [at : ScanPlaces, left : SUBSET JobIds, job : JobIds \union {NoJob}, said : Said]
               /\ scan'.at = "posting" =>
                    scan'.job \in JobIds /\ scan'.said \in Outcomes
                    /\ \A i \in JobIds, o \in Said : scan'.job = i /\ scan'.said = o => Backed(i, o)
    <3>1. CASE Owed(j)
      <4>1. HasEnd(j)
        BY <3>1 DEF Owed, Ended, OpenTurn, HasEnd, Logged, LogsOK
      <4>2. JobReturn(j, FALSE) \in Outcomes /\ Backed(j, JobReturn(j, FALSE))
        BY <4>1, ReadsBacked
      <4>3. scan' = [at |-> "posting", left |-> scan.left \ {j}, job |-> j, said |-> JobReturn(j, FALSE)]
        BY <2>2, <3>1 DEF ScanLooks
      <4> QED BY <4>2, <4>3 DEF ScanOK, ScanPlaces, Said
    <3>2. CASE ~Owed(j)
      BY <2>2, <3>2 DEF ScanLooks, ScanOK
    <3> QED BY <3>1, <3>2
  <2> QED BY <2>1, <2>2
<1>3. FrontOK' /\ DriverOK' /\ LogsOK' /\ ScanOK'
  <2>1. FrontOK'
    BY <1>1 DEF FrontOK
  <2> QED BY <1>1, <1>2, <2>1 DEF DriverOK, LogsOK, ScanOK, childVars, bookVars
<1>4. \A j \in JobIds : /\ \A o : Backed(j, o)' <=> Backed(j, o)
                        /\ HasEnd(j)' <=> HasEnd(j)
                        /\ OpenTurn(j)' <=> OpenTurn(j)
  BY <1>1, SameLogs DEF childVars, bookVars
<1>5. ThreadsOK'
  BY <1>1, <1>4 DEF ThreadsOK, childVars
<1>6. ReturnedOnce' /\ ReturnsBacked' /\ NotesBacked'
  BY <1>1, <1>4 DEF ReturnedOnce, ReturnsBacked, NotesBacked
<1>7. SaysBacked'
  BY <1>1, <1>2, <1>4 DEF SaysBacked
<1>8. EndToRead' /\ MadeOnce'
  BY <1>1, <1>4 DEF EndToRead, MadeOnce, HasYes, childVars
<1> QED BY <1>3, <1>5, <1>6, <1>7, <1>8

(* A crash takes everything that is not in a log.                          *)
LEMMA CrashStep ==
  ASSUME JInv, Crash
  PROVE  JInv'
<1> USE DEF JInv
<1>1. UNCHANGED <<front, child, faults, broken>>
  BY DEF Crash
<1>2. /\ \A j \in JobIds : driver'[j].at = "none"
      /\ driver' \in [JobIds -> [at : Places, said : Said]] /\ number' \in [JobIds -> Nat]
  BY DEF Crash, NoDriver, Places, Said
<1>3. FrontOK'
  <2>1. up' \in BOOLEAN
    BY DEF Crash
  <2>2. front_at' = "idle" /\ notes' = <<>>
    BY DEF Crash
  <2> QED BY <1>1, <2>1, <2>2 DEF FrontOK
<1>4. DriverOK' /\ LogsOK'
  BY <1>1, <1>2 DEF DriverOK, LogsOK
<1>5. ThreadsOK' /\ \A j \in JobIds : actor'[j] = "none"
  BY DEF Crash, ThreadsOK
<1>6. ScanOK' /\ scan'.at = "none"
  BY BoundsAssumption DEF Crash, ScanOK, Scan, ScanPlaces, Said
<1>7. ReturnedOnce' /\ ReturnsBacked'
  BY <1>1, SameFront DEF Logged
<1>8. NotesBacked'
  BY DEF Crash, NotesBacked
<1>9. SaysBacked' /\ EndToRead'
  BY <1>2, <1>6 DEF SaysBacked, EndToRead
<1>10. MadeOnce'
  BY <1>1, <1>2, <1>5 DEF MadeOnce, HasYes
<1> QED BY <1>3, <1>4, <1>5, <1>6, <1>7, <1>8, <1>9, <1>10

LEMMA StillStep ==
  ASSUME JInv, UNCHANGED vars
  PROVE  JInv'
<1> USE DEF JInv, vars, frontVars, childVars, bookVars
<1>1. FrontOK' /\ DriverOK' /\ LogsOK' /\ ScanOK'
  BY DEF FrontOK, DriverOK, LogsOK, ScanOK
<1>2. ThreadsOK'
  BY DEF ThreadsOK, OpenTurn
<1>3. ReturnedOnce' /\ ReturnsBacked' /\ NotesBacked' /\ SaysBacked'
  BY Unsaid DEF Logged
<1>4. EndToRead' /\ MadeOnce'
  BY DEF EndToRead, MadeOnce, HasEnd, Logged, HasYes
<1> QED BY <1>1, <1>2, <1>3, <1>4

LEMMA JInvStep == JInv /\ [Next]_vars => JInv'
<1> SUFFICES ASSUME JInv, [Next]_vars PROVE JInv'
  OBVIOUS
<1>1. CASE UNCHANGED vars
  BY <1>1, StillStep
<1>2. CASE FrontBegins \/ FrontEnds \/ NoteSteps
  BY <1>2, FrontStep, QueuedStep DEF NoteSteps
<1>3. CASE ScanSteps \/ Restart
  BY <1>3, ScanStep, SendStep DEF ScanSteps
<1>4. CASE Crash
  BY <1>4, CrashStep
<1>5. ASSUME NEW j \in JobIds, DriverSteps(j) PROVE JInv'
  BY <1>5, CreateStep, WaitStep, OpenJobStep, MessageStep, ReadStep, SendStep DEF DriverSteps
<1>6. ASSUME NEW j \in JobIds, Approve(j) \/ CannotRun(j) \/ Turns(j) \/ Visits(j) PROVE JInv'
  BY <1>6, ApproveStep, WaitStep, ReplyStep, TurnStep, VisitStep, MessageStep
     DEF Turns, Visits
<1> QED BY <1>1, <1>2, <1>3, <1>4, <1>5, <1>6 DEF Next

-----------------------------------------------------------------------------
(* However many drivers, failure reports, scans, crashes and failed writes *)
(* there are, the front holds a job's return once.                         *)
THEOREM ReturnedOnceAlways == Spec => []ReturnedOnce
<1>1. JInv => ReturnedOnce
  BY DEF JInv
<1> QED BY <1>1, JInvInit, JInvStep, PTL DEF Spec

(* A return that says a job fell over has such an end in the job's log to  *)
(* show for it, and one that says it finished an end that went well, a     *)
(* final answer, or a turn that broke.                                     *)
THEOREM ReturnsSoundAlways == Spec => []ReturnsSound
<1>1. JInv => ReturnsSound
  <2> SUFFICES ASSUME JInv PROVE ReturnsSound
    OBVIOUS
  <2>1. TypeOK
    BY Parts DEF JInv
  <2>2. ASSUME NEW i \in DOMAIN front, front[i].k = "return"
        PROVE  Backed(front[i].job, front[i].outcome)
    <3>1. front[i].job \in JobIds /\ front[i].outcome \in Outcomes
      BY <2>2 DEF JInv, FrontOK, FrontEvent
    <3> QED BY <2>2, <3>1 DEF JInv, ReturnsBacked
  <2>3. ReturnAsLogged
    BY <2>2 DEF ReturnAsLogged, Backed
  <2> QED BY <2>1, <2>3 DEF ReturnsSound
<1> QED BY <1>1, JInvInit, JInvStep, PTL DEF Spec
=============================================================================
