--------------------------- MODULE LogStoreProofs ---------------------------
(***************************************************************************)
(* What holds of the log for any handles of any processes, and any number  *)
(* of events, crashes and failed writes: only a handle that goes by the    *)
(* length of a file it has not read can damage the log, what was           *)
(* acknowledged otherwise stays in it, and it only grows; for as long as   *)
(* no two handles of one process are under its lock at once.               *)
(***************************************************************************)
EXTENDS LogStore, SequenceTheorems, TLAPS, WellFoundedInduction

PieceType == [id : 0 .. MaxEvents, seq : Nat, part : {1, 2}]

(* Where a handle has taken the length.                                    *)
Settled == {"ready", "stat", "catch_up", "write", "writing"}

(* Whose the lock is, and who acts under it.                               *)
OneLocks == \A h, g \in Handles : writer[h] /\ writer[g] => Owner[h] = Owner[g]
OneActs == \A h, g \in Handles : pc[h] \in Locking /\ pc[g] \in Locking => h = g

Shows(h) ==
  \A i \in 1 .. Len(cache[h]) :
    \/ i <= GoodLines(file) /\ cache[h][i] = EventsOf(file)[i]
    \/ h \in late /\ cache[h][i] \in blind

(* What a handle knows of the file where it is.                            *)
HandleSound(h) ==
  /\ pc[h] \in Locking => writer[h]
  /\ Shows(h)
  /\ h \in late => pc[h] \in Settled /\ len[h] > 2 * Len(cache[h])
  /\ h \notin late /\ pc[h] \in Settled => len[h] = 2 * Len(cache[h])
  /\ pc[h] = "cut" => Torn(file) /\ seen[h] = 2 * GoodLines(file)
  /\ pc[h] = "catch_up" => seen[h] = Len(file)
  /\ pc[h] = "write" => len[h] = Len(file)
  /\ pc[h] = "writing" =>
       /\ Len(file) = len[h] + 1 /\ file[Len(file)] = Piece(seen[h], h, 1)
       /\ h \in late => seen[h] \in blind

Sound ==
  /\ DamageIsBlind /\ AckedKept /\ OneLocks /\ OneActs
  /\ \A h \in Handles : HandleSound(h)

(* An append knows what it writes, whatever else goes wrong.               *)
WritingKnown == \A h \in Handles : pc[h] = "writing" => seen[h] \in 1 .. events

LInv == TypeOK /\ WritingKnown /\ (overlapped \/ Sound)

-----------------------------------------------------------------------------
(* How many lines of a file are good.                                      *)
LEMMA LeastNat ==
  ASSUME NEW S \in SUBSET Nat, S # {}
  PROVE  \E m \in S : \A n \in S : m <= n
<1>1. PICK m \in S : \A n \in S : ~ (<<n, m>> \in OpToRel(<, Nat))
  BY NatLessThanWellFounded, WFMin
<1>2. \A n \in S : ~ (n < m)
  BY <1>1 DEF OpToRel
<1> QED BY <1>2

LEMMA GoodLinesFound ==
  ASSUME NEW P, NEW f \in Seq(P)
  PROVE  /\ GoodLines(f) \in Nat /\ 2 * GoodLines(f) <= Len(f)
         /\ \A i \in 1 .. GoodLines(f) : GoodLine(f, i)
         /\ ~GoodLine(f, GoodLines(f) + 1)
<1> DEFINE bad == {n \in Nat : ~GoodLine(f, n + 1)}
           stops(n) == (\A i \in 1 .. n : GoodLine(f, i)) /\ ~GoodLine(f, n + 1)
<1>1. Len(f) \in Nat
  OBVIOUS
<1>2. Len(f) \in bad
  BY <1>1 DEF GoodLine
<1>3. PICK m \in bad : \A n \in bad : m <= n
  BY <1>2, LeastNat
<1>4. \A i \in 1 .. m : GoodLine(f, i)
  <2> SUFFICES ASSUME NEW i \in 1 .. m, ~GoodLine(f, i) PROVE FALSE
    OBVIOUS
  <2>1. i - 1 \in Nat /\ (i - 1) + 1 = i
    OBVIOUS
  <2>2. i - 1 \in bad
    BY <2>1
  <2> QED BY <1>3, <2>2
<1>5. m \in 0 .. Len(f) /\ stops(m)
  BY <1>1, <1>2, <1>3, <1>4
<1>6. GoodLines(f) = CHOOSE n \in 0 .. Len(f) : stops(n)
  BY DEF GoodLines
<1>7. GoodLines(f) \in 0 .. Len(f) /\ stops(GoodLines(f))
  <2> HIDE DEF stops
  <2> QED BY <1>5, <1>6
<1>8. 2 * GoodLines(f) <= Len(f)
  <2>1. CASE GoodLines(f) = 0
    BY <1>1, <2>1
  <2>2. CASE GoodLines(f) # 0
    <3>1. GoodLine(f, GoodLines(f))
      BY <1>1, <1>7, <2>2
    <3> QED BY <3>1 DEF GoodLine
  <2> QED BY <2>1, <2>2
<1> QED BY <1>1, <1>7, <1>8

LEMMA GoodLinesAre ==
  ASSUME NEW P, NEW f \in Seq(P), NEW n \in Nat,
         \A i \in 1 .. n : GoodLine(f, i), ~GoodLine(f, n + 1)
  PROVE  GoodLines(f) = n
<1> DEFINE g == GoodLines(f)
<1>1. /\ g \in Nat /\ \A i \in 1 .. g : GoodLine(f, i)
      /\ ~GoodLine(f, g + 1)
  BY GoodLinesFound
<1> HIDE DEF g
<1>2. ~ (g < n)
  <2> SUFFICES ASSUME g < n PROVE FALSE
    OBVIOUS
  <2>1. g + 1 \in 1 .. n
    BY <1>1
  <2> QED BY <1>1, <2>1
<1>3. ~ (n < g)
  <2> SUFFICES ASSUME n < g PROVE FALSE
    OBVIOUS
  <2>1. n + 1 \in 1 .. g
    BY <1>1
  <2> QED BY <1>1, <2>1
<1> QED BY <1>1, <1>2, <1>3 DEF g

(* No line comes or goes by half a line, nor by the second half of one     *)
(* whose seq is not that of its place.                                     *)
LEMMA NoNewLine ==
  ASSUME NEW f \in Seq(PieceType), NEW p \in PieceType,
         p.part = 1 \/ Len(f) # 2 * p.seq + 1,
         NEW g, g = Append(f, p)
  PROVE  /\ g \in Seq(PieceType) /\ Len(g) = Len(f) + 1 /\ g[Len(g)] = p
         /\ GoodLines(g) = GoodLines(f) /\ EventsOf(g) = EventsOf(f)
<1> DEFINE n == GoodLines(f)
<1>1. /\ n \in Nat /\ 2 * n <= Len(f) /\ ~GoodLine(f, n + 1)
      /\ \A i \in 1 .. n : GoodLine(f, i)
  BY GoodLinesFound
<1>2. /\ g \in Seq(PieceType) /\ Len(g) = Len(f) + 1 /\ g[Len(g)] = p
      /\ \A i \in 1 .. Len(f) : g[i] = f[i]
  OBVIOUS
<1> HIDE DEF n
<1>3. \A i \in 1 .. n : GoodLine(g, i)
  BY <1>1, <1>2 DEF GoodLine
<1>4. ~GoodLine(g, n + 1)
  <2> SUFFICES ASSUME GoodLine(g, n + 1) PROVE FALSE
    OBVIOUS
  <2>1. /\ 2 * (n + 1) <= Len(f) + 1 /\ g[2 * (n + 1)].part = 2 /\ g[2 * (n + 1)].seq = n
        /\ 2 * (n + 1) \in Nat /\ Len(f) \in Nat
    BY <1>1, <1>2 DEF GoodLine
  <2>2. CASE 2 * (n + 1) <= Len(f)
    BY <1>1, <1>2, <2>2 DEF GoodLine
  <2>3. CASE 2 * (n + 1) = Len(f) + 1
    <3>1. g[2 * (n + 1)] = p
      BY <1>2, <2>3
    <3> QED BY <1>1, <2>1, <2>3, <3>1
  <2> QED BY <2>1, <2>2, <2>3
<1>5. GoodLines(g) = n
  BY <1>1, <1>2, <1>3, <1>4, GoodLinesAre
<1>6. EventsOf(g) = EventsOf(f)
  BY <1>1, <1>2, <1>5 DEF EventsOf, n
<1> QED BY <1>2, <1>5, <1>6 DEF n

(* Half a line after the last good one is a torn tail, and no damage.      *)
LEMMA HalfLine ==
  ASSUME NEW f \in Seq(PieceType), Intact(f), NEW p \in PieceType, p.part = 1,
         NEW g, g = Append(f, p)
  PROVE  ~Damaged(g)
<1>1. /\ g \in Seq(PieceType) /\ Len(g) = Len(f) + 1 /\ g[Len(g)] = p
      /\ GoodLines(g) = GoodLines(f)
  BY NoNewLine
<1>2. GoodLines(f) \in Nat /\ Len(f) = 2 * GoodLines(f)
  BY GoodLinesFound DEF Intact
<1> QED BY <1>1, <1>2 DEF Damaged, Torn, Intact

(* The second half makes it a line.                                        *)
LEMMA WholeLine ==
  ASSUME NEW f \in Seq(PieceType), Len(f) = 2 * GoodLines(f) + 1,
         NEW q \in PieceType, q.part = 2, q.id = f[Len(f)].id, f[Len(f)].part = 1,
         q.seq = GoodLines(f),
         NEW g, g = Append(f, q)
  PROVE  /\ g \in Seq(PieceType) /\ GoodLines(g) = GoodLines(f) + 1
         /\ \A i \in 1 .. GoodLines(f) : EventsOf(g)[i] = EventsOf(f)[i]
         /\ EventsOf(g)[GoodLines(f) + 1] = q.id
         /\ Intact(g)
<1> DEFINE n == GoodLines(f)
<1>1. n \in Nat /\ Len(f) = 2 * n + 1 /\ \A i \in 1 .. n : GoodLine(f, i)
  BY GoodLinesFound
<1>2. /\ g \in Seq(PieceType) /\ Len(g) = 2 * n + 2 /\ g[2 * n + 2] = q
      /\ \A i \in 1 .. (2 * n + 1) : g[i] = f[i]
  BY <1>1
<1> HIDE DEF n
<1>3. \A i \in 1 .. n : GoodLine(g, i)
  BY <1>1, <1>2 DEF GoodLine
<1>4. GoodLine(g, n + 1)
  <2>1. 2 * (n + 1) = 2 * n + 2 /\ 2 * (n + 1) - 1 = 2 * n + 1 /\ (n + 1) - 1 = n
        /\ 2 * n + 1 \in 1 .. (2 * n + 1)
    BY <1>1
  <2>2. g[2 * n + 1] = f[Len(f)]
    BY <1>1, <1>2, <2>1
  <2> QED BY <1>1, <1>2, <2>1, <2>2 DEF GoodLine, n
<1>5. ~GoodLine(g, n + 2)
  BY <1>1, <1>2 DEF GoodLine
<1>6. GoodLines(g) = n + 1
  <2>1. \A i \in 1 .. (n + 1) : GoodLine(g, i)
    BY <1>1, <1>3, <1>4
  <2>2. (n + 1) + 1 = n + 2 /\ n + 1 \in Nat
    BY <1>1
  <2> QED BY <1>2, <1>5, <2>1, <2>2, GoodLinesAre
<1>7. \A i \in 1 .. n : EventsOf(g)[i] = EventsOf(f)[i]
  BY <1>1, <1>2, <1>6 DEF EventsOf, n
<1>8. EventsOf(g)[n + 1] = q.id
  BY <1>1, <1>2, <1>6 DEF EventsOf
<1>9. Intact(g)
  BY <1>1, <1>2, <1>6 DEF Intact
<1> QED BY <1>2, <1>6, <1>7, <1>8, <1>9 DEF n

(* What is cut off behind the good lines takes none of them away.          *)
LEMMA CutTyped ==
  ASSUME file \in Seq(PieceType), NEW n \in Nat
  PROVE  /\ CutTo(n) \in Seq(PieceType) /\ Len(CutTo(n)) = n
         /\ \A i \in 1 .. n : i <= Len(file) => CutTo(n)[i] = file[i]
<1>1. NoBytes \in PieceType
  BY LogConstants DEF NoBytes, PieceType
<1>2. \A i \in 1 .. n : (IF i <= Len(file) THEN file[i] ELSE NoBytes) \in PieceType
  BY <1>1
<1>3. CutTo(n) \in [1 .. n -> PieceType]
  BY <1>2 DEF CutTo
<1>4. CutTo(n) \in Seq(PieceType)
  <2>1. CutTo(n) \in UNION {[1 .. k -> PieceType] : k \in Nat}
    BY <1>3
  <2>2. Seq(PieceType) = UNION {[1 .. k -> PieceType] : k \in Nat}
    BY SeqDef, Zenon
  <2> QED BY <2>1, <2>2
<1>5. Len(CutTo(n)) = n
  <2>1. 1 .. Len(CutTo(n)) = 1 .. n /\ Len(CutTo(n)) \in Nat
    BY <1>3, <1>4, LenProperties
  <2> QED BY <2>1
<1> QED BY <1>4, <1>5 DEF CutTo

LEMMA CutTail ==
  ASSUME NEW f \in Seq(PieceType), NEW g \in Seq(PieceType),
         Len(g) = 2 * GoodLines(f), \A i \in 1 .. Len(g) : g[i] = f[i]
  PROVE  GoodLines(g) = GoodLines(f) /\ EventsOf(g) = EventsOf(f) /\ Intact(g)
<1> DEFINE n == GoodLines(f)
<1>1. n \in Nat /\ 2 * n <= Len(f) /\ \A i \in 1 .. n : GoodLine(f, i)
  BY GoodLinesFound
<1>2. Len(g) = 2 * n /\ \A i \in 1 .. (2 * n) : g[i] = f[i]
  OBVIOUS
<1> HIDE DEF n
<1>3. ASSUME NEW i \in 1 .. n PROVE GoodLine(g, i)
  <2>1. /\ 2 * i \in 1 .. (2 * n) /\ 2 * i - 1 \in 1 .. (2 * n)
        /\ 2 * i <= Len(g) /\ GoodLine(f, i)
    BY <1>1, <1>2
  <2>2. g[2 * i] = f[2 * i] /\ g[2 * i - 1] = f[2 * i - 1]
    BY <1>2, <2>1
  <2> QED BY <2>1, <2>2 DEF GoodLine
<1>4. ~GoodLine(g, n + 1)
  BY <1>1, <1>2 DEF GoodLine
<1>5. GoodLines(g) = n
  BY <1>1, <1>2, <1>3, <1>4, GoodLinesAre
<1>6. EventsOf(g) = EventsOf(f)
  BY <1>1, <1>2, <1>5 DEF EventsOf, n
<1>7. Intact(g)
  BY <1>2, <1>5 DEF Intact
<1> QED BY <1>2, <1>5, <1>6, <1>7 DEF n

-----------------------------------------------------------------------------
(* The shapes of the state, whatever the handles of one process do.        *)
HandlesTyped ==
  /\ pc \in [Handles -> Places] /\ cache \in [Handles -> Seq(0 .. MaxEvents)]
  /\ len \in [Handles -> Nat] /\ seen \in [Handles -> Nat]
  /\ writer \in [Handles -> BOOLEAN]
Counted ==
  /\ file \in Seq(PieceType)
  /\ events \in 0 .. MaxEvents /\ acked \subseteq 1 .. events
  /\ crashes \in 0 .. MaxCrashes /\ errors \in 0 .. MaxErrors
  /\ late \subseteq Handles /\ blind \subseteq 1 .. events
  /\ overlapped \in BOOLEAN

LEMMA TypeParts == TypeOK <=> HandlesTyped /\ Counted
BY DEF TypeOK, HandlesTyped, Counted, PieceType

LEMMA EventsTyped ==
  ASSUME NEW f \in Seq(PieceType)
  PROVE  /\ EventsOf(f) \in Seq(0 .. MaxEvents) /\ Len(EventsOf(f)) = GoodLines(f)
         /\ GoodLines(f) \in Nat
<1>1. /\ GoodLines(f) \in Nat /\ 2 * GoodLines(f) <= Len(f)
  BY GoodLinesFound
<1>2. \A i \in 1 .. GoodLines(f) : 2 * i \in 1 .. Len(f) /\ f[2 * i] \in PieceType
  BY <1>1
<1>3. \A i \in 1 .. GoodLines(f) : f[2 * i].id \in 0 .. MaxEvents
  BY <1>2 DEF PieceType
<1> DEFINE n == GoodLines(f)
           e == [i \in 1 .. n |-> f[2 * i].id]
<1>4. e \in Seq(0 .. MaxEvents) /\ Len(e) = n
  <2>1. n \in Nat /\ e \in [1 .. n -> 0 .. MaxEvents]
    BY <1>1, <1>3
  <2> HIDE DEF n, e
  <2>2. e \in Seq(0 .. MaxEvents)
    <3>1. e \in UNION {[1 .. k -> 0 .. MaxEvents] : k \in Nat}
      BY <2>1
    <3>2. Seq(0 .. MaxEvents) = UNION {[1 .. k -> 0 .. MaxEvents] : k \in Nat}
      BY SeqDef, Zenon
    <3> QED BY <3>1, <3>2
  <2>3. 1 .. Len(e) = 1 .. n /\ Len(e) \in Nat
    BY <2>1, <2>2, LenProperties
  <2> QED BY <2>1, <2>2, <2>3
<1> QED BY <1>1, <1>4 DEF EventsOf

LEMMA PieceTyped ==
  ASSUME HandlesTyped, NEW h \in Handles, NEW id \in 0 .. MaxEvents, NEW part \in {1, 2}
  PROVE  Piece(id, h, part) \in PieceType
BY DEF HandlesTyped, Piece, PieceType

LEMMA JoinsTyped ==
  ASSUME NEW h \in Handles, Joins(h), overlapped \in BOOLEAN
  PROVE  overlapped' \in BOOLEAN /\ (overlapped => overlapped')
BY Zenon DEF Joins

(* What a step of one handle leaves alone.                                 *)
OthersSame(h) ==
  \A g \in Handles \ {h} :
    /\ pc'[g] = pc[g] /\ cache'[g] = cache[g] /\ len'[g] = len[g]
    /\ seen'[g] = seen[g] /\ writer'[g] = writer[g]
    /\ (g \in late' <=> g \in late)

(* What every step of a handle does to the shapes.                         *)
Stepped(h) ==
  /\ HandlesTyped' /\ Counted' /\ OthersSame(h)
  /\ events <= events' /\ (overlapped => overlapped')
  /\ pc'[h] = "writing" => seen'[h] \in 1 .. events'

LEMMA DroppedTyped ==
  ASSUME TypeOK, NEW h \in Handles, Dropped(h), UNCHANGED <<file, bookkeeping>>
  PROVE  Stepped(h)
<1>1. HandlesTyped /\ Counted
  BY TypeParts
<1>2. HandlesTyped' /\ pc'[h] = "closed"
  BY <1>1 DEF Dropped, Goes, Carries, HandlesTyped, Places
<1>3. Counted'
  BY <1>1 DEF Dropped, bookkeeping, Counted
<1>4. OthersSame(h)
  BY <1>1 DEF Dropped, Goes, Carries, HandlesTyped, OthersSame
<1> QED BY <1>1, <1>2, <1>3, <1>4 DEF Dropped, bookkeeping, Counted, Stepped

LEMMA CachedTyped ==
  ASSUME HandlesTyped, Counted, NEW h \in Handles, Cached(h)
  PROVE  /\ cache' \in [Handles -> Seq(0 .. MaxEvents)] /\ cache'[h] = EventsOf(file)
         /\ \A g \in Handles \ {h} : cache'[g] = cache[g]
<1>1. EventsOf(file) \in Seq(0 .. MaxEvents)
  BY EventsTyped DEF Counted
<1> QED BY <1>1 DEF Cached, HandlesTyped

LEMMA OpenTyped ==
  ASSUME TypeOK, NEW h \in Handles, Open(h)
  PROVE  Stepped(h)
<1>1. HandlesTyped /\ Counted
  BY TypeParts
<1>2. GoodLines(file) \in Nat /\ Len(file) \in Nat /\ 0 \in Nat
  BY <1>1, EventsTyped DEF Counted
<1>3. ASSUME UNCHANGED <<file, bookkeeping, history>>, HandlesTyped', OthersSame(h),
             pc'[h] # "writing"
      PROVE  Stepped(h)
  BY <1>1, <1>3 DEF bookkeeping, history, Counted, Stepped
<1>4. ASSUME Cached(h), Goes(h, "opened"), UNCHANGED <<len, seen, writer, history>>,
             UNCHANGED <<file, bookkeeping>>
      PROVE  Stepped(h)
  <2>1. HandlesTyped'
    BY <1>1, <1>4, CachedTyped DEF Goes, HandlesTyped, Places
  <2>2. OthersSame(h) /\ pc'[h] = "opened"
    BY <1>1, <1>4, CachedTyped DEF Goes, HandlesTyped, OthersSame, history
  <2> QED BY <1>3, <1>4, <2>1, <2>2
<1>5. CASE OpenRead(h)
  <2>1. CASE Torn(file) /\ Goes(h, "torn") /\ UNCHANGED cache
    <3>1. pc'[h] = "torn" /\ HandlesTyped'
      BY <1>1, <1>5, <2>1 DEF OpenRead, Goes, HandlesTyped, Places
    <3>2. OthersSame(h)
      BY <1>1, <1>5, <2>1 DEF OpenRead, Goes, HandlesTyped, OthersSame, history
    <3> QED BY <1>3, <1>5, <3>1, <3>2 DEF OpenRead
  <2> QED BY <1>4, <1>5, <2>1 DEF OpenRead
<1>6. CASE RepairLock(h)
  <2>1. pc'[h] = "locked" /\ HandlesTyped'
    BY <1>1, <1>6 DEF RepairLock, Goes, HandlesTyped, Places
  <2>2. OthersSame(h)
    BY <1>1, <1>6 DEF RepairLock, Goes, HandlesTyped, OthersSame
  <2>3. overlapped' \in BOOLEAN /\ (overlapped => overlapped')
    BY <1>1, <1>6, JoinsTyped DEF RepairLock, Counted
  <2> QED BY <1>1, <1>6, <2>1, <2>2, <2>3 DEF RepairLock, bookkeeping, Counted, Stepped
<1>7. CASE OpenRefused(h)
  BY <1>7, DroppedTyped DEF OpenRefused
<1>8. CASE RepairRead(h)
  <2>1. CASE /\ Torn(file) /\ Carries(h, 2 * GoodLines(file))
             /\ Goes(h, "cut") /\ UNCHANGED <<cache, len, writer, history>>
    <3>1. pc'[h] = "cut" /\ HandlesTyped'
      BY <1>1, <1>2, <2>1 DEF Goes, Carries, HandlesTyped, Places
    <3>2. OthersSame(h)
      BY <1>1, <2>1 DEF Goes, Carries, HandlesTyped, OthersSame, history
    <3> QED BY <1>3, <1>8, <2>1, <3>1, <3>2 DEF RepairRead
  <2> QED BY <1>4, <1>8, <2>1, DroppedTyped DEF RepairRead
<1>9. CASE RepairCut(h)
  <2>1. pc'[h] = "reread" /\ HandlesTyped'
    BY <1>1, <1>2, <1>9 DEF RepairCut, Goes, Carries, HandlesTyped, Places
  <2>2. OthersSame(h)
    BY <1>1, <1>9 DEF RepairCut, Goes, Carries, HandlesTyped, OthersSame, history
  <2>3. file' \in Seq(PieceType)
    BY <1>1, <1>9, CutTyped DEF RepairCut, HandlesTyped, Counted
  <2>4. Counted' /\ events' = events /\ overlapped' = overlapped
    BY <1>1, <1>9, <2>3 DEF RepairCut, bookkeeping, history, Counted
  <2> QED BY <1>1, <2>1, <2>2, <2>4 DEF Counted, Stepped
<1>10. CASE RepairReread(h)
  BY <1>4, <1>10, DroppedTyped DEF RepairReread
<1>11. CASE OpenStat(h)
  <2>1. pc'[h] = "ready" /\ HandlesTyped'
    BY <1>1, <1>2, <1>11 DEF OpenStat, Goes, HandlesTyped, Places
  <2>2. OthersSame(h) /\ late' \subseteq Handles
    BY <1>1, <1>11 DEF OpenStat, Goes, HandlesTyped, Counted, OthersSame
  <2> QED BY <1>1, <1>11, <2>1, <2>2 DEF OpenStat, bookkeeping, Counted, Stepped
<1> QED BY <1>5, <1>6, <1>7, <1>8, <1>9, <1>10, <1>11 DEF Open

LEMMA AppendTyped ==
  ASSUME TypeOK, WritingKnown, NEW h \in Handles, AppendCall(h) \/ Close(h)
  PROVE  Stepped(h)
<1>1. HandlesTyped /\ Counted
  BY TypeParts
<1>2. GoodLines(file) \in Nat /\ Len(file) \in Nat /\ 0 \in Nat /\ events \in Nat
  BY <1>1, EventsTyped DEF Counted
<1>3. CASE Close(h)
  BY <1>3, DroppedTyped DEF Close
<1>4. CASE AppendLock(h)
  <2>1. pc'[h] = "stat" /\ HandlesTyped'
    BY <1>1, <1>4 DEF AppendLock, Goes, HandlesTyped, Places
  <2>2. OthersSame(h)
    BY <1>1, <1>4 DEF AppendLock, Goes, HandlesTyped, OthersSame
  <2>3. overlapped' \in BOOLEAN /\ (overlapped => overlapped')
    BY <1>1, <1>4, JoinsTyped DEF AppendLock, Counted
  <2> QED BY <1>1, <1>4, <2>1, <2>2, <2>3 DEF AppendLock, bookkeeping, Counted, Stepped
<1>5. CASE CatchUpStat(h)
  <2>1. pc'[h] # "writing" /\ HandlesTyped'
    BY <1>1, <1>2, <1>5 DEF CatchUpStat, Goes, Carries, HandlesTyped, Places
  <2>2. OthersSame(h)
    BY <1>1, <1>5 DEF CatchUpStat, Goes, Carries, HandlesTyped, OthersSame, history
  <2> QED BY <1>1, <1>5, <2>1, <2>2 DEF CatchUpStat, bookkeeping, history, Counted, Stepped
<1>6. CASE CatchUpRead(h)
  <2>1. /\ cache' \in [Handles -> Seq(0 .. MaxEvents)]
        /\ \A g \in Handles \ {h} : cache'[g] = cache[g]
    BY <1>1, <1>6, CachedTyped DEF CatchUpRead, HandlesTyped
  <2>2. pc'[h] # "writing" /\ HandlesTyped'
    BY <1>1, <1>2, <1>6, <2>1 DEF CatchUpRead, Goes, Carries, HandlesTyped, Places
  <2>3. OthersSame(h) /\ late' \subseteq Handles
    BY <1>1, <1>6, <2>1 DEF CatchUpRead, Goes, Carries, HandlesTyped, Counted, OthersSame
  <2> QED BY <1>1, <1>6, <2>2, <2>3 DEF CatchUpRead, bookkeeping, Counted, Stepped
<1>7. CASE WriteBegin(h)
  <2>1. events' = events + 1 /\ events' \in 1 .. MaxEvents /\ events <= events'
    BY <1>1, <1>7, LogConstants DEF WriteBegin, Counted
  <2>2. pc'[h] = "writing" /\ seen'[h] \in 1 .. events' /\ HandlesTyped'
    BY <1>1, <1>7, <2>1 DEF WriteBegin, Goes, Carries, HandlesTyped, Places
  <2>3. OthersSame(h)
    BY <1>1, <1>7 DEF WriteBegin, Goes, Carries, HandlesTyped, OthersSame
  <2>4. file' \in Seq(PieceType)
    <3>1. Piece(events', h, 1) \in PieceType
      BY <1>1, <2>1, PieceTyped
    <3> QED BY <1>1, <1>7, <3>1 DEF WriteBegin, Counted
  <2>5. blind' \subseteq 1 .. events' /\ acked' \subseteq 1 .. events'
    BY <1>1, <1>2, <1>7, <2>1 DEF WriteBegin, Begun, Counted
  <2>6. Counted'
    BY <1>1, <1>7, <2>1, <2>4, <2>5 DEF WriteBegin, Counted
  <2> QED BY <1>7, <2>1, <2>2, <2>3, <2>6 DEF WriteBegin, Stepped
<1>8. ASSUME pc[h] = "writing", file' = Append(file, Piece(seen[h], h, 2)) PROVE file' \in Seq(PieceType)
  <2>1. seen[h] \in 0 .. MaxEvents
    BY <1>1, <1>8, LogConstants DEF WritingKnown, Counted
  <2>2. Piece(seen[h], h, 2) \in PieceType
    BY <1>1, <2>1, PieceTyped
  <2> QED BY <1>1, <1>8, <2>2 DEF Counted
<1>9. CASE WriteEnd(h)
  <2>1. seen[h] \in 1 .. events /\ seen[h] \in 0 .. MaxEvents
    BY <1>1, <1>9, LogConstants DEF WriteEnd, WritingKnown, Counted
  <2>2. pc'[h] = "ready" /\ HandlesTyped'
    <3>1. cache' \in [Handles -> Seq(0 .. MaxEvents)] /\ len' \in [Handles -> Nat]
      BY <1>1, <1>9, <2>1 DEF WriteEnd, HandlesTyped
    <3> QED BY <1>1, <1>9, <3>1 DEF WriteEnd, Goes, Carries, HandlesTyped, Places
  <2>3. OthersSame(h)
    BY <1>1, <1>9 DEF WriteEnd, Goes, Carries, HandlesTyped, OthersSame, history
  <2>4. Counted' /\ events' = events /\ overlapped' = overlapped
    BY <1>1, <1>8, <1>9, <2>1 DEF WriteEnd, history, Counted
  <2> QED BY <1>2, <2>2, <2>3, <2>4 DEF Stepped
<1>10. CASE WriteFails(h)
  <2>1. pc'[h] = "ready" /\ HandlesTyped'
    BY <1>1, <1>10 DEF WriteFails, Goes, Carries, HandlesTyped, Places
  <2>2. OthersSame(h)
    BY <1>1, <1>10 DEF WriteFails, Goes, Carries, HandlesTyped, OthersSame, history
  <2>3. Counted' /\ events' = events /\ overlapped' = overlapped
    BY <1>1, <1>10, LogConstants DEF WriteFails, history, Counted
  <2> QED BY <1>2, <2>1, <2>2, <2>3 DEF Stepped
<1>11. CASE SyncFails(h)
  <2>1. pc'[h] = "ready" /\ HandlesTyped'
    BY <1>1, <1>11 DEF SyncFails, Goes, Carries, HandlesTyped, Places
  <2>2. OthersSame(h)
    BY <1>1, <1>11 DEF SyncFails, Goes, Carries, HandlesTyped, OthersSame, history
  <2>3. Counted' /\ events' = events /\ overlapped' = overlapped
    BY <1>1, <1>8, <1>11, LogConstants DEF SyncFails, history, Counted
  <2> QED BY <1>2, <2>1, <2>2, <2>3 DEF Stepped
<1> QED BY <1>3, <1>4, <1>5, <1>6, <1>7, <1>9, <1>10, <1>11 DEF AppendCall

(* A process that dies takes its handles with it.                          *)
LEMMA CrashTyped ==
  ASSUME TypeOK, NEW p, Crash(p)
  PROVE  /\ HandlesTyped' /\ Counted' /\ file' = file /\ events' = events /\ acked' = acked
         /\ blind' = blind /\ overlapped' = overlapped
         /\ \A h \in Handles :
              \/ /\ pc'[h] = "closed" /\ cache'[h] = <<>> /\ writer'[h] = FALSE
                 /\ h \notin late'
              \/ /\ pc'[h] = pc[h] /\ cache'[h] = cache[h] /\ len'[h] = len[h]
                 /\ seen'[h] = seen[h] /\ writer'[h] = writer[h]
                 /\ (h \in late' <=> h \in late)
<1>1. HandlesTyped /\ Counted
  BY TypeParts
<1>2. <<>> \in Seq(0 .. MaxEvents)
  OBVIOUS
<1>3. cache' \in [Handles -> Seq(0 .. MaxEvents)]
  <2>1. cache' = [h \in Handles |-> IF Owner[h] = p THEN <<>> ELSE cache[h]]
    BY DEF Crash
  <2> QED BY <1>1, <1>2, <2>1 DEF HandlesTyped
<1>4. HandlesTyped'
  BY <1>1, <1>3 DEF Crash, HandlesTyped, Places
<1>5. Counted'
  BY <1>1, LogConstants DEF Crash, Counted
<1> QED BY <1>4, <1>5 DEF Crash

-----------------------------------------------------------------------------
(* A step of a handle that leaves the file and the events alone.           *)
LEMMA FileStays ==
  ASSUME Sound, NEW h \in Handles, UNCHANGED <<file, acked, blind>>,
         OthersSame(h), HandleSound(h)',
         writer'[h] => \A g \in Handles : writer[g] => Owner[g] = Owner[h],
         pc'[h] \in Locking => \A g \in Handles : pc[g] \in Locking => g = h
  PROVE  Sound'
<1>1. DamageIsBlind' /\ AckedKept'
  BY DEF Sound, DamageIsBlind, NeverDamaged, AckedKept
<1>2. OneLocks'
  BY DEF Sound, OneLocks, OthersSame
<1>3. OneActs'
  BY DEF Sound, OneActs, OthersSame
<1>4. ASSUME NEW g \in Handles, g # h PROVE HandleSound(g)'
  <2>1. HandleSound(g) /\ file' = file /\ blind' = blind
    BY DEF Sound
  <2>2. /\ pc'[g] = pc[g] /\ cache'[g] = cache[g] /\ len'[g] = len[g]
        /\ seen'[g] = seen[g] /\ writer'[g] = writer[g]
        /\ (g \in late' <=> g \in late)
    BY <1>4 DEF OthersSame
  <2>3. Shows(g)'
    BY <2>1, <2>2 DEF HandleSound, Shows
  <2> QED BY <2>1, <2>2, <2>3 DEF HandleSound, Piece
<1> QED BY <1>1, <1>2, <1>3, <1>4 DEF Sound

(* A step under the lock that leaves the good lines what they were.        *)
FileGrows ==
  /\ GoodLines(file) <= GoodLines(file')
  /\ \A i \in 1 .. GoodLines(file) : EventsOf(file')[i] = EventsOf(file)[i]

LEMMA FileWritten ==
  ASSUME TypeOK, TypeOK', Sound, NEW h \in Handles, pc[h] \in Locking,
         FileGrows, DamageIsBlind', blind \subseteq blind',
         \A id \in acked' \ acked :
           id \notin blind' => \E i \in 1 .. GoodLines(file') : EventsOf(file')[i] = id,
         OthersSame(h), HandleSound(h)', writer' = writer
  PROVE  Sound'
<1>1. GoodLines(file) \in Nat /\ GoodLines(file') \in Nat
  BY EventsTyped DEF TypeOK, PieceType
<1>2. AckedKept'
  <2>1. ASSUME NEW id \in acked \ blind
        PROVE  \E i \in 1 .. GoodLines(file') : EventsOf(file')[i] = id
    <3>1. PICK i \in 1 .. GoodLines(file) : EventsOf(file)[i] = id
      BY DEF Sound, AckedKept
    <3>2. i \in 1 .. GoodLines(file') /\ EventsOf(file')[i] = id
      BY <1>1, <3>1 DEF FileGrows
    <3> QED BY <3>2
  <2> QED BY <2>1 DEF AckedKept
<1>3. OneLocks'
  BY DEF Sound, OneLocks
<1>4. OneActs'
  BY DEF Sound, OneActs, OthersSame
<1>5. ASSUME NEW g \in Handles, g # h PROVE HandleSound(g)'
  <2>1. HandleSound(g) /\ pc[g] \notin Locking
    BY <1>5 DEF Sound, OneActs
  <2>2. /\ pc'[g] = pc[g] /\ cache'[g] = cache[g] /\ len'[g] = len[g]
        /\ (g \in late' <=> g \in late)
    BY <1>5 DEF OthersSame
  <2>3. Shows(g)'
    <3> SUFFICES ASSUME NEW i \in 1 .. Len(cache[g])
                 PROVE  \/ i <= GoodLines(file') /\ cache[g][i] = EventsOf(file')[i]
                        \/ g \in late /\ cache[g][i] \in blind'
      BY <2>2 DEF Shows
    <3>1. CASE i <= GoodLines(file) /\ cache[g][i] = EventsOf(file)[i]
      <4>1. i \in 1 .. GoodLines(file) /\ i <= GoodLines(file')
        BY <1>1, <3>1 DEF FileGrows
      <4> QED BY <3>1, <4>1 DEF FileGrows
    <3> QED BY <2>1, <3>1 DEF HandleSound, Shows
  <2> QED BY <2>1, <2>2, <2>3 DEF HandleSound, Locking
<1> QED BY <1>2, <1>3, <1>4, <1>5 DEF Sound

(* A handle that takes the lock joins no other.                            *)
LEMMA LockTaken ==
  ASSUME TypeOK, Sound, NEW h \in Handles, Joins(h), ~overlapped',
         writer[h] \/ ~Locked(h)
  PROVE  /\ \A g \in Handles : writer[g] => Owner[g] = Owner[h]
         /\ \A g \in Handles : pc[g] \in Locking => g = h
<1>1. ASSUME NEW g \in Handles, writer[g] PROVE Owner[g] = Owner[h]
  BY <1>1 DEF Sound, OneLocks, Locked
<1>2. ASSUME NEW g \in Handles, pc[g] \in Locking, g # h PROVE FALSE
  <2>1. writer[g]
    BY <1>2 DEF Sound, HandleSound
  <2>2. Owner[g] = Owner[h]
    BY <1>1, <2>1
  <2>3. overlapped' \* what Joins says of a handle of the same process
    BY <1>2, <2>2, Zenon DEF Joins
  <2> QED BY <2>3
<1> QED BY <1>1, <1>2

(* The same for a handle that has it.                                      *)
LEMMA LockHeld ==
  ASSUME Sound, NEW h \in Handles, pc[h] \in Locking
  PROVE  /\ writer[h]
         /\ \A g \in Handles : writer[g] => Owner[g] = Owner[h]
         /\ \A g \in Handles : pc[g] \in Locking => g = h
<1>1. writer[h]
  BY DEF Sound, HandleSound
<1> QED BY <1>1 DEF Sound, OneLocks, OneActs

-----------------------------------------------------------------------------
(* Opening a log.                                                          *)
LEMMA InitSound == Init => LInv
<1> SUFFICES ASSUME Init PROVE LInv
  OBVIOUS
<1>1. file = <<>> /\ file \in Seq(PieceType) /\ Len(file) = 0
  BY DEF Init
<1>2. ~GoodLine(file, 0 + 1)
  BY <1>1 DEF GoodLine
<1>3. GoodLines(file) = 0
  <2>1. \A i \in 1 .. 0 : GoodLine(file, i)
    OBVIOUS
  <2>2. 0 \in Nat
    OBVIOUS
  <2> QED BY <1>1, <1>2, <2>1, <2>2, GoodLinesAre
<1>4. TypeOK
  <2>1. HandlesTyped
    BY LogConstants DEF Init, HandlesTyped, Places
  <2>2. Counted
    <3>1. events \in 0 .. MaxEvents /\ crashes \in 0 .. MaxCrashes /\ errors \in 0 .. MaxErrors
      BY LogConstants DEF Init
    <3>2. acked \subseteq 1 .. events /\ late \subseteq Handles /\ blind \subseteq 1 .. events
      BY DEF Init
    <3>3. overlapped \in BOOLEAN
      BY DEF Init
    <3> QED BY <1>1, <3>1, <3>2, <3>3 DEF Counted
  <2> QED BY <2>1, <2>2, TypeParts
<1>5. DamageIsBlind
  BY <1>1, <1>3 DEF DamageIsBlind, NeverDamaged, Damaged, Intact
<1>6. AckedKept /\ OneLocks /\ OneActs /\ WritingKnown
  BY DEF Init, AckedKept, OneLocks, OneActs, Locking, WritingKnown
<1>7. ASSUME NEW h \in Handles PROVE HandleSound(h)
  BY <1>1, <1>3 DEF Init, HandleSound, Shows, Locking, Settled
<1> QED BY <1>4, <1>5, <1>6, <1>7 DEF LInv, Sound

(* A handle that lets go knows nothing.                                    *)
LEMMA DroppedSound ==
  ASSUME TypeOK, Sound, NEW h \in Handles, Dropped(h), UNCHANGED <<file, bookkeeping>>,
         Stepped(h)
  PROVE  Sound'
<1>1. /\ pc'[h] = "closed" /\ cache'[h] = <<>> /\ ~writer'[h] /\ h \notin late'
      /\ blind' = blind
  BY TypeParts DEF Dropped, Goes, HandlesTyped
<1>2. HandleSound(h)'
  BY <1>1 DEF HandleSound, Shows, Locking, Settled
<1> QED BY <1>1, <1>2, FileStays DEF bookkeeping, Stepped, Locking

(* A handle that has read all of a log that is whole.                      *)
LEMMA ReadSound ==
  ASSUME TypeOK, Sound, NEW h \in Handles, pc[h] \notin Settled, Intact(file),
         Cached(h), Goes(h, "opened"), UNCHANGED <<file, len, seen, writer, bookkeeping, history>>,
         Stepped(h)
  PROVE  Sound'
<1>1. HandlesTyped /\ Counted
  BY TypeParts
<1>2. Len(EventsOf(file)) = GoodLines(file) /\ GoodLines(file) \in Nat
  BY <1>1, EventsTyped DEF Counted
<1>3. pc'[h] = "opened" /\ cache'[h] = EventsOf(file)
  BY <1>1 DEF Cached, Goes, HandlesTyped
<1>4. h \notin late /\ late' = late
  BY DEF Sound, HandleSound, history
<1>5. HandleSound(h)'
  BY <1>2, <1>3, <1>4 DEF HandleSound, Shows, Locking, Settled
<1>6. writer'[h] => \A g \in Handles : writer[g] => Owner[g] = Owner[h]
  BY DEF Sound, OneLocks
<1> QED BY <1>3, <1>5, <1>6, FileStays DEF bookkeeping, history, Stepped, Locking

(* A repair cuts the torn tail its holder has seen, and nothing else.       *)
LEMMA CutGrows ==
  ASSUME TypeOK, Sound, NEW h \in Handles, RepairCut(h)
  PROVE  /\ FileGrows /\ GoodLines(file') = GoodLines(file)
         /\ EventsOf(file') = EventsOf(file) /\ Intact(file')
<1> DEFINE n == 2 * GoodLines(file)
<1>1. file \in Seq(PieceType) /\ GoodLines(file) \in Nat /\ n \in Nat /\ n <= Len(file)
  BY GoodLinesFound DEF TypeOK, PieceType
<1>2. file' = CutTo(n)
  BY DEF RepairCut, Sound, HandleSound
<1>3. file' \in Seq(PieceType) /\ Len(file') = n /\ \A i \in 1 .. n : file'[i] = file[i]
  <2> HIDE DEF n
  <2>1. /\ CutTo(n) \in Seq(PieceType) /\ Len(CutTo(n)) = n
        /\ \A i \in 1 .. n : i <= Len(file) => CutTo(n)[i] = file[i]
    BY <1>1, CutTyped
  <2>2. Len(file) \in Nat
    BY <1>1
  <2> QED BY <1>1, <1>2, <2>1, <2>2
<1>4. GoodLines(file') = GoodLines(file) /\ EventsOf(file') = EventsOf(file) /\ Intact(file')
  BY <1>1, <1>3, CutTail
<1> QED BY <1>1, <1>4 DEF FileGrows

LEMMA OpenSound ==
  ASSUME TypeOK, TypeOK', Sound, ~overlapped', NEW h \in Handles, Open(h), Stepped(h)
  PROVE  Sound'
<1>1. HandlesTyped /\ Counted /\ HandleSound(h) /\ OthersSame(h)
  BY TypeParts DEF Sound, Stepped
<1>2. GoodLines(file) \in Nat /\ 2 * GoodLines(file) <= Len(file) /\ Len(file) \in Nat
  BY <1>1, GoodLinesFound DEF Counted
<1>3. CASE OpenRead(h)
  <2>1. CASE Torn(file) /\ Goes(h, "torn") /\ UNCHANGED cache
    <3>1. pc'[h] = "torn"
      BY <1>1, <2>1 DEF Goes, HandlesTyped
    <3>2. HandleSound(h)'
      BY <1>1, <1>3, <2>1, <3>1 DEF OpenRead, history, HandleSound, Shows, Locking, Settled
    <3>3. writer'[h] => \A g \in Handles : writer[g] => Owner[g] = Owner[h]
      BY <1>3 DEF OpenRead, Sound, OneLocks
    <3> QED BY <1>1, <1>3, <3>1, <3>2, <3>3, FileStays
            DEF OpenRead, bookkeeping, history, Locking
  <2>2. pc[h] \notin Settled
    BY <1>3 DEF OpenRead, Settled
  <2> QED BY <1>3, <2>1, <2>2, ReadSound DEF OpenRead
<1>4. CASE RepairLock(h)
  <2>1. pc'[h] = "locked" /\ writer'[h]
    BY <1>1, <1>4 DEF RepairLock, Goes, HandlesTyped
  <2>2. HandleSound(h)'
    BY <1>1, <1>4, <2>1 DEF RepairLock, HandleSound, Shows, Settled
  <2>3. /\ \A g \in Handles : writer[g] => Owner[g] = Owner[h]
        /\ \A g \in Handles : pc[g] \in Locking => g = h
    BY <1>4, LockTaken DEF RepairLock
  <2> QED BY <1>1, <1>4, <2>2, <2>3, FileStays DEF RepairLock, bookkeeping
<1>5. CASE OpenRefused(h)
  BY <1>5, DroppedSound DEF OpenRefused
<1>6. CASE RepairRead(h)
  <2>1. CASE /\ Torn(file) /\ Carries(h, 2 * GoodLines(file))
             /\ Goes(h, "cut") /\ UNCHANGED <<cache, len, writer, history>>
    <3>1. pc'[h] = "cut" /\ seen'[h] = 2 * GoodLines(file)
      BY <1>1, <2>1 DEF Goes, Carries, HandlesTyped
    <3>2. HandleSound(h)'
      BY <1>1, <1>6, <2>1, <3>1 DEF RepairRead, history, HandleSound, Shows, Settled, Locking
    <3>3. pc[h] \in Locking
      BY <1>6 DEF RepairRead, Locking
    <3> QED BY <1>1, <1>6, <2>1, <3>2, <3>3, LockHeld, FileStays
            DEF RepairRead, bookkeeping, history
  <2>2. pc[h] \notin Settled
    BY <1>6 DEF RepairRead, Settled
  <2> QED BY <1>6, <2>1, <2>2, ReadSound, DroppedSound DEF RepairRead
<1>7. CASE RepairCut(h)
  <2>1. Torn(file) /\ seen[h] = 2 * GoodLines(file) /\ pc[h] \in Locking /\ h \notin late
    BY <1>1, <1>7 DEF RepairCut, HandleSound, Locking, Settled
  <2>2. /\ GoodLines(file') = GoodLines(file) /\ EventsOf(file') = EventsOf(file)
        /\ Intact(file') /\ FileGrows
    BY <1>7, CutGrows
  <2>3. pc'[h] = "reread"
    BY <1>1, <1>7 DEF RepairCut, Goes, HandlesTyped
  <2>4. HandleSound(h)'
    BY <1>1, <1>7, <2>1, <2>2, <2>3 DEF RepairCut, history, HandleSound, Shows, Settled, Locking
  <2>5. FileGrows /\ DamageIsBlind'
    BY <2>2 DEF DamageIsBlind, NeverDamaged, Damaged
  <2> QED BY <1>1, <1>7, <2>1, <2>4, <2>5, FileWritten DEF RepairCut, bookkeeping, history
<1>8. CASE RepairReread(h)
  <2>1. pc[h] \notin Settled
    BY <1>8 DEF RepairReread, Settled
  <2> QED BY <1>8, <2>1, ReadSound, DroppedSound DEF RepairReread
<1>9. CASE OpenStat(h)
  <2>1. /\ pc[h] = "opened" /\ pc'[h] = "ready" /\ len'[h] = Len(file) /\ cache' = cache
        /\ h \notin late /\ (h \in late' <=> Len(file) # 2 * Len(cache[h]))
    BY <1>1, <1>9 DEF OpenStat, Goes, HandleSound, HandlesTyped, Settled
  <2>2. Len(cache[h]) \in Nat /\ Len(cache[h]) <= GoodLines(file)
    <3>1. Len(cache[h]) \in Nat
      BY <1>1 DEF HandlesTyped
    <3>2. Len(cache[h]) # 0 => Len(cache[h]) \in 1 .. Len(cache[h])
      BY <3>1
    <3> QED BY <1>1, <1>2, <2>1, <3>1, <3>2 DEF HandleSound, Shows
  <2>3. HandleSound(h)'
    BY <1>1, <1>2, <1>9, <2>1, <2>2 DEF OpenStat, HandleSound, Shows, Settled, Locking
  <2>4. writer'[h] => \A g \in Handles : writer[g] => Owner[g] = Owner[h]
    BY <1>9 DEF OpenStat, Sound, OneLocks
  <2> QED BY <1>1, <1>9, <2>1, <2>3, <2>4, FileStays DEF OpenStat, bookkeeping, Locking
<1> QED BY <1>3, <1>4, <1>5, <1>6, <1>7, <1>8, <1>9 DEF Open

-----------------------------------------------------------------------------
(* Appending to a log.                                                     *)
LEMMA Known ==
  ASSUME TypeOK, Sound, NEW h \in Handles
  PROVE  /\ HandlesTyped /\ Counted /\ HandleSound(h)
         /\ GoodLines(file) \in Nat /\ Len(file) \in Nat /\ Len(cache[h]) \in Nat
         /\ len[h] \in Nat /\ 2 * GoodLines(file) <= Len(file)
         /\ h \notin late => Len(cache[h]) <= GoodLines(file)
<1>1. HandlesTyped /\ Counted /\ HandleSound(h)
  BY TypeParts DEF Sound
<1>2. /\ GoodLines(file) \in Nat /\ Len(file) \in Nat /\ Len(cache[h]) \in Nat
      /\ len[h] \in Nat /\ 2 * GoodLines(file) <= Len(file)
  BY <1>1, GoodLinesFound DEF Counted, HandlesTyped
<1>3. Len(cache[h]) # 0 => Len(cache[h]) \in 1 .. Len(cache[h])
  BY <1>2
<1>4. h \notin late => Len(cache[h]) <= GoodLines(file)
  BY <1>1, <1>2, <1>3 DEF HandleSound, Shows
<1> QED BY <1>1, <1>2, <1>4

LEMMA StatSound ==
  ASSUME TypeOK, TypeOK', Sound, ~overlapped', NEW h \in Handles,
         Close(h) \/ AppendLock(h) \/ CatchUpStat(h) \/ CatchUpRead(h), Stepped(h)
  PROVE  Sound'
<1>1. /\ HandlesTyped /\ Counted /\ HandleSound(h) /\ OthersSame(h)
      /\ GoodLines(file) \in Nat /\ Len(file) \in Nat /\ Len(cache[h]) \in Nat
      /\ len[h] \in Nat
  BY Known DEF Stepped
<1>2. CASE Close(h)
  BY <1>2, DroppedSound DEF Close
<1>3. CASE AppendLock(h)
  <2>1. pc'[h] = "stat" /\ writer'[h]
    BY <1>1, <1>3 DEF AppendLock, Goes, HandlesTyped
  <2>2. HandleSound(h)'
    BY <1>1, <1>3, <2>1 DEF AppendLock, HandleSound, Shows, Settled
  <2>3. /\ \A g \in Handles : writer[g] => Owner[g] = Owner[h]
        /\ \A g \in Handles : pc[g] \in Locking => g = h
    BY <1>3, LockTaken DEF AppendLock
  <2> QED BY <1>1, <1>3, <2>2, <2>3, FileStays DEF AppendLock, bookkeeping
<1>4. CASE CatchUpStat(h)
  <2>1. pc[h] = "stat" /\ pc[h] \in Locking /\ pc[h] \in Settled
    BY <1>4 DEF CatchUpStat, Locking, Settled
  <2>2. \/ Len(file) = len[h] /\ pc'[h] = "write"
        \/ pc'[h] = "ready"
        \/ pc'[h] = "catch_up" /\ seen'[h] = Len(file)
    BY <1>1, <1>4 DEF CatchUpStat, Goes, Carries, HandlesTyped
  <2>3. HandleSound(h)'
    BY <1>1, <1>4, <2>1, <2>2 DEF CatchUpStat, history, HandleSound, Shows, Settled, Locking
  <2> QED BY <1>1, <1>4, <2>1, <2>3, LockHeld, FileStays DEF CatchUpStat, bookkeeping, history
<1>5. CASE CatchUpRead(h)
  <2>1. pc[h] = "catch_up" /\ pc[h] \in Locking /\ pc[h] \in Settled /\ seen[h] = Len(file)
    BY <1>1, <1>5 DEF CatchUpRead, HandleSound, Locking, Settled
  <2>2. Len(EventsOf(file)) = GoodLines(file)
    BY <1>1, EventsTyped DEF Counted
  <2>3. \/ /\ pc'[h] = "write" /\ cache'[h] = EventsOf(file) /\ Intact(file)
           /\ len'[h] = Len(file) /\ h \notin late'
        \/ /\ pc'[h] = "ready" /\ cache'[h] = cache[h] /\ len'[h] = len[h] /\ late' = late
    BY <1>1, <1>5, <2>1 DEF CatchUpRead, Extends, Cached, Goes, HandlesTyped
  <2>4. HandleSound(h)'
    <3>1. file' = file /\ writer' = writer /\ blind' = blind
      BY <1>5 DEF CatchUpRead
    <3>2. CASE /\ pc'[h] = "write" /\ cache'[h] = EventsOf(file) /\ Intact(file)
               /\ len'[h] = Len(file) /\ h \notin late'
      <4>1. len'[h] = 2 * Len(cache'[h]) /\ Shows(h)'
        BY <1>1, <2>2, <3>1, <3>2 DEF Intact, Shows
      <4> QED BY <1>1, <2>1, <3>1, <3>2, <4>1 DEF HandleSound
    <3>3. CASE pc'[h] = "ready" /\ cache'[h] = cache[h] /\ len'[h] = len[h] /\ late' = late
      BY <1>1, <2>1, <3>1, <3>3 DEF HandleSound, Shows, Locking, Settled
    <3> QED BY <2>3, <3>2, <3>3
  <2> QED BY <1>1, <1>5, <2>1, <2>4, LockHeld, FileStays DEF CatchUpRead, bookkeeping
<1> QED BY <1>2, <1>3, <1>4, <1>5

(* A blind event's line is damage, and takes no good line with it.         *)
LEMMA BeginSound ==
  ASSUME TypeOK, TypeOK', Sound, NEW h \in Handles, WriteBegin(h), Stepped(h)
  PROVE  Sound' /\ FileGrows
<1>1. /\ HandlesTyped /\ Counted /\ HandleSound(h) /\ OthersSame(h)
      /\ GoodLines(file) \in Nat /\ Len(file) \in Nat /\ Len(cache[h]) \in Nat
      /\ len[h] \in Nat /\ 2 * GoodLines(file) <= Len(file)
      /\ h \notin late => Len(cache[h]) <= GoodLines(file)
  BY Known DEF Stepped
<1>2. /\ pc[h] = "write" /\ pc[h] \in Locking /\ pc[h] \in Settled /\ len[h] = Len(file)
      /\ events' = events + 1 /\ file' = Append(file, Piece(events', h, 1))
      /\ cache' = cache /\ len' = len /\ writer' = writer /\ acked' = acked /\ late' = late
      /\ blind' = IF h \in late THEN blind \union {events'} ELSE blind
  BY <1>1 DEF WriteBegin, Begun, HandleSound, Locking, Settled
<1> DEFINE p == Piece(events', h, 1)
<1>3. p \in PieceType /\ p.part = 1 /\ file \in Seq(PieceType)
  <2>1. events' \in 0 .. MaxEvents
    BY TypeParts DEF TypeOK
  <2>2. p \in PieceType
    BY <1>1, <2>1, PieceTyped
  <2> QED BY <1>1, <2>2 DEF Counted, Piece
<1>4. /\ Len(file') = Len(file) + 1 /\ file'[Len(file')] = p
      /\ GoodLines(file') = GoodLines(file) /\ EventsOf(file') = EventsOf(file)
  <2> HIDE DEF p
  <2>1. file' = Append(file, p)
    BY <1>2 DEF p
  <2> QED BY <1>3, <2>1, NoNewLine
<1>5. FileGrows
  BY <1>1, <1>4 DEF FileGrows
<1>6. DamageIsBlind'
  <2> SUFFICES ASSUME blind' = {} PROVE ~Damaged(file')
    BY DEF DamageIsBlind, NeverDamaged
  <2>1. h \notin late
    BY <1>2
  <2>2. Intact(file)
    BY <1>1, <1>2, <2>1 DEF HandleSound, Intact
  <2> HIDE DEF p
  <2>3. file' = Append(file, p)
    BY <1>2 DEF p
  <2> QED BY <1>3, <2>2, <2>3, HalfLine
<1>7. pc'[h] = "writing" /\ seen'[h] = events'
  BY <1>1 DEF WriteBegin, Goes, Carries, HandlesTyped
<1>8. HandleSound(h)'
  <2>1. Shows(h)'
    BY <1>1, <1>2, <1>4 DEF HandleSound, Shows
  <2>2. (file[Len(file)] = Piece(seen[h], h, 1))'
    BY <1>2, <1>4, <1>7 DEF Piece
  <2> QED BY <1>1, <1>2, <1>4, <1>7, <2>1, <2>2 DEF HandleSound, Settled
<1> HIDE DEF p
<1> QED BY <1>1, <1>2, <1>5, <1>6, <1>8, FileWritten

(* Both ways the second half gets into the file.                           *)
LEMMA EndSound ==
  ASSUME TypeOK, TypeOK', WritingKnown, Sound, NEW h \in Handles,
         WriteEnd(h) \/ SyncFails(h), Stepped(h)
  PROVE  Sound' /\ FileGrows
<1>1. /\ HandlesTyped /\ Counted /\ HandleSound(h) /\ OthersSame(h)
      /\ GoodLines(file) \in Nat /\ Len(file) \in Nat /\ Len(cache[h]) \in Nat
      /\ len[h] \in Nat /\ 2 * GoodLines(file) <= Len(file)
      /\ h \notin late => Len(cache[h]) <= GoodLines(file)
  BY Known DEF Stepped
<1> DEFINE q == Piece(seen[h], h, 2)
<1>2. /\ pc[h] = "writing" /\ pc[h] \in Locking /\ pc[h] \in Settled
      /\ Len(file) = len[h] + 1 /\ file[Len(file)] = Piece(seen[h], h, 1)
      /\ (h \in late => seen[h] \in blind)
      /\ file' = Append(file, q) /\ writer' = writer /\ late' = late /\ blind' = blind
  BY <1>1 DEF WriteEnd, SyncFails, history, HandleSound, Locking, Settled
<1>3. /\ q \in PieceType /\ q.part = 2 /\ q.id = seen[h] /\ q.seq = Len(cache[h])
      /\ file[Len(file)].id = seen[h] /\ file[Len(file)].part = 1 /\ file \in Seq(PieceType)
  <2>1. seen[h] \in 0 .. MaxEvents
    BY <1>1, <1>2, LogConstants DEF WritingKnown, Counted
  <2>2. q \in PieceType
    BY <1>1, <2>1, PieceTyped
  <2> QED BY <1>1, <1>2, <2>2 DEF Counted, Piece
<1>4. pc'[h] = "ready"
  BY <1>1 DEF WriteEnd, SyncFails, Goes, HandlesTyped
<1>5. \/ /\ cache'[h] = Append(cache[h], seen[h]) /\ len'[h] = len[h] + 2
         /\ acked' = acked \union {seen[h]}
      \/ cache'[h] = cache[h] /\ len'[h] = len[h] /\ acked' = acked
  BY <1>1 DEF WriteEnd, SyncFails, HandlesTyped
<1>6. /\ GoodLines(file) <= GoodLines(file')
      /\ \A i \in 1 .. GoodLines(file) : EventsOf(file')[i] = EventsOf(file)[i]
      /\ h \notin late => /\ Len(cache[h]) = GoodLines(file) /\ Intact(file')
                          /\ GoodLines(file') = GoodLines(file) + 1
                          /\ EventsOf(file')[GoodLines(file) + 1] = seen[h]
  <2>1. CASE h \in late
    <3>1. Len(file) # 2 * q.seq + 1
      BY <1>1, <1>2, <1>3, <2>1 DEF HandleSound
    <3> HIDE DEF q
    <3>2. GoodLines(file') = GoodLines(file) /\ EventsOf(file') = EventsOf(file)
      BY <1>2, <1>3, <3>1, NoNewLine
    <3> QED BY <1>1, <2>1, <3>2
  <2>2. CASE h \notin late
    <3>1. Len(cache[h]) = GoodLines(file) /\ Len(file) = 2 * GoodLines(file) + 1
      <4>1. len[h] = 2 * Len(cache[h]) /\ Len(cache[h]) <= GoodLines(file)
        BY <1>1, <1>2, <2>2 DEF HandleSound
      <4> HIDE DEF q
      <4> QED BY <1>1, <1>2, <4>1
    <3> HIDE DEF q
    <3>2. /\ GoodLines(file') = GoodLines(file) + 1 /\ Intact(file')
          /\ \A i \in 1 .. GoodLines(file) : EventsOf(file')[i] = EventsOf(file)[i]
          /\ EventsOf(file')[GoodLines(file) + 1] = q.id
      BY <1>2, <1>3, <3>1, WholeLine
    <3> QED BY <1>1, <1>3, <3>1, <3>2
  <2> QED BY <2>1, <2>2
<1> HIDE DEF q
<1>7. FileGrows
  BY <1>6 DEF FileGrows
<1>8. DamageIsBlind'
  <2> SUFFICES ASSUME blind' = {} PROVE ~Damaged(file')
    BY DEF DamageIsBlind, NeverDamaged
  <2> QED BY <1>2, <1>6 DEF Damaged
<1>9. GoodLines(file') \in Nat
  BY EventsTyped DEF TypeOK, PieceType
<1>10. ASSUME NEW id \in acked' \ acked, id \notin blind'
       PROVE  \E i \in 1 .. GoodLines(file') : EventsOf(file')[i] = id
  <2>1. id = seen[h]
    BY <1>5, <1>10
  <2>2. h \notin late /\ GoodLines(file) + 1 \in 1 .. GoodLines(file')
    BY <1>1, <1>2, <1>6, <1>9, <1>10, <2>1
  <2> QED BY <1>6, <2>1, <2>2
<1>11. ASSUME NEW i \in 1 .. Len(cache[h])
       PROVE  \/ i <= GoodLines(file') /\ cache[h][i] = EventsOf(file')[i]
              \/ h \in late /\ cache[h][i] \in blind
  <2>1. CASE i <= GoodLines(file) /\ cache[h][i] = EventsOf(file)[i]
    <3>1. i \in 1 .. GoodLines(file) /\ i <= GoodLines(file')
      BY <1>1, <1>6, <1>9, <2>1
    <3> QED BY <1>6, <2>1, <3>1
  <2> QED BY <1>1, <2>1 DEF HandleSound, Shows
<1>12. HandleSound(h)'
  <2>1. CASE cache'[h] = Append(cache[h], seen[h]) /\ len'[h] = len[h] + 2
    <3>1. /\ Len(cache'[h]) = Len(cache[h]) + 1
          /\ cache'[h][Len(cache[h]) + 1] = seen[h]
          /\ \A i \in 1 .. Len(cache[h]) : cache'[h][i] = cache[h][i]
      <4>1. cache[h] \in Seq(0 .. MaxEvents) /\ seen[h] \in 0 .. MaxEvents
        BY <1>1, <1>2, LogConstants DEF WritingKnown, Counted, HandlesTyped
      <4> QED BY <2>1, <4>1
    <3>2. Shows(h)'
      <4> SUFFICES ASSUME NEW i \in 1 .. (Len(cache[h]) + 1)
                   PROVE  \/ i <= GoodLines(file') /\ cache'[h][i] = EventsOf(file')[i]
                          \/ h \in late /\ cache'[h][i] \in blind
        BY <1>2, <3>1 DEF Shows
      <4>1. CASE i = Len(cache[h]) + 1
        BY <1>1, <1>2, <1>6, <1>9, <3>1, <4>1
      <4>2. CASE i \in 1 .. Len(cache[h])
        BY <1>11, <3>1, <4>2
      <4> QED BY <1>1, <4>1, <4>2
    <3> QED BY <1>1, <1>2, <1>4, <2>1, <3>1, <3>2 DEF HandleSound, Locking, Settled
  <2>2. CASE cache'[h] = cache[h] /\ len'[h] = len[h]
    <3>1. Shows(h)'
      BY <1>2, <1>11, <2>2 DEF Shows
    <3> QED BY <1>1, <1>2, <1>4, <2>2, <3>1 DEF HandleSound, Locking, Settled
  <2> QED BY <1>5, <2>1, <2>2
<1> QED BY <1>1, <1>2, <1>7, <1>8, <1>10, <1>12, FileWritten

LEMMA FailSound ==
  ASSUME TypeOK, Sound, NEW h \in Handles, WriteFails(h), Stepped(h)
  PROVE  Sound'
<1>1. HandlesTyped /\ HandleSound(h) /\ OthersSame(h)
  BY Known DEF Stepped
<1>2. pc'[h] = "ready" /\ pc[h] \in Locking /\ pc[h] \in Settled
  BY <1>1 DEF WriteFails, Goes, HandlesTyped, Locking, Settled
<1>3. HandleSound(h)'
  BY <1>1, <1>2 DEF WriteFails, history, HandleSound, Shows, Settled, Locking
<1> QED BY <1>1, <1>2, <1>3, LockHeld, FileStays DEF WriteFails, history, Locking

(* A process that dies takes its handles with it, the file stays.          *)
LEMMA CrashSound ==
  ASSUME TypeOK, Sound, NEW p, Crash(p)
  PROVE  Sound'
<1>1. DamageIsBlind' /\ AckedKept'
  BY CrashTyped DEF Sound, DamageIsBlind, NeverDamaged, AckedKept
<1>2. ASSUME NEW h \in Handles PROVE HandleSound(h)'
  <2>1. CASE pc'[h] = "closed" /\ cache'[h] = <<>> /\ h \notin late'
    BY <2>1 DEF HandleSound, Shows, Locking, Settled
  <2>2. CASE /\ pc'[h] = pc[h] /\ cache'[h] = cache[h] /\ len'[h] = len[h]
             /\ seen'[h] = seen[h] /\ writer'[h] = writer[h]
             /\ (h \in late' <=> h \in late)
    <3>1. HandleSound(h) /\ file' = file /\ blind' = blind
      BY CrashTyped DEF Sound
    <3>2. Shows(h)'
      BY <2>2, <3>1 DEF HandleSound, Shows
    <3> QED BY <2>2, <3>1, <3>2 DEF HandleSound, Piece
  <2> QED BY <2>1, <2>2, CrashTyped
<1>3. OneLocks'
  BY CrashTyped DEF Sound, OneLocks
<1>4. OneActs'
  BY CrashTyped DEF Sound, OneActs, Locking
<1> QED BY <1>1, <1>2, <1>3, <1>4 DEF Sound

-----------------------------------------------------------------------------
LEMMA HandleTyped ==
  ASSUME LInv, NEW h \in Handles, Open(h) \/ AppendCall(h) \/ Close(h)
  PROVE  Stepped(h) /\ TypeOK' /\ WritingKnown'
<1>1. Stepped(h)
  BY OpenTyped, AppendTyped DEF LInv
<1>2. TypeOK'
  BY <1>1, TypeParts DEF Stepped, TypeOK, HandlesTyped, Counted, PieceType
<1>3. ASSUME NEW g \in Handles, pc'[g] = "writing" PROVE seen'[g] \in 1 .. events'
  <2>1. events \in Nat /\ events' \in Nat /\ events <= events'
    BY <1>1 DEF LInv, TypeOK, Stepped, Counted
  <2>2. CASE g # h
    BY <1>1, <1>3, <2>1, <2>2 DEF LInv, WritingKnown, Stepped, OthersSame
  <2> QED BY <1>1, <1>3, <2>2 DEF Stepped
<1> QED BY <1>1, <1>2, <1>3 DEF WritingKnown

LEMMA StepSound ==
  ASSUME LInv, [Next]_vars
  PROVE  LInv'
<1>1. CASE UNCHANGED vars
  <2>1. TypeOK' /\ WritingKnown'
    BY <1>1 DEF vars, bookkeeping, history, LInv, TypeOK, WritingKnown
  <2>2. Sound => Sound'
    BY <1>1 DEF vars, bookkeeping, history, Sound, DamageIsBlind, NeverDamaged, AckedKept,
                OneLocks, OneActs, HandleSound, Shows, Piece
  <2> QED BY <1>1, <2>1, <2>2 DEF vars, history, LInv
<1>2. ASSUME NEW h \in Handles, Open(h) \/ AppendCall(h) \/ Close(h)
      PROVE  LInv'
  <2>1. Stepped(h) /\ TypeOK' /\ WritingKnown'
    BY <1>2, HandleTyped
  <2>2. CASE ~overlapped'
    <3>1. TypeOK /\ WritingKnown /\ Sound
      BY <2>1, <2>2 DEF LInv, Stepped
    <3>2. Sound'
      BY <1>2, <2>1, <2>2, <3>1, OpenSound, StatSound, BeginSound, EndSound, FailSound
         DEF AppendCall
    <3> QED BY <2>1, <3>2 DEF LInv
  <2> QED BY <2>1, <2>2 DEF LInv
<1>3. ASSUME NEW h \in Handles, Crash(Owner[h])
      PROVE  LInv'
  <2>1. TypeOK' /\ overlapped' = overlapped
    BY <1>3, CrashTyped DEF LInv, TypeOK, HandlesTyped, Counted, PieceType
  <2>2. WritingKnown'
    BY <1>3, CrashTyped DEF LInv, WritingKnown
  <2> QED BY <1>3, <2>1, <2>2, CrashSound DEF LInv
<1> QED BY <1>1, <1>2, <1>3 DEF Next

(* No step takes a line away or changes one.                               *)
LEMMA StepGrows ==
  ASSUME LInv, [Next]_vars
  PROVE  overlapped \/ FileGrows \/ UNCHANGED vars
<1> SUFFICES ASSUME ~overlapped PROVE FileGrows \/ UNCHANGED vars
  OBVIOUS
<1>1. Sound /\ TypeOK /\ WritingKnown /\ GoodLines(file) \in Nat
  BY EventsTyped DEF LInv, TypeOK, PieceType
<1>2. file' = file => FileGrows
  BY <1>1 DEF FileGrows
<1>3. ASSUME NEW h \in Handles, Open(h) \/ AppendCall(h) \/ Close(h)
      PROVE  FileGrows
  <2>1. Stepped(h) /\ TypeOK'
    BY <1>3, HandleTyped
  <2>2. CASE RepairCut(h)
    BY <1>1, <2>2, CutGrows
  <2>3. \/ file' = file \/ RepairCut(h) \/ WriteBegin(h) \/ WriteEnd(h) \/ SyncFails(h)
    BY <1>3 DEF Open, OpenRead, RepairLock, OpenRefused, RepairRead, RepairReread, OpenStat,
                AppendCall, AppendLock, CatchUpStat, CatchUpRead, WriteFails, Close
  <2> QED BY <1>1, <1>2, <2>1, <2>2, <2>3, BeginSound, EndSound
<1>4. ASSUME NEW h \in Handles, Crash(Owner[h]) PROVE FileGrows
  BY <1>2, <1>4 DEF Crash
<1> QED BY <1>3, <1>4 DEF Next

LEMMA LInvAlways == Spec => []LInv
<1>1. LInv /\ [Next]_vars => LInv'
  BY StepSound
<1> QED BY <1>1, InitSound, PTL DEF Spec

-----------------------------------------------------------------------------
(* Whatever opens, crashes, half-written lines, refused writes and repairs *)
(* meet the appends of any handles of any processes: the log is damaged by *)
(* nothing but an append under the length of a file its handle had not     *)
(* read, and every other event append said Ok for is in it; until two      *)
(* handles of one process are under its lock at once.                      *)
THEOREM LogSoundAlways == Spec => []LogSound
<1>1. LInv => LogSound
  BY DEF LInv, LogSound, Sound
<1> QED BY <1>1, LInvAlways, PTL

(* What a handle shows is what the log holds, and events of its own blind  *)
(* appends, whoever else writes it.                                        *)
THEOREM CacheSoundAlways == Spec => []CacheSound
<1>1. LInv => CacheSound
  BY DEF LInv, CacheSound, CacheIsPrefix, Sound, HandleSound, Shows
<1> QED BY <1>1, LInvAlways, PTL

(* No step takes a whole line away or changes one, a blind append neither. *)
THEOREM OnlyGrowsAlways == Spec => OnlyGrows
<1> DEFINE grows == \/ overlapped
                    \/ /\ GoodLines(file) <= GoodLines(file')
                       /\ \A i \in 1 .. GoodLines(file) :
                            EventsOf(file')[i] = EventsOf(file)[i]
<1>1. LInv /\ [Next]_vars => [grows]_vars
  BY StepGrows DEF FileGrows
<1> QED BY <1>1, LInvAlways, PTL DEF Spec, OnlyGrows
=============================================================================
