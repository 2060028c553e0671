------------------------------ MODULE LogStore ------------------------------
(***************************************************************************)
(* One thread's log file and the handles that write it (log/src/store.rs). *)
(* A handle is a ThreadLog: it caches the events it read, and chooses the  *)
(* next seq from the file, under a lock that keeps other processes out but *)
(* not other handles of its own process.  Handles, processes and the file  *)
(* system come between any two calls on the file.                          *)
(*                                                                         *)
(* The file is a sequence of pieces, two to a line: an append puts down    *)
(* the first, then the second, which holds the newline.  A length or an    *)
(* offset in bytes is a number of pieces.                                  *)
(***************************************************************************)
EXTENDS Naturals, Sequences, FiniteSets

CONSTANTS
  Handles,     \* the ThreadLogs on this file
  Owner,       \* the process each handle is of
  MaxEvents,   \* events the handles try to write, at most
  MaxCrashes,  \* processes that die, at most
  MaxErrors    \* writes the file system fails, at most

ASSUME LogConstants ==
  /\ IsFiniteSet(Handles) /\ DOMAIN Owner = Handles
  /\ MaxEvents \in Nat /\ MaxCrashes \in Nat /\ MaxErrors \in Nat

VARIABLES
  file,     \* the pieces on disk
  pc,       \* where each handle is in open_with or append; "closed", "ready"
  cache,    \* ThreadLog::events of each handle; next_seq is its length
  len,      \* ThreadLog::file_len of each handle
  seen,     \* what a call under way carries: a length, an offset, an event's id
  writer,   \* whether ThreadLog::writer holds the process's locked file
  events,   \* bookkeeping: events begun; an event's id is its number
  acked,    \* bookkeeping: the ids append returned Ok for
  crashes, errors,
  late,       \* history: handles that took the length of a file they had not
              \* read, and have not read it since
  blind,      \* history: the events such a handle wrote
  overlapped  \* history: whether two handles of one process were under its
              \* lock at once

history == <<late, blind, overlapped>>
bookkeeping == <<events, acked, crashes, errors>>
vars == <<file, pc, cache, len, seen, writer, bookkeeping, history>>

Init ==
  /\ file = <<>>
  /\ pc = [h \in Handles |-> "closed"] /\ cache = [h \in Handles |-> <<>>]
  /\ len = [h \in Handles |-> 0] /\ seen = [h \in Handles |-> 0]
  /\ writer = [h \in Handles |-> FALSE]
  /\ events = 0 /\ acked = {} /\ crashes = 0 /\ errors = 0
  /\ late = {} /\ blind = {} /\ overlapped = FALSE

-----------------------------------------------------------------------------
(* read_file.  A line is good when it is one event's two pieces and its    *)
(* seq is its place; what follows the good lines is torn when it has no    *)
(* newline and damage (malformed, or a seq gap) otherwise.                 *)
GoodLine(f, i) ==
  /\ 2 * i <= Len(f)
  /\ f[2 * i - 1].part = 1 /\ f[2 * i].part = 2
  /\ f[2 * i - 1].id = f[2 * i].id
  /\ f[2 * i].seq = i - 1

GoodLines(f) ==
  CHOOSE n \in 0 .. Len(f) :
    /\ \A i \in 1 .. n : GoodLine(f, i)
    /\ ~GoodLine(f, n + 1)

EventsOf(f) == [i \in 1 .. GoodLines(f) |-> f[2 * i].id]

Intact(f)  == Len(f) = 2 * GoodLines(f)
Torn(f)    ==
  /\ ~Intact(f)
  /\ \A i \in 2 * GoodLines(f) + 1 .. Len(f) : f[i].part = 1
Damaged(f) == ~Intact(f) /\ ~Torn(f)

-----------------------------------------------------------------------------
(* The lock is the process's: a handle gets it unless a handle of another  *)
(* process has one.  A handle that waits for it too long gets Busy.        *)
Locked(h) == \E g \in Handles : writer[g] /\ Owner[g] /= Owner[h]

(* Where a handle acts under the lock.                                     *)
Locking == {"locked", "cut", "reread", "stat", "catch_up", "write", "writing"}

Joins(h) ==
  overlapped' =
    \/ overlapped
    \/ \E g \in Handles \ {h} : Owner[g] = Owner[h] /\ pc[g] \in Locking

Carries(h, n) == seen' = [seen EXCEPT ![h] = n]

Goes(h, place) == pc' = [pc EXCEPT ![h] = place]

(* open_with gave up or was dropped: what it held goes with it.            *)
Dropped(h) ==
  /\ Goes(h, "closed")
  /\ cache' = [cache EXCEPT ![h] = <<>>]
  /\ len' = [len EXCEPT ![h] = 0] /\ Carries(h, 0)
  /\ writer' = [writer EXCEPT ![h] = FALSE]
  /\ late' = late \ {h} /\ UNCHANGED <<blind, overlapped>>

Cached(h) == cache' = [cache EXCEPT ![h] = EventsOf(file)]

(* open_with: the first read, without the lock.                            *)
OpenRead(h) ==
  /\ pc[h] = "closed"
  /\ \/ Intact(file) /\ Cached(h) /\ Goes(h, "opened")
     \/ Torn(file) /\ Goes(h, "torn") /\ UNCHANGED cache
  /\ UNCHANGED <<file, len, seen, writer, bookkeeping, history>>

(* A torn tail is repaired under the lock, or refused.                     *)
RepairLock(h) ==
  /\ pc[h] = "torn" /\ ~Locked(h)
  /\ writer' = [writer EXCEPT ![h] = TRUE]
  /\ Goes(h, "locked") /\ Joins(h)
  /\ UNCHANGED <<file, cache, len, seen, bookkeeping, late, blind>>

OpenRefused(h) ==
  /\ pc[h] = "torn"
  /\ Dropped(h) /\ UNCHANGED <<file, bookkeeping>>

(* The file is read again: whoever was writing may have finished.          *)
RepairRead(h) ==
  /\ pc[h] = "locked"
  /\ \/ /\ Intact(file)
        /\ Cached(h) /\ Goes(h, "opened")
        /\ UNCHANGED <<len, seen, writer, history>>
     \/ /\ Torn(file)
        /\ Carries(h, 2 * GoodLines(file))
        /\ Goes(h, "cut") /\ UNCHANGED <<cache, len, writer, history>>
     \/ Damaged(file) /\ Dropped(h)
  /\ UNCHANGED <<file, bookkeeping>>

(* set_len: a file shorter than that by now is filled up with zero bytes.  *)
NoBytes == [id |-> 0, seq |-> 0, part |-> 1]

CutTo(n) == [i \in 1 .. n |-> IF i <= Len(file) THEN file[i] ELSE NoBytes]

RepairCut(h) ==
  /\ pc[h] = "cut"
  /\ file' = CutTo(seen[h])
  /\ Goes(h, "reread") /\ Carries(h, 0)
  /\ UNCHANGED <<cache, len, writer, bookkeeping, history>>

RepairReread(h) ==
  /\ pc[h] = "reread"
  /\ \/ /\ Intact(file)
        /\ Cached(h) /\ Goes(h, "opened")
        /\ UNCHANGED <<len, seen, writer, history>>
     \/ ~Intact(file) /\ Dropped(h)
  /\ UNCHANGED <<file, bookkeeping>>

(* Last, the length, from the file as it is by now: an unlocked handle may *)
(* have read less of it.                                                   *)
OpenStat(h) ==
  /\ pc[h] = "opened"
  /\ len' = [len EXCEPT ![h] = Len(file)]
  /\ late' = IF Len(file) = 2 * Len(cache[h]) THEN late ELSE late \union {h}
  /\ Goes(h, "ready")
  /\ UNCHANGED <<file, cache, seen, writer, bookkeeping, blind, overlapped>>

Close(h) ==
  /\ pc[h] = "ready"
  /\ Dropped(h) /\ UNCHANGED <<file, bookkeeping>>

-----------------------------------------------------------------------------
(* Mutant: the handle writes without the lock.                             *)
AppendLockAnyway(h) ==
  /\ pc[h] = "ready" /\ events < MaxEvents
  /\ writer' = [writer EXCEPT ![h] = TRUE]
  /\ Goes(h, "stat") /\ Joins(h)
  /\ UNCHANGED <<file, cache, len, seen, bookkeeping, late, blind>>

(* append: the lock first (Busy leaves the handle as it was).              *)
AppendLock(h) ==
  /\ pc[h] = "ready" /\ events < MaxEvents
  /\ writer[h] \/ ~Locked(h)
  /\ writer' = [writer EXCEPT ![h] = TRUE]
  /\ Goes(h, "stat") /\ Joins(h)
  /\ UNCHANGED <<file, cache, len, seen, bookkeeping, late, blind>>

(* Mutant: the handle goes by what it saw last.                            *)
CatchUpStatBlind(h) ==
  /\ pc[h] = "stat"
  /\ Goes(h, "write")
  /\ UNCHANGED <<file, cache, len, seen, writer, bookkeeping, history>>

(* Mutant: what grew is taken for a failed append's, and rolled back.      *)
CatchUpStatRollsBack(h) ==
  /\ pc[h] = "stat"
  /\ file' = SubSeq(file, 1, len[h])
  /\ Goes(h, "write")
  /\ UNCHANGED <<cache, len, seen, writer, bookkeeping, history>>

(* catch_up: nothing new, or the file is shorter than it was (Changed), or *)
(* it grew and is read again.                                              *)
CatchUpStat(h) ==
  /\ pc[h] = "stat"
  /\ \/ Len(file) = len[h] /\ Goes(h, "write") /\ UNCHANGED seen
     \/ Len(file) < len[h] /\ Goes(h, "ready") /\ UNCHANGED seen
     \/ Len(file) > len[h] /\ Goes(h, "catch_up") /\ Carries(h, Len(file))
  /\ UNCHANGED <<file, cache, len, writer, bookkeeping, history>>

(* What the file holds is adopted if it extends the cache.                 *)
Extends(h) ==
  /\ Intact(file) /\ GoodLines(file) >= Len(cache[h])
  /\ \A i \in 1 .. Len(cache[h]) : EventsOf(file)[i] = cache[h][i]

CatchUpRead(h) ==
  /\ pc[h] = "catch_up"
  /\ \/ /\ Extends(h)
        /\ Cached(h)
        /\ len' = [len EXCEPT ![h] = seen[h]] /\ late' = late \ {h}
        /\ Goes(h, "write")
     \/ ~Extends(h) /\ Goes(h, "ready") /\ UNCHANGED <<cache, len, late>>
  /\ Carries(h, 0)
  /\ UNCHANGED <<file, writer, bookkeeping, blind, overlapped>>

(* The line, with the next seq of the cache; a reader may see half of it.  *)
Piece(id, h, part) == [id |-> id, seq |-> Len(cache[h]), part |-> part]

Begun(h, id) == blind' = IF h \in late THEN blind \union {id} ELSE blind

(* Mutant: the event is forgotten between the two halves of its line.      *)
WriteBeginForgets(h) ==
  /\ pc[h] = "write" /\ events < MaxEvents
  /\ events' = events + 1 /\ Begun(h, events')
  /\ file' = Append(file, Piece(events', h, 1))
  /\ Goes(h, "writing") /\ Carries(h, 0)
  /\ UNCHANGED <<cache, len, writer, acked, crashes, errors, late, overlapped>>

WriteBegin(h) ==
  /\ pc[h] = "write" /\ events < MaxEvents
  /\ events' = events + 1 /\ Begun(h, events')
  /\ file' = Append(file, Piece(events', h, 1))
  /\ Goes(h, "writing") /\ Carries(h, events')
  /\ UNCHANGED <<cache, len, writer, acked, crashes, errors, late, overlapped>>

WriteEnd(h) ==
  /\ pc[h] = "writing"
  /\ file' = Append(file, Piece(seen[h], h, 2))
  /\ len' = [len EXCEPT ![h] = @ + 2]
  /\ cache' = [cache EXCEPT ![h] = Append(@, seen[h])]
  /\ acked' = acked \union {seen[h]}
  /\ Goes(h, "ready") /\ Carries(h, 0)
  /\ UNCHANGED <<writer, events, crashes, errors, history>>

(* Mutant: the event is in the cache before it is written.                 *)
WriteFailsDirty(h) ==
  /\ errors < MaxErrors /\ errors' = errors + 1
  /\ pc[h] = "writing"
  /\ cache' = [cache EXCEPT ![h] = Append(@, seen[h])]
  /\ Goes(h, "ready") /\ Carries(h, 0)
  /\ UNCHANGED <<file, len, writer, events, acked, crashes, history>>

(* Mutant: append says Ok although the write failed.                       *)
WriteFailsQuietly(h) ==
  /\ errors < MaxErrors /\ errors' = errors + 1
  /\ pc[h] = "writing"
  /\ acked' = acked \union {seen[h]}
  /\ Goes(h, "ready") /\ Carries(h, 0)
  /\ UNCHANGED <<file, cache, len, writer, events, crashes, history>>

(* The file system refuses the line, or the rest of it (a disk that is     *)
(* full): the cache stays as it was, the half line stays in the file.      *)
WriteFails(h) ==
  /\ errors < MaxErrors /\ errors' = errors + 1
  /\ pc[h] \in {"write", "writing"}
  /\ Goes(h, "ready") /\ Carries(h, 0)
  /\ UNCHANGED <<file, cache, len, writer, events, acked, crashes, history>>

(* The line is whole but sync_data failed: append says so, and the next    *)
(* append of this handle catches up on its own line.                       *)
SyncFails(h) ==
  /\ errors < MaxErrors /\ errors' = errors + 1
  /\ pc[h] = "writing"
  /\ file' = Append(file, Piece(seen[h], h, 2))
  /\ Goes(h, "ready") /\ Carries(h, 0)
  /\ UNCHANGED <<cache, len, writer, events, acked, crashes, history>>

-----------------------------------------------------------------------------
(* A process dies: its handles are gone, and its lock.                     *)
Crash(p) ==
  /\ crashes < MaxCrashes /\ crashes' = crashes + 1
  /\ LET left(f, gone) ==
           [h \in Handles |-> IF Owner[h] = p THEN gone ELSE f[h]]
     IN  /\ pc' = left(pc, "closed") /\ cache' = left(cache, <<>>)
         /\ len' = left(len, 0) /\ seen' = left(seen, 0)
         /\ writer' = left(writer, FALSE)
  /\ late' = {h \in late : Owner[h] /= p}
  /\ UNCHANGED <<file, events, acked, errors, blind, overlapped>>

Open(h) ==
  \/ OpenRead(h) \/ RepairLock(h) \/ OpenRefused(h) \/ RepairRead(h)
  \/ RepairCut(h) \/ RepairReread(h) \/ OpenStat(h)

AppendCall(h) ==
  \/ AppendLock(h) \/ CatchUpStat(h) \/ CatchUpRead(h)
  \/ WriteBegin(h) \/ WriteEnd(h) \/ WriteFails(h) \/ SyncFails(h)

Next ==
  \/ \E h \in Handles : Open(h) \/ AppendCall(h) \/ Close(h)
  \/ \E h \in Handles : Crash(Owner[h])

Spec == Init /\ [][Next]_vars

-----------------------------------------------------------------------------
Places ==
  {"closed", "opened", "torn", "locked", "cut", "reread", "ready", "stat",
   "catch_up", "write", "writing"}

(* The shapes of the state.                                                *)
TypeOK ==
  /\ file \in Seq([id : 0 .. MaxEvents, seq : Nat, part : {1, 2}])
  /\ pc \in [Handles -> Places]
  /\ cache \in [Handles -> Seq(0 .. MaxEvents)]
  /\ len \in [Handles -> Nat] /\ seen \in [Handles -> Nat]
  /\ writer \in [Handles -> BOOLEAN]
  /\ events \in 0 .. MaxEvents /\ acked \subseteq 1 .. events
  /\ crashes \in 0 .. MaxCrashes /\ errors \in 0 .. MaxErrors
  /\ late \subseteq Handles /\ blind \subseteq 1 .. events
  /\ overlapped \in BOOLEAN

(* No seq is written twice and no line is broken by another: whatever      *)
(* happened, the log can be opened, at worst after its torn tail is cut.   *)
NeverDamaged == ~Damaged(file)

(* Two handles of one process take turns: as long as no handle goes by a   *)
(* length it took of a file it had not read, the log is not damaged.       *)
DamageIsBlind == blind = {} => NeverDamaged

(* An event append said Ok for is in the log for good: no repair, crash,   *)
(* failed write or blind append of any handle takes it out.  A blind event *)
(* itself is lost with the log it damaged.                                 *)
AckedKept ==
  \A id \in acked \ blind :
    \E i \in 1 .. GoodLines(file) : EventsOf(file)[i] = id

(* Whatever opens, crashes, refusals and repairs meet the appends: the log *)
(* holds what was acknowledged, and only an append with the cache of an    *)
(* earlier file, under the length of this one, can damage it.  Nothing is  *)
(* promised once two handles of one process were under its lock at once.   *)
LogSound == overlapped \/ (DamageIsBlind /\ AckedKept)

(* What a handle shows is what the log holds, up to what it saw last; an   *)
(* event beyond that is a blind one, and of a handle that is late.         *)
CacheIsPrefix ==
  \A h \in Handles : \A i \in 1 .. Len(cache[h]) :
    \/ i <= GoodLines(file) /\ cache[h][i] = EventsOf(file)[i]
    \/ h \in late /\ cache[h][i] \in blind

(* The handles agree with the file, whoever else writes it.                *)
CacheSound == TypeOK /\ (overlapped \/ CacheIsPrefix)

(* The log only grows: no step, a repair or a blind append least of all,   *)
(* takes a whole line away or changes one, not even one whose append       *)
(* failed after the write.                                                 *)
OnlyGrows ==
  [][\/ overlapped
     \/ /\ GoodLines(file) <= GoodLines(file')
        /\ \A i \in 1 .. GoodLines(file) :
             EventsOf(file')[i] = EventsOf(file)[i]]_vars
=============================================================================
