----------------------------- MODULE RecorderFiles -----------------------------
(***************************************************************************)
(* The recorder's log: handler threads that append to the live file,       *)
(* rotation into archives (recorder/rotating.py), start, stop, pause and   *)
(* resume (recorder/recorder.py), and a query that reads archives and live *)
(* file without any lock (log_query.py).                                   *)
(*                                                                         *)
(* A row is its number.  A write that finds the file large enough rotates  *)
(* it under the lock of the file; each system call of a rotation is a step *)
(* at which the process may die, a query may read, or the call may fail.   *)
(* A write may fail too: the error is swallowed, and its row either stays  *)
(* in the buffer of the file object and goes out with a later row, or is   *)
(* lost in the middle of the others.                                       *)
(***************************************************************************)
EXTENDS Naturals, Sequences, FiniteSets

CONSTANTS
  NoHandler,
  Handlers,      \* threads that publish lines
  KeepArchives,  \* keep_archives
  FileMax,       \* rows in a file of max_bytes
  MaxRows,       \* rows written
  MaxCrashes     \* deaths of the process

ASSUME RecorderAssumption ==
  /\ NoHandler \notin Handlers
  /\ KeepArchives \in Nat /\ FileMax \in Nat \ {0}
  /\ MaxRows \in Nat /\ MaxCrashes \in Nat

VARIABLES
  started, paused,   \* _started, _paused
  hand,              \* per handler: "idle", "has" a snapshot, a "stale" one
  live,              \* the live file: whether it exists, and its rows
  fh,                \* _fh: "open" or "none"
  rot,               \* the rotation under way, and the handler that holds the
                     \* file's lock for it
  archives,          \* the archives by name, oldest first
  names,             \* archives created
  written,           \* rows given to the file
  unflushed,         \* rows in the buffer of _fh, which a flush left there
  lost,              \* rows a failing write, close or death has lost
  moved,             \* the last row before those of the live file
  late,              \* rows a handler wrote since the recorder was paused
  query,             \* the query under way
  deaf,              \* the live file could not be reopened
  doubled,           \* a rotation failed or was cut short: rows may be in two files
  crashes

recVars == <<started, paused, hand, live, fh, rot, archives, names, written, unflushed,
             lost, moved, late, query, deaf, doubled, crashes>>

NoRotation == [at |-> "no", by |-> NoHandler]
NoQuery == [at |-> "idle", todo |-> <<>>, got |-> <<>>, from |-> {},
            quiet |-> FALSE, overlapped |-> FALSE]
LiveName == 0

RecInit ==
  /\ started = FALSE /\ paused = FALSE
  /\ hand = [h \in Handlers |-> "idle"]
  /\ live = [exists |-> FALSE, rows |-> <<>>]
  /\ fh = "none" /\ rot = NoRotation
  /\ archives = <<>> /\ names = 0
  /\ written = 0 /\ unflushed = <<>> /\ lost = {} /\ moved = 0
  /\ late = [h \in Handlers |-> 0]
  /\ query = NoQuery
  /\ deaf = FALSE /\ doubled = FALSE /\ crashes = 0

LockFree == rot.at = "no"

Elements(s) == {s[i] : i \in DOMAIN s}

\* The rows a query could find.
Kept ==
  Elements(live.rows)
    \cup UNION {Elements(a.rows) : a \in {b \in Elements(archives) : b.readable}}

\* A step of a rotation while a query is under way, which may miss rows from then on.
Overlaps == query' = IF query.at = "idle" THEN query
                     ELSE [query EXCEPT !.overlapped = TRUE, !.from = {}]

-----------------------------------------------------------------------------
(* start, stop, pause, resume.                                             *)

diskVars == <<archives, names, written, moved, doubled>>

Start ==
  /\ ~started
  /\ started' = TRUE
  /\ live' = [live EXCEPT !.exists = TRUE]
  /\ fh' = "open" /\ deaf' = FALSE
  /\ UNCHANGED <<paused, hand, rot, diskVars, unflushed, lost, late, query, crashes>>

\* The buffer goes out, or only its first k rows do before the disk is full.
Out(k) == SubSeq(unflushed, 1, k)
StillIn(k) == SubSeq(unflushed, k + 1, Len(unflushed))
Flushed(k) == live' = [live EXCEPT !.rows = @ \o Out(k)]

\* The files are closed under their locks: a handler that has a snapshot keeps
\* one of closed files.  A close that cannot flush raises out of stop(), which
\* leaves the recorder started, without a file.
Stop ==
  /\ started /\ LockFree
  /\ \E k \in 0..Len(unflushed) :
       /\ Flushed(k)
       /\ lost' = lost \cup Elements(StillIn(k))
       /\ \/ k = Len(unflushed) /\ started' = FALSE /\ deaf' = deaf
          \/ unflushed # <<>> /\ started' = TRUE /\ deaf' = TRUE
  /\ unflushed' = <<>>
  /\ fh' = "none"
  /\ hand' = [h \in Handlers |-> IF hand[h] = "has" THEN "stale" ELSE hand[h]]
  /\ UNCHANGED <<paused, rot, diskVars, late, query, crashes>>

Pause ==
  /\ ~paused
  /\ paused' = TRUE
  /\ UNCHANGED <<started, hand, live, fh, rot, deaf, diskVars, unflushed, lost, late, query, crashes>>

Resume ==
  /\ paused
  /\ paused' = FALSE
  /\ late' = [h \in Handlers |-> 0]
  /\ UNCHANGED <<started, hand, live, fh, rot, deaf, diskVars, unflushed, lost, query, crashes>>

-----------------------------------------------------------------------------
(* A handler, and _RotatingJsonl.write.                                    *)

othersOfHandler == <<started, paused, deaf, names, moved, doubled, crashes, archives, query>>

Snapshot(h) ==
  /\ hand[h] = "idle" /\ written < MaxRows
  /\ started /\ ~paused
  /\ hand' = [hand EXCEPT ![h] = "has"]
  /\ UNCHANGED <<othersOfHandler, live, fh, rot, written, unflushed, lost, late>>

\* A closed file takes nothing.
WriteNothing(h) ==
  /\ hand[h] = "stale" \/ (hand[h] = "has" /\ LockFree /\ fh = "none")
  /\ hand' = [hand EXCEPT ![h] = "idle"]
  /\ UNCHANGED <<othersOfHandler, live, fh, rot, written, unflushed, lost, late>>

NextRow(h) ==
  /\ hand[h] = "has" /\ LockFree /\ fh = "open" /\ written < MaxRows
  /\ written' = written + 1
  /\ late' = IF paused THEN [late EXCEPT ![h] = @ + 1] ELSE late

\* The row goes out, after those that were in the buffer; every so often the size is
\* looked at, and a file that has grown large enough is closed to be rotated.
Write(h) ==
  /\ NextRow(h)
  /\ live' = [live EXCEPT !.rows = Append(@ \o unflushed, written + 1)]
  /\ unflushed' = <<>>
  /\ \/ /\ hand' = [hand EXCEPT ![h] = "idle"]
        /\ UNCHANGED <<fh, rot>>
     \/ /\ Len(live'.rows) >= FileMax
        /\ fh' = "none"
        /\ rot' = [at |-> "create", by |-> h]
        /\ UNCHANGED hand
  /\ UNCHANGED <<othersOfHandler, lost>>

\* The error is swallowed.  The row stays in the buffer, or is lost: the buffer is full,
\* or an earlier failure left a broken line that the row runs into.
WriteFails(h) ==
  /\ NextRow(h)
  /\ \E k \in 0..Len(unflushed) :
       /\ Flushed(k)
       /\ \/ unflushed' = Append(StillIn(k), written + 1) /\ lost' = lost
          \/ unflushed' = StillIn(k) /\ lost' = lost \cup {written + 1}
  /\ hand' = [hand EXCEPT ![h] = "idle"]
  /\ UNCHANGED <<othersOfHandler, fh, rot>>

-----------------------------------------------------------------------------
(* _rotate_locked.                                                         *)

othersOfRotation == <<started, paused, late, written, unflushed, lost, crashes>>

RotationGoes(step) == rot' = [rot EXCEPT !.at = step]
RotationReturns ==
  /\ rot' = NoRotation
  /\ hand' = [hand EXCEPT ![rot.by] = "idle"]

\* The archive is there before anything is in it.
RotateCreates ==
  /\ rot.at = "create"
  /\ names' = names + 1
  /\ archives' = Append(archives, [name |-> names + 1, rows |-> <<>>, readable |-> FALSE])
  /\ RotationGoes("copy")
  /\ Overlaps
  /\ UNCHANGED <<othersOfRotation, moved, hand, live, fh, deaf, doubled>>

Newest(a) == archives' = [archives EXCEPT ![Len(archives)] =
                            [@ EXCEPT !.rows = a.rows, !.readable = a.readable]]

RotateCopies ==
  /\ rot.at = "copy"
  /\ Newest([rows |-> live.rows, readable |-> TRUE])
  /\ RotationGoes("unlink")
  /\ Overlaps
  /\ UNCHANGED <<othersOfRotation, moved, hand, live, fh, deaf, names, doubled>>

\* Fault: an error in the copying does not keep the live file from being removed.
RotateLoses ==
  /\ rot.at = "copy"
  /\ \E n \in 0..Len(live.rows) :
       Newest([rows |-> SubSeq(live.rows, 1, n), readable |-> TRUE])
  /\ RotationGoes("unlink")
  /\ doubled' = TRUE
  /\ Overlaps
  /\ UNCHANGED <<othersOfRotation, moved, hand, live, fh, deaf, names>>

\* The copying fails: what was copied is closed properly, or cut off.
RotateCopyFails ==
  /\ rot.at = "copy"
  /\ \E n \in 0..Len(live.rows), whole \in BOOLEAN :
       Newest([rows |-> SubSeq(live.rows, 1, n), readable |-> whole])
  /\ RotationGoes("open")
  /\ doubled' = TRUE
  /\ Overlaps
  /\ UNCHANGED <<othersOfRotation, moved, hand, live, fh, deaf, names>>

RotateUnlinks ==
  /\ rot.at = "unlink"
  /\ live' = [exists |-> FALSE, rows |-> <<>>]
  /\ moved' = written
  /\ RotationGoes("open")
  /\ Overlaps
  /\ UNCHANGED <<othersOfRotation, hand, fh, archives, deaf, names, doubled>>

RotateUnlinkFails ==
  /\ rot.at = "unlink"
  /\ doubled' = TRUE
  /\ RotationGoes("open")
  /\ Overlaps
  /\ UNCHANGED <<othersOfRotation, moved, hand, live, fh, archives, deaf, names>>

RotateOpens ==
  /\ rot.at = "open"
  /\ live' = [live EXCEPT !.exists = TRUE]
  /\ fh' = "open"
  /\ RotationGoes("prune")
  /\ Overlaps
  /\ UNCHANGED <<othersOfRotation, moved, hand, archives, deaf, names, doubled>>

\* The error leaves write() and is swallowed by the handler: from now on the
\* recorder writes nothing, until it is started again.
RotateOpenFails ==
  /\ rot.at = "open"
  /\ RotationReturns
  /\ deaf' = TRUE
  /\ Overlaps
  /\ UNCHANGED <<othersOfRotation, moved, live, fh, archives, names, doubled>>

PruneOldest ==
  archives' = IF Len(archives) > KeepArchives
              THEN SubSeq(archives, Len(archives) - KeepArchives + 1, Len(archives))
              ELSE archives

RotatePrunes ==
  /\ rot.at = "prune"
  /\ PruneOldest
  /\ RotationReturns
  /\ Overlaps
  /\ UNCHANGED <<othersOfRotation, moved, live, fh, deaf, names, doubled>>

-----------------------------------------------------------------------------
(* _iter_jsonl.                                                            *)

othersOfQuery == <<started, paused, hand, live, fh, rot, archives, names, written,
                   unflushed, lost, moved, late, deaf, doubled, crashes>>

ListFiles == [i \in DOMAIN archives |-> archives[i].name]
               \o (IF live.exists THEN <<LiveName>> ELSE <<>>)

QueryLists ==
  /\ query.at = "idle"
  /\ query' = [at |-> "reads", todo |-> ListFiles, got |-> <<>>, from |-> Kept,
               quiet |-> rot.at \notin {"copy", "unlink"}, overlapped |-> ~LockFree]
  /\ UNCHANGED othersOfQuery

\* A file that is gone is passed over; one cut off in the middle ends the query
\* with an error that is no OSError.
QueryReads ==
  /\ query.at = "reads" /\ query.todo # <<>>
  /\ LET name == Head(query.todo)
         found == {a \in Elements(archives) : a.name = name}
         next == [query EXCEPT !.todo = Tail(@)]
     IN  query' = IF name = LiveName THEN [next EXCEPT !.got = @ \o live.rows]
                  ELSE IF found = {} THEN next
                  ELSE LET a == CHOOSE b \in found : TRUE
                       IN  IF a.readable THEN [next EXCEPT !.got = @ \o a.rows] ELSE NoQuery
  /\ UNCHANGED othersOfQuery

QueryAnswers ==
  /\ query.at = "reads" /\ query.todo = <<>>
  /\ query' = [query EXCEPT !.at = "answered"]
  /\ UNCHANGED othersOfQuery

QueryOver ==
  /\ query.at = "answered"
  /\ query' = NoQuery
  /\ UNCHANGED othersOfQuery

-----------------------------------------------------------------------------
\* The process dies; what is on the disk stays as it is, and what was not flushed
\* is gone.
Crash ==
  /\ crashes < MaxCrashes
  /\ crashes' = crashes + 1
  /\ started' = FALSE /\ paused' = FALSE
  /\ hand' = [h \in Handlers |-> "idle"]
  /\ fh' = "none" /\ rot' = NoRotation
  /\ late' = [h \in Handlers |-> 0]
  /\ query' = NoQuery /\ deaf' = FALSE
  /\ doubled' = (doubled \/ rot.at \in {"copy", "unlink"})
  /\ lost' = lost \cup Elements(unflushed) /\ unflushed' = <<>>
  /\ UNCHANGED <<live, archives, names, written, moved>>

RotationNext ==
  \/ RotateCreates \/ RotateCopies \/ RotateCopyFails \/ RotateUnlinks
  \/ RotateUnlinkFails \/ RotateOpens \/ RotateOpenFails \/ RotatePrunes

RecNext ==
  \/ Start \/ Stop \/ Pause \/ Resume \/ Crash \/ RotationNext
  \/ \E h \in Handlers : Snapshot(h) \/ WriteNothing(h) \/ Write(h) \/ WriteFails(h)
  \/ QueryLists \/ QueryReads \/ QueryAnswers \/ QueryOver

RecSpec == RecInit /\ [][RecNext]_recVars

-----------------------------------------------------------------------------
(* Properties.                                                             *)

RowNumbers == 1..MaxRows

RecTypeOK ==
  /\ started \in BOOLEAN /\ paused \in BOOLEAN /\ deaf \in BOOLEAN /\ doubled \in BOOLEAN
  /\ hand \in [Handlers -> {"idle", "has", "stale"}]
  /\ live \in [exists : BOOLEAN, rows : Seq(RowNumbers)]
  /\ fh \in {"open", "none"}
  /\ rot.at \in {"no", "create", "copy", "unlink", "open", "prune"}
  /\ rot.by \in Handlers \cup {NoHandler} /\ (rot.at = "no" <=> rot.by = NoHandler)
  /\ archives \in Seq([name : 1..MaxRows, rows : Seq(RowNumbers), readable : BOOLEAN])
  /\ names \in 0..MaxRows /\ written \in 0..MaxRows /\ moved \in 0..MaxRows
  /\ unflushed \in Seq(RowNumbers) /\ lost \subseteq RowNumbers
  /\ late \in [Handlers -> 0..MaxRows]
  /\ query \in [at : {"idle", "reads", "answered"}, todo : Seq(0..MaxRows),
                got : Seq(RowNumbers), from : SUBSET RowNumbers, quiet : BOOLEAN,
                overlapped : BOOLEAN]
  /\ crashes \in 0..MaxCrashes

\* Whatever of a rotation fails or dies, it costs the oldest rows only: from the oldest
\* row that is still in a readable file on, every row is, but for those whose own write
\* failed (rotating.py:81-84, 125-127).
KeptIsSuffix ==
  \A r \in Kept : \A q \in r..written : q \in Kept \cup lost \cup Elements(unflushed)

\* A recorder that runs has its live file open, except during a rotation, and
\* unless the file could not be opened again: a rotation that failed otherwise
\* does not end the recording.
LiveFileOpen == started /\ LockFree /\ ~deaf => fh = "open"

\* A handler that was on its way writes one row after a pause, and no second.
PauseHolds == \A h \in Handlers : late[h] <= 1

\* Nothing reaches the disk once stop() has returned, though handlers may still
\* hold the files they were given before.
SilentAfterStop == [][~started => written' = written]_recVars

\* A query answers in order and without a repetition, whatever is written, rotated and
\* removed under it, unless it listed the files between the copying and the removal of
\* the live file, or a failed rotation has left rows in two files; and a query whose files
\* no rotation touched finds every row that was kept when it began (log_query.py:75-82).
QueryChronological ==
  query.at = "answered" /\ query.quiet /\ ~doubled =>
    /\ \A i, j \in DOMAIN query.got : i < j => query.got[i] < query.got[j]
    /\ ~query.overlapped => query.from \subseteq Elements(query.got)

\* What the recorder writes is kept, and found.
RecInv == RecTypeOK /\ KeptIsSuffix /\ LiveFileOpen /\ PauseHolds /\ QueryChronological

=============================================================================
