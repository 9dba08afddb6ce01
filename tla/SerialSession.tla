----------------------------- MODULE SerialSession -----------------------------
(***************************************************************************)
(* The ring of lines of one serial monitor session (serial_session.py):    *)
(* the thread that drains the output of pio into it, and callers of        *)
(* serial_read, each of whom pages through it with the cursor of its last  *)
(* answer, while the ring moves on under them and pio may exit.            *)
(*                                                                         *)
(* A line is its number.  A call of read_session copies the ring under the *)
(* lock and answers later.  Its `eof` is left out: it says that pio has    *)
(* exited, not that the caller has seen the last line.                     *)
(***************************************************************************)
EXTENDS Integers, Sequences

CONSTANTS
  Pagers,      \* callers of serial_read
  RingSize,    \* _BUFFER_MAX_LINES
  MaxPage,     \* the largest max_lines
  MaxLines     \* lines pio puts out

ASSUME SessionAssumption ==
  /\ RingSize \in Nat \ {0} /\ MaxPage \in Nat \ {0} /\ MaxLines \in Nat

VARIABLES
  emitted,     \* lines pio has put out, numbered from 1
  pio,         \* "runs" or "exited"
  drain,       \* the reader thread: "runs" or "ended"
  ring,        \* buffer
  total,       \* total_lines
  cursor,      \* the new_cursor of each caller's last answer
  reply,       \* what a call under way will answer, but for eof
  handed,      \* the lines a caller has been handed
  missed       \* the sum of the `dropped` it has been told

sessionVars == <<emitted, pio, drain, ring, total, cursor, reply, handed, missed>>

NoReply == [busy |-> FALSE, lines |-> <<>>, next |-> 0, dropped |-> 0, full |-> FALSE,
            last |-> FALSE]

SessionInit ==
  /\ emitted = 0 /\ pio = "runs" /\ drain = "runs"
  /\ ring = <<>> /\ total = 0
  /\ cursor = [p \in Pagers |-> 0]
  /\ reply = [p \in Pagers |-> NoReply]
  /\ handed = [p \in Pagers |-> <<>>]
  /\ missed = [p \in Pagers |-> 0]

Larger(a, b) == IF a >= b THEN a ELSE b
Smaller(a, b) == IF a <= b THEN a ELSE b

pagerVars == <<cursor, reply, handed, missed>>

-----------------------------------------------------------------------------
(* pio and the reader thread.                                              *)

PioPrints ==
  /\ pio = "runs" /\ emitted < MaxLines
  /\ emitted' = emitted + 1
  /\ UNCHANGED <<pio, drain, ring, total, pagerVars>>

\* By itself, or terminated by close_session; what it put out stays in the pipe.
PioExits ==
  /\ pio = "runs"
  /\ pio' = "exited"
  /\ UNCHANGED <<emitted, drain, ring, total, pagerVars>>

DrainLine ==
  /\ drain = "runs" /\ total < emitted
  /\ ring' = IF Len(ring) < RingSize THEN Append(ring, total + 1)
             ELSE Append(Tail(ring), total + 1)
  /\ total' = total + 1
  /\ UNCHANGED <<emitted, pio, drain, pagerVars>>

\* Fault: the thread stops as soon as pio has exited.
DrainEndsEarly ==
  /\ drain = "runs" /\ pio = "exited"
  /\ drain' = "ended"
  /\ UNCHANGED <<emitted, pio, ring, total, pagerVars>>

\* End of file: pio is gone and the pipe is empty.
DrainEnds ==
  /\ drain = "runs" /\ pio = "exited" /\ total = emitted
  /\ drain' = "ended"
  /\ UNCHANGED <<emitted, pio, ring, total, pagerVars>>

-----------------------------------------------------------------------------
(* read_session.                                                           *)

\* The cursor of the first line in the ring.
HeadCursor == total - Len(ring)

Dropped(since) == Larger(0, HeadCursor - since)

NextCursor(start, n) == start + n

\* The page that a call with this cursor and max_lines returns.
ReadRing(p, maxLines) ==
  /\ ~reply[p].busy
  /\ LET start == Larger(cursor[p], HeadCursor)
         from  == start - HeadCursor
         to    == Smaller(from + maxLines, Len(ring))
     IN  reply' = [reply EXCEPT ![p] =
           [busy |-> TRUE, lines |-> SubSeq(ring, from + 1, to),
            next |-> NextCursor(start, to - from), dropped |-> Dropped(cursor[p]),
            full |-> to - from = maxLines, last |-> drain = "ended"]]
  /\ UNCHANGED <<emitted, pio, drain, ring, total, cursor, handed, missed>>

ReadReturns(p) ==
  /\ reply[p].busy
  /\ cursor' = [cursor EXCEPT ![p] = reply[p].next]
  /\ handed' = [handed EXCEPT ![p] = @ \o reply[p].lines]
  /\ missed' = [missed EXCEPT ![p] = @ + reply[p].dropped]
  /\ reply' = [reply EXCEPT ![p] = NoReply]
  /\ UNCHANGED <<emitted, pio, drain, ring, total>>

-----------------------------------------------------------------------------
SessionNext ==
  \/ PioPrints \/ PioExits \/ DrainLine \/ DrainEnds
  \/ \E p \in Pagers : (\E n \in 1..MaxPage : ReadRing(p, n)) \/ ReadReturns(p)

SessionSpec == SessionInit /\ [][SessionNext]_sessionVars

-----------------------------------------------------------------------------
(* Properties.                                                             *)

SessionTypeOK ==
  /\ emitted \in 0..MaxLines /\ total \in 0..MaxLines
  /\ pio \in {"runs", "exited"} /\ drain \in {"runs", "ended"}
  /\ ring \in Seq(1..MaxLines) /\ Len(ring) <= RingSize
  /\ cursor \in [Pagers -> 0..MaxLines]
  /\ reply \in [Pagers -> [busy : BOOLEAN, lines : Seq(1..MaxLines), next : 0..MaxLines,
                           dropped : 0..MaxLines, full : BOOLEAN, last : BOOLEAN]]
  /\ handed \in [Pagers -> Seq(1..MaxLines)]
  /\ missed \in [Pagers -> 0..MaxLines]

\* However the ring moves between the calls of a caller, what it was handed and
\* what it was told it missed add up to its cursor: `dropped` counts every line
\* it did not get (server.py:1571-1572).
CursorAccounts ==
  \A p \in Pagers : Len(handed[p]) + missed[p] = cursor[p]

\* No line comes twice or out of order to a caller that pages with new_cursor.
EachLineOnce ==
  \A p \in Pagers :
    /\ \A i, j \in DOMAIN handed[p] : i < j => handed[p][i] < handed[p][j]
    /\ \A i \in DOMAIN handed[p] : handed[p][i] <= cursor[p]

\* A call that began after the reader thread had ended, and whose page was not
\* full, brings its caller to the end of the log: eof alone does not say so, for
\* it is asked of pio after the ring was copied.
LastPageIsLast ==
  \A p \in Pagers : reply[p].busy /\ reply[p].last /\ ~reply[p].full => reply[p].next = emitted

\* A caller that pages through a log gets it once, to its end, or is told what it missed.
SessionInv == SessionTypeOK /\ CursorAccounts /\ EachLineOnce /\ LastPageIsLast

=============================================================================
