-------------------------- MODULE NightlySoak_proofs --------------------------
(***************************************************************************)
(* What the soak and the report of a night guarantee.  The soak, for every *)
(* fleet, every number of restarts and every place at which it may be      *)
(* aborted: its books agree with the boards it holds, it gives everything  *)
(* back, it transmits on the private channel only and numbers its messages *)
(* without a gap.  The report, for any number of reposts and deaths: what  *)
(* is shown as posted is there, and it is not posted twice.                *)
(***************************************************************************)
EXTENDS NightlySoak, NightlyReports, TLAPS

-----------------------------------------------------------------------------
(* The inductive invariant.                                                *)

\* Where the local `serial` of the loop, or the sender, is a board.
AtBoard == {"clearing", "suspending", "joining", "opening", "resuming", "sending", "sent", "failed"}

InWindow == {"window", "sending", "sent", "failed"}

BoardKnown == soak.at \in AtBoard => soak.board \in Boards

\* The local seq is the length of the file, which leaves room for one more row
\* once a send has begun.
SeqIsLength ==
  /\ Len(file) <= MaxSends
  /\ soak.at \in InWindow => soak.seq = Len(file)
  /\ soak.at \in {"sending", "sent", "failed"} => Len(file) < MaxSends

SoakTypeInv == SoakTypeOK /\ BoardKnown /\ SeqIsLength

-----------------------------------------------------------------------------
(* Types.                                                                  *)

\* What the invariant says of the lengths.
LEMMA LengthKnown ==
  ASSUME SoakTypeInv
  PROVE  /\ Len(file) \in Nat /\ Len(file) \in 0 .. MaxSends
         /\ soak.at \in InWindow => soak.seq = Len(file)
         /\ soak.at \in {"sending", "sent", "failed"} =>
              /\ Len(file) + 1 \in 0 .. MaxSends
              /\ soak.board \in Boards
<1>1. Len(file) \in Nat
  BY DEF SoakTypeInv, SoakTypeOK
<1> QED
  BY <1>1, SoakAssumption DEF SoakTypeInv, SeqIsLength, BoardKnown, AtBoard

\* A row may be added to the file, and a message to the wire.
LEMMA RowAppended ==
  ASSUME SoakTypeInv, soak.at \in {"sent", "failed"}, NEW v \in BOOLEAN
  PROVE  /\ Append(file, [id |-> soak.seq, ok |-> v]) \in Seq(SendRow)
         /\ Len(Append(file, [id |-> soak.seq, ok |-> v])) = Len(file) + 1
<1>1. [id |-> soak.seq, ok |-> v] \in SendRow
  BY LengthKnown DEF SendRow, InWindow
<1>2. file \in Seq(SendRow)
  BY DEF SoakTypeInv, SoakTypeOK
<1> QED
  BY <1>1, <1>2

LEMMA RowCounted ==
  ASSUME SoakTypeInv, SendRecorded
  PROVE  SeqIsLength'
<1>1. soak.at \in {"sent", "failed"}
  BY DEF SendRecorded
<1>2. Len(file') = Len(file) + 1
  <2>1. (soak.at = "sent") \in BOOLEAN
    OBVIOUS
  <2> QED
    BY <1>1, <2>1, RowAppended DEF SendRecorded
<1>3. Len(file) + 1 <= MaxSends
  BY <1>1, LengthKnown, SoakAssumption
<1>4. soak'.at = "window" /\ soak'.seq = Len(file) + 1
  BY <1>1, LengthKnown DEF SendRecorded, SoakTypeInv, SoakTypeOK, SoakRecord, InWindow
<1> QED
  BY <1>2, <1>3, <1>4 DEF SeqIsLength

LEMMA WireAppended ==
  ASSUME SoakTypeInv, soak.at = "sending"
  PROVE  Append(wire, [id |-> soak.seq, board |-> soak.board]) \in Seq(WireRow)
<1>1. [id |-> soak.seq, board |-> soak.board] \in WireRow
  BY LengthKnown DEF WireRow, InWindow
<1>2. wire \in Seq(WireRow)
  BY DEF SoakTypeInv, SoakTypeOK
<1> QED
  BY <1>1, <1>2

LEMMA FleetIn == \A i \in DOMAIN Fleet : Fleet[i] \in Boards
BY DEF Boards, Range

LEMMA TailBoards ==
  ASSUME NEW s \in Seq(Boards), s # <<>>
  PROVE  Head(s) \in Boards /\ Tail(s) \in Seq(Boards)
OBVIOUS

\* The soak that is not running is one.
LEMMA NoSoakTyped == NoSoak \in SoakRecord
<1>1. <<>> \in Seq(Boards) /\ 0 \in 0 .. MaxSends
  BY SoakAssumption
<1> QED
  BY <1>1 DEF NoSoak, SoakRecord, SoakPlaces

\* The initial state is typed, with no soak under way.
LEMMA SoakTypeInit == SoakInit => SoakTypeInv
<1> SUFFICES ASSUME SoakInit PROVE SoakTypeInv
  OBVIOUS
<1>1. soak \in SoakRecord /\ soak.at = "off"
  BY NoSoakTyped DEF SoakInit, NoSoak
<1>2. Len(file) = 0 /\ file \in Seq(SendRow) /\ wire \in Seq(WireRow)
  BY DEF SoakInit, SoakFresh
<1>3. SoakTypeOK
  BY <1>1, <1>2 DEF SoakInit, SoakFresh, SoakTypeOK
<1> QED
  BY <1>1, <1>2, <1>3, SoakAssumption
     DEF SoakTypeInv, BoardKnown, SeqIsLength, AtBoard, InWindow

\* Every step of the soak and of the server around it keeps the types, the board
\* in hand and the number of the next message.
LEMMA SoakTypeNext == SoakTypeInv /\ [SoakNext]_soakVars => SoakTypeInv'
<1> USE SoakAssumption, FleetAssumption
    DEF SoakTypeInv, SoakTypeOK, BoardKnown, SeqIsLength, AtBoard, InWindow, SoakPlaces,
        SoakRecord, Goes, record, outside
<1> SUFFICES ASSUME SoakTypeInv, [SoakNext]_soakVars PROVE SoakTypeInv'
  OBVIOUS
<1>1. CASE SoakStarts
  BY <1>1, NoSoakTyped DEF SoakStarts, NoSoak, SoakRecord
<1>2. CASE ClaimsNext
  <2>1. Head(soak.todo) \in Boards /\ Tail(soak.todo) \in Seq(Boards)
    BY <1>2, TailBoards DEF ClaimsNext
  <2> QED
    BY <1>2, <2>1, ZenonT(60) DEF ClaimsNext
<1>3. CASE Clears
  BY <1>3 DEF Clears
<1>4. CASE ClearTimesOut
  BY <1>4 DEF ClearTimesOut, Skipped
<1>5. CASE SuspendSets
  BY <1>5 DEF SuspendSets
<1>6. CASE SuspendReturns
  BY <1>6 DEF SuspendReturns
<1>7. CASE Opens
  BY <1>7 DEF Opens
<1>8. CASE OpenFails
  BY <1>8 DEF OpenFails, Skipped
<1>9. CASE Resumes
  BY <1>9 DEF Resumes
<1>10. CASE BoardsTaken
  BY <1>10 DEF BoardsTaken
<1>11. CASE WindowOpens
  <2>1. Len(file) \in 0 .. MaxSends
    BY LengthKnown
  <2>2. soak' \in SoakRecord /\ soak'.at = "window" /\ soak'.seq = Len(file) /\ file' = file
    BY <1>11, <2>1 DEF WindowOpens, FirstSeq, SoakRecord
  <2> QED
    BY <1>11, <2>2 DEF WindowOpens, Confirmed, SoakRecord
<1>12. CASE SendBegins
  <2>1. PICK i \in DOMAIN Fleet : soak' = [soak EXCEPT !.at = "sending", !.board = Fleet[i]]
    BY <1>12 DEF SendBegins
  <2>2. Fleet[i] \in Boards
    BY <2>1, FleetIn
  <2> QED
    BY <1>12, <2>1, <2>2 DEF SendBegins
<1>13. CASE Transmits
  <2>2. wire' \in Seq(WireRow)
    BY <1>13, WireAppended DEF Transmits
  <2> QED
    BY <1>13, <2>2 DEF Transmits
<1>14. CASE SendFails
  BY <1>14 DEF SendFails
<1>15. CASE SendRecorded
  <2>a. soak.at \in {"sent", "failed"}
    BY <1>15 DEF SendRecorded
  <2>b. Len(file) \in Nat /\ Len(file) \in 0 .. MaxSends /\ Len(file) + 1 \in 0 .. MaxSends
    BY <2>a, LengthKnown
  <2>c. soak.seq = Len(file)
    BY <2>a, LengthKnown
  <2>1. soak.seq = Len(file) /\ Len(file) + 1 \in 0 .. MaxSends /\ Len(file) \in Nat
    BY <2>b, <2>c
  <2>2. (soak.at = "sent") \in BOOLEAN
    OBVIOUS
  <2>3. file' \in Seq(SendRow) /\ Len(file') = Len(file) + 1
    BY <1>15, <2>2, RowAppended DEF SendRecorded
  <2>4. soak' \in SoakRecord /\ soak'.at = "window" /\ soak'.seq = Len(file) + 1
    <3>1. soak.seq + 1 \in 0 .. MaxSends
      BY <2>1
    <3> QED
      BY <1>15, <2>1, <3>1 DEF SendRecorded
  <2> QED
    <3>1. SoakTypeOK'
      BY <1>15, <2>3, <2>4 DEF SendRecorded
    <3>2. SeqIsLength'
      BY <1>15, RowCounted
    <3>3. BoardKnown'
      BY <2>4
    <3> QED
      BY <3>1, <3>2, <3>3
<1>16. CASE WindowEnds
  BY <1>16 DEF WindowEnds
<1>17. CASE Aborted
  <2>1. soak' = [soak EXCEPT !.at = "closing"] /\ relay' = FALSE
    BY <1>17 DEF Aborted
  <2>2. wire' \in Seq(WireRow)
    <3>1. CASE wire' = wire
      BY <3>1
    <3>2. CASE soak.at = "sending" /\ wire' = Append(wire, [id |-> soak.seq, board |-> soak.board])
      BY <3>2, WireAppended
    <3> QED
      BY <1>17, <3>1, <3>2 DEF Aborted
  <2> QED
    BY <1>17, <2>1, <2>2 DEF Aborted
<1>18. CASE Closes
  BY <1>18 DEF Closes
<1>19. CASE HandsBack
  BY <1>19, ZenonT(60) DEF HandsBack
<1>20. CASE SoakOver
  BY <1>20 DEF SoakOver
<1>21. CASE ServerDies
  <2>1. soak' \in SoakRecord /\ soak'.at = "off"
    BY <1>21, NoSoakTyped DEF ServerDies, NoSoak
  <2> QED
    BY <1>21, <2>1 DEF ServerDies, SoakRecord
<1>22. ASSUME NEW b \in Boards, OperationBegins(b) \/ OperationEnds(b) PROVE SoakTypeInv'
  BY <1>22 DEF OperationBegins, OperationEnds
<1>23. CASE UNCHANGED soakVars
  BY <1>23 DEF soakVars
<1> QED
  BY <1>1, <1>2, <1>3, <1>4, <1>5, <1>6, <1>7, <1>8, <1>9, <1>10, <1>11, <1>12, <1>13, <1>14,
     <1>15, <1>16, <1>17, <1>18, <1>19, <1>20, <1>21, <1>22, <1>23 DEF SoakNext, SoakStep

\* Type correctness of the soak, with the bound of its counter.
THEOREM SoakTyped == SoakSpec => []SoakTypeInv
<1>1. SoakInit => SoakTypeInv
  BY SoakTypeInit
<1>2. SoakTypeInv /\ [SoakNext]_soakVars => SoakTypeInv'
  BY SoakTypeNext
<1> QED
  BY <1>1, <1>2, PTL DEF SoakSpec

-----------------------------------------------------------------------------
(* What is taken.                                                          *)

Sweeping == {"sweep", "clearing", "suspending", "joining", "opening", "resuming"}

\* The boards still to come are none of those already taken.
TodoInv ==
  soak.at \in Sweeping =>
    /\ IsInjective(soak.todo)
    /\ \A i \in DOMAIN soak.todo : soak.todo[i] \notin soak.claimed

\* The board in hand is on its way from being claimed to being held, or back.
TakenInv ==
  /\ claims = soak.claimed
  /\ soak.at \in {"off", "over"} => claims = {} /\ held = {} /\ soak.suspended = {}
  /\ soak.at = "off" => paused = {}
  /\ soak.at \in {"sweep", "preflight"} \cup InWindow =>
       soak.claimed = held /\ soak.suspended = held /\ paused = held
  /\ soak.at \in {"clearing", "suspending"} =>
       /\ soak.board \notin held /\ soak.claimed = held \cup {soak.board}
       /\ soak.suspended = held /\ paused = held
  /\ soak.at = "joining" =>
       /\ soak.board \notin held /\ soak.claimed = held \cup {soak.board}
       /\ soak.suspended = held /\ paused = held \cup {soak.board}
  /\ soak.at = "opening" =>
       /\ soak.board \notin held /\ soak.claimed = held \cup {soak.board}
       /\ soak.suspended = held \cup {soak.board} /\ paused = held \cup {soak.board}
  /\ soak.at = "resuming" =>
       /\ soak.board \notin held /\ soak.claimed = held
       /\ soak.suspended = held /\ paused = held \cup {soak.board}
  /\ soak.at = "handing back" => held = {} /\ soak.claimed = {}

\* What the finally resumes is what is suspended, unless the abort fell between
\* the flag of a monitor and the book entry for it.
BooksInv ==
  Aborts \cap {"joining", "resuming"} = {} =>
    (soak.at \in {"closing", "handing back", "over"} => paused = soak.suspended)

RelayInv == relay => soak.at \in InWindow

TakenAll == TodoInv /\ TakenInv /\ BooksInv /\ RelayInv

\* Taking the first of a list without repetition leaves one without it.
LEMMA TailInjective ==
  ASSUME NEW s \in Seq(Boards), s # <<>>, IsInjective(s)
  PROVE  /\ IsInjective(Tail(s))
         /\ \A i \in DOMAIN Tail(s) : Tail(s)[i] # Head(s) /\ i + 1 \in DOMAIN s
                                      /\ Tail(s)[i] = s[i + 1]
<1>1. \A i \in DOMAIN Tail(s) : i \in Nat /\ i + 1 \in DOMAIN s /\ Tail(s)[i] = s[i + 1] /\ i + 1 # 1
  OBVIOUS
<1>2. 1 \in DOMAIN s /\ Head(s) = s[1]
  OBVIOUS
<1>3. \A i, k \in DOMAIN s : s[i] = s[k] => i = k
  BY DEF IsInjective
<1>4. \A i, k \in DOMAIN Tail(s) : Tail(s)[i] = Tail(s)[k] => i = k
  <2> TAKE i, k \in DOMAIN Tail(s)
  <2> HAVE Tail(s)[i] = Tail(s)[k]
  <2>1. i + 1 = k + 1
    BY <1>1, <1>3
  <2> QED
    BY <2>1, <1>1
<1> QED
  BY <1>1, <1>2, <1>3, <1>4 DEF IsInjective

LEMMA TakenInit == SoakInit => TakenAll
BY DEF SoakInit, SoakFresh, NoSoak, TakenAll, TodoInv, TakenInv, BooksInv, RelayInv, Sweeping, InWindow

LEMMA TodoNext == SoakTypeInv /\ TodoInv /\ [SoakNext]_soakVars => TodoInv'
<1> USE DEF TodoInv, Sweeping, InWindow, Goes
<1> SUFFICES ASSUME SoakTypeInv, TodoInv, [SoakNext]_soakVars PROVE TodoInv'
  OBVIOUS
<1>0. soak \in SoakRecord
  BY DEF SoakTypeInv, SoakTypeOK
<1>1. CASE SoakStarts
  <2>1. soak'.todo = Fleet /\ soak'.claimed = {}
    BY <1>1 DEF SoakStarts, NoSoak
  <2> QED
    BY <2>1, FleetAssumption
<1>2. CASE ClaimsNext
  <2>1. soak.todo \in Seq(Boards) /\ soak.todo # <<>> /\ IsInjective(soak.todo)
    BY <1>0, <1>2 DEF ClaimsNext, SoakRecord
  <2>2. /\ soak'.todo = Tail(soak.todo)
        /\ soak'.claimed = soak.claimed \cup {Head(soak.todo)}
    BY <1>0, <1>2 DEF ClaimsNext, SoakRecord
  <2>3. IsInjective(soak'.todo)
    BY <2>1, <2>2, TailInjective
  <2>4. \A i \in DOMAIN Tail(soak.todo) :
          /\ Tail(soak.todo)[i] # Head(soak.todo) /\ i + 1 \in DOMAIN soak.todo
          /\ Tail(soak.todo)[i] = soak.todo[i + 1]
    BY <2>1, TailInjective
  <2>5. \A i \in DOMAIN soak.todo : soak.todo[i] \notin soak.claimed
    BY <1>2 DEF ClaimsNext
  <2>6. \A i \in DOMAIN soak'.todo : soak'.todo[i] \notin soak'.claimed
    BY <2>2, <2>4, <2>5
  <2> QED
    BY <2>3, <2>6
<1>3. CASE Clears \/ SuspendSets \/ SuspendReturns \/ Opens \/ Resumes
  <2>1. soak'.todo = soak.todo /\ soak'.claimed = soak.claimed /\ soak.at \in Sweeping
    BY <1>0, <1>3 DEF Clears, SuspendSets, SuspendReturns, Opens, Resumes, SoakRecord
  <2> QED
    BY <2>1
<1>4. CASE ClearTimesOut \/ OpenFails
  <2>1. soak'.todo = soak.todo /\ soak'.claimed \subseteq soak.claimed /\ soak.at \in Sweeping
    BY <1>0, <1>4 DEF ClearTimesOut, OpenFails, Skipped, SoakRecord
  <2> QED
    BY <2>1
<1>5. CASE BoardsTaken \/ WindowOpens \/ Transmits \/ SendFails \/ SendRecorded
           \/ WindowEnds \/ Aborted \/ Closes \/ HandsBack \/ SoakOver \/ ServerDies
  <2>1. CASE BoardsTaken \/ WindowOpens \/ Transmits \/ SendFails \/ SendRecorded
    BY <1>0, <2>1 DEF BoardsTaken, WindowOpens, Transmits, SendFails, SendRecorded, SoakRecord
  <2>2. CASE WindowEnds \/ Aborted \/ Closes \/ SoakOver
    BY <1>0, <2>2 DEF WindowEnds, Aborted, Closes, SoakOver, SoakRecord
  <2>3. CASE HandsBack
    BY <1>0, <2>3 DEF HandsBack, SoakRecord
  <2>4. CASE ServerDies
    <3>1. soak'.at = "off"
      BY <2>4 DEF ServerDies, NoSoak
    <3> QED
      BY <3>1
  <2> QED
    BY <1>5, <2>1, <2>2, <2>3, <2>4
<1>6. CASE SendBegins
  <2>1. soak'.at = "sending"
    BY <1>0, <1>6 DEF SendBegins, SoakRecord
  <2> QED
    BY <2>1
<1>7. CASE UNCHANGED soak
  BY <1>7
<1> QED
  BY <1>1, <1>2, <1>3, <1>4, <1>5, <1>6, <1>7
     DEF SoakNext, SoakStep, OperationBegins, OperationEnds, soakVars

LEMMA TakenNext == SoakTypeInv /\ TakenAll /\ [SoakNext]_soakVars => TakenInv'
<1> USE DEF TakenInv, InWindow, Goes
<1> SUFFICES ASSUME SoakTypeInv, TakenAll, [SoakNext]_soakVars PROVE TakenInv'
  OBVIOUS
<1>0. soak \in SoakRecord /\ TakenInv /\ Aborts \subseteq SoakPlaces \ {"off", "over"}
  BY SoakAssumption DEF SoakTypeInv, SoakTypeOK, TakenAll, SoakPlaces
<1>1. CASE SoakStarts
  BY <1>0, <1>1 DEF SoakStarts, NoSoak
<1>2. CASE ClaimsNext
  <2>1. soak.todo \in Seq(Boards) /\ soak.todo # <<>>
    BY <1>0, <1>2 DEF ClaimsNext, SoakRecord
  <2>2. 1 \in DOMAIN soak.todo /\ Head(soak.todo) = soak.todo[1]
    BY <2>1
  <2>3. Head(soak.todo) \notin soak.claimed
    BY <1>2, <2>2 DEF TakenAll, TodoInv, ClaimsNext, Sweeping
  <2> QED
    BY <1>0, <1>2, <2>3 DEF ClaimsNext, SoakRecord
<1>3. CASE Clears
  BY <1>0, <1>3 DEF Clears, SoakRecord
<1>4. CASE ClearTimesOut
  BY <1>0, <1>4 DEF ClearTimesOut, Skipped, SoakRecord
<1>5. CASE SuspendSets
  BY <1>0, <1>5 DEF SuspendSets, SoakRecord
<1>6. CASE SuspendReturns
  BY <1>0, <1>6 DEF SuspendReturns, SoakRecord
<1>7. CASE Opens
  BY <1>0, <1>7 DEF Opens, SoakRecord
<1>8. CASE OpenFails
  BY <1>0, <1>8 DEF OpenFails, Skipped, SoakRecord
<1>9. CASE Resumes
  BY <1>0, <1>9 DEF Resumes, SoakRecord
<1>10. CASE BoardsTaken \/ WindowOpens \/ Transmits \/ SendFails \/ SendRecorded \/ WindowEnds
  BY <1>0, <1>10 DEF BoardsTaken, WindowOpens, Transmits, SendFails, SendRecorded, WindowEnds, SoakRecord
<1>11. CASE SendBegins
  BY <1>0, <1>11 DEF SendBegins, SoakRecord
<1>12. CASE Aborted
  BY <1>0, <1>12 DEF Aborted, SoakRecord
<1>13. CASE Closes
  BY <1>0, <1>13 DEF Closes, SoakRecord
<1>14. CASE HandsBack
  BY <1>0, <1>14 DEF HandsBack, SoakRecord
<1>15. CASE SoakOver
  BY <1>0, <1>15 DEF SoakOver, SoakRecord
<1>16. CASE ServerDies
  BY <1>0, <1>16 DEF ServerDies, NoSoak
<1>17. CASE UNCHANGED <<soak, claims, paused, held>>
  BY <1>0, <1>17
<1> QED
  BY <1>1, <1>2, <1>3, <1>4, <1>5, <1>6, <1>7, <1>8, <1>9, <1>10, <1>11, <1>12, <1>13, <1>14,
     <1>15, <1>16, <1>17 DEF SoakNext, SoakStep, OperationBegins, OperationEnds, soakVars

LEMMA BooksNext == SoakTypeInv /\ TakenAll /\ [SoakNext]_soakVars => BooksInv'
<1> SUFFICES ASSUME SoakTypeInv, TakenAll, [SoakNext]_soakVars, Aborts \cap {"joining", "resuming"} = {},
                    soak'.at \in {"closing", "handing back", "over"}
             PROVE  paused' = soak'.suspended
  BY DEF BooksInv
<1>0. /\ soak \in SoakRecord
      /\ soak.at \in {"clearing", "suspending", "preflight"} \cup InWindow => paused = soak.suspended
      /\ soak.at \in {"closing", "handing back", "over"} => paused = soak.suspended
  BY DEF SoakTypeInv, SoakTypeOK, TakenAll, TakenInv, BooksInv, InWindow
<1>1. CASE WindowEnds
  BY <1>0, <1>1 DEF WindowEnds, Goes, SoakRecord, InWindow
<1>2. CASE Aborted
  <2>1. soak.at \in {"clearing", "suspending", "preflight", "window", "sending"}
    BY <1>2, SoakAssumption DEF Aborted
  <2> QED
    BY <1>0, <1>2, <2>1 DEF Aborted, Goes, SoakRecord, InWindow
<1>3. CASE Closes
  BY <1>0, <1>3 DEF Closes, SoakRecord
<1>4. CASE HandsBack
  BY <1>0, <1>4 DEF HandsBack, SoakRecord
<1>5. CASE SoakOver
  BY <1>0, <1>5 DEF SoakOver, Goes, SoakRecord
<1>6. CASE \/ SoakStarts \/ ClaimsNext \/ Clears \/ ClearTimesOut \/ SuspendSets \/ SuspendReturns
           \/ Opens \/ OpenFails \/ Resumes \/ BoardsTaken \/ WindowOpens \/ Transmits \/ SendFails
           \/ SendRecorded \/ ServerDies
  <2>1. CASE SoakStarts \/ ClaimsNext \/ Clears \/ ClearTimesOut \/ OpenFails
    BY <1>0, <2>1 DEF SoakStarts, ClaimsNext, Clears, ClearTimesOut, OpenFails, Skipped,
       NoSoak, Goes, SoakRecord
  <2>4. CASE ServerDies
    <3>1. soak'.at = "off"
      BY <2>4 DEF ServerDies, NoSoak
    <3> QED
      BY <3>1
  <2>2. CASE SuspendSets \/ SuspendReturns \/ Opens \/ Resumes
    BY <1>0, <2>2 DEF SuspendSets, SuspendReturns, Opens, Resumes, Goes, SoakRecord
  <2>3. CASE BoardsTaken \/ WindowOpens \/ Transmits \/ SendFails \/ SendRecorded
    BY <1>0, <2>3 DEF BoardsTaken, WindowOpens, Transmits, SendFails, SendRecorded, Goes, SoakRecord
  <2> QED
    BY <1>6, <2>1, <2>2, <2>3, <2>4
<1>7. CASE SendBegins
  <2>1. soak'.at = "sending"
    BY <1>0, <1>7 DEF SendBegins, SoakRecord
  <2> QED
    BY <2>1
<1>8. CASE UNCHANGED <<soak, paused>>
  BY <1>0, <1>8
<1> QED
  BY <1>1, <1>2, <1>3, <1>4, <1>5, <1>6, <1>7, <1>8
     DEF SoakNext, SoakStep, OperationBegins, OperationEnds, soakVars

LEMMA RelayNext == SoakTypeInv /\ RelayInv /\ [SoakNext]_soakVars => RelayInv'
<1> USE DEF RelayInv, InWindow, Goes
<1> SUFFICES ASSUME SoakTypeInv, RelayInv, [SoakNext]_soakVars PROVE RelayInv'
  OBVIOUS
<1>0. soak \in SoakRecord
  BY DEF SoakTypeInv, SoakTypeOK
<1>1. CASE WindowOpens
  BY <1>0, <1>1 DEF WindowOpens, SoakRecord
<1>2. CASE SendBegins
  <2>1. soak'.at = "sending"
    BY <1>0, <1>2 DEF SendBegins, SoakRecord
  <2> QED
    BY <2>1
<1>3. CASE Transmits \/ SendFails \/ SendRecorded
  BY <1>0, <1>3 DEF Transmits, SendFails, SendRecorded, SoakRecord
<1>4. CASE WindowEnds \/ Aborted \/ ServerDies
  <2>1. relay' = FALSE
    BY <1>4 DEF WindowEnds, Aborted, ServerDies
  <2> QED
    BY <2>1
<1>5. CASE soak.at \notin InWindow /\ UNCHANGED relay
  BY <1>5
<1>6. CASE UNCHANGED <<soak, relay>>
  BY <1>6
<1>7. SoakStarts \/ ClaimsNext \/ Clears \/ ClearTimesOut \/ SuspendSets \/ SuspendReturns
      \/ Opens \/ OpenFails \/ Resumes \/ BoardsTaken \/ Closes \/ HandsBack \/ SoakOver
      => soak.at \notin InWindow /\ UNCHANGED relay
  BY DEF SoakStarts, ClaimsNext, Clears, ClearTimesOut, SuspendSets, SuspendReturns, Opens,
     OpenFails, Resumes, BoardsTaken, Closes, HandsBack, SoakOver
<1> QED
  BY <1>1, <1>2, <1>3, <1>4, <1>5, <1>6, <1>7
     DEF SoakNext, SoakStep, OperationBegins, OperationEnds, soakVars

\* The books of the soak agree with what it has, at every moment.
THEOREM SoakBooks == SoakSpec => [](SoakTypeInv /\ TakenAll)
<1>1. SoakInit => SoakTypeInv /\ TakenAll
  BY SoakTypeInit, TakenInit
<1>2. SoakTypeInv /\ TakenAll /\ [SoakNext]_soakVars => SoakTypeInv' /\ TakenAll'
  BY SoakTypeNext, TodoNext, TakenNext, BooksNext, RelayNext DEF TakenAll
<1> QED
  BY <1>1, <1>2, PTL DEF SoakSpec

\* While messages are sent, the boards that opened are exactly those claimed and
\* those whose monitor is suspended (nightly_soak.py:349-378).
THEOREM TakenAreHeldAlways == SoakSpec => []TakenAreHeld
<1>1. TakenAll => TakenAreHeld
  BY DEF TakenAll, TakenInv, TakenAreHeld, InWindow
<1> QED
  BY <1>1, SoakBooks, PTL

\* Unless an abort falls between a monitor and the book entry for it, nothing
\* outlives the soak (nightly_soak.py:415-435).
THEOREM NothingOutlivesSoakAlways ==
  ASSUME Aborts \cap {"joining", "resuming"} = {}
  PROVE  SoakSpec => []NothingOutlivesSoak
<1>1. TakenAll => NothingOutlivesSoak
  BY DEF TakenAll, TakenInv, BooksInv, RelayInv, NothingOutlivesSoak, InWindow
<1> QED
  BY <1>1, SoakBooks, PTL

-----------------------------------------------------------------------------
(* What is sent.                                                           *)

\* Only boards that were confirmed take a turn.
SentPrivately ==
  /\ verified \subseteq Baked
  /\ soak.at = "sending" => soak.board \in verified
  /\ PrivateOnly

LEMMA SentPrivatelyNext ==
  SoakTypeInv /\ SentPrivately /\ [SoakNext]_soakVars => SentPrivately'
<1> USE DEF SentPrivately, PrivateOnly, Goes
<1> SUFFICES ASSUME SoakTypeInv, SentPrivately, [SoakNext]_soakVars PROVE SentPrivately'
  OBVIOUS
<1>0. soak \in SoakRecord /\ wire \in Seq(WireRow)
  BY DEF SoakTypeInv, SoakTypeOK
<1>1. CASE WindowOpens
  BY <1>0, <1>1 DEF WindowOpens, Confirmed, record, SoakRecord
<1>2. CASE SendBegins
  <2>1. PICK i \in DOMAIN Fleet :
          Fleet[i] \in verified /\ soak' = [soak EXCEPT !.at = "sending", !.board = Fleet[i]]
    BY <1>2 DEF SendBegins, TurnOf
  <2>2. soak'.board \in verified
    BY <1>0, <2>1 DEF SoakRecord
  <2> QED
    BY <1>2, <2>2 DEF SendBegins, record
<1>3. ASSUME soak.at = "sending", wire' = Append(wire, [id |-> soak.seq, board |-> soak.board]),
             soak' = [soak EXCEPT !.at = "sent"] \/ soak' = [soak EXCEPT !.at = "closing"],
             UNCHANGED verified
      PROVE  SentPrivately'
  <2>1. soak.board \in Baked
    BY <1>3
  <2>2. \A i \in DOMAIN wire' : wire'[i].board \in Baked
    BY <1>0, <1>3, <2>1
  <2> QED
    BY <1>0, <1>3, <2>2 DEF SoakRecord
<1>4. CASE Transmits
  BY <1>3, <1>4 DEF Transmits
<1>5. CASE Aborted
  <2>1. CASE UNCHANGED wire
    BY <1>0, <1>5, <2>1 DEF Aborted, SoakRecord
  <2> QED
    BY <1>3, <1>5, <2>1 DEF Aborted
<1>6. CASE ServerDies
  BY <1>6 DEF ServerDies, NoSoak, record
<1>7. CASE SendFails \/ SendRecorded
  BY <1>0, <1>7 DEF SendFails, SendRecorded, record, SoakRecord
<1>8. CASE soak'.at # "sending" /\ UNCHANGED <<verified, wire>>
  BY <1>8
<1>9. SoakStarts \/ ClaimsNext \/ Clears \/ ClearTimesOut \/ SuspendSets \/ SuspendReturns
      \/ Opens \/ OpenFails \/ Resumes \/ BoardsTaken \/ WindowEnds \/ Closes \/ HandsBack \/ SoakOver
      => soak'.at # "sending" /\ UNCHANGED <<verified, wire>>
  BY <1>0 DEF SoakStarts, ClaimsNext, Clears, ClearTimesOut, SuspendSets, SuspendReturns, Opens,
     OpenFails, Skipped, Resumes, BoardsTaken, WindowEnds, Closes, HandsBack, SoakOver, NoSoak,
     record, SoakRecord
<1>10. CASE UNCHANGED <<soak, verified, wire>>
  BY <1>10
<1> QED
  BY <1>1, <1>2, <1>4, <1>5, <1>6, <1>7, <1>8, <1>9, <1>10
     DEF SoakNext, SoakStep, OperationBegins, OperationEnds, soakVars, record

\* No message leaves from a board that is not on the private channel
\* (nightly_soak.py:403-405).
THEOREM PrivateOnlyAlways == SoakSpec => []PrivateOnly
<1>1. SoakInit => SoakTypeInv /\ SentPrivately
  BY SoakTypeInit DEF SoakInit, SoakFresh, NoSoak, SentPrivately, PrivateOnly
<1>2. SoakTypeInv /\ SentPrivately /\ [SoakNext]_soakVars => SoakTypeInv' /\ SentPrivately'
  BY SoakTypeNext, SentPrivatelyNext
<1>3. SentPrivately => PrivateOnly
  BY DEF SentPrivately
<1> QED
  BY <1>1, <1>2, <1>3, PTL DEF SoakSpec

LEMMA NumberedNext ==
  SoakTypeInv /\ NumberedInOrder /\ [SoakNext]_soakVars => NumberedInOrder'
<1> SUFFICES ASSUME SoakTypeInv, NumberedInOrder, [SoakNext]_soakVars PROVE NumberedInOrder'
  OBVIOUS
<1>1. CASE SendRecorded
  <2>1. soak.at \in {"sent", "failed"} /\ file \in Seq(SendRow)
    BY <1>1 DEF SendRecorded, SoakTypeInv, SoakTypeOK
  <2>2. soak.seq = Len(file) /\ Len(file) \in Nat
    BY <2>1, LengthKnown DEF InWindow
  <2>3. PICK row : row.id = Len(file) /\ file' = Append(file, row)
    BY <1>1, <2>2 DEF SendRecorded
  <2>4. \A i \in DOMAIN file : file[i].id = i - 1
    BY DEF NumberedInOrder
  <2>5. DOMAIN file' = 1 .. Len(file) + 1 /\ DOMAIN file = 1 .. Len(file)
    BY <2>1, <2>2, <2>3
  <2>6. file'[Len(file) + 1] = row /\ \A i \in DOMAIN file : file'[i] = file[i]
    BY <2>1, <2>2, <2>3
  <2>7. \A i \in DOMAIN file' : i \in DOMAIN file \/ i = Len(file) + 1
    BY <2>2, <2>5
  <2>8. (Len(file) + 1) - 1 = Len(file)
    BY <2>2
  <2> QED
    BY <2>3, <2>4, <2>6, <2>7, <2>8 DEF NumberedInOrder
<1>2. CASE UNCHANGED file
  BY <1>2 DEF NumberedInOrder
<1> QED
  BY <1>1, <1>2
     DEF SoakNext, SoakStep, SoakStarts, ClaimsNext, Clears, ClearTimesOut, SuspendSets,
       SuspendReturns, Opens, OpenFails, Resumes, BoardsTaken, WindowOpens, SendBegins, Transmits,
       SendFails, WindowEnds, Aborted, Closes, HandsBack, SoakOver, ServerDies, OperationBegins,
       OperationEnds, soakVars, record

\* Over every restart the rows of the sends file are numbered without a gap or a
\* repetition (nightly_soak.py:394-410).
THEOREM NumberedInOrderAlways == SoakSpec => []NumberedInOrder
<1>1. SoakInit => SoakTypeInv /\ NumberedInOrder
  BY SoakTypeInit DEF SoakInit, SoakFresh, NumberedInOrder
<1>2. SoakTypeInv /\ NumberedInOrder /\ [SoakNext]_soakVars => SoakTypeInv' /\ NumberedInOrder'
  BY SoakTypeNext, NumberedNext
<1> QED
  BY <1>1, <1>2, PTL DEF SoakSpec

\* Type correctness of the soak.
THEOREM SoakTypeOKAlways == SoakSpec => []SoakTypeOK
BY SoakTyped, PTL DEF SoakTypeInv

\* What the soak holds and sends, while it lasts and when it is over, unless an abort
\* falls between a monitor and the book entry for it.
THEOREM SoakInvAlways ==
  ASSUME Aborts \cap {"joining", "resuming"} = {}
  PROVE  SoakSpec => []SoakInv
<1>1. SoakSpec => []NothingOutlivesSoak
  BY NothingOutlivesSoakAlways
<1> QED
  BY <1>1, SoakTypeOKAlways, TakenAreHeldAlways, PrivateOnlyAlways, NumberedInOrderAlways, PTL
     DEF SoakInv

-----------------------------------------------------------------------------
(* The report of a night.                                                  *)

CallSteps == {"idle", "analysis", "probing", "posting", "sleeping", "delivered",
              "reread", "erring", "over", "dead"}

CallRecs == [at : CallSteps, try : {1, 2}, labels : BOOLEAN, result : Statuses \cup {"none"}]

Answers == {"url", "timeout", "broken", "offline", "refused", "forbidden"}

ReportTypes ==
  /\ report \in [status : Statuses \cup {"none", "reporter_error"},
                 url : Calls \cup {NoCall}, body : BOOLEAN]
  /\ call \in [Calls -> CallRecs] /\ made \in [Calls -> Nat]

\* What a call knows is true: it says "posted" of an issue that it made.
CallBooks ==
  \A c \in Calls :
    /\ call[c].at = "sleeping" => call[c].try = 1
    /\ call[c].at = "delivered" => call[c].result # "none"
    /\ call[c].result = "posted" => made[c] > 0

\* What publish() wrote stays, whatever a repost writes over it.
RowThere == call[Publish].at \in {"reread", "over"} => report # NoReport

\* A call that may still post an issue has made none.
NoneMade ==
  \A c \in Calls :
    /\ made[c] <= 1
    /\ call[c].at \in {"idle", "analysis", "probing", "posting", "sleeping"} => made[c] = 0

ReportStands == ReportTypes /\ CallBooks /\ PostedIsThere

\* The effect of a step on the record of a call.
CallGets(c, at, try, labels, result) ==
  /\ call' \in [Calls -> CallRecs]
  /\ call'[c].at = at /\ call'[c].try = try /\ call'[c].labels = labels
  /\ call'[c].result = result
  /\ \A d \in Calls \ {c} : call'[d] = call[d]

LEMMA PublishIsCall == Publish \in Calls /\ Publish \notin Reposts /\ Reposts \subseteq Calls
BY ReportsAssumption DEF Calls

\* A call that is set is set to that, and the others stay.
LEMMA CallSet ==
  ASSUME ReportTypes, NEW c \in Calls, NEW r \in CallRecs, call' = [call EXCEPT ![c] = r]
  PROVE  CallGets(c, r.at, r.try, r.labels, r.result)
BY DEF CallGets, ReportTypes

LEMMA CallIs ==
  ASSUME ReportTypes, NEW c \in Calls
  PROVE  /\ call[c] \in CallRecs
         /\ call[c].at \in CallSteps /\ call[c].try \in {1, 2}
         /\ call[c].labels \in BOOLEAN /\ call[c].result \in Statuses \cup {"none"}
BY DEF ReportTypes, CallRecs

LEMMA CallGoesTo ==
  ASSUME ReportTypes, NEW c \in Calls, NEW at \in CallSteps, CallGoes(c, at)
  PROVE  CallGets(c, at, call[c].try, call[c].labels, call[c].result)
<1> DEFINE r == [call[c] EXCEPT !.at = at]
<1>1. /\ r \in CallRecs /\ r.at = at /\ r.try = call[c].try
      /\ r.labels = call[c].labels /\ r.result = call[c].result
  BY CallIs DEF CallRecs
<1>2. call' = [call EXCEPT ![c] = r]
  BY DEF CallGoes
<1> HIDE DEF r
<1> QED
  BY <1>1, <1>2, CallSet

LEMMA DeliveredIs ==
  ASSUME NEW q \in CallRecs, NEW k \in Statuses
  PROVE  LET r == [q EXCEPT !.at = "delivered", !.result = k] IN
         /\ r \in CallRecs /\ r.at = "delivered" /\ r.try = q.try
         /\ r.labels = q.labels /\ r.result = k
BY DEF CallRecs, CallSteps

LEMMA DeliveredAs ==
  ASSUME ReportTypes, NEW c \in Calls, NEW result \in Statuses, Delivered(c, result)
  PROVE  CallGets(c, "delivered", call[c].try, call[c].labels, result)
<1> DEFINE r == [call[c] EXCEPT !.at = "delivered", !.result = result]
<1>1. /\ r \in CallRecs /\ r.at = "delivered" /\ r.try = call[c].try
      /\ r.labels = call[c].labels /\ r.result = result
  BY CallIs, DeliveredIs
<1>2. call' = [call EXCEPT ![c] = r]
  BY DEF Delivered
<1> HIDE DEF r
<1> QED
  BY <1>1, <1>2, CallSet

LEMMA ClassifyIs ==
  ASSUME NEW answer \in Answers
  PROVE  /\ Classify(answer) \in Statuses
         /\ Classify(answer) = "posted" <=> answer = "url"
         /\ Classify(answer) = "post_failed" <=> answer \in {"refused", "broken"}
BY DEF Classify, Statuses, Answers

\* What an answer of gh does to the delivery.
LEMMA AnsweredAs ==
  ASSUME ReportTypes, NEW c \in Calls, call[c].at = "posting", NEW answer \in Answers,
         Answered(c, answer)
  PROVE  \/ /\ answer = "offline" /\ call[c].try = 1
            /\ CallGets(c, "sleeping", 1, call[c].labels, call[c].result)
         \/ /\ answer \in {"refused", "broken"}
            /\ CallGets(c, "posting", 1, FALSE, call[c].result)
         \/ /\ answer # "url" => Classify(answer) # "posted"
            /\ CallGets(c, "delivered", call[c].try, call[c].labels, Classify(answer))
<1> DEFINE again == call[c].try = 1 /\ answer = "offline"
           bare == answer \in {"refused", "broken"} /\ call[c].labels
<1>4. call' = [call EXCEPT ![c] =
        IF again THEN [call[c] EXCEPT !.at = "sleeping"]
        ELSE IF bare THEN [call[c] EXCEPT !.try = 1, !.labels = FALSE]
        ELSE [call[c] EXCEPT !.at = "delivered", !.result = Classify(answer)]]
  BY ClassifyIs DEF Answered, RetrySafe
<1>1. CASE again
  <2> DEFINE r == [call[c] EXCEPT !.at = "sleeping"]
  <2>1. /\ r \in CallRecs /\ r.at = "sleeping" /\ r.try = 1
        /\ r.labels = call[c].labels /\ r.result = call[c].result
    BY <1>1, CallIs DEF CallRecs, CallSteps
  <2>2. call' = [call EXCEPT ![c] = r]
    BY <1>1, <1>4
  <2> HIDE DEF r
  <2>3. CallGets(c, "sleeping", 1, call[c].labels, call[c].result)
    BY <2>1, <2>2, CallSet
  <2> QED
    BY <1>1, <2>3
<1>2. CASE ~again /\ bare
  <2> DEFINE r == [call[c] EXCEPT !.try = 1, !.labels = FALSE]
  <2>1. /\ r \in CallRecs /\ r.at = "posting" /\ r.try = 1
        /\ r.labels = FALSE /\ r.result = call[c].result
    BY CallIs DEF CallRecs, CallSteps
  <2>2. call' = [call EXCEPT ![c] = r]
    BY <1>2, <1>4
  <2> HIDE DEF r
  <2>3. CallGets(c, "posting", 1, FALSE, call[c].result)
    BY <2>1, <2>2, CallSet
  <2> QED
    BY <1>2, <2>3
<1>3. CASE ~again /\ ~bare
  <2>0. PICK k \in Statuses : k = Classify(answer)
    BY ClassifyIs
  <2> DEFINE r == [call[c] EXCEPT !.at = "delivered", !.result = k]
  <2>1. /\ r \in CallRecs /\ r.at = "delivered" /\ r.try = call[c].try
        /\ r.labels = call[c].labels /\ r.result = k
    BY CallIs, DeliveredIs
  <2>2. call' = [call EXCEPT ![c] = r]
    <3>1. call' = [call EXCEPT ![c] =
                    [call[c] EXCEPT !.at = "delivered", !.result = Classify(answer)]]
      BY <1>3, <1>4
    <3> QED
      BY <2>0, <3>1
  <2> HIDE DEF r
  <2>3. CallGets(c, "delivered", call[c].try, call[c].labels, Classify(answer))
    BY <2>0, <2>1, <2>2, CallSet
  <2> QED
    BY <2>3, ClassifyIs
<1> QED
  BY <1>1, <1>2, <1>3

LEMMA SleepEndsAs ==
  ASSUME ReportTypes, CallBooks, NEW c \in Calls, SleepEnds(c)
  PROVE  CallGets(c, "posting", 2, call[c].labels, call[c].result)
<1> DEFINE r == [call[c] EXCEPT !.at = "posting", !.try = 2]
<1>1. call[c].try = 1
  BY DEF SleepEnds, CallBooks
<1>2. /\ r \in CallRecs /\ r.at = "posting" /\ r.try = 2
      /\ r.labels = call[c].labels /\ r.result = call[c].result
  BY CallIs DEF CallRecs, CallSteps
<1>3. call' = [call EXCEPT ![c] = r]
  <2>1. call' = [call EXCEPT ![c] = [call[c] EXCEPT !.at = "posting", !.try = call[c].try + 1]]
    BY DEF SleepEnds
  <2>2. call[c].try + 1 = 2
    BY <1>1
  <2> QED
    BY <2>1, <2>2
<1> HIDE DEF r
<1> QED
  BY <1>2, <1>3, CallSet

LEMMA ProbePassesAs ==
  ASSUME ReportTypes, NEW c \in Calls, ProbePasses(c)
  PROVE  \E ok \in BOOLEAN : CallGets(c, "posting", call[c].try, ok, call[c].result)
<1>1. PICK ok \in BOOLEAN : call' = [call EXCEPT ![c].at = "posting", ![c].labels = ok]
  BY DEF ProbePasses
<1> DEFINE r == [call[c] EXCEPT !.at = "posting", !.labels = ok]
<1>2. /\ r \in CallRecs /\ r.at = "posting" /\ r.try = call[c].try
      /\ r.labels = ok /\ r.result = call[c].result
  BY CallIs DEF CallRecs, CallSteps
<1>3. call' = [call EXCEPT ![c] = r]
  BY <1>1, CallIs DEF ReportTypes
<1> HIDE DEF r
<1> QED
  BY <1>2, <1>3, CallSet

\* A death changes no result, and ends what was under way.
LEMMA DiesAs ==
  ASSUME ReportTypes, ReportDeath
  PROVE  /\ call' \in [Calls -> CallRecs] /\ made' \in [Calls -> Nat]
         /\ \A c \in Calls :
              /\ call'[c].result = call[c].result /\ call'[c].try = call[c].try
              /\ call'[c].at = call[c].at \/ call'[c].at = "dead"
              /\ call'[c].at \in {"idle", "over", "dead"}
              /\ call'[c].at = "over" => call[c].at = "over"
              /\ made'[c] = made[c] \/ (call[c].at = "posting" /\ made'[c] = made[c] + 1)
<1>1. PICK lost \in SUBSET {c \in Calls : call[c].at = "posting"} :
        made' = [c \in Calls |-> made[c] + (IF c \in lost THEN 1 ELSE 0)]
  BY DEF ReportDeath
<1>2. made' \in [Calls -> Nat] /\ \A c \in Calls :
        made'[c] = made[c] \/ (call[c].at = "posting" /\ made'[c] = made[c] + 1)
  BY <1>1 DEF ReportTypes
<1>3. ASSUME NEW c \in Calls
      PROVE  /\ call'[c] \in CallRecs
             /\ call'[c].result = call[c].result /\ call'[c].try = call[c].try
             /\ call'[c].at = call[c].at \/ call'[c].at = "dead"
             /\ call'[c].at \in {"idle", "over", "dead"}
             /\ call'[c].at = "over" => call[c].at = "over"
  <2>1. call'[c] = IF call[c].at \in {"idle", "over"} THEN call[c] ELSE [call[c] EXCEPT !.at = "dead"]
    BY DEF ReportDeath
  <2> DEFINE r == [call[c] EXCEPT !.at = "dead"]
  <2>2. /\ r \in CallRecs /\ r.at = "dead" /\ r.try = call[c].try /\ r.result = call[c].result
    BY CallIs DEF CallRecs, CallSteps
  <2>5. call[c].at \notin {"idle", "over"} => call'[c] = r
    BY <2>1
  <2> HIDE DEF r
  <2>3. CASE call[c].at \in {"idle", "over"}
    BY <2>1, <2>3 DEF ReportTypes
  <2>4. CASE call[c].at \notin {"idle", "over"}
    BY <2>2, <2>4, <2>5
  <2> QED
    BY <2>3, <2>4
<1>4. call' = [c \in Calls |-> call'[c]]
  BY DEF ReportDeath
<1> QED
  BY <1>2, <1>3, <1>4

\* The row, the calls and the issues keep their types.
LEMMA NextReportTypes ==
  ASSUME ReportTypes, CallBooks, [ReportsNext]_reportVars
  PROVE  ReportTypes'
<1>1. CASE PublishBegins
  <2>1. CallGets(Publish, "analysis", call[Publish].try, call[Publish].labels, call[Publish].result)
    BY <1>1, CallGoesTo, PublishIsCall DEF PublishBegins, CallSteps
  <2> QED
    BY <1>1, <2>1, CallIs, PublishIsCall DEF PublishBegins, CallGets, ReportTypes, Url, Delivery, NoReport
<1>2. CASE Analyzes
  <2>1. CallGets(Publish, "probing", call[Publish].try, call[Publish].labels, call[Publish].result)
    BY <1>2, CallGoesTo, PublishIsCall DEF Analyzes, CallSteps
  <2> QED
    BY <1>2, <2>1, CallIs, PublishIsCall DEF Analyzes, CallGets, ReportTypes, Url, Delivery, NoReport
<1>3. CASE Stores
  <2>1. CallGets(Publish, "reread", call[Publish].try, call[Publish].labels, call[Publish].result)
    BY <1>3, CallGoesTo, PublishIsCall DEF Stores, CallSteps
  <2> QED
    BY <1>3, <2>1, CallIs, PublishIsCall DEF Stores, CallGets, ReportTypes, Url, Delivery, NoReport
<1>4. CASE Rereads
  <2>1. CallGets(Publish, "over", call[Publish].try, call[Publish].labels, call[Publish].result)
    BY <1>4, CallGoesTo, PublishIsCall DEF Rereads, CallSteps
  <2> QED
    BY <1>4, <2>1, CallIs, PublishIsCall DEF Rereads, CallGets, ReportTypes, Url, Delivery, NoReport
<1>5. CASE PublishRaises
  <2>1. CallGets(Publish, "erring", call[Publish].try, call[Publish].labels, call[Publish].result)
    BY <1>5, CallGoesTo, PublishIsCall DEF PublishRaises, CallSteps
  <2> QED
    BY <1>5, <2>1, CallIs, PublishIsCall DEF PublishRaises, CallGets, ReportTypes, Url, Delivery, NoReport
<1>6. CASE ErrorStored
  <2>1. CallGets(Publish, "over", call[Publish].try, call[Publish].labels, call[Publish].result)
    BY <1>6, CallGoesTo, PublishIsCall DEF ErrorStored, CallSteps
  <2> QED
    BY <1>6, <2>1, CallIs, PublishIsCall DEF ErrorStored, CallGets, ReportTypes, Url, Delivery, NoReport
<1>7. ASSUME NEW c \in Calls, ProbeFails(c) PROVE ReportTypes'
  <2>1. \E s \in {"disabled", "denied"} : CallGets(c, "delivered", call[c].try, call[c].labels, s)
    BY <1>7, DeliveredAs DEF ProbeFails, Statuses
  <2> QED
    BY <1>7, <2>1, CallIs, PublishIsCall DEF ProbeFails, CallGets, ReportTypes, Url, Delivery, NoReport
<1>8. ASSUME NEW c \in Calls, ProbePasses(c) PROVE ReportTypes'
  <2>1. \E ok \in BOOLEAN : CallGets(c, "posting", call[c].try, ok, call[c].result)
    BY <1>8, ProbePassesAs DEF ProbePasses
  <2> QED
    BY <1>8, <2>1, CallIs, PublishIsCall DEF ProbePasses, CallGets, ReportTypes, Url, Delivery, NoReport
<1>9. ASSUME NEW c \in Calls, IssueMade(c) PROVE ReportTypes'
  <2>1. PICK answer \in Answers : Answered(c, answer) /\ answer \in {"url", "timeout", "broken"} /\ (answer = "broken" => Lossy)
    BY <1>9 DEF IssueMade, Answers
  <2>2. call' \in [Calls -> CallRecs]
    BY <1>9, <2>1, AnsweredAs DEF IssueMade, CallGets
  <2>3. made' = [made EXCEPT ![c] = made[c] + 1] /\ made[c] + 1 \in Nat
    BY <1>9 DEF IssueMade, ReportTypes
  <2>4. made' \in [Calls -> Nat]
    BY <2>3 DEF ReportTypes
  <2> QED
    BY <1>9, <2>2, <2>4 DEF IssueMade, ReportTypes
<1>10. ASSUME NEW c \in Calls, IssueNotMade(c) PROVE ReportTypes'
  <2>1. PICK answer \in Answers : Answered(c, answer) /\ answer \in {"timeout", "offline", "refused", "forbidden"}
    BY <1>10 DEF IssueNotMade, Answers
  <2>2. call' \in [Calls -> CallRecs]
    BY <1>10, <2>1, AnsweredAs DEF IssueMade, IssueNotMade, CallGets
  <2> QED
    BY <1>10, <2>2 DEF IssueNotMade, ReportTypes
<1>11. ASSUME NEW c \in Calls, SleepEnds(c) PROVE ReportTypes'
  <2>1. CallGets(c, "posting", 2, call[c].labels, call[c].result)
    BY <1>11, SleepEndsAs DEF SleepEnds
  <2> QED
    BY <1>11, <2>1, CallIs, PublishIsCall DEF SleepEnds, CallGets, ReportTypes, Url, Delivery, NoReport
<1>12. ASSUME NEW c \in Reposts, RepostBegins(c) PROVE ReportTypes'
  <2>1. \E at \in {"probing", "over"} : CallGets(c, at, call[c].try, call[c].labels, call[c].result)
    BY <1>12, CallGoesTo, PublishIsCall DEF RepostBegins, CallSteps
  <2> QED
    BY <1>12, <2>1, CallIs, PublishIsCall DEF RepostBegins, CallGets, ReportTypes, Url, Delivery, NoReport
<1>13. ASSUME NEW c \in Reposts, RepostRecorded(c) PROVE ReportTypes'
  <2>1. CallGets(c, "over", call[c].try, call[c].labels, call[c].result)
    BY <1>13, CallGoesTo, PublishIsCall DEF RepostRecorded, CallSteps
  <2>2. c \in Calls /\ UNCHANGED made
    BY <1>13, PublishIsCall DEF RepostRecorded
  <2>3. Url(c) \in Calls \cup {NoCall}
    BY <2>2 DEF Url
  <2>4. report' = report \/ report' = [report EXCEPT !.status = call[c].result, !.url = Url(c)]
    BY <1>13 DEF RepostRecorded, Delivery
  <2>5. call[c].result \in Statuses \cup {"none"}
    BY <2>2, CallIs
  <2> QED
    BY <2>1, <2>2, <2>3, <2>4, <2>5 DEF CallGets, ReportTypes
<1>14. CASE ReportDeath
  BY <1>14, DiesAs DEF ReportDeath, ReportTypes
<1>15. CASE UNCHANGED reportVars
  BY <1>15 DEF reportVars, ReportTypes
<1> QED
  BY <1>1, <1>2, <1>3, <1>4, <1>5, <1>6, <1>7, <1>8, <1>9, <1>10, <1>11, <1>12, <1>13, <1>14, <1>15 DEF ReportsNext, PublishStep, CallStep

\* A call says "posted" of an issue that it made.
LEMMA NextCallBooks ==
  ASSUME ReportTypes, CallBooks, [ReportsNext]_reportVars
  PROVE  CallBooks'
<1>1. CASE PublishBegins
  <2>1. CallGets(Publish, "analysis", call[Publish].try, call[Publish].labels, call[Publish].result)
    BY <1>1, CallGoesTo, PublishIsCall DEF PublishBegins, CallSteps
  <2> QED
    BY <1>1, <2>1, PublishIsCall DEF PublishBegins, CallGets, CallBooks
<1>2. CASE Analyzes
  <2>1. CallGets(Publish, "probing", call[Publish].try, call[Publish].labels, call[Publish].result)
    BY <1>2, CallGoesTo, PublishIsCall DEF Analyzes, CallSteps
  <2> QED
    BY <1>2, <2>1, PublishIsCall DEF Analyzes, CallGets, CallBooks
<1>3. CASE Stores
  <2>1. CallGets(Publish, "reread", call[Publish].try, call[Publish].labels, call[Publish].result)
    BY <1>3, CallGoesTo, PublishIsCall DEF Stores, CallSteps
  <2> QED
    BY <1>3, <2>1, PublishIsCall DEF Stores, CallGets, CallBooks
<1>4. CASE Rereads
  <2>1. CallGets(Publish, "over", call[Publish].try, call[Publish].labels, call[Publish].result)
    BY <1>4, CallGoesTo, PublishIsCall DEF Rereads, CallSteps
  <2> QED
    BY <1>4, <2>1, PublishIsCall DEF Rereads, CallGets, CallBooks
<1>5. CASE PublishRaises
  <2>1. CallGets(Publish, "erring", call[Publish].try, call[Publish].labels, call[Publish].result)
    BY <1>5, CallGoesTo, PublishIsCall DEF PublishRaises, CallSteps
  <2> QED
    BY <1>5, <2>1, PublishIsCall DEF PublishRaises, CallGets, CallBooks
<1>6. CASE ErrorStored
  <2>1. CallGets(Publish, "over", call[Publish].try, call[Publish].labels, call[Publish].result)
    BY <1>6, CallGoesTo, PublishIsCall DEF ErrorStored, CallSteps
  <2> QED
    BY <1>6, <2>1, PublishIsCall DEF ErrorStored, CallGets, CallBooks
<1>7. ASSUME NEW c \in Calls, ProbeFails(c) PROVE CallBooks'
  <2>1. \E s \in {"disabled", "denied"} : CallGets(c, "delivered", call[c].try, call[c].labels, s)
    BY <1>7, DeliveredAs DEF ProbeFails, Statuses
  <2> QED
    BY <1>7, <2>1, PublishIsCall DEF ProbeFails, CallGets, CallBooks
<1>8. ASSUME NEW c \in Calls, ProbePasses(c) PROVE CallBooks'
  <2>1. \E ok \in BOOLEAN : CallGets(c, "posting", call[c].try, ok, call[c].result)
    BY <1>8, ProbePassesAs DEF ProbePasses
  <2> QED
    BY <1>8, <2>1, PublishIsCall DEF ProbePasses, CallGets, CallBooks
<1>9. ASSUME NEW c \in Calls, IssueMade(c) PROVE CallBooks'
  <2>1. PICK answer \in Answers : Answered(c, answer) /\ answer \in {"url", "timeout", "broken"} /\ (answer = "broken" => Lossy)
    BY <1>9 DEF IssueMade, Answers
  <2>2. made'[c] = made[c] + 1 /\ made[c] \in Nat /\ \A d \in Calls \ {c} : made'[d] = made[d]
    BY <1>9 DEF IssueMade, ReportTypes
  <2>3. \/ CallGets(c, "sleeping", 1, call[c].labels, call[c].result)
        \/ CallGets(c, "posting", 1, FALSE, call[c].result)
        \/ CallGets(c, "delivered", call[c].try, call[c].labels, Classify(answer))
    BY <1>9, <2>1, AnsweredAs DEF IssueMade, IssueNotMade
  <2>4. Classify(answer) # "none"
    BY ClassifyIs DEF Statuses
  <2> QED
    BY <2>2, <2>3, <2>4 DEF CallGets, CallBooks
<1>10. ASSUME NEW c \in Calls, IssueNotMade(c) PROVE CallBooks'
  <2>1. PICK answer \in Answers : Answered(c, answer) /\ answer \in {"timeout", "offline", "refused", "forbidden"}
    BY <1>10 DEF IssueNotMade, Answers
  <2>2. UNCHANGED made
    BY <1>10 DEF IssueNotMade
  <2>3. \/ CallGets(c, "sleeping", 1, call[c].labels, call[c].result)
        \/ CallGets(c, "posting", 1, FALSE, call[c].result)
        \/ CallGets(c, "delivered", call[c].try, call[c].labels, Classify(answer))
    BY <1>10, <2>1, AnsweredAs DEF IssueMade, IssueNotMade
  <2>4. Classify(answer) # "none" /\ Classify(answer) # "posted"
    BY <2>1, ClassifyIs DEF Statuses
  <2> QED
    BY <2>2, <2>3, <2>4 DEF CallGets, CallBooks
<1>11. ASSUME NEW c \in Calls, SleepEnds(c) PROVE CallBooks'
  <2>1. CallGets(c, "posting", 2, call[c].labels, call[c].result)
    BY <1>11, SleepEndsAs DEF SleepEnds
  <2> QED
    BY <1>11, <2>1, PublishIsCall DEF SleepEnds, CallGets, CallBooks
<1>12. ASSUME NEW c \in Reposts, RepostBegins(c) PROVE CallBooks'
  <2>1. \E at \in {"probing", "over"} : CallGets(c, at, call[c].try, call[c].labels, call[c].result)
    BY <1>12, CallGoesTo, PublishIsCall DEF RepostBegins, CallSteps
  <2> QED
    BY <1>12, <2>1, PublishIsCall DEF RepostBegins, CallGets, CallBooks
<1>13. ASSUME NEW c \in Reposts, RepostRecorded(c) PROVE CallBooks'
  <2>1. CallGets(c, "over", call[c].try, call[c].labels, call[c].result)
    BY <1>13, CallGoesTo, PublishIsCall DEF RepostRecorded, CallSteps
  <2> QED
    BY <1>13, <2>1, PublishIsCall DEF RepostRecorded, CallGets, CallBooks
<1>14. CASE ReportDeath
  BY <1>14, DiesAs DEF CallBooks, ReportTypes
<1>15. CASE UNCHANGED reportVars
  BY <1>15 DEF reportVars, CallBooks
<1> QED
  BY <1>1, <1>2, <1>3, <1>4, <1>5, <1>6, <1>7, <1>8, <1>9, <1>10, <1>11, <1>12, <1>13, <1>14, <1>15 DEF ReportsNext, PublishStep, CallStep

\* The row says "posted" of an issue that exists.
LEMMA NextPosted ==
  ASSUME ReportTypes, CallBooks, PostedIsThere, [ReportsNext]_reportVars
  PROVE  PostedIsThere'
<1>1. CASE PublishBegins
  BY <1>1 DEF PublishBegins, PostedIsThere
<1>2. CASE Analyzes
  BY <1>2 DEF Analyzes, PostedIsThere
<1>3. CASE Stores
  <2>1. report' = [status |-> call[Publish].result, url |-> Url(Publish), body |-> TRUE] /\ UNCHANGED made
    BY <1>3 DEF Stores
  <2> QED
    BY <2>1, PublishIsCall DEF PostedIsThere, Url, CallBooks
<1>4. CASE Rereads
  BY <1>4 DEF Rereads, PostedIsThere
<1>5. CASE PublishRaises
  BY <1>5 DEF PublishRaises, PostedIsThere
<1>6. CASE ErrorStored
  <2>1. (report' = report \/ report'.status = "reporter_error") /\ UNCHANGED made
    BY <1>6 DEF ErrorStored, NoReport
  <2> QED
    BY <2>1 DEF PostedIsThere
<1>7. ASSUME NEW c \in Calls, ProbeFails(c) PROVE PostedIsThere'
  BY <1>7 DEF ProbeFails, PostedIsThere
<1>8. ASSUME NEW c \in Calls, ProbePasses(c) PROVE PostedIsThere'
  BY <1>8 DEF ProbePasses, PostedIsThere
<1>9. ASSUME NEW c \in Calls, IssueMade(c) PROVE PostedIsThere'
  <2>1. \A d \in Calls : made[d] \in Nat /\ (made'[d] = made[d] \/ made'[d] = made[d] + 1)
    BY <1>9 DEF IssueMade, ReportTypes
  <2>2. UNCHANGED report
    BY <1>9 DEF IssueMade
  <2> QED
    BY <2>1, <2>2 DEF PostedIsThere
<1>10. ASSUME NEW c \in Calls, IssueNotMade(c) PROVE PostedIsThere'
  BY <1>10 DEF IssueNotMade, PostedIsThere
<1>11. ASSUME NEW c \in Calls, SleepEnds(c) PROVE PostedIsThere'
  BY <1>11 DEF SleepEnds, PostedIsThere
<1>12. ASSUME NEW c \in Reposts, RepostBegins(c) PROVE PostedIsThere'
  BY <1>12 DEF RepostBegins, PostedIsThere
<1>13. ASSUME NEW c \in Reposts, RepostRecorded(c) PROVE PostedIsThere'
  <2>1. c \in Calls /\ UNCHANGED made
    BY <1>13, PublishIsCall DEF RepostRecorded
  <2>2. report' = report \/ (report'.status = call[c].result /\ report'.url = Url(c))
    BY <1>13 DEF RepostRecorded, Delivery, ReportTypes
  <2> QED
    BY <2>1, <2>2 DEF PostedIsThere, Url, CallBooks
<1>14. CASE ReportDeath
  <2>1. \A d \in Calls : made[d] \in Nat /\ (made'[d] = made[d] \/ made'[d] = made[d] + 1)
    BY <1>14, DiesAs DEF ReportTypes
  <2>2. UNCHANGED report
    BY <1>14 DEF ReportDeath
  <2> QED
    BY <2>1, <2>2 DEF PostedIsThere
<1>15. CASE UNCHANGED reportVars
  BY <1>15 DEF reportVars, PostedIsThere
<1> QED
  BY <1>1, <1>2, <1>3, <1>4, <1>5, <1>6, <1>7, <1>8, <1>9, <1>10, <1>11, <1>12, <1>13, <1>14, <1>15 DEF ReportsNext, PublishStep, CallStep

\* Where the row of the error is written, what publish() leaves is there.
LEMMA NextRowThere ==
  ASSUME ReportTypes, CallBooks, RowThere, "error" \notin WriteFails, [ReportsNext]_reportVars
  PROVE  RowThere'
<1>1. CASE PublishBegins
  <2>1. CallGets(Publish, "analysis", call[Publish].try, call[Publish].labels, call[Publish].result)
    BY <1>1, CallGoesTo, PublishIsCall DEF PublishBegins, CallSteps
  <2> QED
    BY <2>1 DEF CallGets, RowThere
<1>2. CASE Analyzes
  <2>1. CallGets(Publish, "probing", call[Publish].try, call[Publish].labels, call[Publish].result)
    BY <1>2, CallGoesTo, PublishIsCall DEF Analyzes, CallSteps
  <2> QED
    BY <2>1 DEF CallGets, RowThere
<1>3. CASE Stores
  <2>1. report'.body = TRUE /\ NoReport.body = FALSE
    BY <1>3 DEF Stores, NoReport
  <2> QED
    BY <2>1 DEF RowThere
<1>4. CASE Rereads
  BY <1>4 DEF Rereads, RowThere
<1>5. CASE PublishRaises
  <2>1. CallGets(Publish, "erring", call[Publish].try, call[Publish].labels, call[Publish].result)
    BY <1>5, CallGoesTo, PublishIsCall DEF PublishRaises, CallSteps
  <2> QED
    BY <2>1 DEF CallGets, RowThere
<1>6. CASE ErrorStored
  <2>1. report'.status = "reporter_error" /\ NoReport.status = "none"
    BY <1>6 DEF ErrorStored, NoReport
  <2> QED
    BY <2>1 DEF RowThere
<1>7. ASSUME NEW c \in Calls, ProbeFails(c) PROVE RowThere'
  <2>1. \E s \in {"disabled", "denied"} : CallGets(c, "delivered", call[c].try, call[c].labels, s)
    BY <1>7, DeliveredAs DEF ProbeFails, Statuses
  <2>2. call'[Publish].at \in {"reread", "over"} => call[Publish].at \in {"reread", "over"}
    BY <2>1, PublishIsCall DEF CallGets
  <2> QED
    BY <1>7, <2>2 DEF ProbeFails, RowThere
<1>8. ASSUME NEW c \in Calls, ProbePasses(c) PROVE RowThere'
  <2>1. \E ok \in BOOLEAN : CallGets(c, "posting", call[c].try, ok, call[c].result)
    BY <1>8, ProbePassesAs DEF ProbePasses
  <2>2. call'[Publish].at \in {"reread", "over"} => call[Publish].at \in {"reread", "over"}
    BY <2>1, PublishIsCall DEF CallGets
  <2> QED
    BY <1>8, <2>2 DEF ProbePasses, RowThere
<1>9. ASSUME NEW c \in Calls, IssueMade(c) PROVE RowThere'
  <2>1. PICK answer \in Answers : Answered(c, answer) /\ answer \in {"url", "timeout", "broken"} /\ (answer = "broken" => Lossy)
    BY <1>9 DEF IssueMade, Answers
  <2>3. \/ CallGets(c, "sleeping", 1, call[c].labels, call[c].result)
        \/ CallGets(c, "posting", 1, FALSE, call[c].result)
        \/ CallGets(c, "delivered", call[c].try, call[c].labels, Classify(answer))
    BY <1>9, <2>1, AnsweredAs DEF IssueMade, IssueNotMade
  <2>2. call'[Publish].at \in {"reread", "over"} => call[Publish].at \in {"reread", "over"}
    BY <2>3, PublishIsCall DEF CallGets
  <2> QED
    BY <1>9, <2>2 DEF IssueMade, RowThere
<1>10. ASSUME NEW c \in Calls, IssueNotMade(c) PROVE RowThere'
  <2>1. PICK answer \in Answers : Answered(c, answer) /\ answer \in {"timeout", "offline", "refused", "forbidden"}
    BY <1>10 DEF IssueNotMade, Answers
  <2>3. \/ CallGets(c, "sleeping", 1, call[c].labels, call[c].result)
        \/ CallGets(c, "posting", 1, FALSE, call[c].result)
        \/ CallGets(c, "delivered", call[c].try, call[c].labels, Classify(answer))
    BY <1>10, <2>1, AnsweredAs DEF IssueMade, IssueNotMade
  <2>2. call'[Publish].at \in {"reread", "over"} => call[Publish].at \in {"reread", "over"}
    BY <2>3, PublishIsCall DEF CallGets
  <2> QED
    BY <1>10, <2>2 DEF IssueNotMade, RowThere
<1>11. ASSUME NEW c \in Calls, SleepEnds(c) PROVE RowThere'
  <2>1. CallGets(c, "posting", 2, call[c].labels, call[c].result)
    BY <1>11, SleepEndsAs DEF SleepEnds
  <2>2. call'[Publish].at \in {"reread", "over"} => call[Publish].at \in {"reread", "over"}
    BY <2>1, PublishIsCall DEF CallGets
  <2> QED
    BY <1>11, <2>2 DEF SleepEnds, RowThere
<1>12. ASSUME NEW c \in Reposts, RepostBegins(c) PROVE RowThere'
  <2>1. call'[Publish] = call[Publish] /\ UNCHANGED report
    BY <1>12, PublishIsCall DEF RepostBegins, CallGoes, ReportTypes
  <2> QED
    BY <2>1 DEF RowThere
<1>13. ASSUME NEW c \in Reposts, RepostRecorded(c) PROVE RowThere'
  <2>1. call'[Publish] = call[Publish] /\ c \in Calls /\ call[c].result # "none"
    BY <1>13, PublishIsCall DEF RepostRecorded, CallGoes, ReportTypes, CallBooks
  <2>2. report' = report \/ report'.status = call[c].result
    BY <1>13 DEF RepostRecorded, Delivery, ReportTypes
  <2> QED
    BY <2>1, <2>2 DEF RowThere, NoReport
<1>14. CASE ReportDeath
  <2>1. call'[Publish].at \in {"reread", "over"} => call[Publish].at = "over"
    BY <1>14, DiesAs, PublishIsCall
  <2> QED
    BY <1>14, <2>1 DEF ReportDeath, RowThere
<1>15. CASE UNCHANGED reportVars
  BY <1>15 DEF reportVars, RowThere
<1> QED
  BY <1>1, <1>2, <1>3, <1>4, <1>5, <1>6, <1>7, <1>8, <1>9, <1>10, <1>11, <1>12, <1>13, <1>14, <1>15 DEF ReportsNext, PublishStep, CallStep

\* Where gh knows of the issue it made but for timeouts, none is made twice.
LEMMA NextNoneMade ==
  ASSUME ReportTypes, CallBooks, NoneMade, ~Lossy, [ReportsNext]_reportVars
  PROVE  NoneMade'
<1>1. CASE PublishBegins
  <2>1. CallGets(Publish, "analysis", call[Publish].try, call[Publish].labels, call[Publish].result)
    BY <1>1, CallGoesTo, PublishIsCall DEF PublishBegins, CallSteps
  <2> QED
    BY <1>1, <2>1, PublishIsCall DEF PublishBegins, CallGets, NoneMade
<1>2. CASE Analyzes
  <2>1. CallGets(Publish, "probing", call[Publish].try, call[Publish].labels, call[Publish].result)
    BY <1>2, CallGoesTo, PublishIsCall DEF Analyzes, CallSteps
  <2> QED
    BY <1>2, <2>1, PublishIsCall DEF Analyzes, CallGets, NoneMade
<1>3. CASE Stores
  <2>1. CallGets(Publish, "reread", call[Publish].try, call[Publish].labels, call[Publish].result)
    BY <1>3, CallGoesTo, PublishIsCall DEF Stores, CallSteps
  <2> QED
    BY <1>3, <2>1, PublishIsCall DEF Stores, CallGets, NoneMade
<1>4. CASE Rereads
  <2>1. CallGets(Publish, "over", call[Publish].try, call[Publish].labels, call[Publish].result)
    BY <1>4, CallGoesTo, PublishIsCall DEF Rereads, CallSteps
  <2> QED
    BY <1>4, <2>1, PublishIsCall DEF Rereads, CallGets, NoneMade
<1>5. CASE PublishRaises
  <2>1. CallGets(Publish, "erring", call[Publish].try, call[Publish].labels, call[Publish].result)
    BY <1>5, CallGoesTo, PublishIsCall DEF PublishRaises, CallSteps
  <2> QED
    BY <1>5, <2>1, PublishIsCall DEF PublishRaises, CallGets, NoneMade
<1>6. CASE ErrorStored
  <2>1. CallGets(Publish, "over", call[Publish].try, call[Publish].labels, call[Publish].result)
    BY <1>6, CallGoesTo, PublishIsCall DEF ErrorStored, CallSteps
  <2> QED
    BY <1>6, <2>1, PublishIsCall DEF ErrorStored, CallGets, NoneMade
<1>7. ASSUME NEW c \in Calls, ProbeFails(c) PROVE NoneMade'
  <2>1. \E s \in {"disabled", "denied"} : CallGets(c, "delivered", call[c].try, call[c].labels, s)
    BY <1>7, DeliveredAs DEF ProbeFails, Statuses
  <2> QED
    BY <1>7, <2>1, PublishIsCall DEF ProbeFails, CallGets, NoneMade
<1>8. ASSUME NEW c \in Calls, ProbePasses(c) PROVE NoneMade'
  <2>1. \E ok \in BOOLEAN : CallGets(c, "posting", call[c].try, ok, call[c].result)
    BY <1>8, ProbePassesAs DEF ProbePasses
  <2> QED
    BY <1>8, <2>1, PublishIsCall DEF ProbePasses, CallGets, NoneMade
<1>9. ASSUME NEW c \in Calls, IssueMade(c) PROVE NoneMade'
  <2>1. PICK answer \in Answers : Answered(c, answer) /\ answer \in {"url", "timeout", "broken"} /\ (answer = "broken" => Lossy)
    BY <1>9 DEF IssueMade, Answers
  <2>2. made'[c] = 1 /\ \A d \in Calls \ {c} : made'[d] = made[d]
    BY <1>9 DEF IssueMade, ReportTypes, NoneMade
  <2>3. CallGets(c, "delivered", call[c].try, call[c].labels, Classify(answer))
    BY <1>9, <2>1, AnsweredAs DEF IssueMade, IssueNotMade
  <2> QED
    BY <2>2, <2>3 DEF CallGets, NoneMade
<1>10. ASSUME NEW c \in Calls, IssueNotMade(c) PROVE NoneMade'
  <2>1. PICK answer \in Answers : Answered(c, answer) /\ answer \in {"timeout", "offline", "refused", "forbidden"}
    BY <1>10 DEF IssueNotMade, Answers
  <2>2. UNCHANGED made /\ call[c].at = "posting"
    BY <1>10 DEF IssueNotMade
  <2>3. \/ CallGets(c, "sleeping", 1, call[c].labels, call[c].result)
        \/ CallGets(c, "posting", 1, FALSE, call[c].result)
        \/ CallGets(c, "delivered", call[c].try, call[c].labels, Classify(answer))
    BY <1>10, <2>1, AnsweredAs DEF IssueMade, IssueNotMade
  <2> QED
    BY <2>2, <2>3 DEF CallGets, NoneMade
<1>11. ASSUME NEW c \in Calls, SleepEnds(c) PROVE NoneMade'
  <2>1. CallGets(c, "posting", 2, call[c].labels, call[c].result)
    BY <1>11, SleepEndsAs DEF SleepEnds
  <2> QED
    BY <1>11, <2>1, PublishIsCall DEF SleepEnds, CallGets, NoneMade
<1>12. ASSUME NEW c \in Reposts, RepostBegins(c) PROVE NoneMade'
  <2>1. \E at \in {"probing", "over"} : CallGets(c, at, call[c].try, call[c].labels, call[c].result)
    BY <1>12, CallGoesTo, PublishIsCall DEF RepostBegins, CallSteps
  <2> QED
    BY <1>12, <2>1, PublishIsCall DEF RepostBegins, CallGets, NoneMade
<1>13. ASSUME NEW c \in Reposts, RepostRecorded(c) PROVE NoneMade'
  <2>1. CallGets(c, "over", call[c].try, call[c].labels, call[c].result)
    BY <1>13, CallGoesTo, PublishIsCall DEF RepostRecorded, CallSteps
  <2> QED
    BY <1>13, <2>1, PublishIsCall DEF RepostRecorded, CallGets, NoneMade
<1>14. CASE ReportDeath
  BY <1>14, DiesAs DEF NoneMade, ReportTypes
<1>15. CASE UNCHANGED reportVars
  BY <1>15 DEF reportVars, NoneMade
<1> QED
  BY <1>1, <1>2, <1>3, <1>4, <1>5, <1>6, <1>7, <1>8, <1>9, <1>10, <1>11, <1>12, <1>13, <1>14, <1>15 DEF ReportsNext, PublishStep, CallStep

LEMMA ReportStandsInit == ReportsInit => ReportStands /\ RowThere /\ NoneMade
<1> SUFFICES ASSUME ReportsInit PROVE ReportStands /\ RowThere /\ NoneMade
  OBVIOUS
<1>1. Uncalled \in CallRecs /\ Uncalled.at = "idle" /\ Uncalled.result = "none"
  BY DEF Uncalled, CallRecs, CallSteps
<1>2. call \in [Calls -> CallRecs] /\ \A c \in Calls : call[c] = Uncalled /\ made[c] = 0
  BY <1>1 DEF ReportsInit, ReportsFresh
<1>3. ReportTypes
  BY <1>2 DEF ReportsInit, ReportsFresh, ReportTypes, NoReport
<1>4. PostedIsThere
  BY DEF ReportsInit, ReportsFresh, NoReport, PostedIsThere
<1> QED
  BY <1>1, <1>2, <1>3, <1>4, PublishIsCall DEF ReportStands, CallBooks, RowThere, NoneMade

LEMMA ReportTypesImply == ReportTypes => ReportTypeOK
BY DEF ReportTypes, CallRecs, CallSteps, ReportTypeOK

\* Whatever raises or is lost, with any number of reposts and deaths: a report shown as
\* posted has the address of an issue that exists.
THEOREM PostedIsThereAlways == ReportsSpec => [](ReportTypeOK /\ PostedIsThere)
<1>1. ReportsInit => ReportStands
  BY ReportStandsInit
<1>2. ReportStands /\ [ReportsNext]_reportVars => ReportStands'
  BY NextReportTypes, NextCallBooks, NextPosted DEF ReportStands
<1>3. ReportStands => ReportTypeOK /\ PostedIsThere
  BY ReportTypesImply DEF ReportStands
<1> QED
  BY <1>1, <1>2, <1>3, PTL DEF ReportsSpec

\* Where gh fails after the issue is made by a timeout only, and the row of an error can be
\* written, no delivery makes two issues, and a publish() that ends leaves a report.
THEOREM ReportInvAlways ==
  ASSUME ~Lossy, "error" \notin WriteFails
  PROVE  ReportsSpec => []ReportInv
<1> DEFINE Stands == ReportStands /\ RowThere /\ NoneMade
<1>1. ReportsInit => Stands
  BY ReportStandsInit
<1>2. Stands /\ [ReportsNext]_reportVars => Stands'
  BY NextReportTypes, NextCallBooks, NextPosted, NextRowThere, NextNoneMade DEF ReportStands
<1>3. Stands => ReportInv
  BY ReportTypesImply DEF ReportStands, ReportInv, RowThere, NoneMade, ReportComesOut, OneIssueEach
<1> QED
  BY <1>1, <1>2, <1>3, PTL DEF ReportsSpec

=============================================================================
