-------------------------- MODULE TestRunner_proofs --------------------------
(***************************************************************************)
(* What the test runner guarantees for every number of overlapping runs    *)
(* and every length of their reports: the flag always has a run that takes *)
(* it down, and the tail records the entries in order, none twice, passes  *)
(* over none but those that break their own handling, and returns only     *)
(* behind the last.                                                        *)
(***************************************************************************)
EXTENDS TestRunner, TLAPS

Places == {"off", "poll", "handle", "returned", "cancelled"}

TailRecord == [at : Places, final : BOOLEAN, pos : 0 .. MaxEntries, todo : 0 .. MaxEntries]

SuiteTypes ==
  /\ flag \in BOOLEAN
  /\ proc \in SuiteRuns \cup {NoRun} /\ task \in SuiteRuns \cup {NoRun}
  /\ runAt \in [SuiteRuns -> PC]
  /\ cancelled \subseteq SuiteRuns
  /\ pytest \in [SuiteRuns -> {"none", "alive", "exited"}]
  /\ written \in [SuiteRuns -> 0 .. 2 * MaxEntries]
  /\ done \in [SuiteRuns -> BOOLEAN]
  /\ tail \in [SuiteRuns -> TailRecord]
  /\ saved \in [SuiteRuns -> Seq(1 .. MaxEntries)]
  /\ skipped \in [SuiteRuns -> SUBSET (1 .. MaxEntries)]

\* Where the tail of a run stands in its report: it has recorded or skipped what it
\* consumed but for the lines of the chunk in hand, and it consumed complete lines
\* only.
TailStands(r) ==
  /\ tail[r].todo <= tail[r].pos
  /\ tail[r].pos <= written[r] \div 2
  /\ Range(saved[r]) \cup skipped[r] = 1 .. tail[r].pos - tail[r].todo
  /\ tail[r].at \in {"off", "poll", "returned"} => tail[r].todo = 0

\* A run that has not spawned has no tail yet; report_done is only set once pytest
\* is gone, and a tail that saw it has consumed the whole report.
DoneStands(r) ==
  /\ runAt[r] \in {"idle", "checked", "suspending", "spawning"} => tail[r].at = "off"
  /\ done[r] => /\ pytest[r] = "exited"
                /\ runAt[r] \in {"draining", "finishing", "restoring", "done"}
                /\ runAt[r] # "draining" => tail[r].at \in {"returned", "cancelled"}
  /\ tail[r].at = "handle" /\ tail[r].final => done[r] /\ tail[r].pos = written[r] \div 2
  /\ tail[r].at = "returned" => done[r] /\ tail[r].pos = written[r] \div 2

TailInv == \A r \in SuiteRuns : TailStands(r) /\ DoneStands(r)

SuiteTypeInv == SuiteTypes /\ TailInv

-----------------------------------------------------------------------------
(* Half lines.                                                             *)

\* Complete lines are at most half of what was written, and grow with it.
LEMMA Halves ==
  ASSUME NEW n \in 0 .. 2 * MaxEntries
  PROVE  /\ n \div 2 \in 0 .. MaxEntries
         /\ n \div 2 <= (n + 1) \div 2
BY EntriesAssumption

-----------------------------------------------------------------------------
(* Types, with the place of each tail.                                     *)

LEMMA SuiteTypeInit == SuiteInit => SuiteTypeInv
<1> SUFFICES ASSUME SuiteInit PROVE SuiteTypeInv
  OBVIOUS
<1>1. NoTail \in TailRecord
  BY EntriesAssumption DEF NoTail, TailRecord, Places
<1>2. <<>> \in Seq(1 .. MaxEntries) /\ 0 \in 0 .. 2 * MaxEntries
  BY EntriesAssumption
<1>3. SuiteTypes
  BY <1>1, <1>2 DEF SuiteInit, SuiteTypes, PC
<1>4. TailInv
  <2> SUFFICES ASSUME NEW r \in SuiteRuns PROVE TailStands(r) /\ DoneStands(r)
    BY DEF TailInv
  <2>1. /\ tail[r] = NoTail /\ written[r] = 0 /\ done[r] = FALSE
        /\ saved[r] = <<>> /\ skipped[r] = {}
    BY DEF SuiteInit
  <2>2. Range(saved[r]) \cup skipped[r] = {} /\ 1 .. 0 - 0 = {}
    BY <2>1 DEF Range
  <2> QED
    BY <2>1, <2>2 DEF TailStands, DoneStands, NoTail
<1> QED
  BY <1>3, <1>4 DEF SuiteTypeInv

\* The tail only moves by its own three steps, by the spawn that starts it and by
\* the waits that cancel it.
TailMoves(r) ==
  \/ TailReads(r) \/ TailHandles(r) \/ TailLoops(r)

\* A run whose tail record and recorded entries stay, and whose report only grows,
\* keeps its place.
LEMMA PlaceKept ==
  ASSUME SuiteTypes, NEW r \in SuiteRuns, TailStands(r),
         tail'[r] = tail[r], saved'[r] = saved[r], skipped'[r] = skipped[r],
         written'[r] = written[r] \/ written'[r] = written[r] + 1
  PROVE  TailStands(r)'
<1>1. written[r] \in 0 .. 2 * MaxEntries /\ tail[r].pos \in Nat
  BY EntriesAssumption DEF SuiteTypes, TailRecord
<1>2. written[r] \div 2 <= written'[r] \div 2
  BY <1>1, Halves, EntriesAssumption
<1>3. written[r] \div 2 \in Nat /\ written'[r] \div 2 \in Nat
  BY <1>1, EntriesAssumption
<1> QED
  BY <1>1, <1>2, <1>3 DEF TailStands

\* Changing only where the tail is, to a place that claims nothing about the chunk
\* in hand, keeps its place.
LEMMA PlaceMoved ==
  ASSUME SuiteTypes, NEW r \in SuiteRuns, TailStands(r), NEW p \in Places,
         tail'[r] = [tail[r] EXCEPT !.at = p], saved'[r] = saved[r], skipped'[r] = skipped[r],
         written'[r] = written[r],
         p \in {"off", "poll", "returned"} => tail[r].todo = 0
  PROVE  TailStands(r)' /\ tail'[r] \in TailRecord
<1>1. tail[r] \in TailRecord
  BY DEF SuiteTypes
<1>2. tail'[r].pos = tail[r].pos /\ tail'[r].todo = tail[r].todo /\ tail'[r].at = p
  BY <1>1 DEF TailRecord
<1> QED
  BY <1>1, <1>2 DEF TailStands, TailRecord

\* Appending adds its entry to those recorded.
LEMMA RangeAppend ==
  ASSUME NEW q \in Seq(1 .. MaxEntries), NEW e \in 1 .. MaxEntries
  PROVE  Range(Append(q, e)) = Range(q) \cup {e}
<1>1. /\ DOMAIN Append(q, e) = 1 .. Len(q) + 1 /\ DOMAIN q = 1 .. Len(q) /\ Len(q) \in Nat
      /\ \A i \in 1 .. Len(q) : Append(q, e)[i] = q[i]
      /\ Append(q, e)[Len(q) + 1] = e
  OBVIOUS
<1>2. 1 .. Len(q) + 1 = (1 .. Len(q)) \cup {Len(q) + 1}
  BY <1>1
<1> QED
  BY <1>1, <1>2 DEF Range

LEMMA TailStep3 ==
  ASSUME SuiteTypes, NEW r \in SuiteRuns, TailStands(r), TailMoves(r)
  PROVE  /\ TailStands(r)' /\ tail'[r] \in TailRecord
         /\ saved'[r] \in Seq(1 .. MaxEntries) /\ skipped'[r] \subseteq 1 .. MaxEntries
         /\ tail' = [tail EXCEPT ![r] = tail'[r]] /\ saved' = [saved EXCEPT ![r] = saved'[r]]
         /\ skipped' = [skipped EXCEPT ![r] = skipped'[r]]
         /\ UNCHANGED <<flag, proc, task, runAt, cancelled, pytest, written, done>>
<1>1. /\ tail[r] \in TailRecord /\ done[r] \in BOOLEAN /\ written[r] \in 0 .. 2 * MaxEntries
      /\ saved[r] \in Seq(1 .. MaxEntries) /\ skipped[r] \subseteq 1 .. MaxEntries
      /\ tail \in [SuiteRuns -> TailRecord] /\ saved \in [SuiteRuns -> Seq(1 .. MaxEntries)]
      /\ skipped \in [SuiteRuns -> SUBSET (1 .. MaxEntries)]
  BY DEF SuiteTypes
<1>2. written[r] \div 2 \in 0 .. MaxEntries
  BY <1>1, Halves
<1>3. ASSUME NEW complete \in {written[r] \div 2} \cup {n \in {tail[r].pos} : runAt[r] = "done"},
             TailReads(r),
             tail' = [tail EXCEPT ![r] = [at |-> "handle", final |-> done[r],
                        pos |-> complete, todo |-> complete - @.pos]]
      PROVE  TailStands(r)' /\ tail'[r] \in TailRecord
  <2>2. tail'[r] = [at |-> "handle", final |-> done[r], pos |-> complete,
                    todo |-> complete - tail[r].pos]
    BY <1>1, <1>3
  <2>3. tail[r].pos <= complete /\ complete <= written[r] \div 2
    BY <1>1, <1>2 DEF TailStands, TailRecord
  <2>4. tail[r].todo = 0 /\ tail[r].pos \in 0 .. MaxEntries /\ complete \in 0 .. MaxEntries
    BY <1>1, <1>2, <1>3 DEF TailReads, TailStands, TailRecord
  <2>5. complete - tail[r].pos \in 0 .. MaxEntries /\ complete - tail[r].pos <= complete
    BY <2>3, <2>4, EntriesAssumption
  <2>6. tail'[r] \in TailRecord
    BY <1>1, <2>2, <2>4, <2>5 DEF TailRecord, Places
  <2>a. tail'[r].pos - tail'[r].todo = tail[r].pos - tail[r].todo
    BY <2>2, <2>4, EntriesAssumption
  <2>8. saved' = saved /\ skipped' = skipped /\ written' = written
    BY <1>3 DEF TailReads, pytestVars
  <2>7. Range(saved'[r]) \cup skipped'[r] = 1 .. tail'[r].pos - tail'[r].todo
    BY <2>8, <2>a DEF TailStands
  <2>9. TailStands(r)'
    BY <2>2, <2>3, <2>5, <2>7, <2>8 DEF TailStands
  <2> QED
    BY <2>6, <2>9
<1>a. CASE TailReads(r)
  <2>1. UNCHANGED <<flag, proc, task, runAt, cancelled, pytest, written, done, saved, skipped>>
    BY <1>a DEF TailReads, pytestVars
  <2>2. CASE tail' = [tail EXCEPT ![r].at = "cancelled"]
    <3>1. tail'[r] = [tail[r] EXCEPT !.at = "cancelled"]
      BY <1>1, <2>2
    <3>2. TailStands(r)' /\ tail'[r] \in TailRecord
      BY <2>1, <3>1, PlaceMoved DEF Places
    <3> QED
      BY <1>1, <2>1, <2>2, <3>1, <3>2
  <2>3. CASE \E complete \in {written[r] \div 2} \cup {n \in {tail[r].pos} : runAt[r] = "done"} :
               tail' = [tail EXCEPT ![r] = [at |-> "handle", final |-> done[r],
                          pos |-> complete, todo |-> complete - @.pos]]
    <3>1. TailStands(r)' /\ tail'[r] \in TailRecord
      BY <1>3, <1>a, <2>3
    <3>2. tail' = [tail EXCEPT ![r] = tail'[r]]
      BY <1>1, <2>3
    <3> QED
      BY <1>1, <2>1, <3>1, <3>2
  <2> QED
    BY <1>a, <2>2, <2>3 DEF TailReads
<1>4. CASE TailHandles(r)
  <2>1. /\ tail[r].todo \in 1 .. MaxEntries /\ tail[r].pos \in 0 .. MaxEntries
        /\ tail[r].todo <= tail[r].pos /\ tail[r].at = "handle"
    BY <1>1, <1>4 DEF TailHandles, TailStands, TailRecord
  <2>2. tail' = [tail EXCEPT ![r].todo = @ - 1] /\ tail'[r] = [tail[r] EXCEPT !.todo = @ - 1]
    BY <1>1, <1>4 DEF TailHandles
  <2>a. tail[r].todo - 1 \in 0 .. MaxEntries
    BY <2>1, EntriesAssumption
  <2>3. /\ tail'[r].todo = tail[r].todo - 1 /\ tail'[r].pos = tail[r].pos
        /\ tail'[r].at = "handle" /\ tail'[r] \in TailRecord
    BY <1>1, <2>1, <2>2, <2>a DEF TailRecord
  <2>4. Entry(r) \in 1 .. MaxEntries
    BY <2>1, EntriesAssumption DEF Entry
  <2>5. (1 .. tail[r].pos - tail[r].todo) \cup {Entry(r)} = 1 .. tail'[r].pos - tail'[r].todo
    BY <2>1, <2>3, EntriesAssumption DEF Entry
  <2>6. UNCHANGED <<flag, proc, task, runAt, cancelled, pytest, written, done>>
    BY <1>4 DEF TailHandles, pytestVars
  <2>7. \/ saved' = [saved EXCEPT ![r] = Append(@, Entry(r))] /\ skipped' = skipped
        \/ skipped' = [skipped EXCEPT ![r] = @ \cup {Entry(r)}] /\ saved' = saved
    BY <1>4 DEF TailHandles
  <2>8. /\ saved'[r] \in Seq(1 .. MaxEntries) /\ skipped'[r] \subseteq 1 .. MaxEntries
        /\ saved' = [saved EXCEPT ![r] = saved'[r]] /\ skipped' = [skipped EXCEPT ![r] = skipped'[r]]
        /\ Range(saved'[r]) \cup skipped'[r] = Range(saved[r]) \cup skipped[r] \cup {Entry(r)}
    <3>1. CASE saved' = [saved EXCEPT ![r] = Append(@, Entry(r))] /\ skipped' = skipped
      <4>1. saved'[r] = Append(saved[r], Entry(r)) /\ skipped'[r] = skipped[r]
        BY <1>1, <3>1
      <4>2. Range(saved'[r]) = Range(saved[r]) \cup {Entry(r)}
        <5>1. Range(Append(saved[r], Entry(r))) = Range(saved[r]) \cup {Entry(r)}
          BY <1>1, <2>4, RangeAppend
        <5> QED
          BY <4>1, <5>1, Zenon
      <4> QED
        BY <1>1, <2>4, <3>1, <4>1, <4>2
    <3>2. CASE skipped' = [skipped EXCEPT ![r] = @ \cup {Entry(r)}] /\ saved' = saved
      BY <1>1, <2>4, <3>2
    <3> QED
      BY <2>7, <3>1, <3>2
  <2>9. Range(saved'[r]) \cup skipped'[r] = 1 .. tail'[r].pos - tail'[r].todo
    BY <2>5, <2>8 DEF TailStands
  <2>10. TailStands(r)'
    BY <2>1, <2>3, <2>6, <2>9 DEF TailStands
  <2>11. tail' = [tail EXCEPT ![r] = tail'[r]]
    BY <1>1, <2>2
  <2> QED
    BY <2>3, <2>6, <2>8, <2>10, <2>11
<1>5. CASE TailLoops(r)
  <2>1. PICK p \in {"returned", "poll"} : tail' = [tail EXCEPT ![r].at = p]
    BY <1>5 DEF TailLoops
  <2>2. tail'[r] = [tail[r] EXCEPT !.at = p]
    BY <1>1, <2>1
  <2>3. tail[r].todo = 0 /\ saved' = saved /\ skipped' = skipped /\ written' = written
    BY <1>5 DEF TailLoops, pytestVars
  <2>4. TailStands(r)' /\ tail'[r] \in TailRecord
    BY <2>2, <2>3, PlaceMoved DEF Places
  <2> QED
    BY <1>1, <1>5, <2>1, <2>2, <2>3, <2>4 DEF TailLoops, pytestVars
<1> QED
  BY <1>a, <1>4, <1>5 DEF TailMoves

\* What the three steps of the tail do to what it knows of the end of pytest.
LEMMA TailDone ==
  ASSUME SuiteTypes, NEW r \in SuiteRuns, TailStands(r), DoneStands(r), TailMoves(r)
  PROVE  DoneStands(r)'
<1>1. /\ tail[r] \in TailRecord /\ written[r] \in 0 .. 2 * MaxEntries
      /\ tail \in [SuiteRuns -> TailRecord]
      /\ UNCHANGED <<runAt, pytest, written, done>>
  BY DEF SuiteTypes, TailMoves, TailReads, TailHandles, TailLoops, pytestVars
<1>2. CASE TailReads(r)
  <2>2. tail[r].at = "poll"
    BY <1>2 DEF TailReads
  <2>3. ~(done[r] /\ runAt[r] = "done")
    BY <2>2 DEF DoneStands
  <2>5. runAt[r] \notin {"idle", "checked", "suspending", "spawning"}
    BY <2>2 DEF DoneStands
  <2>6. done[r] => runAt[r] = "draining"
    BY <2>2 DEF DoneStands
  <2>7. CASE tail' = [tail EXCEPT ![r].at = "cancelled"]
    <3>1. tail'[r].at = "cancelled"
      BY <1>1, <2>7 DEF TailRecord
    <3> QED
      BY <1>1, <2>5, <3>1 DEF DoneStands
  <2>8. ASSUME NEW complete \in {written[r] \div 2} \cup {n \in {tail[r].pos} : runAt[r] = "done"},
               tail' = [tail EXCEPT ![r] = [at |-> "handle", final |-> done[r],
                          pos |-> complete, todo |-> complete - @.pos]]
        PROVE  DoneStands(r)'
    <3>1. tail'[r] = [at |-> "handle", final |-> done[r], pos |-> complete,
                      todo |-> complete - tail[r].pos]
      BY <1>1, <2>8
    <3>2. done[r] => complete = written[r] \div 2
      BY <2>3
    <3> QED
      BY <1>1, <2>5, <2>6, <3>1, <3>2 DEF DoneStands
  <2> QED
    BY <1>2, <2>7, <2>8 DEF TailReads
<1>3. CASE TailHandles(r)
  <2>1. /\ tail[r].at = "handle" /\ tail'[r].at = "handle"
        /\ tail'[r].final = tail[r].final /\ tail'[r].pos = tail[r].pos
    BY <1>1, <1>3 DEF TailHandles, TailRecord
  <2> QED
    BY <1>1, <2>1 DEF DoneStands
<1>4. CASE TailLoops(r)
  <2>1. /\ tail[r].at = "handle" /\ tail'[r].pos = tail[r].pos
        /\ tail'[r].at \in {"returned", "poll"}
        /\ tail'[r].at = "returned" => tail[r].final
    BY <1>1, <1>4 DEF TailLoops, TailRecord
  <2>2. runAt[r] \notin {"idle", "checked", "suspending", "spawning"}
    BY <2>1 DEF DoneStands
  <2>3. done[r] => runAt[r] = "draining"
    BY <2>1 DEF DoneStands
  <2> QED
    BY <1>1, <2>1, <2>2, <2>3 DEF DoneStands
<1> QED
  BY <1>2, <1>3, <1>4 DEF TailMoves

\* A run whose own state stays, but for a pytest that may have exited, keeps both.
LEMMA RunKept ==
  ASSUME SuiteTypes, NEW s \in SuiteRuns, TailStands(s), DoneStands(s),
         tail'[s] = tail[s], saved'[s] = saved[s], skipped'[s] = skipped[s],
         written'[s] = written[s],
         done'[s] = done[s], runAt'[s] = runAt[s],
         pytest'[s] = pytest[s] \/ pytest'[s] = "exited"
  PROVE  TailStands(s)' /\ DoneStands(s)'
BY DEF TailStands, DoneStands

LEMMA SuiteStepTypes == SuiteTypeInv /\ [SuiteNext]_suiteVars => SuiteTypes'
<1> SUFFICES ASSUME SuiteTypeInv, [SuiteNext]_suiteVars PROVE SuiteTypes'
  OBVIOUS
<1>0. SuiteTypes /\ \A r \in SuiteRuns : TailStands(r) /\ DoneStands(r)
  BY DEF SuiteTypeInv, TailInv
<1>1. ASSUME NEW r \in SuiteRuns, TailMoves(r) PROVE SuiteTypes'
  BY <1>0, <1>1, TailStep3 DEF SuiteTypes
<1>2. ASSUME NEW r \in SuiteRuns, StartChecks(r) \/ StartStep(r) PROVE SuiteTypes'
  BY <1>0, <1>2 DEF StartChecks, StartStep, StartCommits, StartLaunches, RunGoes, pytestVars,
     tailVars, SuiteTypes, PC
<1>3. ASSUME NEW r \in SuiteRuns,
             \/ SpawnFails(r) \/ DriveSeesExit(r) \/ PumpFails(r) \/ DriveEnds(r) \/ FinallyGoesOn(r)
      PROVE  SuiteTypes'
  BY <1>0, <1>3 DEF SpawnFails, DriveSeesExit, PumpFails, DriveEnds, FinallyGoesOn, Finally, RunGoes,
     pytestVars, tailVars, SuiteTypes, PC
<1>4. ASSUME NEW r \in SuiteRuns, NEW p \in Places, tail' = [tail EXCEPT ![r].at = p]
      PROVE  tail' \in [SuiteRuns -> TailRecord]
  BY <1>0, <1>4 DEF SuiteTypes, TailRecord
<1>5. ASSUME NEW r \in SuiteRuns, DriveSpawns(r) PROVE SuiteTypes'
  <2>1. tail' \in [SuiteRuns -> TailRecord]
    BY <1>4, <1>5 DEF DriveSpawns, Places
  <2> QED
    BY <1>0, <1>5, <2>1 DEF DriveSpawns, RunGoes, SuiteTypes, PC
<1>6. ASSUME NEW r \in SuiteRuns, DrainTimesOut(r) PROVE SuiteTypes'
  <2>1. tail' \in [SuiteRuns -> TailRecord]
    BY <1>4, <1>6 DEF DrainTimesOut, Places
  <2> QED
    BY <1>0, <1>6, <2>1 DEF DrainTimesOut, Finally, RunGoes, pytestVars, SuiteTypes, PC
<1>7. ASSUME NEW r \in SuiteRuns, DriveCancelled(r) PROVE SuiteTypes'
  <2>1. tail' \in [SuiteRuns -> TailRecord]
    <3>1. CASE UNCHANGED tail
      BY <1>0, <3>1 DEF SuiteTypes
    <3>2. CASE tail' = [tail EXCEPT ![r].at = IF runAt[r] = "draining" THEN "cancelled" ELSE @]
      <4>1. CASE runAt[r] = "draining"
        BY <1>4, <3>2, <4>1 DEF Places
      <4>2. CASE runAt[r] # "draining"
        BY <1>0, <3>2, <4>2 DEF SuiteTypes, TailRecord
      <4> QED
        BY <4>1, <4>2
    <3> QED
      BY <1>7, <3>1, <3>2 DEF DriveCancelled
  <2>2. /\ flag' \in BOOLEAN /\ proc' \in SuiteRuns \cup {NoRun}
        /\ runAt' \in [SuiteRuns -> PC]
    BY <1>0, <1>7 DEF DriveCancelled, Finally, RunGoes, SuiteTypes, PC
  <2> QED
    BY <1>0, <1>7, <2>1, <2>2 DEF DriveCancelled, pytestVars, SuiteTypes
<1>8. ASSUME NEW r \in SuiteRuns, PytestWrites(r) PROVE SuiteTypes'
  <2>1. written[r] + 1 \in 0 .. 2 * MaxEntries
    BY <1>0, <1>8, EntriesAssumption DEF PytestWrites, SuiteTypes
  <2> QED
    BY <1>0, <1>8, <2>1 DEF PytestWrites, tailVars, SuiteTypes
<1>9. ASSUME NEW r \in SuiteRuns, PytestExits(r) PROVE SuiteTypes'
  BY <1>0, <1>9 DEF PytestExits, tailVars, SuiteTypes
<1>10. CASE Stop
  <2>1. proc \in SuiteRuns
    BY <1>0, <1>10 DEF Stop, SuiteTypes
  <2> QED
    BY <1>9, <1>10, <2>1 DEF Stop
<1>11. CASE Reset
  BY <1>0, <1>11 DEF Reset, tailVars, SuiteTypes
<1>12. CASE UNCHANGED suiteVars
  BY <1>0, <1>12 DEF suiteVars, SuiteTypes
<1> QED
  BY <1>1, <1>2, <1>3, <1>5, <1>6, <1>7, <1>8, <1>9, <1>10, <1>11, <1>12
     DEF SuiteNext, TailStep, TailMoves, StartStep, DriveStep, WatchdogFires

LEMMA SuiteStepTails == SuiteTypeInv /\ [SuiteNext]_suiteVars => TailInv'
<1> SUFFICES ASSUME SuiteTypeInv, [SuiteNext]_suiteVars, NEW s \in SuiteRuns
             PROVE  TailStands(s)' /\ DoneStands(s)'
  BY DEF TailInv
<1>0. SuiteTypes /\ \A r \in SuiteRuns : TailStands(r) /\ DoneStands(r)
  BY DEF SuiteTypeInv, TailInv
<1>a. /\ tail \in [SuiteRuns -> TailRecord] /\ saved \in [SuiteRuns -> Seq(1 .. MaxEntries)]
      /\ skipped \in [SuiteRuns -> SUBSET (1 .. MaxEntries)]
      /\ runAt \in [SuiteRuns -> PC] /\ pytest \in [SuiteRuns -> {"none", "alive", "exited"}]
      /\ written \in [SuiteRuns -> 0 .. 2 * MaxEntries] /\ done \in [SuiteRuns -> BOOLEAN]
      /\ tail[s] \in TailRecord
  BY <1>0 DEF SuiteTypes
<1>1. ASSUME NEW r \in SuiteRuns, TailMoves(r) PROVE TailStands(s)' /\ DoneStands(s)'
  <2>1. CASE r = s
    BY <1>0, <1>1, <2>1, TailStep3, TailDone
  <2>2. CASE r # s
    <3>1. tail'[s] = tail[s] /\ saved'[s] = saved[s] /\ skipped'[s] = skipped[s]
      BY <1>0, <1>a, <1>1, <2>2, TailStep3
    <3>2. UNCHANGED <<written, done, runAt, pytest>>
      BY <1>1 DEF TailMoves, TailReads, TailHandles, TailLoops, pytestVars
    <3> QED
      BY <1>0, <3>1, <3>2, RunKept
  <2> QED
    BY <2>1, <2>2
<1>2. ASSUME NEW r \in SuiteRuns, StartChecks(r) \/ StartStep(r) PROVE TailStands(s)' /\ DoneStands(s)'
  <2>1. UNCHANGED <<tail, saved, skipped, written, done, pytest>>
    BY <1>2 DEF StartChecks, StartStep, StartCommits, StartLaunches, pytestVars, tailVars
  <2>2. runAt[r] \in {"idle", "checked", "suspending"}
    BY <1>2 DEF StartChecks, StartStep, StartCommits, StartLaunches
  <2>3. \/ runAt'[s] = runAt[s]
        \/ runAt[s] \in {"idle", "checked", "suspending"}
    BY <1>a, <1>2, <2>2 DEF StartChecks, StartStep, StartCommits, StartLaunches, RunGoes
  <2> QED
    BY <1>0, <2>1, <2>3 DEF TailStands, DoneStands
<1>3. ASSUME NEW r \in SuiteRuns,
             \/ SpawnFails(r) \/ DriveSeesExit(r) \/ PumpFails(r) \/ DriveEnds(r) \/ FinallyGoesOn(r)
      PROVE  TailStands(s)' /\ DoneStands(s)'
  <2>1. UNCHANGED <<tail, saved, skipped, written, pytest>>
    BY <1>3 DEF SpawnFails, DriveSeesExit, PumpFails, DriveEnds, FinallyGoesOn, pytestVars, tailVars
  <2>2. CASE r # s
    <3>1. done'[s] = done[s] /\ runAt'[s] = runAt[s]
      BY <1>a, <1>3, <2>2 DEF SpawnFails, DriveSeesExit, PumpFails, DriveEnds, FinallyGoesOn, Finally,
         RunGoes, tailVars
    <3> QED
      BY <1>0, <2>1, <3>1, RunKept
  <2>3. CASE r = s
    <3>0. TailStands(s)'
      BY <1>0, <2>1 DEF TailStands
    <3>1. CASE SpawnFails(s)
      <4>1. runAt[s] = "spawning" /\ runAt'[s] = "finishing" /\ done' = done
        BY <1>a, <3>1 DEF SpawnFails, Finally, RunGoes, tailVars
      <4>2. DoneStands(s)
        BY <1>0
      <4>3. tail[s].at = "off" /\ ~done[s]
        BY <4>1, <4>2 DEF DoneStands
      <4> QED
        BY <3>0, <2>1, <4>1, <4>3 DEF DoneStands
    <3>2. CASE DriveSeesExit(s)
      <4>1. /\ done'[s] /\ runAt'[s] = "draining" /\ pytest[s] = "exited"
        BY <1>a, <3>2 DEF DriveSeesExit, RunGoes
      <4>2. runAt[s] = "driving"
        BY <3>2 DEF DriveSeesExit
      <4>3. ~done[s]
        BY <1>0, <4>2 DEF DoneStands
      <4>4. DoneStands(s)
        BY <1>0
      <4>5. ~(tail[s].at = "handle" /\ tail[s].final) /\ tail[s].at # "returned"
        BY <4>3, <4>4 DEF DoneStands
      <4> QED
        BY <3>0, <2>1, <4>1, <4>5 DEF DoneStands
    <3>5. CASE PumpFails(s)
      <4>1. runAt[s] = "driving" /\ runAt'[s] = "finishing" /\ done' = done
        BY <1>a, <3>5 DEF PumpFails, Finally, RunGoes, tailVars
      <4>2. DoneStands(s)
        BY <1>0
      <4> QED
        BY <3>0, <2>1, <4>1, <4>2 DEF DoneStands
    <3>3. CASE DriveEnds(s)
      <4>1. tail[s].at = "returned" /\ runAt'[s] = "finishing" /\ done' = done
        BY <1>a, <3>3 DEF DriveEnds, Finally, RunGoes, tailVars
      <4>2. DoneStands(s)
        BY <1>0
      <4> QED
        BY <3>0, <2>1, <4>1, <4>2 DEF DoneStands
    <3>4. CASE FinallyGoesOn(s)
      <4>1. /\ runAt[s] \in {"finishing", "restoring"} /\ runAt'[s] \in {"restoring", "done"}
            /\ done' = done
        BY <1>a, <3>4 DEF FinallyGoesOn, RunGoes, tailVars
      <4>2. DoneStands(s)
        BY <1>0
      <4> QED
        BY <3>0, <2>1, <4>1, <4>2 DEF DoneStands
    <3> QED
      BY <1>3, <2>3, <3>0, <3>1, <3>2, <3>3, <3>4, <3>5
  <2> QED
    BY <2>2, <2>3
<1>4. ASSUME NEW r \in SuiteRuns, DriveSpawns(r) PROVE TailStands(s)' /\ DoneStands(s)'
  <2>1. UNCHANGED <<saved, skipped, written, done>>
    BY <1>4 DEF DriveSpawns
  <2>2. CASE r # s
    <3>1. tail'[s] = tail[s] /\ runAt'[s] = runAt[s] /\ pytest'[s] = pytest[s]
      BY <1>a, <1>4, <2>2 DEF DriveSpawns, RunGoes
    <3> QED
      BY <1>0, <2>1, <3>1, RunKept
  <2>3. CASE r = s
    <3>1. /\ runAt[s] = "spawning" /\ runAt'[s] = "driving"
          /\ tail'[s] = [tail[s] EXCEPT !.at = "poll"]
      BY <1>a, <1>4, <2>3 DEF DriveSpawns, RunGoes
    <3>2. tail[s].at = "off" /\ ~done[s] /\ tail[s].todo = 0
      BY <1>0, <3>1 DEF TailStands, DoneStands
    <3>3. TailStands(s)'
      BY <1>0, <2>1, <3>1, <3>2, PlaceMoved DEF Places
    <3>4. tail'[s].at = "poll"
      BY <1>a, <3>1 DEF TailRecord
    <3> QED
      BY <1>0, <2>1, <3>1, <3>2, <3>3, <3>4 DEF DoneStands
  <2> QED
    BY <2>2, <2>3
<1>5. ASSUME NEW r \in SuiteRuns, tail' = [tail EXCEPT ![r].at = "cancelled"],
             runAt[r] = "draining", Finally(r), UNCHANGED <<saved, skipped, written, done, pytest>>
      PROVE  TailStands(s)' /\ DoneStands(s)'
  <2>1. CASE r # s
    <3>1. tail'[s] = tail[s] /\ runAt'[s] = runAt[s]
      BY <1>a, <1>5, <2>1 DEF Finally, RunGoes
    <3> QED
      BY <1>0, <1>5, <3>1, RunKept
  <2>2. CASE r = s
    <3>1. runAt'[s] = "finishing" /\ tail'[s] = [tail[s] EXCEPT !.at = "cancelled"]
      BY <1>a, <1>5, <2>2 DEF Finally, RunGoes
    <3>2. TailStands(s)'
      BY <1>0, <1>5, <3>1, PlaceMoved DEF Places
    <3>3. tail'[s].at = "cancelled"
      BY <1>a, <3>1 DEF TailRecord
    <3> QED
      BY <1>0, <1>5, <3>1, <3>2, <3>3 DEF DoneStands
  <2> QED
    BY <2>1, <2>2
<1>6. ASSUME NEW r \in SuiteRuns, DrainTimesOut(r) PROVE TailStands(s)' /\ DoneStands(s)'
  BY <1>5, <1>6 DEF DrainTimesOut, pytestVars
<1>7. ASSUME NEW r \in SuiteRuns, DriveCancelled(r) PROVE TailStands(s)' /\ DoneStands(s)'
  <2>1. UNCHANGED <<saved, skipped, written, done, pytest>>
    BY <1>7 DEF DriveCancelled, pytestVars
  <2>2. CASE runAt[r] = "draining"
    <3>1. Finally(r) /\ tail' = [tail EXCEPT ![r].at = "cancelled"]
      BY <1>7, <2>2 DEF DriveCancelled
    <3> QED
      BY <1>5, <2>1, <2>2, <3>1
  <2>3. CASE runAt[r] # "draining"
    <3>1. tail' = tail
      <4>1. CASE tail' = [tail EXCEPT ![r].at = IF runAt[r] = "draining" THEN "cancelled" ELSE @]
        BY <1>a, <2>3, <4>1 DEF TailRecord
      <4> QED
        BY <1>7, <4>1 DEF DriveCancelled
    <3>2. \/ runAt'[s] = runAt[s]
          \/ /\ runAt[s] \in {"spawning", "driving", "finishing", "restoring"}
             /\ runAt'[s] \in {"finishing", "done"}
      BY <1>a, <1>7, <2>3 DEF DriveCancelled, Finally, RunGoes
    <3> QED
      BY <1>0, <2>1, <3>1, <3>2 DEF TailStands, DoneStands
  <2> QED
    BY <2>2, <2>3
<1>8. ASSUME NEW r \in SuiteRuns, PytestWrites(r) PROVE TailStands(s)' /\ DoneStands(s)'
  <2>1. UNCHANGED <<tail, saved, skipped, done, runAt, pytest>> /\ pytest[r] = "alive"
    BY <1>8 DEF PytestWrites, tailVars
  <2>2. CASE r # s
    <3>1. written'[s] = written[s]
      BY <1>a, <1>8, <2>2 DEF PytestWrites
    <3> QED
      BY <1>0, <2>1, <3>1, RunKept
  <2>3. CASE r = s
    <3>1. written'[s] = written[s] + 1
      BY <1>a, <1>8, <2>3 DEF PytestWrites
    <3>2. TailStands(s)'
      BY <1>0, <2>1, <3>1, PlaceKept
    <3>3. ~done[s]
      BY <1>0, <2>1, <2>3 DEF DoneStands
    <3> QED
      BY <1>0, <2>1, <3>2, <3>3 DEF DoneStands
  <2> QED
    BY <2>2, <2>3
<1>9. ASSUME NEW r \in SuiteRuns, PytestExits(r) PROVE TailStands(s)' /\ DoneStands(s)'
  <2>1. UNCHANGED <<tail, saved, skipped, done, runAt, written>>
    BY <1>9 DEF PytestExits, tailVars
  <2>2. pytest'[s] = pytest[s] \/ pytest'[s] = "exited"
    BY <1>a, <1>9 DEF PytestExits
  <2> QED
    BY <1>0, <2>1, <2>2, RunKept
<1>10. CASE Stop
  <2>1. proc \in SuiteRuns
    BY <1>0, <1>10 DEF Stop, SuiteTypes
  <2> QED
    BY <1>9, <1>10, <2>1 DEF Stop
<1>11. CASE Reset
  <2>1. UNCHANGED <<tail, saved, skipped, done, runAt, written>>
    BY <1>11 DEF Reset, tailVars
  <2>2. pytest'[s] = pytest[s] \/ pytest'[s] = "exited"
    BY <1>11 DEF Reset
  <2> QED
    BY <1>0, <2>1, <2>2, RunKept
<1>12. CASE UNCHANGED suiteVars
  BY <1>0, <1>12 DEF suiteVars, TailStands, DoneStands
<1> QED
  BY <1>1, <1>2, <1>3, <1>4, <1>6, <1>7, <1>8, <1>9, <1>10, <1>11, <1>12
     DEF SuiteNext, TailStep, TailMoves, StartStep, DriveStep, WatchdogFires

\* Type correctness, and the place of every tail in its report.
THEOREM SuiteTyped == SuiteSpec => []SuiteTypeInv
<1>1. SuiteInit => SuiteTypeInv
  BY SuiteTypeInit
<1>2. SuiteTypeInv /\ [SuiteNext]_suiteVars => SuiteTypeInv'
  BY SuiteStepTypes, SuiteStepTails DEF SuiteTypeInv
<1> QED
  BY <1>1, <1>2, PTL DEF SuiteSpec

\* Type correctness of the test runner.
THEOREM SuiteTypeOKAlways == SuiteSpec => []SuiteTypeOK
<1>1. SuiteTypeInv => SuiteTypeOK
  BY DEF SuiteTypeInv, SuiteTypes, SuiteTypeOK, TailRecord, Places
<1> QED
  BY <1>1, SuiteTyped, PTL

\* A tail that returned has recorded or skipped every complete line of the report
\* (test_runner.py:492-494).
THEOREM DrainMissesNothingAlways == SuiteSpec => []DrainMissesNothing
<1>1. SuiteTypeInv => DrainMissesNothing
  <2> SUFFICES ASSUME SuiteTypeInv, NEW r \in SuiteRuns, tail[r].at = "returned"
               PROVE  Range(saved[r]) \cup skipped[r] = 1 .. written[r] \div 2
    BY DEF DrainMissesNothing
  <2>1. TailStands(r) /\ DoneStands(r) /\ tail[r] \in TailRecord
    BY DEF SuiteTypeInv, SuiteTypes, TailInv
  <2>2. tail[r].pos \in 0 .. MaxEntries /\ tail[r].todo = 0 /\ tail[r].pos = written[r] \div 2
    BY <2>1 DEF TailStands, DoneStands, TailRecord
  <2>3. tail[r].pos - tail[r].todo = written[r] \div 2
    BY <2>2, EntriesAssumption
  <2> QED
    BY <2>1, <2>3 DEF TailStands
<1> QED
  BY <1>1, SuiteTyped, PTL

Ascending(q) == \A i, j \in DOMAIN q : i < j => q[i] < q[j]

\* The next entry is later than all recorded ones.
LEMMA AscendingAppend ==
  ASSUME NEW q \in Seq(Nat), NEW e \in Nat, Ascending(q), \A i \in DOMAIN q : q[i] < e
  PROVE  Ascending(Append(q, e))
<1>1. /\ DOMAIN Append(q, e) = 1 .. Len(q) + 1 /\ DOMAIN q = 1 .. Len(q) /\ Len(q) \in Nat
      /\ \A i \in 1 .. Len(q) : Append(q, e)[i] = q[i]
      /\ Append(q, e)[Len(q) + 1] = e
  OBVIOUS
<1> SUFFICES ASSUME NEW i \in 1 .. Len(q) + 1, NEW j \in 1 .. Len(q) + 1, i < j
             PROVE  Append(q, e)[i] < Append(q, e)[j]
  BY <1>1 DEF Ascending
<1>2. i \in 1 .. Len(q)
  BY <1>1
<1>3. CASE j = Len(q) + 1
  BY <1>1, <1>2, <1>3
<1>4. CASE j \in 1 .. Len(q)
  BY <1>1, <1>2, <1>4 DEF Ascending
<1> QED
  BY <1>1, <1>3, <1>4

\* The entries of a run are recorded in the order pytest wrote them, none twice, and
\* of those consumed only one that broke its own handling is missing
\* (test_runner.py:499-503, 511-517).
THEOREM SavedInOrderAlways == SuiteSpec => []SavedInOrder
<1> DEFINE InOrder == \A r \in SuiteRuns : Ascending(saved[r])
<1>1. SuiteInit => InOrder
  BY DEF SuiteInit, Ascending
<1>2. SuiteTypeInv /\ InOrder /\ [SuiteNext]_suiteVars => InOrder'
  <2> SUFFICES ASSUME SuiteTypeInv, InOrder, [SuiteNext]_suiteVars, NEW s \in SuiteRuns
               PROVE  Ascending(saved'[s])
    BY DEF InOrder
  <2>0. /\ saved \in [SuiteRuns -> Seq(1 .. MaxEntries)] /\ tail[s] \in TailRecord
        /\ saved[s] \in Seq(1 .. MaxEntries) /\ Ascending(saved[s])
        /\ Range(saved[s]) \cup skipped[s] = 1 .. tail[s].pos - tail[s].todo
        /\ tail[s].todo <= tail[s].pos
    BY DEF SuiteTypeInv, SuiteTypes, TailInv, TailStands, InOrder
  <2>1. CASE saved'[s] = saved[s]
    BY <2>0, <2>1
  <2>2. CASE saved'[s] = Append(saved[s], Entry(s))
    <3>1. tail[s].pos \in Nat /\ tail[s].todo \in Nat
      BY <2>0, EntriesAssumption DEF TailRecord
    <3>2. Entry(s) \in Nat /\ \A n \in 1 .. tail[s].pos - tail[s].todo : n < Entry(s)
      BY <2>0, <3>1 DEF Entry
    <3>3. \A i \in DOMAIN saved[s] : saved[s][i] \in 1 .. tail[s].pos - tail[s].todo
      BY <2>0 DEF Range
    <3>4. saved[s] \in Seq(Nat)
      BY <2>0, EntriesAssumption
    <3> QED
      BY <2>0, <2>2, <3>2, <3>3, <3>4, AscendingAppend
  <2>3. saved'[s] = saved[s] \/ saved'[s] = Append(saved[s], Entry(s))
    <3>1. ASSUME NEW r \in SuiteRuns, TailHandles(r)
          PROVE  saved'[s] = saved[s] \/ saved'[s] = Append(saved[s], Entry(s))
      BY <2>0, <3>1 DEF TailHandles
    <3>2. UNCHANGED saved \/ \E r \in SuiteRuns : TailHandles(r)
      BY DEF SuiteNext, TailStep, StartChecks, StartStep, StartCommits, StartLaunches, DriveStep,
         DriveSpawns, SpawnFails, DriveSeesExit, PumpFails, DriveEnds, DrainTimesOut,
         DriveCancelled, FinallyGoesOn, TailReads, TailLoops, PytestWrites, PytestExits,
         WatchdogFires, Stop, Reset, suiteVars, tailVars
    <3> QED
      BY <3>1, <3>2
  <2> QED
    BY <2>1, <2>2, <2>3
<1>3. SuiteTypeInv /\ InOrder => SavedInOrder
  BY DEF SuiteTypeInv, TailInv, TailStands, InOrder, Ascending, SavedInOrder
<1> QED
  BY <1>1, <1>2, <1>3, SuiteTyped, PTL DEF SuiteSpec

-----------------------------------------------------------------------------
(* The flag.                                                               *)

\* Going on from one of the owner's places leads to another, or takes the flag down.
LEMMA FlagNext == SuiteTypes /\ FlagHasOwner /\ [SuiteNext]_suiteVars => FlagHasOwner'
<1> SUFFICES ASSUME SuiteTypes, FlagHasOwner, [SuiteNext]_suiteVars, flag' PROVE FlagHasOwner'
  BY DEF FlagHasOwner
<1>0. runAt \in [SuiteRuns -> PC] /\ flag \in BOOLEAN
  BY DEF SuiteTypes
<1>1. ASSUME NEW r \in SuiteRuns, StartCommits(r) PROVE FlagHasOwner'
  <2>1. runAt'[r] = "suspending"
    BY <1>0, <1>1 DEF StartCommits, RunGoes
  <2> QED
    BY <2>1 DEF FlagHasOwner
<1>2. ASSUME NEW r \in SuiteRuns, flag' = flag, NEW l \in PC, RunGoes(r, l),
             \/ l \in {"spawning", "driving", "draining"}
             \/ runAt[r] \notin {"suspending", "spawning", "driving", "draining"}
      PROVE  FlagHasOwner'
  <2>1. PICK s \in SuiteRuns : runAt[s] \in {"suspending", "spawning", "driving", "draining"}
    BY <1>2 DEF FlagHasOwner
  <2>2. runAt'[s] \in {"suspending", "spawning", "driving", "draining"}
    BY <1>0, <1>2, <2>1 DEF RunGoes
  <2> QED
    BY <2>2 DEF FlagHasOwner
<1>3. CASE flag' = flag /\ runAt' = runAt
  BY <1>3 DEF FlagHasOwner
<1>4. ASSUME NEW r \in SuiteRuns, Finally(r) PROVE FALSE
  BY <1>4 DEF Finally
<1>5. ASSUME NEW r \in SuiteRuns, StartChecks(r) \/ StartLaunches(r) \/ DriveSpawns(r)
             \/ DriveSeesExit(r) \/ FinallyGoesOn(r)
      PROVE  FlagHasOwner'
  BY <1>2, <1>5 DEF StartChecks, StartLaunches, DriveSpawns, DriveSeesExit, FinallyGoesOn, PC
<1>6. ASSUME NEW r \in SuiteRuns, SpawnFails(r) \/ PumpFails(r) \/ DriveEnds(r) \/ DrainTimesOut(r)
      PROVE  FlagHasOwner'
  BY <1>4, <1>6 DEF SpawnFails, PumpFails, DriveEnds, DrainTimesOut
<1>7. ASSUME NEW r \in SuiteRuns, DriveCancelled(r) PROVE FlagHasOwner'
  <2>1. \/ Finally(r)
        \/ runAt[r] \in {"finishing", "restoring"} /\ RunGoes(r, "done") /\ flag' = flag
    BY <1>7 DEF DriveCancelled
  <2> QED
    BY <1>2, <1>4, <2>1 DEF PC
<1>8. CASE Reset
  BY <1>8 DEF Reset
<1>9. ASSUME NEW r \in SuiteRuns, TailStep(r) \/ PytestWrites(r) \/ PytestExits(r) PROVE FlagHasOwner'
  BY <1>3, <1>9 DEF TailStep, TailReads, TailHandles, TailLoops, PytestWrites, PytestExits
<1>10. CASE Stop \/ UNCHANGED suiteVars
  BY <1>3, <1>10 DEF Stop, PytestExits, suiteVars
<1> QED
  BY <1>1, <1>5, <1>6, <1>7, <1>8, <1>9, <1>10 DEF SuiteNext, StartStep, DriveStep, WatchdogFires

\* The flag is up only while some run is going to take it down
\* (test_runner.py:324-327).
THEOREM FlagHasOwnerAlways == SuiteSpec => []FlagHasOwner
<1>1. SuiteInit => FlagHasOwner
  BY DEF SuiteInit, FlagHasOwner
<1>2. SuiteTypeInv => SuiteTypes
  BY DEF SuiteTypeInv
<1> QED
  BY <1>1, <1>2, SuiteTyped, FlagNext, PTL DEF SuiteSpec

\* What a run leaves of itself: its entries but for those that cannot be handled,
\* in order, and no raised flag.
THEOREM SuiteInvAlways == SuiteSpec => []SuiteInv
BY SuiteTypeOKAlways, SavedInOrderAlways, DrainMissesNothingAlways, FlagHasOwnerAlways, PTL
   DEF SuiteInv

=============================================================================
