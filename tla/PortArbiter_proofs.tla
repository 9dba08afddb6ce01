------------------------- MODULE PortArbiter_proofs -------------------------
(***************************************************************************)
(* Proofs about what is shared on the host.  About PortArbiter, for any    *)
(* set of users and any number of reader threads: type correctness, the    *)
(* exclusivity of the guard against guards and against the soak, the       *)
(* refinement of PortOwnership, the books of the monitor and the readers   *)
(* that keep out.  About AtakFleet, for any number of nodes and console    *)
(* ports: a server that lives orphans no emulator, and a fleet that is     *)
(* ready is provisioned.  About FleetDiscovery, for any boards and calls:  *)
(* enrichment and recovery keep to their guard.  About MCFleet: a port     *)
(* whose monitor stays known is never double-opened.                       *)
(***************************************************************************)
EXTENDS MCFleet, AtakFleet, FiniteSetTheorems, SequenceTheorems, TLAPS

-----------------------------------------------------------------------------
(* Type correctness.                                                       *)

MonTypeOK ==
  /\ mon \in [known : BOOLEAN, refs : Nat, suspended : BOOLEAN, left : BOOLEAN,
              thread : Readers \cup {None}]
  /\ monHolder \in Procs \cup {None}
  /\ monStage \in {"free", "open", "close"}
  /\ alive \subseteq Readers /\ stopped \subseteq Readers

MonRecord == [known : BOOLEAN, refs : Nat, suspended : BOOLEAN, left : BOOLEAN,
              thread : Readers \cup {None}]

\* _open, up to its await, keeps the monitor's types whatever it is given.
LEMMA OpenBeginType ==
  ASSUME MonTypeOK, NEW p \in Procs, NEW m \in MonRecord, OpenBegin(p, m)
  PROVE  MonTypeOK'
BY DEF MonTypeOK, MonRecord, OpenBegin, Await, Return

\* So does _close.
LEMMA CloseBeginType ==
  ASSUME MonTypeOK, NEW p \in Procs, NEW m \in MonRecord, CloseBegin(p, m)
  PROVE  MonTypeOK'
<1>1. NoMonitor \in MonRecord
  BY DEF NoMonitor, MonRecord
<1>2. AfterClose(p, m) \in MonRecord
  BY <1>1 DEF AfterClose
<1>3. m.thread # None => m.thread \in Readers
  BY DEF MonRecord
<1> HIDE DEF MonRecord
<1>4. mon' \in MonRecord
  BY <1>2 DEF CloseBegin
<1>5. alive' \subseteq Readers /\ stopped' \subseteq Readers
  BY <1>3 DEF CloseBegin, MonTypeOK
<1>6. monHolder' \in Procs \cup {None} /\ monStage' \in {"free", "open", "close"}
  BY DEF CloseBegin, MonTypeOK, Await, Return
<1> QED
  BY <1>4, <1>5, <1>6 DEF MonTypeOK, MonRecord

LEMMA CallBeginsType ==
  ASSUME MonTypeOK, NEW p \in Procs, CallBegins(p)
  PROVE  MonTypeOK'
<1>1. mon \in MonRecord
  BY DEF MonTypeOK, MonRecord
<1>2. CASE Acquire(p)
  <2> DEFINE m == [mon EXCEPT !.known = TRUE, !.refs = @ + 1]
  <2>1. m \in MonRecord
    <3>1. mon.refs + 1 \in Nat
      BY <1>1 DEF MonRecord
    <3> QED
      BY <1>1, <3>1 DEF MonRecord
  <2>2. CASE OpenBegin(p, m)
    BY <2>1, <2>2, OpenBeginType
  <2>3. CASE mon' = m /\ Return /\ UNCHANGED <<alive, stopped>>
    BY <2>1, <2>3 DEF MonTypeOK, MonRecord, Return
  <2> QED
    BY <1>2, <2>2, <2>3 DEF Acquire
<1>3. CASE Release(p)
  <2> DEFINE m == [mon EXCEPT !.refs = IF @ = 0 THEN 0 ELSE @ - 1]
  <2>1. m \in MonRecord
    BY <1>1 DEF MonRecord
  <2>2. CASE CloseBegin(p, m)
    BY <2>1, <2>2, CloseBeginType
  <2>3. CASE mon' \in {m, mon} /\ Return /\ UNCHANGED <<alive, stopped>>
    BY <1>1, <2>1, <2>3 DEF MonTypeOK, MonRecord, Return
  <2> QED
    BY <1>3, <2>2, <2>3 DEF Release
<1>4. CASE Suspend(p)
  <2> DEFINE m == [mon EXCEPT !.suspended = TRUE]
  <2>1. m \in MonRecord
    BY <1>1 DEF MonRecord
  <2>2. CASE CloseBegin(p, m)
    BY <2>1, <2>2, CloseBeginType
  <2>3. CASE Return /\ UNCHANGED <<mon, alive, stopped>>
    BY <2>3 DEF MonTypeOK, Return
  <2> QED
    BY <1>4, <2>2, <2>3 DEF Suspend
<1>5. CASE Resume(p)
  <2> DEFINE m == [mon EXCEPT !.suspended = FALSE, !.left = FALSE]
  <2>1. m \in MonRecord
    BY <1>1 DEF MonRecord
  <2>2. CASE OpenBegin(p, m)
    BY <2>1, <2>2, OpenBeginType
  <2>3. CASE mon' \in {m, mon} /\ Return /\ UNCHANGED <<alive, stopped>>
    BY <1>1, <2>1, <2>3 DEF MonTypeOK, MonRecord, Return
  <2> QED
    BY <1>5, <2>2, <2>3 DEF Resume
<1> QED
  BY <1>2, <1>3, <1>4, <1>5 DEF CallBegins

LEMMA CallEndsType ==
  ASSUME MonTypeOK, NEW p \in Procs, CallEnds(p)
  PROVE  MonTypeOK'
<1>1. CASE OpenEnd(p)
  BY <1>1 DEF MonTypeOK, OpenEnd, StartReader, Return
<1>2. CASE CloseJoined(p)
  BY <1>2 DEF MonTypeOK, CloseJoined, AfterClose, NoMonitor, Return
<1>3. CASE CloseAbandoned(p)
  BY <1>3 DEF MonTypeOK, CloseAbandoned, AfterClose, NoMonitor, Return
<1> QED
  BY <1>1, <1>2, <1>3 DEF CallEnds

\* Where a monitor call returns to is a state of the process that made it.
LEMMA ReturnsToType ==
  ASSUME TypeOK, NEW p \in Procs, pc[p] \in Methods
  PROVE  ReturnsTo(p) \in PCOf(p)
BY ProcsAssumption
   DEF TypeOK, ReturnsTo, Drives, BodyOrResume, PCOf, Methods, Procs,
       OpPC, OwnerPC, ClientPC, RunPC, SweepPC

LEMMA CallIsMethod ==
  ASSUME NEW p, CallBegins(p)
  PROVE  pc[p] \in Methods
BY DEF CallBegins, Acquire, Release, Suspend, Resume, Methods

\* The process inside the monitor lock is in one of the monitor's methods.
CallerInside == monHolder # None => pc[monHolder] \in Methods

TypeInv == TypeOK /\ CallerInside

PCOK == pc \in [Procs -> OpPC \cup OwnerPC \cup ClientPC \cup RunPC \cup SweepPC]
        /\ \A p \in Procs : pc[p] \in PCOf(p)

LEMMA PCOfType ==
  \A p \in Procs : PCOf(p) \subseteq OpPC \cup OwnerPC \cup ClientPC \cup RunPC \cup SweepPC
BY DEF PCOf

\* A process that is not inside the monitor lock may move within its own states.
LEMMA GotoType ==
  ASSUME TypeInv, NEW p \in Procs, NEW l \in PCOf(p), Goto(p, l),
         monHolder' = monHolder \/ monHolder' = None,
         monHolder' # p
  PROVE  PCOK' /\ CallerInside'
<1>1. l \in OpPC \cup OwnerPC \cup ClientPC \cup RunPC \cup SweepPC
  BY PCOfType
<1>2. pc \in [Procs -> OpPC \cup OwnerPC \cup ClientPC \cup RunPC \cup SweepPC]
  BY DEF TypeInv, TypeOK
<1>3. pc' \in [Procs -> OpPC \cup OwnerPC \cup ClientPC \cup RunPC \cup SweepPC]
  BY <1>1, <1>2 DEF Goto
<1>4. ASSUME NEW q \in Procs PROVE pc'[q] \in PCOf(q)
  <2>1. pc[q] \in PCOf(q)
    BY DEF TypeInv, TypeOK
  <2> QED
    BY <1>2, <2>1 DEF Goto
<1>5. CallerInside'
  <2> SUFFICES ASSUME monHolder' # None PROVE pc'[monHolder'] \in Methods
    BY DEF CallerInside
  <2>1. monHolder' = monHolder /\ monHolder \in Procs /\ monHolder # p
    BY DEF TypeInv, TypeOK
  <2> QED
    BY <1>2, <2>1 DEF Goto, TypeInv, CallerInside
<1> QED
  BY <1>3, <1>4, <1>5 DEF PCOK, PCOf

LEMMA OpNextType ==
  ASSUME TypeInv, NEW p \in Ops, OpNext(p)
  PROVE  TypeInv'
<1>1. p \in Procs /\ PCOf(p) = OpPC
  BY DEF Procs, PCOf
<1>2. monVars' = monVars /\ claim' = claim /\ running' = running
  BY DEF OpNext, GuardEnter, GuardGranted, WedgeCleared, WedgeTimesOut, BodyEnds
<1>3. monHolder # p
  <2>1. pc[p] \notin Methods
    BY DEF OpNext, GuardEnter, GuardGranted, WedgeCleared, WedgeTimesOut, BodyEnds,
           IsNext, Methods
  <2> QED
    BY <2>1, ProcsAssumption, <1>1 DEF TypeInv, CallerInside
<1>4. \E l \in OpPC : Goto(p, l)
  BY DEF OpNext, GuardEnter, GuardGranted, WedgeCleared, WedgeTimesOut, BodyEnds,
         Enqueue, BodyOrResume, OpPC
<1>5. PCOK' /\ CallerInside'
  BY <1>1, <1>2, <1>3, <1>4, GotoType DEF monVars
<1>6. holder' \in Ops \cup {None}
  BY DEF TypeInv, TypeOK, OpNext, GuardEnter, GuardGranted, WedgeCleared,
         WedgeTimesOut, BodyEnds
<1>7. ahead' \in [Ops \cup Owners -> SUBSET (Ops \cup Owners)]
  BY DEF TypeInv, TypeOK, OpNext, GuardEnter, GuardGranted, WedgeCleared,
         WedgeTimesOut, BodyEnds, Enqueue, Leave, Waiters
<1> QED
  BY <1>2, <1>5, <1>6, <1>7 DEF TypeInv, TypeOK, PCOK, monVars

LEMMA SoakCancelledType ==
  ASSUME TypeInv, NEW p \in Owners, SoakCancelled(p)
  PROVE  TypeInv'
<1>1. p \in Procs /\ p # None /\ "leaving" \in PCOf(p)
  BY ProcsAssumption DEF Procs, PCOf, OwnerPC
<1>2. UNCHANGED <<alive, stopped, claim, running, holder, ahead>> /\ Goto(p, "leaving")
  BY DEF SoakCancelled
<1>3. /\ mon' \in MonRecord
      /\ monHolder' \in {monHolder, None} /\ monHolder' # p
      /\ monStage' \in {"free", "open", "close"}
  <2>1. /\ mon \in MonRecord /\ [mon EXCEPT !.left = TRUE] \in MonRecord
        /\ monStage \in {"free", "open", "close"}
    BY DEF TypeInv, TypeOK, MonRecord
  <2> HIDE DEF MonRecord
  <2> QED
    BY <1>1, <2>1 DEF SoakCancelled, Return
<1>4. PCOK' /\ CallerInside'
  BY <1>1, <1>2, <1>3, GotoType
<1> QED
  BY <1>2, <1>3, <1>4 DEF TypeInv, TypeOK, PCOK, MonRecord

LEMMA OwnerNextType ==
  ASSUME TypeInv, NEW p \in Owners, OwnerNext(p), ~SoakCancelled(p)
  PROVE  TypeInv'
<1>1. p \in Procs /\ PCOf(p) = OwnerPC
  BY ProcsAssumption DEF Procs, PCOf
<1>2. monVars' = monVars /\ holder' = holder /\ running' = running
  BY DEF OwnerNext, ClaimDevice, PortIsClear, WaitClearTimesOut, ObserverOpens,
         ObserverFails, SoakEnds, SoakLeaves
<1>3. monHolder # p
  <2>1. pc[p] \notin Methods
    BY DEF OwnerNext, ClaimDevice, PortIsClear, WaitClearTimesOut, ObserverOpens,
           ObserverFails, SoakEnds, SoakLeaves, IsNext, Methods
  <2> QED
    BY <2>1, ProcsAssumption, <1>1 DEF TypeInv, CallerInside
<1>4. \E l \in OwnerPC : Goto(p, l)
  BY DEF OwnerNext, ClaimDevice, PortIsClear, WaitClearTimesOut, ObserverOpens,
         ObserverFails, SoakEnds, SoakLeaves, Enqueue, OwnerPC
<1>5. PCOK' /\ CallerInside'
  BY <1>1, <1>2, <1>3, <1>4, GotoType DEF monVars
<1>6. claim' \in Owners \cup {None}
  BY DEF TypeInv, TypeOK, OwnerNext, ClaimDevice, PortIsClear, WaitClearTimesOut,
         ObserverOpens, ObserverFails, SoakEnds, SoakLeaves
<1>7. ahead' \in [Ops \cup Owners -> SUBSET (Ops \cup Owners)]
  BY DEF TypeInv, TypeOK, OwnerNext, ClaimDevice, PortIsClear, WaitClearTimesOut,
         ObserverOpens, ObserverFails, SoakEnds, SoakLeaves, Enqueue, Leave, Waiters
<1> QED
  BY <1>2, <1>5, <1>6, <1>7 DEF TypeInv, TypeOK, PCOK, monVars

LEMMA ClientNextType ==
  ASSUME TypeInv, NEW p \in Clients, Subscribe(p) \/ Unsubscribe(p)
  PROVE  TypeInv'
<1>1. p \in Procs /\ PCOf(p) = ClientPC
  BY ProcsAssumption DEF Procs, PCOf
<1>2. UNCHANGED <<monVars, claim, running, holder, ahead>>
  BY DEF Subscribe, Unsubscribe
<1>3. monHolder # p
  <2>1. pc[p] \notin Methods
    BY DEF Subscribe, Unsubscribe, Methods
  <2> QED
    BY <2>1, ProcsAssumption, <1>1 DEF TypeInv, CallerInside
<1>4. \E l \in ClientPC : Goto(p, l)
  BY DEF Subscribe, Unsubscribe, ClientPC
<1>5. PCOK' /\ CallerInside'
  BY <1>1, <1>2, <1>3, <1>4, GotoType DEF monVars
<1> QED
  BY <1>2, <1>5 DEF TypeInv, TypeOK, PCOK, monVars

\* The steps of the runner that take the flag down or break a suspension off.
RunnerStep(p) == SuspendAllTimesOut(p) \/ RunFinishes(p) \/ Reset(p)

\* They move runs only, and free the monitor lock only of one of these.
LEMMA RunnerMoves ==
  ASSUME TypeInv, NEW p \in Runs, RunnerStep(p)
  PROVE  /\ UNCHANGED <<mon, alive, stopped, claim, holder, ahead>>
         /\ running' \in BOOLEAN
         /\ pc' \in [Procs -> OpPC \cup OwnerPC \cup ClientPC \cup RunPC \cup SweepPC]
         /\ \A q \in Procs \ Runs : pc'[q] = pc[q]
         /\ \A q \in Runs : pc'[q] \in RunPC
         /\ \/ /\ UNCHANGED <<monHolder, monStage>>
               /\ monHolder # None => pc'[monHolder] = pc[monHolder]
            \/ /\ monHolder \in Runs \cup {None} /\ Return
               /\ monHolder # None => pc[monHolder] # "release"
         /\ mon.known => pc'[p] \in {"driving", "exposed", "finishing", "resume"}
<1>1. /\ p \in Procs /\ p # None /\ None \notin Procs /\ Runs \subseteq Procs
      /\ \A q \in Procs \ Runs : pc[q] # "driving"
      /\ \A q \in Runs : pc[q] \in RunPC /\ q # None
  BY ProcsAssumption DEF TypeInv, TypeOK, PCOf, Procs, OpPC, OwnerPC, ClientPC, SweepPC
<1>2. /\ pc \in [Procs -> OpPC \cup OwnerPC \cup ClientPC \cup RunPC \cup SweepPC]
      /\ monHolder \in Procs \cup {None} /\ running \in BOOLEAN
      /\ monHolder # None => pc[monHolder] \in Methods
  BY DEF TypeInv, TypeOK, CallerInside
<1>3. CASE SuspendAllTimesOut(p)
  <2>1. PICK l \in {"driving", "exposed"} : Goto(p, l)
    BY <1>3 DEF SuspendAllTimesOut, Drives
  <2>2. \A q \in Procs : pc'[q] = IF q = p THEN l ELSE pc[q]
    BY <1>2, <2>1 DEF Goto
  <2>3. pc' \in [Procs -> OpPC \cup OwnerPC \cup ClientPC \cup RunPC \cup SweepPC]
    BY <1>2, <2>1 DEF Goto, RunPC
  <2>4. pc[p] = "suspend" /\ UNCHANGED <<mon, alive, stopped, claim, running, holder, ahead>>
    BY <1>3 DEF SuspendAllTimesOut
  <2>5. \/ /\ UNCHANGED <<monHolder, monStage>>
           /\ monHolder # None => pc'[monHolder] = pc[monHolder]
        \/ /\ monHolder \in Runs \cup {None} /\ Return
           /\ monHolder # None => pc[monHolder] # "release"
    BY <1>2, <1>3, <2>2, <2>4 DEF SuspendAllTimesOut
  <2> QED
    BY <1>1, <1>2, <2>2, <2>3, <2>4, <2>5 DEF RunPC
<1>4. ASSUME NEW l \in {"finishing", "resume", "idle"}, NEW gone \in Runs \cup {None},
             FlagDown(p, l, gone), pc[p] \notin Methods
      PROVE  /\ running' = FALSE
             /\ pc' \in [Procs -> OpPC \cup OwnerPC \cup ClientPC \cup RunPC \cup SweepPC]
             /\ \A q \in Procs \ Runs : pc'[q] = pc[q]
             /\ \A q \in Runs : pc'[q] \in RunPC
             /\ pc'[p] = l
             /\ monHolder \notin {None, gone} => pc'[monHolder] = pc[monHolder]
  <2>1. running' = FALSE
    BY <1>4 DEF FlagDown
  <2>2. \A q \in Procs : pc'[q] = IF q = p THEN l ELSE IF q = gone THEN "idle"
                                  ELSE IF pc[q] = "driving" THEN "exposed" ELSE pc[q]
    BY <1>4 DEF FlagDown
  <2>3. \A q \in Procs : pc[q] \in OpPC \cup OwnerPC \cup ClientPC \cup RunPC \cup SweepPC
    BY <1>2
  <2>4. \A q \in Procs : pc'[q] \in OpPC \cup OwnerPC \cup ClientPC \cup RunPC \cup SweepPC
    BY <2>2, <2>3 DEF RunPC
  <2>6. pc' \in [Procs -> OpPC \cup OwnerPC \cup ClientPC \cup RunPC \cup SweepPC]
    <3>1. PICK f : f = [q \in Procs |-> IF q = p THEN l ELSE IF q = gone THEN "idle"
                                      ELSE IF pc[q] = "driving" THEN "exposed" ELSE pc[q]]
      OBVIOUS
    <3>2. \A q \in Procs : f[q] = pc'[q]
      BY <2>2, <3>1
    <3>3. f \in [Procs -> OpPC \cup OwnerPC \cup ClientPC \cup RunPC \cup SweepPC]
      BY <2>4, <3>1, <3>2
    <3> QED
      BY <1>4, <3>1, <3>3 DEF FlagDown
  <2>7. \A q \in Procs \ Runs : pc'[q] = pc[q]
    BY <1>1, <2>2
  <2>8. \A q \in Runs : pc'[q] \in RunPC
    BY <1>1, <2>2 DEF RunPC
  <2>9. monHolder \notin {None, gone} => pc'[monHolder] = pc[monHolder]
    BY <1>2, <1>4, <2>2 DEF Methods
  <2> QED
    BY <1>1, <2>1, <2>2, <2>6, <2>7, <2>8, <2>9
<1>5. CASE RunFinishes(p)
  <2>1. /\ FlagDown(p, "finishing", None) /\ pc[p] \notin Methods
        /\ UNCHANGED <<mon, monHolder, monStage, alive, stopped, claim, holder, ahead>>
    BY <1>5 DEF RunFinishes, Methods, monVars
  <2> QED
    BY <1>4, <2>1
<1>6. CASE Reset(p)
  <2>1. PICK gone \in {q \in Runs : pc[q] \in {"driving", "exposed", "finishing", "resume"}}
                       \cup {None} :
          /\ FlagDown(p, IF mon.known THEN "resume" ELSE "idle", gone)
          /\ \/ monHolder = gone /\ Return
             \/ monHolder # gone /\ UNCHANGED <<monHolder, monStage>>
    BY <1>6 DEF Reset
  <2>2. UNCHANGED <<mon, alive, stopped, claim, holder, ahead>> /\ pc[p] \notin Methods
    BY <1>6 DEF Reset, Methods
  <2> DEFINE l == IF mon.known THEN "resume" ELSE "idle"
  <2>3. l \in {"finishing", "resume", "idle"} /\ gone \in Runs \cup {None}
    BY <2>1
  <2>4. /\ running' = FALSE
        /\ pc' \in [Procs -> OpPC \cup OwnerPC \cup ClientPC \cup RunPC \cup SweepPC]
        /\ \A q \in Procs \ Runs : pc'[q] = pc[q]
        /\ \A q \in Runs : pc'[q] \in RunPC
        /\ pc'[p] = l
        /\ monHolder \notin {None, gone} => pc'[monHolder] = pc[monHolder]
    BY <1>4, <2>1, <2>2, <2>3
  <2>5. \/ /\ UNCHANGED <<monHolder, monStage>>
           /\ monHolder # None => pc'[monHolder] = pc[monHolder]
        \/ /\ monHolder \in Runs \cup {None} /\ Return
           /\ monHolder # None => pc[monHolder] # "release"
    BY <2>1, <2>4
  <2> QED
    BY <2>2, <2>4, <2>5
<1> QED
  BY <1>3, <1>5, <1>6 DEF RunnerStep

LEMMA RunnerStepType ==
  ASSUME TypeInv, NEW p \in Runs, RunnerStep(p)
  PROVE  TypeInv'
<1>1. \A q \in Runs : q \in Procs /\ PCOf(q) = RunPC
  BY ProcsAssumption DEF Procs, PCOf
<1>2. ASSUME NEW q \in Procs PROVE pc'[q] \in PCOf(q)'
  <2>1. pc[q] \in PCOf(q) /\ PCOf(q)' = PCOf(q)
    BY DEF TypeInv, TypeOK, PCOf
  <2> QED
    BY <1>1, <2>1, RunnerMoves
<1>3. monHolder' \in Procs \cup {None} /\ monStage' \in {"free", "open", "close"}
  BY RunnerMoves DEF TypeInv, TypeOK, Return
<1>4. CallerInside'
  BY RunnerMoves DEF TypeInv, CallerInside, Return
<1> QED
  BY <1>2, <1>3, <1>4, RunnerMoves DEF TypeInv, TypeOK

LEMMA RunNextType ==
  ASSUME TypeInv, NEW p \in Runs, RunChecks(p) \/ RunCommits(p) \/ RunRestores(p)
  PROVE  TypeInv'
<1>1. p \in Procs /\ PCOf(p) = RunPC
  BY ProcsAssumption DEF Procs, PCOf
<1>2. UNCHANGED <<monVars, claim, holder, ahead>> /\ running' \in BOOLEAN
  BY DEF TypeInv, TypeOK, RunChecks, RunCommits, RunRestores
<1>3. monHolder # p
  <2>1. pc[p] \notin Methods
    BY DEF RunChecks, RunCommits, RunRestores, Methods
  <2> QED
    BY <2>1, ProcsAssumption, <1>1 DEF TypeInv, CallerInside
<1>4. \E l \in RunPC : Goto(p, l)
  BY DEF RunChecks, RunCommits, RunRestores, VisitMonitor, RunPC
<1>5. PCOK' /\ CallerInside'
  BY <1>1, <1>2, <1>3, <1>4, GotoType DEF monVars
<1> QED
  BY <1>2, <1>5 DEF TypeInv, TypeOK, PCOK, monVars

LEMMA SweepNextType ==
  ASSUME TypeInv, NEW p \in Sweeps, SweepNext(p)
  PROVE  TypeInv'
<1>1. p \in Procs /\ PCOf(p) = SweepPC
  BY ProcsAssumption DEF Procs, PCOf
<1>2. UNCHANGED <<monVars, claim, running, holder, ahead>>
  BY DEF SweepNext, SweepGate, SweepBegins, SweepEnds
<1>3. monHolder # p
  <2>1. pc[p] \notin Methods
    BY DEF SweepNext, SweepGate, SweepBegins, SweepEnds, Methods
  <2> QED
    BY <2>1, ProcsAssumption, <1>1 DEF TypeInv, CallerInside
<1>4. \E l \in SweepPC : Goto(p, l)
  BY DEF SweepNext, SweepGate, SweepBegins, SweepEnds, VisitMonitor, SweepPC
<1>5. PCOK' /\ CallerInside'
  BY <1>1, <1>2, <1>3, <1>4, GotoType DEF monVars
<1> QED
  BY <1>2, <1>5 DEF TypeInv, TypeOK, PCOK, monVars

LEMMA MonitorCallType ==
  ASSUME TypeInv, NEW p \in Procs, MonitorCall(p)
  PROVE  TypeInv'
<1>1. MonTypeOK
  BY DEF TypeInv, TypeOK, MonTypeOK
<1>2. MonTypeOK'
  BY <1>1, CallBeginsType, CallEndsType DEF MonitorCall
<1>3. pc[p] \in Methods
  <2>1. CASE CallBegins(p)
    BY <2>1, CallIsMethod
  <2>2. CASE CallEnds(p)
    <3>1. monHolder = p
      BY <2>2 DEF CallEnds, OpenEnd, CloseJoined, CloseAbandoned
    <3> QED
      BY <3>1, ProcsAssumption DEF TypeInv, CallerInside
  <2> QED
    BY <2>1, <2>2 DEF MonitorCall
<1>4. monHolder' \in {p, None}
  BY DEF MonitorCall, CallBegins, Acquire, Release, Suspend, Resume, OpenBegin,
         CloseBegin, CallEnds, OpenEnd, CloseJoined, CloseAbandoned, Return, Await
<1>5. CASE monHolder' # None
  <2>1. pc' = pc /\ holder' = holder
    BY <1>5 DEF MonitorCall, CallContinues
  <2>2. CallerInside'
    BY <1>3, <1>4, <1>5, <2>1 DEF CallerInside
  <2> QED
    BY <1>2, <2>1, <2>2 DEF TypeInv, TypeOK, MonTypeOK, MonitorCall
<1>6. CASE monHolder' = None
  <2>1. Goto(p, ReturnsTo(p)) /\ holder' \in {None, holder}
    BY <1>6 DEF MonitorCall, CallContinues
  <2>2. ReturnsTo(p) \in PCOf(p)
    BY <1>3, ReturnsToType DEF TypeInv
  <2>3. PCOK' /\ CallerInside'
    BY <1>6, <2>1, <2>2, GotoType, ProcsAssumption
  <2> QED
    BY <1>2, <2>1, <2>3 DEF TypeInv, TypeOK, MonTypeOK, MonitorCall, PCOK
<1> QED
  BY <1>5, <1>6

LEMMA ReaderExitsType ==
  ASSUME TypeInv, NEW t \in Readers, ReaderExits(t)
  PROVE  TypeInv'
BY DEF TypeInv, TypeOK, CallerInside, ReaderExits, ReaderStops, ReaderFails, PCOf

LEMMA TypeInvInit == Init => TypeInv
<1> SUFFICES ASSUME Init PROVE TypeInv
  OBVIOUS
<1>2. ASSUME NEW p \in Procs PROVE pc[p] \in PCOf(p)
  BY ProcsAssumption DEF Init, PCOf, OpPC, OwnerPC, ClientPC, RunPC, SweepPC, Procs
<1>3. pc \in [Procs -> OpPC \cup OwnerPC \cup ClientPC \cup RunPC \cup SweepPC]
  BY DEF Init, OpPC, ClientPC
<1> QED
  BY <1>2, <1>3 DEF Init, NoMonitor, TypeInv, TypeOK, CallerInside

LEMMA TypeInvNext == TypeInv /\ [Next]_vars => TypeInv'
<1> SUFFICES ASSUME TypeInv, [Next]_vars PROVE TypeInv'
  OBVIOUS
<1>1. CASE UNCHANGED vars
  BY <1>1 DEF vars, monVars, TypeInv, TypeOK, CallerInside, PCOf
<1>2. ASSUME NEW p \in Runs, RunNext(p) PROVE TypeInv'
  BY <1>2, RunNextType, RunnerStepType DEF RunNext, RunnerStep
<1> QED
  BY <1>1, <1>2, OpNextType, OwnerNextType, SoakCancelledType, ClientNextType, SweepNextType,
     MonitorCallType, ReaderExitsType DEF Next

\* Every variable keeps its type, and a process is always in a state of its own
\* kind: the handlers of portlock.py, serial_monitor.py and their callers.
THEOREM TypeCorrect == Spec => []TypeOK
<1>1. Spec => []TypeInv
  BY TypeInvInit, TypeInvNext, PTL DEF Spec
<1> QED
  BY <1>1, PTL DEF TypeInv

-----------------------------------------------------------------------------
(* Exclusivity of the guard.  GuardInv is inductive relative to TypeInv.   *)

Users == Ops \cup Owners

\* A step that leaves the queue, the claim and the lock alone keeps GuardInv when
\* it moves a process neither into nor out of the states GuardInv speaks of.
LEMMA NeutralStep ==
  ASSUME TypeInv, GuardInv, NEW p \in Procs, NEW l, Goto(p, l),
         UNCHANGED <<claim, holder, ahead>>,
         pc[p] # "queued" /\ l # "queued",
         p \in Ops => ((l \in {"suspend", "wedged", "body", "resume"}) <=> InGuard(p)),
         p \in Owners => (l \in {"suspend", "leaving", "opening", "held"} => OwnsPort(p))
  PROVE  GuardInv'
<1>1. \A q \in Procs : pc'[q] = IF q = p THEN l ELSE pc[q]
  BY DEF Goto, TypeInv, TypeOK
<1>2. \A q \in Users : q \in Procs
  BY DEF Users, Procs
<1>3. Waiters' = Waiters
  BY <1>1, <1>2 DEF Waiters, Users
<1>4. \A q \in Ops : InGuard(q)' <=> InGuard(q)
  BY <1>1, <1>2 DEF InGuard, Users
<1>5. \A q \in Owners : OwnsPort(q)' => OwnsPort(q)
  BY <1>1, <1>2 DEF OwnsPort, Users
<1>6. QueueOrder'
  BY <1>3 DEF GuardInv, QueueOrder
<1>7. ClaimantIsLast' /\ HolderInGuard'
  BY <1>4 DEF GuardInv, ClaimantIsLast, HolderInGuard
<1>8. ClaimByOwner'
  BY <1>1, <1>2, <1>5 DEF GuardInv, ClaimByOwner, Users
<1>9. PortCleared'
  BY <1>1, <1>2, <1>4, <1>5 DEF GuardInv, PortCleared, Users
<1> QED
  BY <1>6, <1>7, <1>8, <1>9 DEF GuardInv

\* A user that joins the queue goes behind everybody in it.
LEMMA EnqueueStep ==
  ASSUME TypeInv, GuardInv, NEW p \in Users, Enqueue(p), pc[p] = "idle",
         UNCHANGED holder,
         p \in Ops => claim = None /\ UNCHANGED claim,
         p \in Owners => claim \in {None, p} /\ claim' = p
  PROVE  GuardInv'
<1>1. \A q \in Users : pc'[q] = IF q = p THEN "queued" ELSE pc[q]
  BY DEF Enqueue, Goto, TypeInv, TypeOK, Users, Procs
<1>2. Waiters' = Waiters \cup {p}
  BY <1>1 DEF Waiters, Users
<1>3. \A q \in Users : ahead'[q] = IF q = p THEN Waiters ELSE ahead[q]
  BY DEF Enqueue, TypeInv, TypeOK, Users
<1>4. p \notin Waiters /\ Waiters \subseteq Users
  BY DEF Waiters, Users
<1>5. QueueOrder'
  BY <1>2, <1>3, <1>4 DEF GuardInv, QueueOrder, Users
<1>6. \A q \in Users : ahead[q] \subseteq Waiters
  BY DEF GuardInv, QueueOrder, Users
<1>7. None \notin Users
  BY ProcsAssumption DEF Users, Procs
<1>8. ClaimantIsLast'
  BY <1>3, <1>4, <1>6, <1>7 DEF ClaimantIsLast, Users
<1>9. \A q \in Ops : InGuard(q)' <=> InGuard(q)
  BY <1>1 DEF InGuard, Users
<1>10. HolderInGuard'
  BY <1>9 DEF GuardInv, HolderInGuard
<1>11. \A o \in Owners : OwnsPort(o)' <=> OwnsPort(o)
  BY <1>1 DEF OwnsPort, Users
<1>12. \A o \in Owners : OwnsPort(o) => claim = o
  BY DEF GuardInv, ClaimByOwner
<1>13. ClaimByOwner'
  BY <1>1, <1>7, <1>11 DEF GuardInv, ClaimByOwner, Users
<1>14. p \in Ops => p \notin Owners
  BY ProcsAssumption
<1>15. PortCleared'
  BY <1>1, <1>7, <1>9, <1>11, <1>12, <1>14 DEF GuardInv, PortCleared, Users
<1> QED
  BY <1>5, <1>8, <1>10, <1>13, <1>15 DEF GuardInv

\* When a user is the next to be served, nobody holds the lock; and when it is a
\* claimant, nobody else waits.
LEMMA NextInLine ==
  ASSUME TypeInv, GuardInv, NEW p \in Users, IsNext(p)
  PROVE  /\ \A q \in Ops : ~InGuard(q)
         /\ claim = p => Waiters = {p}
<1>1. \A q \in Ops : q # None
  BY ProcsAssumption DEF Procs
<1>2. \A q \in Ops : ~InGuard(q)
  BY <1>1 DEF IsNext, GuardInv, HolderInGuard
<1>3. p \in Waiters
  BY DEF IsNext, Waiters, Users
<1>4. ASSUME claim = p, NEW q \in Waiters, q # p PROVE FALSE
  <2>1. q \in ahead[p] \/ p \in ahead[q]
    BY <1>3, <1>4 DEF GuardInv, QueueOrder
  <2>2. q \in Users
    BY DEF Waiters, Users
  <2> QED
    BY <1>4, <2>1, <2>2 DEF IsNext, GuardInv, ClaimantIsLast, Users
<1> QED
  BY <1>2, <1>3, <1>4

\* A waiter that leaves the queue, to hold the lock or not, keeps it ordered.
LEMMA LeaveStep ==
  ASSUME TypeInv, GuardInv, NEW p \in Users, NEW l, pc[p] = "queued",
         Leave(p), Goto(p, l), l # "queued", claim' \in {claim, None}
  PROVE  QueueOrder' /\ ClaimantIsLast'
<1>1. \A q \in Users : pc'[q] = IF q = p THEN l ELSE pc[q]
  BY DEF Goto, TypeInv, TypeOK, Users, Procs
<1>2. Waiters' = Waiters \ {p}
  BY <1>1 DEF Waiters, Users
<1>3. \A q \in Users : ahead'[q] = ahead[q] \ {p}
  BY DEF Leave, Users
<1>4. Waiters \subseteq Users
  BY DEF Waiters, Users
<1>5. QueueOrder'
  BY <1>2, <1>3, <1>4 DEF GuardInv, QueueOrder, Users
<1>6. None \notin Users /\ \A q \in Users : ahead[q] \subseteq Users
  BY ProcsAssumption DEF Users, Procs, TypeInv, TypeOK
<1>7. ClaimantIsLast'
  BY <1>3, <1>6 DEF GuardInv, ClaimantIsLast, Users
<1> QED
  BY <1>5, <1>7

LEMMA OpNextGuard ==
  ASSUME TypeInv, GuardInv, NEW p \in Ops, OpNext(p)
  PROVE  GuardInv'
<1>1. p \in Procs /\ p \in Users /\ p \notin Owners /\ p # None
  BY ProcsAssumption DEF Procs, Users
<1>2. \A l : Goto(p, l) => \A q \in Users : pc'[q] = IF q = p THEN l ELSE pc[q]
  BY DEF Goto, TypeInv, TypeOK, Users, Procs
<1>3. \A o \in Owners : o # None
  BY ProcsAssumption DEF Procs
<1>4. CASE GuardEnter(p)
  <2>1. CASE Enqueue(p) /\ UNCHANGED holder
    BY <1>1, <1>4, <2>1, EnqueueStep DEF GuardEnter
  <2>2. CASE LockIsFree /\ holder' = p /\ Goto(p, "suspend") /\ UNCHANGED ahead
    <3>1. \A q \in Users : pc'[q] = IF q = p THEN "suspend" ELSE pc[q]
      BY <1>2, <2>2
    <3>2. pc[p] = "idle" /\ claim = None /\ claim' = None /\ holder = None
      BY <1>4, <2>2 DEF GuardEnter, LockIsFree
    <3>3. Waiters' = Waiters
      BY <3>1, <3>2 DEF Waiters, Users
    <3>4. QueueOrder' /\ ClaimantIsLast'
      BY <2>2, <3>2, <3>3 DEF GuardInv, QueueOrder, ClaimantIsLast
    <3>5. \A q \in Ops : q # p => ~InGuard(q)
      BY <1>1, <3>2, ProcsAssumption DEF GuardInv, HolderInGuard, Procs
    <3>6. HolderInGuard'
      BY <2>2, <3>1, <3>5 DEF HolderInGuard, InGuard, Users
    <3>7. \A o \in Owners : pc[o] # "queued" /\ ~OwnsPort(o)
      BY <1>3, <3>2 DEF GuardInv, ClaimByOwner
    <3>8. ClaimByOwner' /\ PortCleared'
      BY <1>1, <3>1, <3>7 DEF ClaimByOwner, PortCleared, OwnsPort, Users
    <3> QED
      BY <3>4, <3>6, <3>8 DEF GuardInv
  <2> QED
    BY <1>4, <2>1, <2>2 DEF GuardEnter
<1>5. CASE GuardGranted(p)
  <2>1. \A q \in Users : pc'[q] = IF q = p THEN "suspend" ELSE pc[q]
    BY <1>2, <1>5 DEF GuardGranted
  <2>2. QueueOrder' /\ ClaimantIsLast'
    BY <1>1, <1>5, LeaveStep DEF GuardGranted, IsNext
  <2>3. \A q \in Ops : ~InGuard(q)
    BY <1>1, <1>5, NextInLine DEF GuardGranted
  <2>4. HolderInGuard'
    BY <1>5, <2>1, <2>3 DEF GuardGranted, HolderInGuard, InGuard, Users
  <2>5. \A o \in Owners : ~OwnsPort(o)
    BY <1>5 DEF GuardGranted, IsNext, GuardInv, PortCleared
  <2>6. ClaimByOwner' /\ PortCleared'
    BY <1>1, <1>5, <2>1, <2>5
       DEF GuardGranted, GuardInv, ClaimByOwner, PortCleared, OwnsPort, Users
  <2> QED
    BY <2>2, <2>4, <2>6 DEF GuardInv
<1>6. CASE WedgeCleared(p) \/ WedgeTimesOut(p) \/ BodyEnds(p)
  <2>1. \E l \in {"body", "resume"} : Goto(p, l)
    BY <1>6 DEF WedgeCleared, WedgeTimesOut, BodyEnds, BodyOrResume
  <2>2. InGuard(p) /\ pc[p] # "queued" /\ UNCHANGED <<claim, holder, ahead>>
    BY <1>6 DEF WedgeCleared, WedgeTimesOut, BodyEnds, InGuard
  <2> QED
    BY <1>1, <2>1, <2>2, NeutralStep
<1> QED
  BY <1>4, <1>5, <1>6 DEF OpNext

LEMMA OwnerNextGuard ==
  ASSUME TypeInv, GuardInv, NEW p \in Owners, OwnerNext(p)
  PROVE  GuardInv'
<1>1. p \in Procs /\ p \in Users /\ p \notin Ops /\ p # None
  BY ProcsAssumption DEF Procs, Users
<1>2. \A l : Goto(p, l) => \A q \in Users : pc'[q] = IF q = p THEN l ELSE pc[q]
  BY DEF Goto, TypeInv, TypeOK, Users, Procs
<1>3. \A q \in Ops : q # None
  BY ProcsAssumption DEF Procs
<1>4. CASE ClaimDevice(p)
  <2>1. CASE Enqueue(p)
    BY <1>1, <1>4, <2>1, EnqueueStep DEF ClaimDevice
  <2>2. CASE LockIsFree /\ Goto(p, "suspend") /\ UNCHANGED ahead
    <3>1. \A q \in Users : pc'[q] = IF q = p THEN "suspend" ELSE pc[q]
      BY <1>2, <2>2
    <3>2. /\ pc[p] = "idle" /\ claim \in {None, p} /\ claim' = p
          /\ holder = None /\ holder' = None /\ Waiters = {}
      BY <1>4, <2>2 DEF ClaimDevice, LockIsFree
    <3>3. Waiters' = Waiters
      BY <3>1, <3>2 DEF Waiters, Users
    <3>4. QueueOrder' /\ ClaimantIsLast'
      BY <2>2, <3>2, <3>3 DEF GuardInv, QueueOrder, ClaimantIsLast
    <3>5. \A q \in Ops : ~InGuard(q) /\ pc[q] # "queued"
      BY <1>3, <3>2 DEF GuardInv, HolderInGuard, Waiters
    <3>6. \A q \in Ops : ~InGuard(q)' /\ pc'[q] # "queued"
      BY <1>1, <3>1, <3>5 DEF InGuard, Users
    <3>7. HolderInGuard' /\ PortCleared'
      BY <1>3, <3>2, <3>6 DEF HolderInGuard, PortCleared
    <3>8. ClaimByOwner'
      BY <1>1, <3>1, <3>2, ProcsAssumption
         DEF GuardInv, ClaimByOwner, OwnsPort, Users, Procs
    <3> QED
      BY <3>4, <3>7, <3>8 DEF GuardInv
  <2> QED
    BY <1>4, <2>1, <2>2 DEF ClaimDevice
<1>5. CASE PortIsClear(p)
  <2>1. \A q \in Users : pc'[q] = IF q = p THEN "suspend" ELSE pc[q]
    BY <1>2, <1>5 DEF PortIsClear
  <2>2. QueueOrder' /\ ClaimantIsLast'
    BY <1>1, <1>5, LeaveStep DEF PortIsClear, IsNext
  <2>3. claim = p /\ claim' = p
    BY <1>5 DEF PortIsClear, IsNext, GuardInv, ClaimByOwner
  <2>4. \A q \in Ops : ~InGuard(q) /\ pc[q] # "queued"
    BY <1>1, <1>5, <2>3, NextInLine DEF PortIsClear, Waiters
  <2>5. \A q \in Ops : ~InGuard(q)' /\ pc'[q] # "queued" /\ (InGuard(q)' <=> InGuard(q))
    BY <1>1, <2>1, <2>4 DEF InGuard, Users
  <2>6. HolderInGuard' /\ PortCleared'
    BY <1>5, <2>5 DEF PortIsClear, GuardInv, HolderInGuard, PortCleared
  <2>7. ClaimByOwner'
    BY <2>1, <2>3 DEF GuardInv, ClaimByOwner, OwnsPort, Users
  <2> QED
    BY <2>2, <2>6, <2>7 DEF GuardInv
<1>6. CASE WaitClearTimesOut(p)
  <2>1. \A q \in Users : pc'[q] = IF q = p THEN "idle" ELSE pc[q]
    BY <1>2, <1>6 DEF WaitClearTimesOut
  <2>2. QueueOrder' /\ ClaimantIsLast'
    BY <1>1, <1>6, LeaveStep DEF WaitClearTimesOut
  <2>3. claim = p /\ claim' = None
    BY <1>6 DEF WaitClearTimesOut, GuardInv, ClaimByOwner
  <2>4. \A q \in Ops : InGuard(q)' <=> InGuard(q)
    BY <1>1, <2>1 DEF InGuard, Users
  <2>5. \A o \in Owners : o # p => pc[o] # "queued" /\ ~OwnsPort(o)
    BY <2>3 DEF GuardInv, ClaimByOwner
  <2>6. \A o \in Owners : pc'[o] # "queued" /\ ~OwnsPort(o)'
    BY <2>1, <2>5 DEF OwnsPort, Users
  <2>7. HolderInGuard' /\ PortCleared' /\ ClaimByOwner'
    BY <1>6, <2>4, <2>6
       DEF WaitClearTimesOut, GuardInv, HolderInGuard, PortCleared, ClaimByOwner
  <2> QED
    BY <2>2, <2>7 DEF GuardInv
<1>7. CASE ObserverOpens(p)
  <2>1. Goto(p, "held") /\ OwnsPort(p) /\ pc[p] # "queued"
        /\ UNCHANGED <<claim, holder, ahead>>
    BY <1>7 DEF ObserverOpens, OwnsPort
  <2> QED
    BY <1>1, <2>1, NeutralStep
<1>8. CASE ObserverFails(p) \/ SoakEnds(p) \/ SoakLeaves(p)
  <2>1. PICK l \in {"resume", "idle"} :
           /\ Goto(p, l) /\ OwnsPort(p) /\ pc[p] # "queued"
           /\ claim' = None /\ UNCHANGED <<holder, ahead>>
    BY <1>8 DEF ObserverFails, SoakEnds, SoakLeaves, OwnsPort
  <2>2. \A q \in Users : pc'[q] = IF q = p THEN l ELSE pc[q]
    BY <1>2, <2>1
  <2>3. Waiters' = Waiters
    BY <2>1, <2>2 DEF Waiters, Users
  <2>4. None \notin Users /\ \A q \in Users : ahead[q] \subseteq Users
    BY ProcsAssumption DEF Users, Procs, TypeInv, TypeOK
  <2>5. QueueOrder' /\ ClaimantIsLast'
    BY <2>1, <2>3, <2>4 DEF GuardInv, QueueOrder, ClaimantIsLast, Users
  <2>6. \A q \in Ops : InGuard(q)' <=> InGuard(q)
    BY <1>1, <2>2 DEF InGuard, Users
  <2>7. claim = p
    BY <2>1 DEF GuardInv, ClaimByOwner
  <2>8. \A o \in Owners : pc'[o] # "queued" /\ ~OwnsPort(o)'
    BY <2>1, <2>2, <2>7 DEF GuardInv, ClaimByOwner, OwnsPort, Users
  <2>9. HolderInGuard' /\ PortCleared' /\ ClaimByOwner'
    BY <2>1, <2>6, <2>8 DEF GuardInv, HolderInGuard, PortCleared, ClaimByOwner
  <2> QED
    BY <2>5, <2>9 DEF GuardInv
<1>9. CASE SoakCancelled(p)
  <2>1. /\ Goto(p, "leaving") /\ OwnsPort(p) /\ pc[p] # "queued"
        /\ UNCHANGED <<claim, holder, ahead>>
    BY <1>9 DEF SoakCancelled, OwnsPort
  <2> QED
    BY <1>1, <2>1, NeutralStep
<1> QED
  BY <1>4, <1>5, <1>6, <1>7, <1>8, <1>9 DEF OwnerNext

\* Subscribers, runs and sweeps do not touch the lock, the queue or the claim.
LEMMA OthersGuard ==
  ASSUME GuardInv, UNCHANGED <<claim, holder, ahead>>, \A q \in Users : pc'[q] = pc[q]
  PROVE  GuardInv'
<1>1. Waiters' = Waiters
  BY DEF Waiters, Users
<1> QED
  BY <1>1 DEF GuardInv, QueueOrder, ClaimantIsLast, HolderInGuard, ClaimByOwner,
     PortCleared, InGuard, OwnsPort, Users

LEMMA BystanderGuard ==
  ASSUME TypeInv, GuardInv, NEW p \in Procs, p \notin Users,
         UNCHANGED <<claim, holder, ahead>>, NEW l, Goto(p, l)
  PROVE  GuardInv'
<1>1. \A q \in Users : pc'[q] = pc[q]
  BY DEF Goto, TypeInv, TypeOK, Users, Procs
<1> QED
  BY <1>1, OthersGuard

LEMMA ClientNextGuard ==
  ASSUME TypeInv, GuardInv, NEW p \in Clients, Subscribe(p) \/ Unsubscribe(p)
  PROVE  GuardInv'
<1>1. p \in Procs /\ p \notin Users
  BY ProcsAssumption DEF Procs, Users
<1> QED
  BY <1>1, BystanderGuard DEF Subscribe, Unsubscribe

LEMMA UsersAreNoRuns == \A q \in Users : q \in Procs \ Runs
BY ProcsAssumption DEF Users, Procs

LEMMA RunNextGuard ==
  ASSUME TypeInv, GuardInv, NEW p \in Runs, RunNext(p)
  PROVE  GuardInv'
<1>1. p \in Procs /\ p \notin Users
  BY ProcsAssumption DEF Procs, Users
<1>2. CASE RunChecks(p) \/ RunCommits(p) \/ RunRestores(p)
  <2>1. UNCHANGED <<claim, holder, ahead>> /\ \E l : Goto(p, l)
    BY <1>2 DEF RunChecks, RunCommits, RunRestores, VisitMonitor
  <2> QED
    BY <1>1, <2>1, BystanderGuard
<1>3. CASE RunnerStep(p)
  BY <1>3, RunnerMoves, UsersAreNoRuns, OthersGuard
<1> QED
  BY <1>2, <1>3 DEF RunNext, RunnerStep

LEMMA SweepNextGuard ==
  ASSUME TypeInv, GuardInv, NEW p \in Sweeps, SweepNext(p)
  PROVE  GuardInv'
<1>1. p \in Procs /\ p \notin Users
  BY ProcsAssumption DEF Procs, Users
<1>2. UNCHANGED <<claim, holder, ahead>> /\ \E l : Goto(p, l)
  BY DEF SweepNext, SweepGate, SweepBegins, SweepEnds, VisitMonitor
<1> QED
  BY <1>1, <1>2, BystanderGuard

\* A monitor call that returns leads an Op from suspend into the guard's body or
\* out of it, and from resume out of the guard, with the lock.
LEMMA MonitorCallGuard ==
  ASSUME TypeInv, GuardInv, NEW p \in Procs, MonitorCall(p)
  PROVE  GuardInv'
<1>1. UNCHANGED <<claim, ahead>>
  BY DEF MonitorCall
<1>2. CASE UNCHANGED <<pc, holder>>
  BY <1>1, <1>2 DEF GuardInv, QueueOrder, ClaimantIsLast, HolderInGuard, ClaimByOwner,
     PortCleared, InGuard, OwnsPort, Waiters
<1>3. CASE /\ Goto(p, ReturnsTo(p))
           /\ holder' = IF p \in Ops /\ pc[p] = "resume" THEN None ELSE holder
  <2>1. pc[p] \in Methods
    <3>1. CASE CallBegins(p)
      BY <3>1, CallIsMethod
    <3>2. CASE CallEnds(p)
      <4>1. monHolder = p
        BY <3>2 DEF CallEnds, OpenEnd, CloseJoined, CloseAbandoned
      <4> QED
        BY <4>1, ProcsAssumption DEF TypeInv, CallerInside
    <3> QED
      BY <3>1, <3>2 DEF MonitorCall
  <2>2. CASE p \notin Users
    <3>1. UNCHANGED holder
      BY <1>3, <2>2 DEF Users
    <3> QED
      BY <1>1, <1>3, <2>2, <3>1, BystanderGuard
  <2>3. CASE p \in Ops /\ pc[p] = "suspend"
    <3>1. ReturnsTo(p) \in {"wedged", "body", "resume"}
      BY <2>3, ProcsAssumption DEF ReturnsTo, BodyOrResume
    <3>2. UNCHANGED holder /\ InGuard(p) /\ p \notin Owners
      BY <1>3, <2>3, ProcsAssumption DEF InGuard
    <3> QED
      BY <1>1, <1>3, <2>3, <3>1, <3>2, NeutralStep
  <2>4. CASE p \in Owners /\ pc[p] = "suspend"
    <3>1. ReturnsTo(p) = "opening" /\ p \notin Ops
      BY <2>4, ProcsAssumption DEF ReturnsTo
    <3>2. UNCHANGED holder /\ OwnsPort(p)
      BY <1>3, <2>4, <3>1 DEF OwnsPort
    <3> QED
      BY <1>1, <1>3, <2>4, <3>1, <3>2, NeutralStep
  <2>5. CASE p \in Owners /\ pc[p] = "resume"
    <3>1. ReturnsTo(p) = "idle" /\ p \notin Ops
      BY <2>5, ProcsAssumption DEF ReturnsTo
    <3> QED
      BY <1>1, <1>3, <2>5, <3>1, NeutralStep
  <2>6. CASE p \in Ops /\ pc[p] = "resume"
    <3>1. ReturnsTo(p) = "idle" /\ p \notin Owners /\ p \in Users /\ p # None
      BY <2>6, ProcsAssumption DEF ReturnsTo, Users, Procs
    <3>2. holder = p /\ holder' = None
      BY <1>3, <2>6 DEF GuardInv, HolderInGuard, InGuard
    <3>3. \A q \in Users : pc'[q] = IF q = p THEN "idle" ELSE pc[q]
      BY <1>3, <3>1 DEF Goto, TypeInv, TypeOK, Users, Procs
    <3>4. Waiters' = Waiters
      BY <2>6, <3>3 DEF Waiters, Users
    <3>5. QueueOrder' /\ ClaimantIsLast'
      BY <1>1, <3>4 DEF GuardInv, QueueOrder, ClaimantIsLast
    <3>6. \A q \in Ops : ~InGuard(q)' /\ q # None
      BY <3>2, <3>3, ProcsAssumption DEF GuardInv, HolderInGuard, InGuard, Users, Procs
    <3>7. HolderInGuard'
      BY <3>2, <3>6 DEF HolderInGuard
    <3>8. ClaimByOwner' /\ PortCleared'
      BY <1>1, <3>1, <3>3, <3>6
         DEF GuardInv, ClaimByOwner, PortCleared, OwnsPort, Users
    <3> QED
      BY <3>5, <3>7, <3>8 DEF GuardInv
  <2>7. p \in Users => pc[p] \in {"suspend", "resume"}
    BY <2>1, ProcsAssumption DEF TypeInv, TypeOK, PCOf, OpPC, OwnerPC, Methods, Users
  <2> QED
    BY <2>2, <2>3, <2>4, <2>5, <2>6, <2>7 DEF Users
<1> QED
  BY <1>2, <1>3 DEF MonitorCall, CallContinues

LEMMA GuardInvInit == Init => GuardInv
<1> SUFFICES ASSUME Init PROVE GuardInv
  OBVIOUS
<1>1. \A p \in Users : pc[p] = "idle"
  BY ProcsAssumption DEF Init, Users, Procs
<1>2. Waiters = {} /\ \A p \in Users : ahead[p] = {}
  BY <1>1 DEF Init, Waiters, Users
<1> QED
  BY <1>1, <1>2, ProcsAssumption
     DEF Init, GuardInv, QueueOrder, ClaimantIsLast, HolderInGuard, ClaimByOwner,
         PortCleared, InGuard, OwnsPort, Users, Procs

LEMMA GuardInvNext == TypeInv /\ GuardInv /\ [Next]_vars => GuardInv'
<1> SUFFICES ASSUME TypeInv, GuardInv, [Next]_vars PROVE GuardInv'
  OBVIOUS
<1>1. CASE UNCHANGED vars
  BY <1>1 DEF vars, GuardInv, QueueOrder, ClaimantIsLast, HolderInGuard, ClaimByOwner,
     PortCleared, InGuard, OwnsPort, Waiters
<1>2. ASSUME NEW t \in Readers, ReaderExits(t) PROVE GuardInv'
  BY <1>2 DEF ReaderExits, GuardInv, QueueOrder, ClaimantIsLast, HolderInGuard,
     ClaimByOwner, PortCleared, InGuard, OwnsPort, Waiters
<1> QED
  BY <1>1, <1>2, OpNextGuard, OwnerNextGuard, ClientNextGuard, RunNextGuard,
     SweepNextGuard, MonitorCallGuard DEF Next

LEMMA Invariants == Spec => [](TypeInv /\ GuardInv)
BY TypeInvInit, TypeInvNext, GuardInvInit, GuardInvNext, PTL DEF Spec

LEMMA GuardInvExclusive == TypeInv /\ GuardInv => GuardExclusive
BY ProcsAssumption
   DEF TypeInv, GuardInv, HolderInGuard, ClaimByOwner, PortCleared, GuardExclusive, Procs

\* The inductive invariant of the guard holds of every behaviour.
THEOREM GuardInvariant == Spec => []GuardInv
BY Invariants, PTL

\* For any number of guarded operations, claimants, subscribers, runs and sweeps:
\* two operations are never inside the guard of one device together, and none is
\* inside it, or still queued for it, while a soak that waited the port clear
\* owns it (PortLocks.guard, claim and wait_clear).
THEOREM GuardIsExclusive == Spec => []GuardExclusive
BY Invariants, GuardInvExclusive, PTL

-----------------------------------------------------------------------------
(* PortArbiter implements PortOwnership.                                   *)

LEMMA OneUser ==
  ASSUME TypeInv, GuardExclusive, NEW p \in Users, NEW q \in Users, Uses(p), Uses(q)
  PROVE  p = q
<1>1. ASSUME NEW u \in Ops, Uses(u) PROVE InGuard(u)
  <2>1. pc[u] \in OpPC
    BY DEF TypeInv, TypeOK, PCOf, Procs
  <2> QED
    BY <1>1, <2>1 DEF Uses, OpPC, InGuard
<1>2. ASSUME NEW u \in Owners, Uses(u) PROVE OwnsPort(u)
  <2>1. pc[u] \in OwnerPC
    BY ProcsAssumption DEF TypeInv, TypeOK, PCOf, Procs
  <2> QED
    BY <1>2, <2>1 DEF Uses, OwnerPC, OwnsPort
<1> QED
  BY <1>1, <1>2 DEF GuardExclusive, Users

LEMMA OneUserNext ==
  ASSUME TypeInv', GuardExclusive', NEW p \in Users, NEW q \in Users, Uses(p)', Uses(q)'
  PROVE  p = q
<1>1. ASSUME NEW u \in Ops, Uses(u)' PROVE InGuard(u)'
  <2>1. pc'[u] \in OpPC
    BY DEF TypeInv, TypeOK, PCOf, Procs
  <2> QED
    BY <1>1, <2>1 DEF Uses, OpPC, InGuard
<1>2. ASSUME NEW u \in Owners, Uses(u)' PROVE OwnsPort(u)'
  <2>1. pc'[u] \in OwnerPC
    BY ProcsAssumption DEF TypeInv, TypeOK, PCOf, Procs
  <2> QED
    BY <1>2, <2>1 DEF Uses, OwnerPC, OwnsPort
<1> QED
  BY <1>1, <1>2 DEF GuardExclusive, Users

LEMMA UserOf ==
  ASSUME TypeInv, GuardExclusive
  PROVE  /\ \A p \in Users : Uses(p) => user = p
         /\ (\A p \in Users : ~Uses(p)) => user = None
<1>1. ASSUME NEW p \in Users, Uses(p) PROVE user = p
  <2>1. \A q \in Users : Uses(q) => q = p
    BY <1>1, OneUser
  <2> QED
    BY <1>1, <2>1 DEF user, Users
<1> QED
  BY <1>1 DEF user, Users

\* A step moves one process, or runs only.
LEMMA OneProcessMoves ==
  ASSUME TypeInv, [Next]_vars
  PROVE  \/ \A q \in Users : pc'[q] = pc[q]
         \/ \E p \in Procs : \E l : Goto(p, l)
<1>1. ASSUME NEW p \in Ops, OpNext(p) PROVE \E l : Goto(p, l)
  BY <1>1 DEF OpNext, GuardEnter, GuardGranted, WedgeCleared, WedgeTimesOut, BodyEnds,
     Enqueue
<1>2. ASSUME NEW p \in Owners, OwnerNext(p) PROVE \E l : Goto(p, l)
  BY <1>2 DEF OwnerNext, ClaimDevice, PortIsClear, WaitClearTimesOut, ObserverOpens,
     ObserverFails, SoakEnds, SoakCancelled, SoakLeaves, Enqueue
<1>3. ASSUME NEW p \in Clients, Subscribe(p) \/ Unsubscribe(p) PROVE \E l : Goto(p, l)
  BY <1>3 DEF Subscribe, Unsubscribe
<1>4. ASSUME NEW p \in Runs, RunNext(p)
      PROVE  (\A q \in Users : pc'[q] = pc[q]) \/ \E l : Goto(p, l)
  <2>1. CASE RunnerStep(p)
    BY <2>1, RunnerMoves, UsersAreNoRuns
  <2>2. CASE RunChecks(p) \/ RunCommits(p) \/ RunRestores(p)
    BY <2>2 DEF RunChecks, RunCommits, RunRestores, VisitMonitor
  <2> QED
    BY <1>4, <2>1, <2>2 DEF RunNext, RunnerStep
<1>5. ASSUME NEW p \in Sweeps, SweepNext(p) PROVE \E l : Goto(p, l)
  BY <1>5 DEF SweepNext, SweepGate, SweepBegins, SweepEnds, VisitMonitor
<1>6. ASSUME NEW p \in Procs, MonitorCall(p) PROVE pc' = pc \/ \E l : Goto(p, l)
  BY <1>6 DEF MonitorCall, CallContinues
<1>7. ASSUME NEW t \in Readers, ReaderExits(t) PROVE pc' = pc
  BY <1>7 DEF ReaderExits
<1>8. CASE UNCHANGED vars
  BY <1>8 DEF vars
<1> QED
  BY <1>1, <1>2, <1>3, <1>4, <1>5, <1>6, <1>7, <1>8 DEF Next, Procs

LEMMA StepRefines ==
  ASSUME TypeInv, GuardExclusive, TypeInv', GuardExclusive', [Next]_vars
  PROVE  [Ownership!Next]_user
<1>1. CASE \A q \in Users : pc'[q] = pc[q]
  BY <1>1 DEF user, Uses, Users
<1>2. ASSUME NEW p \in Procs, NEW l, Goto(p, l) PROVE [Ownership!Next]_user
  <2>1. \A q \in Users : q # p => (Uses(q)' <=> Uses(q))
    BY <1>2 DEF Goto, TypeInv, TypeOK, Uses, Users, Procs
  <2>2. CASE p \notin Users \/ (Uses(p)' <=> Uses(p))
    <3>1. \A q \in Users : Uses(q)' <=> Uses(q)
      BY <2>1, <2>2
    <3>2. CASE \E q \in Users : Uses(q)
      <4>1. PICK q \in Users : Uses(q) /\ Uses(q)'
        BY <3>1, <3>2
      <4>2. user = q
        BY <4>1, UserOf
      <4>3. \A u \in Users : Uses(u)' => u = q
        BY <4>1, OneUserNext
      <4>4. user' = q
        BY <4>1, <4>3 DEF user, Users
      <4> QED
        BY <4>2, <4>4
    <3>3. CASE \A q \in Users : ~Uses(q)
      <4>1. user = None
        BY <3>3, UserOf
      <4>2. \A q \in Users : ~Uses(q)'
        BY <3>1, <3>3
      <4>3. user' = None
        BY <4>2 DEF user, Users
      <4> QED
        BY <4>1, <4>3
    <3> QED
      BY <3>2, <3>3
  <2>3. CASE p \in Users /\ Uses(p) /\ ~Uses(p)'
    <3>1. user = p
      BY <2>3, UserOf
    <3>2. \A q \in Users : ~Uses(q)'
      BY <2>1, <2>3, OneUser
    <3>3. user' = None
      BY <3>2 DEF user, Users
    <3> QED
      BY <2>3, <3>1, <3>3 DEF Ownership!Next, Ownership!Drop, Users
  <2>4. CASE p \in Users /\ ~Uses(p) /\ Uses(p)'
    <3>1. \A q \in Users : Uses(q)' => q = p
      BY <2>4, OneUserNext
    <3>2. \A q \in Users : ~Uses(q)
      BY <2>1, <2>4, <3>1
    <3>3. user = None
      BY <3>2, UserOf
    <3>4. user' = p
      BY <2>4, <3>1 DEF user, Users
    <3> QED
      BY <2>4, <3>3, <3>4 DEF Ownership!Next, Ownership!Take, Users
  <2> QED
    BY <2>2, <2>3, <2>4
<1> QED
  BY <1>1, <1>2, OneProcessMoves

LEMMA InitRefines == Init => Ownership!Init
<1> SUFFICES ASSUME Init PROVE user = None
  BY DEF Ownership!Init
<1>1. \A p \in Users : ~Uses(p)
  BY ProcsAssumption DEF Init, Uses, Users, Procs
<1> QED
  BY <1>1 DEF user, Users

\* The device's port has one exclusive user at a time, and passes from one to
\* another only through nobody: PortLocks implements PortOwnership.
THEOREM ImplementsOwnership == Spec => ExclusiveUse
<1>1. TypeInv /\ GuardInv => GuardExclusive
  BY GuardInvExclusive
<1>2. Spec => [](TypeInv /\ GuardExclusive)
  BY Invariants, <1>1, PTL
<1> QED
  BY <1>2, InitRefines, StepRefines, PTL DEF Spec, ExclusiveUse, Ownership!Spec

-----------------------------------------------------------------------------
(* The books of the monitor.                                               *)

\* What the caller inside the monitor lock is doing there.
LockInv ==
  /\ monStage = "free" <=> monHolder = None
  /\ monHolder # None => mon.known
  /\ monStage = "open" => pc[monHolder] \in {"acquire", "resume"}
  /\ monStage = "close" => pc[monHolder] \in {"release", "suspend"}
  /\ monHolder # None /\ pc[monHolder] = "release" => mon.refs = 0

\* A step outside the monitor: one process moves, it is in none of the monitor's
\* methods before, and it does not forget that it owes the monitor a resume.
Outside(p) ==
  /\ monVars' = monVars /\ p \in Procs /\ pc[p] \notin Methods
  /\ \E l \in PCOf(p) : Goto(p, l)
  /\ Suspends(p) /\ mon.known => Suspends(p)'
  /\ p \in Owners => OwnerNext(p) /\ ~SoakCancelled(p)
  /\ p \in Clients => Subscribe(p) \/ Unsubscribe(p)
  /\ p \in Runs => RunChecks(p) \/ RunCommits(p) \/ RunRestores(p)
  /\ p \notin Runs => running' = running

\* What a move of one process says of whether it suspends.
LEMMA GotoSuspends ==
  ASSUME TypeOK, NEW p \in Procs, NEW l, Goto(p, l),
         l \in {"wedged", "body", "opening", "held", "driving", "exposed", "finishing", "cutting",
               "resume"}
  PROVE  Suspends(p)'
BY DEF TypeOK, Goto, Suspends

LEMMA OpStepsOutside ==
  ASSUME TypeOK, NEW p \in Ops, OpNext(p)
  PROVE  Outside(p)
<1>1. /\ PCOf(p) = OpPC /\ p \in Procs
      /\ p \notin Owners /\ p \notin Clients /\ p \notin Runs
  BY ProcsAssumption DEF PCOf, Procs
<1>2. monVars' = monVars /\ running' = running /\ pc[p] \notin Methods
  BY DEF OpNext, GuardEnter, GuardGranted, WedgeCleared, WedgeTimesOut, BodyEnds, IsNext,
     Methods
<1>3. \E l \in OpPC : Goto(p, l) /\ (Suspends(p) => l \in {"body", "resume"})
  BY <1>2 DEF OpNext, GuardEnter, GuardGranted, WedgeCleared, WedgeTimesOut, BodyEnds,
     Enqueue, BodyOrResume, IsNext, Suspends, Methods, OpPC
<1> QED
  BY <1>1, <1>2, <1>3, GotoSuspends DEF Outside

LEMMA OwnerStepsOutside ==
  ASSUME TypeOK, NEW p \in Owners, OwnerNext(p), ~SoakCancelled(p)
  PROVE  Outside(p)
<1>1. /\ PCOf(p) = OwnerPC /\ p \in Procs /\ p \notin Clients /\ p \notin Runs
  BY ProcsAssumption DEF PCOf, Procs
<1>2. monVars' = monVars /\ running' = running /\ pc[p] \notin Methods
  BY DEF OwnerNext, ClaimDevice, PortIsClear, WaitClearTimesOut, ObserverOpens,
     ObserverFails, SoakEnds, SoakLeaves, IsNext, Methods
<1>3. \E l \in OwnerPC : Goto(p, l) /\ (Suspends(p) => l \in {"held", "resume"})
  BY <1>2 DEF OwnerNext, ClaimDevice, PortIsClear, WaitClearTimesOut, ObserverOpens,
     ObserverFails, SoakEnds, SoakLeaves, Enqueue, IsNext, Suspends, Methods, OwnerPC
<1> QED
  BY <1>1, <1>2, <1>3, GotoSuspends DEF Outside

LEMMA ClientStepsOutside ==
  ASSUME TypeOK, NEW p \in Clients, Subscribe(p) \/ Unsubscribe(p)
  PROVE  Outside(p)
<1>1. PCOf(p) = ClientPC /\ p \in Procs /\ p \notin Owners /\ p \notin Runs
  BY ProcsAssumption DEF PCOf, Procs
<1>2. monVars' = monVars /\ running' = running /\ pc[p] \notin Methods /\ ~Suspends(p)
  BY DEF Subscribe, Unsubscribe, Methods, Suspends
<1>3. \E l \in ClientPC : Goto(p, l)
  BY DEF Subscribe, Unsubscribe, ClientPC
<1> QED
  BY <1>1, <1>2, <1>3 DEF Outside

LEMMA RunStepsOutside ==
  ASSUME TypeOK, NEW p \in Runs, RunChecks(p) \/ RunCommits(p) \/ RunRestores(p)
  PROVE  Outside(p)
<1>1. PCOf(p) = RunPC /\ p \in Procs /\ p \notin Owners /\ p \notin Clients
  BY ProcsAssumption DEF PCOf, Procs
<1>2. monVars' = monVars /\ pc[p] \notin Methods
  BY DEF RunChecks, RunCommits, RunRestores, Methods
<1>3. \E l \in RunPC : Goto(p, l) /\ (Suspends(p) /\ mon.known => l = "resume")
  BY <1>2 DEF RunChecks, RunCommits, RunRestores, VisitMonitor, Suspends, Methods, RunPC
<1> QED
  BY <1>1, <1>2, <1>3, GotoSuspends DEF Outside

LEMMA SweepStepsOutside ==
  ASSUME TypeOK, NEW p \in Sweeps, SweepNext(p)
  PROVE  Outside(p)
<1>1. /\ PCOf(p) = SweepPC /\ p \in Procs
      /\ p \notin Owners /\ p \notin Clients /\ p \notin Runs
  BY ProcsAssumption DEF PCOf, Procs
<1>2. monVars' = monVars /\ running' = running /\ pc[p] \notin Methods
  BY DEF SweepNext, SweepGate, SweepBegins, SweepEnds, Methods
<1>3. \E l \in SweepPC : Goto(p, l) /\ (Suspends(p) /\ mon.known => l = "resume")
  BY <1>2 DEF SweepNext, SweepGate, SweepBegins, SweepEnds, VisitMonitor, Suspends,
     Methods, SweepPC
<1> QED
  BY <1>1, <1>2, <1>3, GotoSuspends DEF Outside

\* The mover of a step, as far as the monitor can tell.
LEMMA StepKinds ==
  ASSUME TypeOK, [Next]_vars
  PROVE  \/ UNCHANGED vars
         \/ \E p \in Procs : Outside(p)
         \/ \E p \in Runs : RunnerStep(p)
         \/ \E p \in Owners : SoakCancelled(p)
         \/ \E p \in Procs : MonitorCall(p)
         \/ \E t \in Readers : ReaderExits(t)
<1>1. ASSUME NEW p \in Runs, RunNext(p)
      PROVE  RunnerStep(p) \/ Outside(p)
  BY <1>1, RunStepsOutside DEF RunNext, RunnerStep
<1>2. ASSUME NEW p \in Owners, OwnerNext(p)
      PROVE  SoakCancelled(p) \/ Outside(p)
  BY <1>2, OwnerStepsOutside
<1> QED
  BY <1>1, <1>2, OpStepsOutside, ClientStepsOutside, SweepStepsOutside DEF Next, Procs

\* A soak that is cancelled in its suspend frees the monitor lock if it has it.
LEMMA CancelMoves ==
  ASSUME TypeInv, NEW p \in Owners, SoakCancelled(p)
  PROVE  /\ UNCHANGED <<alive, stopped, claim, running>>
         /\ p \in Procs /\ p \notin Clients /\ p \notin Runs /\ pc[p] = "suspend"
         /\ \A q \in Procs : pc'[q] = IF q = p THEN "leaving" ELSE pc[q]
         /\ \/ monHolder # p /\ UNCHANGED <<mon, monHolder, monStage>>
            \/ monHolder = p /\ Return /\ mon' = [mon EXCEPT !.left = TRUE]
         /\ /\ mon'.known = mon.known /\ mon'.refs = mon.refs
            /\ mon'.suspended = mon.suspended /\ mon'.thread = mon.thread
<1>1. mon \in MonRecord
  BY DEF TypeInv, TypeOK, MonRecord
<1> QED
  BY <1>1, ProcsAssumption DEF SoakCancelled, Goto, TypeInv, TypeOK, Procs, MonRecord

\* A call of the monitor keeps the lock and its caller where it is, or frees the
\* lock and lets its caller go on.
LEMMA CallMoves ==
  ASSUME TypeInv, LockInv, NEW p \in Procs, MonitorCall(p)
  PROVE  /\ p # None /\ pc[p] \in Methods /\ monHolder \in {None, p}
         /\ \/ monHolder' = p /\ pc' = pc
            \/ monHolder' = None /\ Goto(p, ReturnsTo(p))
<1>1. p # None
  BY ProcsAssumption
<1>2. CASE CallBegins(p)
  <2>1. pc[p] \in Methods /\ monHolder = None
    BY <1>2, CallIsMethod DEF CallBegins
  <2>2. monHolder' \in {None, p}
    BY <1>2 DEF CallBegins, Acquire, Release, Suspend, Resume, OpenBegin, CloseBegin,
       Await, Return
  <2> QED
    BY <1>1, <2>1, <2>2 DEF MonitorCall, CallContinues
<1>3. CASE CallEnds(p)
  <2>1. monHolder = p /\ monHolder' = None
    BY <1>3 DEF CallEnds, OpenEnd, CloseJoined, CloseAbandoned, Return
  <2>2. pc[p] \in Methods
    BY <1>1, <2>1 DEF TypeInv, CallerInside
  <2> QED
    BY <1>1, <2>1, <2>2 DEF MonitorCall, CallContinues
<1> QED
  BY <1>2, <1>3 DEF MonitorCall

LEMMA CallLock ==
  ASSUME TypeInv, LockInv, NEW p \in Procs, MonitorCall(p)
  PROVE  LockInv'
<1>1. p # None /\ pc[p] \in Methods /\ monHolder \in {None, p}
  BY CallMoves
<1>2. CASE monHolder' = None
  <2>1. monStage' = "free"
    BY <1>1, <1>2 DEF MonitorCall, CallBegins, CallEnds, Acquire, Release, Suspend, Resume,
       OpenBegin, CloseBegin, OpenEnd, CloseJoined, CloseAbandoned, Await, Return
  <2> QED
    BY <1>2, <2>1 DEF LockInv
<1>3. CASE monHolder' # None
  <2>1. CallBegins(p) /\ monHolder' = p /\ pc' = pc
    BY <1>1, <1>3, CallMoves DEF MonitorCall, CallEnds, OpenEnd, CloseJoined,
       CloseAbandoned, Return
  <2>2. \/ monStage' = "open" /\ mon'.known /\ pc[p] \in {"acquire", "resume"}
        \/ /\ monStage' = "close" /\ mon'.known /\ pc[p] \in {"release", "suspend"}
           /\ pc[p] = "release" => mon'.refs = 0
    <3>1. mon \in MonRecord
      BY DEF TypeInv, TypeOK, MonRecord
    <3>2. CASE Acquire(p)
      BY <1>3, <3>1, <3>2 DEF Acquire, OpenBegin, Await, Return, MonRecord
    <3>3. CASE Release(p)
      BY <1>3, <3>1, <3>3 DEF Release, CloseBegin, Await, Return, MonRecord
    <3>4. CASE Suspend(p)
      BY <1>3, <3>1, <3>4 DEF Suspend, CloseBegin, Await, Return, MonRecord
    <3>5. CASE Resume(p)
      BY <1>3, <3>1, <3>5 DEF Resume, OpenBegin, Await, Return, MonRecord
    <3> QED
      BY <2>1, <3>2, <3>3, <3>4, <3>5 DEF CallBegins
  <2> QED
    BY <1>1, <2>1, <2>2 DEF LockInv
<1> QED
  BY <1>2, <1>3

LEMMA LockInvNext == TypeInv /\ LockInv /\ [Next]_vars => LockInv'
<1> SUFFICES ASSUME TypeInv, LockInv, [Next]_vars PROVE LockInv'
  OBVIOUS
<1>1. CASE UNCHANGED vars
  BY <1>1 DEF vars, monVars, LockInv
<1>2. ASSUME NEW p \in Procs, Outside(p) PROVE LockInv'
  <2>1. PICK l : Goto(p, l)
    BY <1>2 DEF Outside
  <2>2. monHolder # None => pc'[monHolder] = pc[monHolder]
    BY <1>2, <2>1 DEF Outside, Goto, TypeInv, TypeOK, CallerInside
  <2>3. monStage \in {"open", "close"} => monHolder # None
    BY DEF LockInv
  <2> QED
    BY <1>2, <2>2, <2>3 DEF Outside, monVars, LockInv
<1>3. ASSUME NEW p \in Runs, RunnerStep(p) PROVE LockInv'
  <2>1. monStage \in {"open", "close"} => monHolder # None
    BY DEF LockInv
  <2> QED
    BY <1>3, <2>1, RunnerMoves DEF LockInv, Return
<1>5. ASSUME NEW p \in Owners, SoakCancelled(p) PROVE LockInv'
  <2>1. /\ monStage \in {"open", "close"} => monHolder # None
        /\ monHolder \in Procs \cup {None}
    BY DEF LockInv, TypeInv, TypeOK
  <2>2. CASE monHolder = p /\ Return
    BY <1>5, <2>2 DEF LockInv, Return
  <2>3. CASE monHolder # p /\ UNCHANGED <<mon, monHolder, monStage>>
    BY <1>5, <2>1, <2>3, CancelMoves DEF LockInv
  <2> QED
    BY <1>5, <2>2, <2>3, CancelMoves
<1>4. ASSUME NEW t \in Readers, ReaderExits(t) PROVE LockInv'
  BY <1>4 DEF ReaderExits, ReaderStops, ReaderFails, LockInv
<1> QED
  BY <1>1, <1>2, <1>3, <1>4, <1>5, CallLock, StepKinds DEF TypeInv

\* Whether a subscriber's reference is in the count.
Subscribers == {c \in Clients : Counted(c)}

LEMMA SubscribersFinite ==
  IsFiniteSet(Subscribers) /\ IsFiniteSet(Subscribers') /\ Cardinality(Subscribers) \in Nat
<1>1. Subscribers \subseteq Clients /\ Subscribers' \subseteq Clients
  BY DEF Subscribers
<1> QED
  BY <1>1, ProcsAssumption, FS_Subset, FS_CardinalityType

\* What one call does to the count.
CountWrites(p) ==
  \/ /\ pc[p] = "acquire" /\ monHolder = None
     /\ mon'.refs = mon.refs + 1 /\ mon'.known
  \/ /\ pc[p] = "release" /\ monHolder = None
     /\ mon.known /\ mon.refs > 0 => mon'.refs = mon.refs - 1
     /\ mon'.refs = 0 /\ mon.known => (mon'.known <=> monHolder' = p)
     /\ mon'.refs > 0 => mon'.known = mon.known /\ monHolder' = None
     /\ ~mon.known => mon' = mon
  \/ /\ pc[p] = "release" /\ monHolder = p
     /\ mon'.refs = 0 /\ ~mon'.known /\ monHolder' = None
  \/ /\ pc[p] \in {"suspend", "resume"} \/ (pc[p] = "acquire" /\ monHolder = p)
     /\ mon'.refs = mon.refs /\ mon'.known = mon.known

LEMMA CallCounts ==
  ASSUME TypeInv, LockInv, NEW p \in Procs, MonitorCall(p)
  PROVE  CountWrites(p)
<1>1. mon \in MonRecord
  BY DEF TypeInv, TypeOK, MonRecord
<1>2. p # None
  BY ProcsAssumption
<1>3. CASE CallBegins(p)
  <2>1. monHolder = None
    BY <1>3 DEF CallBegins
  <2>2. CASE Acquire(p)
    BY <1>1, <2>1, <2>2 DEF Acquire, OpenBegin, Await, Return, MonRecord, CountWrites
  <2>3. CASE Release(p)
    <3>1. pc[p] = "release"
      BY <2>3 DEF Release
    <3> QED
      BY <1>1, <1>2, <2>1, <2>3, <3>1 DEF Release, CloseBegin, AfterClose, NoMonitor, Await,
         Return, MonRecord, CountWrites
  <2>4. CASE Suspend(p)
    <3>1. pc[p] = "suspend"
      BY <2>4 DEF Suspend
    <3> QED
      BY <1>1, <2>4, <3>1 DEF Suspend, CloseBegin, AfterClose, Await, Return, MonRecord,
         CountWrites
  <2>5. CASE Resume(p)
    BY <1>1, <2>5 DEF Resume, OpenBegin, Await, Return, MonRecord, CountWrites
  <2> QED
    BY <1>3, <2>2, <2>3, <2>4, <2>5 DEF CallBegins
<1>4. CASE CallEnds(p)
  <2>1. monHolder = p
    BY <1>4 DEF CallEnds, OpenEnd, CloseJoined, CloseAbandoned
  <2>2. CASE OpenEnd(p)
    <3>1. pc[p] \in {"acquire", "resume"}
      BY <1>2, <2>1, <2>2 DEF OpenEnd, LockInv
    <3> QED
      BY <1>1, <2>1, <2>2, <3>1 DEF OpenEnd, StartReader, MonRecord, CountWrites
  <2>3. CASE CloseJoined(p) \/ CloseAbandoned(p)
    <3>1. pc[p] \in {"release", "suspend"}
      BY <1>2, <2>1, <2>3 DEF CloseJoined, CloseAbandoned, LockInv
    <3> QED
      BY <1>1, <2>1, <2>3, <3>1 DEF CloseJoined, CloseAbandoned, AfterClose, NoMonitor,
         Return, MonRecord, CountWrites
  <2> QED
    BY <1>4, <2>2, <2>3 DEF CallEnds
<1> QED
  BY <1>3, <1>4 DEF MonitorCall

\* Only subscribers subscribe.
LEMMA SubscriberCalls ==
  ASSUME TypeInv, NEW p \in Procs, pc[p] \in {"acquire", "release"}
  PROVE  p \in Clients
BY ProcsAssumption DEF TypeInv, TypeOK, PCOf, OpPC, OwnerPC, ClientPC, RunPC, SweepPC, Procs

\* The effect of a call on the set of those who are counted.
LEMMA CallSubscribers ==
  ASSUME TypeInv, LockInv, NEW p \in Procs, MonitorCall(p)
  PROVE  IF pc[p] = "acquire" /\ monHolder = None
           THEN p \notin Subscribers /\ Subscribers' = Subscribers \cup {p}
         ELSE IF pc[p] = "release" /\ monHolder = None
           THEN p \in Subscribers /\ Subscribers' = Subscribers \ {p}
         ELSE Subscribers' = Subscribers
<1>1. /\ p # None /\ pc[p] \in Methods /\ monHolder \in {None, p}
      /\ \/ monHolder' = p /\ pc' = pc
         \/ monHolder' = None /\ Goto(p, ReturnsTo(p))
  BY CallMoves
<1>2. \A c \in Clients : c \in Procs /\ c # None
  BY ProcsAssumption DEF Procs
<1>3. \A c \in Clients : c # p => (Counted(c)' <=> Counted(c))
  BY <1>1, <1>2 DEF Counted, Goto, TypeInv, TypeOK
<1>4. monHolder' = None => pc'[p] = ReturnsTo(p)
  BY <1>1 DEF Goto, TypeInv, TypeOK
<1>5. CASE pc[p] = "acquire"
  <2>1. ReturnsTo(p) = "subscribed"
    BY <1>5 DEF ReturnsTo
  <2>2. p \in Clients /\ Counted(p)' /\ (Counted(p) <=> monHolder = p)
    BY <1>1, <1>4, <1>5, <2>1, SubscriberCalls DEF Counted
  <2> QED
    BY <1>1, <1>3, <1>5, <2>2 DEF Subscribers
<1>6. CASE pc[p] = "release"
  <2>1. ReturnsTo(p) = "idle"
    BY <1>6 DEF ReturnsTo
  <2>2. p \in Clients /\ ~Counted(p)' /\ (Counted(p) <=> monHolder # p)
    BY <1>1, <1>4, <1>6, <2>1, SubscriberCalls DEF Counted
  <2> QED
    BY <1>1, <1>3, <1>6, <2>2 DEF Subscribers
<1>7. CASE pc[p] \notin {"acquire", "release"}
  <2>1. p \in Clients => FALSE
    BY <1>1, <1>7, ProcsAssumption DEF TypeInv, TypeOK, PCOf, ClientPC, Methods
  <2> QED
    BY <1>3, <1>7, <2>1 DEF Subscribers
<1> QED
  BY <1>5, <1>6, <1>7

LEMMA CallRefs ==
  ASSUME TypeInv, LockInv, RefsMatchSubscribers, NEW p \in Procs, MonitorCall(p)
  PROVE  RefsMatchSubscribers'
<1>1. /\ p # None /\ pc[p] \in Methods /\ monHolder \in {None, p}
      /\ \/ monHolder' = p /\ pc' = pc
         \/ monHolder' = None /\ Goto(p, ReturnsTo(p))
  BY CallMoves
<1>2. mon.refs = Cardinality(Subscribers) /\ mon.refs \in Nat
  BY SubscribersFinite DEF RefsMatchSubscribers, Subscribers
<1>3. CountWrites(p)
  BY CallCounts
<1>4. CASE pc[p] = "acquire" /\ monHolder = None
  <2>1. p \notin Subscribers /\ Subscribers' = Subscribers \cup {p}
    BY <1>4, CallSubscribers
  <2>2. Cardinality(Subscribers') = Cardinality(Subscribers) + 1
    BY <2>1, SubscribersFinite, FS_AddElement
  <2>3. mon'.refs = mon.refs + 1 /\ mon'.known
    BY <1>1, <1>3, <1>4 DEF CountWrites
  <2> QED
    BY <1>2, <2>2, <2>3 DEF RefsMatchSubscribers, Subscribers
<1>5. CASE pc[p] = "release" /\ monHolder = None
  <2>1. p \in Subscribers /\ Subscribers' = Subscribers \ {p}
    BY <1>5, CallSubscribers
  <2>2. Cardinality(Subscribers') = Cardinality(Subscribers) - 1
    BY <2>1, SubscribersFinite, FS_RemoveElement
  <2>3. Subscribers # {} /\ mon.refs > 0
    BY <1>2, <2>1, SubscribersFinite, FS_EmptySet
  <2>4. mon.known
    BY <2>3 DEF RefsMatchSubscribers
  <2>5. /\ mon'.refs = mon.refs - 1
        /\ mon'.refs = 0 => (mon'.known <=> monHolder' = p)
        /\ mon'.refs > 0 => mon'.known /\ monHolder' = None
    BY <1>1, <1>3, <1>5, <2>3, <2>4 DEF CountWrites
  <2>6. monHolder' = p <=> monHolder' # None /\ pc'[monHolder'] = "release"
    BY <1>1, <1>5
  <2>7. mon'.refs = Cardinality(Subscribers') /\ (mon'.refs = 0 \/ mon'.refs > 0)
    BY <1>2, <2>2, <2>3, <2>5
  <2>8. mon'.known <=> mon'.refs > 0 \/ monHolder' = p
    <3>1. CASE mon'.refs = 0
      BY <2>5, <3>1
    <3>2. CASE mon'.refs > 0
      BY <2>5, <3>2
    <3> QED
      BY <2>7, <3>1, <3>2
  <2> QED
    BY <2>6, <2>7, <2>8 DEF RefsMatchSubscribers, Subscribers
<1>6. CASE pc[p] = "release" /\ monHolder = p
  <2>1. Subscribers' = Subscribers
    BY <1>1, <1>6, CallSubscribers
  <2>2. mon.refs = 0 /\ mon'.refs = 0 /\ ~mon'.known /\ monHolder' = None
    BY <1>1, <1>3, <1>6 DEF CountWrites, LockInv
  <2> QED
    BY <1>2, <2>1, <2>2 DEF RefsMatchSubscribers, Subscribers
<1>7. CASE pc[p] \in {"suspend", "resume"} \/ (pc[p] = "acquire" /\ monHolder = p)
  <2>1. Subscribers' = Subscribers
    BY <1>1, <1>7, CallSubscribers
  <2>2. mon'.refs = mon.refs /\ mon'.known = mon.known
    BY <1>1, <1>3, <1>7 DEF CountWrites
  <2>3. monHolder' # None => monHolder' = p /\ pc'[p] # "release"
    BY <1>1, <1>7
  <2>4. mon.known <=> mon.refs > 0
    BY <1>1, <1>7 DEF RefsMatchSubscribers
  <2> QED
    BY <1>2, <2>1, <2>2, <2>3, <2>4 DEF RefsMatchSubscribers, Subscribers
<1> QED
  BY <1>1, <1>4, <1>5, <1>6, <1>7 DEF Methods

\* A step that neither counts nor discounts anybody.
LEMMA SameSubscribers ==
  ASSUME RefsMatchSubscribers, mon'.refs = mon.refs, mon'.known = mon.known,
         \A c \in Clients : Counted(c)' <=> Counted(c),
         (monHolder # None /\ pc[monHolder] = "release")
           <=> (monHolder' # None /\ pc'[monHolder'] = "release")
  PROVE  RefsMatchSubscribers'
<1>1. Subscribers' = Subscribers
  BY DEF Subscribers
<1>2. mon'.refs = Cardinality(Subscribers')
  BY <1>1 DEF RefsMatchSubscribers, Subscribers
<1> QED
  BY <1>2 DEF RefsMatchSubscribers, Subscribers

LEMMA RefsNext == TypeInv /\ LockInv /\ RefsMatchSubscribers /\ [Next]_vars => RefsMatchSubscribers'
<1> SUFFICES ASSUME TypeInv, LockInv, RefsMatchSubscribers, [Next]_vars
             PROVE  RefsMatchSubscribers'
  OBVIOUS
<1>a. \A c \in Clients : c \in Procs /\ c # None
  BY ProcsAssumption DEF Procs
<1>1. CASE UNCHANGED vars
  BY <1>1, SameSubscribers DEF vars, monVars, Counted
<1>2. ASSUME NEW p \in Procs, Outside(p) PROVE RefsMatchSubscribers'
  <2>1. PICK l \in PCOf(p) : Goto(p, l)
    BY <1>2 DEF Outside
  <2>2. mon' = mon /\ monHolder' = monHolder /\ pc[p] \notin Methods
    BY <1>2 DEF Outside, monVars
  <2>3. monHolder # None => monHolder # p /\ pc'[monHolder] = pc[monHolder]
    BY <2>1, <2>2 DEF Goto, TypeInv, TypeOK, CallerInside
  <2>4. \A c \in Clients : c # p => (Counted(c)' <=> Counted(c))
    BY <1>a, <2>1, <2>2 DEF Goto, TypeInv, TypeOK, Counted
  <2>5. p \in Clients => (Counted(p)' <=> Counted(p))
    <3>1. SUFFICES ASSUME p \in Clients PROVE Counted(p)' <=> Counted(p)
      OBVIOUS
    <3>2. pc[p] \in {"idle", "subscribed"} /\ pc'[p] = l /\ l \in ClientPC /\ monHolder # p
      BY <1>a, <2>1, <2>2, <2>3, <3>1, ProcsAssumption
         DEF Goto, TypeInv, TypeOK, PCOf, ClientPC, Methods
    <3>3. \/ pc[p] = "idle" /\ pc'[p] = "acquire"
          \/ pc[p] = "subscribed" /\ pc'[p] = "release"
      BY <1>2, <1>a, <3>1 DEF Outside, Subscribe, Unsubscribe, Goto, TypeInv, TypeOK
    <3> QED
      BY <2>2, <3>2, <3>3 DEF Counted
  <2> QED
    BY <2>2, <2>3, <2>4, <2>5, SameSubscribers
<1>3. ASSUME NEW p \in Runs, RunnerStep(p) PROVE RefsMatchSubscribers'
  <2>1. \A c \in Clients : c \in Procs \ Runs /\ c \notin Runs
    BY ProcsAssumption DEF Procs
  <2>2. \A c \in Clients : pc'[c] = pc[c] /\ (monHolder' = c <=> monHolder = c)
    BY <1>3, <1>a, <2>1, RunnerMoves DEF Return
  <2>3. (monHolder # None /\ pc[monHolder] = "release")
          <=> (monHolder' # None /\ pc'[monHolder'] = "release")
    BY <1>3, RunnerMoves DEF Return
  <2>4. mon' = mon
    BY <1>3, RunnerMoves
  <2> QED
    BY <2>2, <2>3, <2>4, SameSubscribers DEF Counted
<1>5. ASSUME NEW p \in Owners, SoakCancelled(p) PROVE RefsMatchSubscribers'
  <2>1. \A c \in Clients : pc'[c] = pc[c] /\ (monHolder' = c <=> monHolder = c)
    BY <1>5, <1>a, CancelMoves DEF Return
  <2>2. (monHolder # None /\ pc[monHolder] = "release")
          <=> (monHolder' # None /\ pc'[monHolder'] = "release")
    BY <1>5, CancelMoves DEF Return, TypeInv, TypeOK
  <2> QED
    BY <1>5, <2>1, <2>2, CancelMoves, SameSubscribers DEF Counted
<1>4. ASSUME NEW t \in Readers, ReaderExits(t) PROVE RefsMatchSubscribers'
  BY <1>4, SameSubscribers DEF ReaderExits, ReaderStops, ReaderFails, Counted
<1> QED
  BY <1>1, <1>2, <1>3, <1>4, <1>5, CallRefs, StepKinds DEF TypeInv

\* Which reader threads there are: but for those that were told to stop, only the
\* one the monitor has, and a monitor nobody knows has none.
ThreadInv ==
  /\ ~mon.known => mon.thread = None /\ ~mon.suspended
  /\ monStage = "open" => mon.thread = None /\ ~mon.suspended
  /\ monStage = "close" => mon.thread \in stopped
  /\ alive \subseteq stopped \cup {mon.thread}

LEMMA OpenBeginThreads ==
  ASSUME MonTypeOK, ThreadInv, NEW p \in Procs, NEW m \in MonRecord, OpenBegin(p, m),
         m.known, ~m.suspended, m.thread = mon.thread
  PROVE  ThreadInv'
<1>1. CASE MayOpen(m) /\ mon' = [m EXCEPT !.thread = None] /\ UNCHANGED <<alive, stopped>>
  BY <1>1 DEF MayOpen, ThreadInv, MonTypeOK, MonRecord, OpenBegin, Await, Return
<1>2. CASE mon' = m /\ Return /\ UNCHANGED <<alive, stopped>>
  BY <1>2 DEF ThreadInv, MonTypeOK, MonRecord, Return
<1> QED
  BY <1>1, <1>2 DEF OpenBegin

LEMMA CloseBeginThreads ==
  ASSUME MonTypeOK, ThreadInv, NEW p \in Procs, NEW m \in MonRecord, CloseBegin(p, m),
         m.known, m.thread = mon.thread
  PROVE  ThreadInv'
<1>1. CASE m.thread = None /\ mon' = AfterClose(p, m) /\ Return /\ UNCHANGED <<alive, stopped>>
  <2>1. mon' = m \/ mon' = NoMonitor
    BY <1>1 DEF AfterClose
  <2>2. mon'.thread = None /\ (mon'.known \/ ~mon'.suspended)
    BY <1>1, <2>1 DEF NoMonitor, MonRecord
  <2> QED
    BY <1>1, <2>2 DEF ThreadInv, MonTypeOK, Return
<1>2. CASE /\ mon' = m /\ monStage' = "close" /\ m.thread # None
           /\ alive' = alive /\ stopped' = stopped \cup {m.thread}
  BY <1>2 DEF ThreadInv
<1> QED
  BY <1>1, <1>2 DEF CloseBegin, Await

LEMMA CallThreads ==
  ASSUME TypeInv, LockInv, ThreadInv, NEW p \in Procs, MonitorCall(p)
  PROVE  ThreadInv'
<1>1. mon \in MonRecord /\ MonTypeOK
  BY DEF TypeInv, TypeOK, MonRecord, MonTypeOK
<1>2. CASE Acquire(p)
  <2> DEFINE m == [mon EXCEPT !.known = TRUE, !.refs = @ + 1]
  <2>1. m \in MonRecord /\ m.known /\ m.thread = mon.thread /\ m.suspended = mon.suspended
    <3>1. mon.refs + 1 \in Nat
      BY <1>1 DEF MonRecord
    <3> QED
      BY <1>1, <3>1 DEF MonRecord
  <2>2. CASE ~m.suspended /\ OpenBegin(p, m)
    BY <1>1, <2>1, <2>2, OpenBeginThreads
  <2>3. CASE mon' = m /\ Return /\ UNCHANGED <<alive, stopped>>
    BY <2>1, <2>3 DEF ThreadInv, Return
  <2> QED
    BY <1>2, <2>2, <2>3 DEF Acquire
<1>3. CASE Release(p)
  <2> DEFINE m == [mon EXCEPT !.refs = IF @ = 0 THEN 0 ELSE @ - 1]
  <2>1. m \in MonRecord /\ m.known = mon.known /\ m.thread = mon.thread
        /\ m.suspended = mon.suspended
    BY <1>1 DEF MonRecord
  <2>2. CASE mon.known /\ CloseBegin(p, m)
    BY <1>1, <2>1, <2>2, CloseBeginThreads
  <2>3. CASE mon' \in {m, mon} /\ Return /\ UNCHANGED <<alive, stopped>>
    BY <2>1, <2>3 DEF ThreadInv, Return
  <2> QED
    BY <1>3, <2>2, <2>3 DEF Release
<1>4. CASE Suspend(p)
  <2> DEFINE m == [mon EXCEPT !.suspended = TRUE]
  <2>1. m \in MonRecord /\ m.known = mon.known /\ m.thread = mon.thread
    BY <1>1 DEF MonRecord
  <2>2. CASE mon.known /\ CloseBegin(p, m)
    BY <1>1, <2>1, <2>2, CloseBeginThreads
  <2>3. CASE Return /\ UNCHANGED <<mon, alive, stopped>>
    BY <2>3 DEF ThreadInv, Return
  <2> QED
    BY <1>4, <2>2, <2>3 DEF Suspend
<1>5. CASE Resume(p)
  <2> DEFINE m == [mon EXCEPT !.suspended = FALSE, !.left = FALSE]
  <2>1. m \in MonRecord /\ m.known = mon.known /\ m.thread = mon.thread /\ ~m.suspended
    BY <1>1 DEF MonRecord
  <2>2. CASE mon.known /\ OpenBegin(p, m)
    BY <1>1, <2>1, <2>2, OpenBeginThreads
  <2>3. CASE mon' \in {m, mon} /\ Return /\ UNCHANGED <<alive, stopped>>
    BY <2>1, <2>3 DEF ThreadInv, Return
  <2> QED
    BY <1>5, <2>2, <2>3 DEF Resume
<1>6. CASE OpenEnd(p)
  <2>1. monStage' = "free" /\ mon.thread = None
    BY <1>6 DEF OpenEnd, Return, ThreadInv
  <2>2. mon.known
    BY <1>6, ProcsAssumption DEF OpenEnd, LockInv
  <2>3. CASE StartReader
    <3>1. PICK t \in Readers \ alive :
            /\ mon' = [mon EXCEPT !.thread = t]
            /\ alive' = alive \cup {t} /\ stopped' = stopped \ {t}
      BY <2>3 DEF StartReader
    <3>2. mon'.thread = t /\ mon'.known /\ alive \subseteq stopped
      BY <1>1, <2>1, <2>2, <3>1, ReadersAssumption DEF MonRecord, MonTypeOK, ThreadInv
    <3> QED
      BY <2>1, <3>1, <3>2 DEF ThreadInv
  <2>4. CASE UNCHANGED <<mon, alive, stopped>>
    BY <2>1, <2>4 DEF ThreadInv
  <2> QED
    BY <1>6, <2>3, <2>4 DEF OpenEnd
<1>7. CASE CloseJoined(p) \/ CloseAbandoned(p)
  <2>1. monStage' = "free" /\ mon.thread \in stopped /\ UNCHANGED <<alive, stopped>>
    BY <1>7 DEF CloseJoined, CloseAbandoned, Return, ThreadInv
  <2>2. alive' \subseteq stopped'
    BY <2>1 DEF ThreadInv
  <2>3. ~mon'.known => mon'.thread = None /\ ~mon'.suspended
    <3>1. mon' \in {NoMonitor, mon, [mon EXCEPT !.thread = None]}
      BY <1>7 DEF CloseJoined, CloseAbandoned, AfterClose
    <3> QED
      BY <1>1, <3>1 DEF NoMonitor, MonRecord, ThreadInv
  <2> QED
    BY <2>1, <2>2, <2>3 DEF ThreadInv
<1> QED
  BY <1>2, <1>3, <1>4, <1>5, <1>6, <1>7 DEF MonitorCall, CallBegins, CallEnds

LEMMA ThreadsNext == TypeInv /\ LockInv /\ ThreadInv /\ [Next]_vars => ThreadInv'
<1> SUFFICES ASSUME TypeInv, LockInv, ThreadInv, [Next]_vars PROVE ThreadInv'
  OBVIOUS
<1>1. CASE UNCHANGED vars
  BY <1>1 DEF vars, monVars, ThreadInv
<1>2. ASSUME NEW p \in Procs, Outside(p) PROVE ThreadInv'
  BY <1>2 DEF Outside, monVars, ThreadInv
<1>3. ASSUME NEW p \in Runs, RunnerStep(p) PROVE ThreadInv'
  BY <1>3, RunnerMoves DEF Return, ThreadInv
<1>5. ASSUME NEW p \in Owners, SoakCancelled(p) PROVE ThreadInv'
  BY <1>5, CancelMoves DEF Return, ThreadInv
<1>4. ASSUME NEW t \in Readers, ReaderExits(t) PROVE ThreadInv'
  BY <1>4 DEF ReaderExits, ReaderStops, ReaderFails, ThreadInv
<1> QED
  BY <1>1, <1>2, <1>3, <1>4, <1>5, CallThreads, StepKinds DEF TypeInv

\* A call that suspends leaves its caller owing a resume, one that resumes clears
\* the suspension, and the others leave it as it is.
LEMMA CallSuspension ==
  ASSUME TypeInv, LockInv, ThreadInv, SuspensionHasOwner, NEW p \in Procs, MonitorCall(p)
  PROVE  SuspensionHasOwner'
<1>1. /\ p # None /\ pc[p] \in Methods /\ monHolder \in {None, p}
      /\ \/ monHolder' = p /\ pc' = pc
         \/ monHolder' = None /\ Goto(p, ReturnsTo(p))
  BY CallMoves
<1>2. CASE pc[p] = "suspend"
  <2>1. ReturnsTo(p) \in {"wedged", "body", "resume", "opening", "driving", "exposed", "cutting"}
    BY <1>2 DEF ReturnsTo, Drives, BodyOrResume
  <2>2. monHolder' = None => Suspends(p)'
    BY <1>1, <2>1 DEF Goto, TypeInv, TypeOK, Suspends
  <2>3. monHolder' = p => Suspends(p)'
    BY <1>1, <1>2 DEF Suspends
  <2> QED
    BY <1>1, <2>2, <2>3 DEF SuspensionHasOwner
<1>3. CASE pc[p] = "resume"
  <2>1. mon \in MonRecord
    BY DEF TypeInv, TypeOK, MonRecord
  <2>2. CASE Resume(p)
    BY <2>1, <2>2 DEF Resume, OpenBegin, MonRecord, ThreadInv, SuspensionHasOwner
  <2>3. CASE OpenEnd(p)
    BY <2>1, <2>3 DEF OpenEnd, StartReader, MonRecord, ThreadInv, SuspensionHasOwner
  <2>4. ~Acquire(p) /\ ~Release(p) /\ ~Suspend(p) /\ ~CloseJoined(p) /\ ~CloseAbandoned(p)
    BY <1>1, <1>3 DEF Acquire, Release, Suspend, CloseJoined, CloseAbandoned, LockInv
  <2> QED
    BY <2>2, <2>3, <2>4 DEF MonitorCall, CallBegins, CallEnds
<1>4. CASE pc[p] \in {"acquire", "release"}
  <2>1. mon \in MonRecord
    BY DEF TypeInv, TypeOK, MonRecord
  <2>2. mon'.suspended => mon.suspended /\ mon'.left = mon.left
    <3>1. CASE Acquire(p)
      BY <2>1, <3>1 DEF Acquire, OpenBegin, MonRecord
    <3>2. CASE Release(p)
      BY <2>1, <3>2 DEF Release, CloseBegin, AfterClose, NoMonitor, MonRecord
    <3>3. CASE CallEnds(p)
      BY <2>1, <3>3 DEF CallEnds, OpenEnd, StartReader, CloseJoined, CloseAbandoned,
         AfterClose, NoMonitor, MonRecord
    <3> QED
      BY <1>4, <3>1, <3>2, <3>3 DEF MonitorCall, CallBegins, Suspend, Resume
  <2>3. \A q \in Procs : Suspends(q) => q # p /\ pc'[q] = pc[q] /\ monHolder # q
    BY <1>1, <1>4, ProcsAssumption DEF Suspends, Goto, TypeInv, TypeOK
  <2>4. \A q \in Procs : Suspends(q) => Suspends(q)'
    BY <2>3 DEF Suspends
  <2> QED
    BY <2>2, <2>4 DEF SuspensionHasOwner
<1> QED
  BY <1>1, <1>2, <1>3, <1>4 DEF Methods

LEMMA SuspensionNext ==
  TypeInv /\ LockInv /\ ThreadInv /\ SuspensionHasOwner /\ [Next]_vars => SuspensionHasOwner'
<1> SUFFICES ASSUME TypeInv, LockInv, ThreadInv, SuspensionHasOwner, [Next]_vars
             PROVE  SuspensionHasOwner'
  OBVIOUS
<1>1. CASE UNCHANGED vars
  BY <1>1 DEF vars, monVars, SuspensionHasOwner, Suspends
<1>2. ASSUME NEW p \in Procs, Outside(p) PROVE SuspensionHasOwner'
  <2>1. SUFFICES ASSUME mon'.suspended, ~mon'.left PROVE \E q \in Procs : Suspends(q)'
    BY DEF SuspensionHasOwner
  <2>2. mon' = mon /\ monHolder' = monHolder /\ mon.known
    BY <1>2, <2>1 DEF Outside, monVars, ThreadInv
  <2>3. PICK q \in Procs : Suspends(q)
    BY <2>1, <2>2 DEF SuspensionHasOwner
  <2>4. CASE q = p
    BY <1>2, <2>2, <2>3, <2>4 DEF Outside
  <2>5. CASE q # p
    BY <1>2, <2>2, <2>3, <2>5 DEF Outside, Goto, TypeInv, TypeOK, Suspends
  <2> QED
    BY <2>4, <2>5
<1>3. ASSUME NEW p \in Runs, RunnerStep(p) PROVE SuspensionHasOwner'
  <2>1. SUFFICES ASSUME mon.suspended PROVE Suspends(p)'
    BY <1>3, RunnerMoves DEF SuspensionHasOwner, Procs
  <2>2. mon.known
    BY <2>1 DEF ThreadInv
  <2> QED
    BY <1>3, <2>2, RunnerMoves DEF Suspends
<1>5. ASSUME NEW p \in Owners, SoakCancelled(p) PROVE SuspensionHasOwner'
  <2>1. mon \in MonRecord
    BY DEF TypeInv, TypeOK, MonRecord
  <2>2. CASE monHolder = p /\ mon' = [mon EXCEPT !.left = TRUE]
    BY <2>1, <2>2 DEF SuspensionHasOwner, MonRecord
  <2>3. CASE monHolder # p /\ UNCHANGED <<mon, monHolder>>
    <3>1. SUFFICES ASSUME mon.suspended, ~mon.left PROVE \E q \in Procs : Suspends(q)'
      BY <2>3 DEF SuspensionHasOwner
    <3>2. PICK q \in Procs : Suspends(q)
      BY <3>1 DEF SuspensionHasOwner
    <3>3. q # p
      BY <1>5, <2>3, <3>2, CancelMoves DEF Suspends
    <3> QED
      BY <1>5, <2>3, <3>2, <3>3, CancelMoves DEF Suspends
  <2> QED
    BY <1>5, <2>2, <2>3, CancelMoves
<1>4. ASSUME NEW t \in Readers, ReaderExits(t) PROVE SuspensionHasOwner'
  BY <1>4 DEF ReaderExits, ReaderStops, ReaderFails, SuspensionHasOwner, Suspends
<1> QED
  BY <1>1, <1>2, <1>3, <1>4, <1>5, CallSuspension, StepKinds DEF TypeInv

BooksInv == LockInv /\ ThreadInv /\ RefsMatchSubscribers /\ SuspensionHasOwner

LEMMA BooksInit == Init => BooksInv
<1> SUFFICES ASSUME Init PROVE BooksInv
  OBVIOUS
<1>1. \A c \in Clients : ~Counted(c)
  BY ProcsAssumption DEF Init, Counted, Procs
<1>2. Subscribers = {}
  BY <1>1 DEF Subscribers
<1>3. RefsMatchSubscribers
  BY <1>2, FS_EmptySet DEF Init, NoMonitor, RefsMatchSubscribers, Subscribers
<1> QED
  BY <1>3 DEF Init, NoMonitor, BooksInv, LockInv, ThreadInv, SuspensionHasOwner

LEMMA BooksNext == TypeInv /\ BooksInv /\ [Next]_vars => BooksInv'
BY LockInvNext, ThreadsNext, RefsNext, SuspensionNext DEF BooksInv

LEMMA BooksAlways == Spec => [](TypeInv /\ GuardInv /\ BooksInv)
BY TypeInvInit, TypeInvNext, GuardInvInit, GuardInvNext, BooksInit, BooksNext, PTL DEF Spec

\* For any number of subscribers, operations, soaks, runs, sweeps and reader threads,
\* wedged ones included: the monitor's reference count is the number of its
\* subscribers however their calls overlap, it is known as long as it has one, and
\* it is suspended only while somebody has yet to resume it, unless a soak was
\* cancelled inside suspend() (SerialMonitor.acquire, release, suspend and resume).
THEOREM MonitorBooksAlways == Spec => []MonitorBooks
<1>1. BooksInv => MonitorBooks
  BY DEF BooksInv, MonitorBooks
<1> QED
  BY <1>1, BooksAlways, PTL

-----------------------------------------------------------------------------
(* Readers keep out.                                                       *)

AllStopped == alive \subseteq stopped

\* A suspension that returns has stopped the readers, whether it joined them or not.
LEMMA SuspendStops ==
  ASSUME TypeInv, LockInv, ThreadInv, NEW p \in Procs, MonitorCall(p),
         pc[p] = "suspend", monHolder' = None
  PROVE  AllStopped'
<1>1. p # None /\ (mon.thread = None => AllStopped) /\ (monStage = "close" => AllStopped)
  BY ProcsAssumption, ReadersAssumption DEF TypeInv, TypeOK, ThreadInv, AllStopped
<1>2. CASE Suspend(p)
  <2>1. CASE ~mon.known
    BY <1>1, <1>2, <2>1 DEF Suspend, ThreadInv, AllStopped
  <2>2. CASE mon.known
    <3>1. mon \in MonRecord
      BY DEF TypeInv, TypeOK, MonRecord
    <3>2. mon.thread = None /\ UNCHANGED <<alive, stopped>>
      BY <1>1, <1>2, <2>2, <3>1 DEF Suspend, CloseBegin, Await, MonRecord
    <3> QED
      BY <1>1, <3>2 DEF AllStopped
  <2> QED
    BY <2>1, <2>2
<1>3. CASE CallEnds(p)
  <2>1. monHolder = p /\ monStage = "close" /\ UNCHANGED <<alive, stopped>>
    BY <1>1, <1>3 DEF CallEnds, OpenEnd, CloseJoined, CloseAbandoned, LockInv
  <2> QED
    BY <1>1, <2>1 DEF AllStopped
<1> QED
  BY <1>2, <1>3 DEF MonitorCall, CallBegins, Acquire, Release, Resume

\* Only the end of an open starts a reader, and it looks at the claim first.
LEMMA CallStarts ==
  ASSUME AllStopped, NEW p \in Procs, MonitorCall(p), claim # None \/ monStage # "open"
  PROVE  AllStopped'
<1>1. CASE CallBegins(p)
  BY <1>1 DEF CallBegins, Acquire, Release, Suspend, Resume, OpenBegin, CloseBegin, AllStopped
<1>2. CASE CallEnds(p)
  BY <1>2 DEF CallEnds, OpenEnd, CloseJoined, CloseAbandoned, AllStopped
<1> QED
  BY <1>1, <1>2 DEF MonitorCall

\* A soak that took the port over has no live reader beside it.
OwnersAlone == \A o \in Owners : pc[o] \in {"opening", "held"} => AllStopped

LEMMA OwnersAloneNext ==
  TypeInv /\ GuardInv /\ LockInv /\ ThreadInv /\ OwnersAlone /\ [Next]_vars => OwnersAlone'
<1> SUFFICES ASSUME TypeInv, GuardInv, LockInv, ThreadInv, OwnersAlone, [Next]_vars,
                    NEW o \in Owners, pc'[o] \in {"opening", "held"}
             PROVE  AllStopped'
  BY DEF OwnersAlone
<1>a. o \in Procs
  BY DEF Procs
<1>1. CASE UNCHANGED vars
  BY <1>1 DEF vars, monVars, OwnersAlone, AllStopped
<1>2. ASSUME NEW p \in Procs, Outside(p) PROVE AllStopped'
  <2>1. CASE p = o
    <3>1. pc[o] \in {"opening", "held"}
      BY <1>2, <2>1, <1>a DEF Outside, Goto, TypeInv, TypeOK, OwnerNext, ClaimDevice, PortIsClear,
         WaitClearTimesOut, ObserverOpens, ObserverFails, SoakEnds, SoakLeaves, Enqueue
    <3> QED
      BY <1>2, <3>1 DEF Outside, monVars, OwnersAlone, AllStopped
  <2>2. CASE p # o
    BY <1>2, <1>a, <2>2 DEF Outside, Goto, TypeInv, TypeOK, monVars, OwnersAlone, AllStopped
  <2> QED
    BY <2>1, <2>2
<1>3. ASSUME NEW p \in Runs, RunnerStep(p) PROVE AllStopped'
  <2>1. o \in Procs \ Runs
    BY <1>a, ProcsAssumption
  <2> QED
    BY <1>3, <2>1, RunnerMoves DEF OwnersAlone, AllStopped
<1>6. ASSUME NEW p \in Owners, SoakCancelled(p) PROVE AllStopped'
  BY <1>6, <1>a, CancelMoves DEF OwnersAlone, AllStopped
<1>4. ASSUME NEW t \in Readers, ReaderExits(t) PROVE AllStopped'
  BY <1>4 DEF ReaderExits, ReaderStops, ReaderFails, OwnersAlone, AllStopped
<1>5. ASSUME NEW p \in Procs, MonitorCall(p) PROVE AllStopped'
  <2>1. CASE pc[o] \in {"opening", "held"}
    <3>1. claim = o /\ o # None /\ AllStopped
      BY <1>a, <2>1, ProcsAssumption DEF GuardInv, ClaimByOwner, OwnsPort, OwnersAlone
    <3> QED
      BY <1>5, <3>1, CallStarts
  <2>2. CASE pc[o] \notin {"opening", "held"}
    <3>1. p = o /\ monHolder' = None /\ pc'[o] = ReturnsTo(o) /\ pc[o] \in Methods
      BY <1>5, <1>a, <2>2, CallMoves DEF Goto, TypeInv, TypeOK
    <3>2. pc[o] = "suspend"
      BY <3>1 DEF ReturnsTo, Methods
    <3> QED
      BY <1>5, <3>1, <3>2, SuspendStops
  <2> QED
    BY <2>1, <2>2
<1> QED
  BY <1>1, <1>2, <1>3, <1>4, <1>5, <1>6, StepKinds DEF TypeInv

\* A soak's observer is alone on the port: no monitor that opened before the claim,
\* and none that was waiting for its database row when the claim came, has a reader
\* beside it that was not told to stop (SerialMonitor._open and _close under a claim).
THEOREM ObserverAloneAlways == Spec => []ObserverAlone
<1>1. Init => OwnersAlone
  BY DEF Init, OwnersAlone, AllStopped
<1>2. OwnersAlone => ObserverAlone
  BY DEF OwnersAlone, AllStopped, ObserverAlone
<1> QED
  BY <1>1, <1>2, BooksAlways, OwnersAloneNext, PTL DEF Spec, BooksInv

\* While a run drives the bench under the flag no reader lives, and none is about
\* to be opened.
RunsAlone == \A r \in Runs : pc[r] = "driving" => running /\ monStage # "open" /\ AllStopped

\* An open does not begin while the run flag is up.
LEMMA CallOpens ==
  ASSUME running, NEW p \in Procs, MonitorCall(p), monStage # "open"
  PROVE  monStage' # "open"
BY DEF MonitorCall, CallBegins, CallEnds, Acquire, Release, Suspend, Resume, OpenBegin,
   CloseBegin, OpenEnd, CloseJoined, CloseAbandoned, MayOpen, Await, Return

\* Who drives under the flag after a step that takes it down or breaks a suspension
\* off, did so before, or was in the close of its own suspension.
LEMMA RunnerKeeps ==
  ASSUME TypeInv, LockInv, NEW p \in Runs, RunnerStep(p), NEW r \in Runs, pc'[r] = "driving"
  PROVE  /\ running' = running
         /\ \/ pc[r] = "driving" /\ monStage' \in {monStage, "free"}
            \/ running /\ monStage = "close" /\ monStage' = "free"
<1>1. r \in Procs /\ p \in Procs /\ r # None
  BY ProcsAssumption DEF Procs
<1>2. CASE SuspendAllTimesOut(p)
  <2>1. running' = running /\ pc[p] = "suspend" /\ (monHolder = p => monStage = "close")
    BY <1>1, <1>2, ProcsAssumption DEF SuspendAllTimesOut, LockInv, TypeInv, TypeOK
  <2>2. CASE r # p
    <3>1. pc[r] = "driving"
      BY <1>1, <1>2, <2>2 DEF SuspendAllTimesOut, Goto, TypeInv, TypeOK
    <3> QED
      BY <1>2, <2>1, <3>1 DEF SuspendAllTimesOut, Return
  <2>3. CASE r = p
    BY <1>1, <1>2, <2>1, <2>3 DEF SuspendAllTimesOut, Drives, Goto, TypeInv, TypeOK, Return
  <2> QED
    BY <2>2, <2>3
<1>3. ASSUME NEW l \in {"finishing", "resume", "idle"}, NEW gone, FlagDown(p, l, gone)
      PROVE  FALSE
  BY <1>1, <1>3 DEF FlagDown
<1>4. CASE RunFinishes(p)
  BY <1>3, <1>4 DEF RunFinishes
<1>5. CASE Reset(p)
  <2>1. \E gone : FlagDown(p, IF mon.known THEN "resume" ELSE "idle", gone)
    BY <1>5 DEF Reset
  <2> QED
    BY <1>3, <2>1
<1> QED
  BY <1>2, <1>4, <1>5 DEF RunnerStep

LEMMA RunsAloneNext ==
  TypeInv /\ LockInv /\ ThreadInv /\ RunsAlone /\ [Next]_vars => RunsAlone'
<1> SUFFICES ASSUME TypeInv, LockInv, ThreadInv, RunsAlone, [Next]_vars,
                    NEW r \in Runs, pc'[r] = "driving"
             PROVE  running' /\ monStage' # "open" /\ AllStopped'
  BY DEF RunsAlone
<1>a. r \in Procs /\ (pc[r] = "driving" => running /\ monStage # "open" /\ AllStopped)
  BY DEF Procs, RunsAlone
<1>b. /\ ~mon.known => AllStopped /\ monStage # "open"
      /\ monStage = "close" => AllStopped
  BY ReadersAssumption, ProcsAssumption
     DEF ThreadInv, LockInv, AllStopped, TypeInv, TypeOK
<1> DEFINE Alone == running' /\ monStage' # "open" /\ AllStopped'
<1>1. CASE UNCHANGED vars
  BY <1>1, <1>a DEF vars, monVars, AllStopped
<1>2. ASSUME NEW p \in Procs, Outside(p) PROVE Alone
  <2>1. UNCHANGED <<monStage, alive, stopped, mon>>
    BY <1>2 DEF Outside, monVars
  <2>2. running => running'
    BY <1>2 DEF Outside, RunChecks, RunCommits, RunRestores
  <2>3. CASE pc[r] = "driving"
    BY <1>a, <2>1, <2>2, <2>3 DEF AllStopped
  <2>4. CASE pc[r] # "driving"
    <3>1. p = r
      BY <1>2, <1>a, <2>4 DEF Outside, Goto, TypeInv, TypeOK
    <3>2. RunCommits(r) /\ ~mon.known
      BY <1>2, <1>a, <3>1 DEF Outside, RunChecks, RunCommits, RunRestores, VisitMonitor, Goto,
         TypeInv, TypeOK
    <3> QED
      BY <1>b, <2>1, <3>2 DEF RunCommits, AllStopped
  <2> QED
    BY <2>3, <2>4
<1>3. ASSUME NEW p \in Runs, RunnerStep(p) PROVE Alone
  <2>1. UNCHANGED <<alive, stopped>>
    BY <1>3, RunnerMoves
  <2> QED
    BY <1>3, <1>a, <1>b, <2>1, RunnerKeeps DEF AllStopped
<1>4. ASSUME NEW t \in Readers, ReaderExits(t) PROVE Alone
  BY <1>4, <1>a DEF ReaderExits, ReaderStops, ReaderFails, AllStopped
<1>5. ASSUME NEW p \in Procs, MonitorCall(p) PROVE Alone
  <2>1. running' = running
    BY <1>5 DEF MonitorCall
  <2>2. CASE pc[r] = "driving"
    BY <1>5, <1>a, <2>1, <2>2, CallOpens, CallStarts
  <2>3. CASE pc[r] # "driving"
    <3>1. p = r /\ monHolder' = None /\ pc'[r] = ReturnsTo(r) /\ pc[r] \in Methods
      BY <1>5, <1>a, <2>3, CallMoves DEF Goto, TypeInv, TypeOK
    <3>2. r \notin Ops /\ r \notin Owners
      BY ProcsAssumption
    <3>3. pc[r] = "suspend" /\ running
      BY <3>1, <3>2 DEF ReturnsTo, Drives, Methods
    <3>4. monStage' # "open"
      <4>1. LockInv'
        BY <1>5, CallLock
      <4> QED
        BY <3>1, <4>1 DEF LockInv
    <3> QED
      BY <1>5, <2>1, <3>1, <3>3, <3>4, SuspendStops
  <2> QED
    BY <2>2, <2>3
<1>6. ASSUME NEW p \in Owners, SoakCancelled(p) PROVE Alone
  BY <1>6, <1>a, CancelMoves DEF AllStopped, Return
<1> QED
  BY <1>1, <1>2, <1>3, <1>4, <1>5, <1>6, StepKinds DEF TypeInv

\* For any number of requests to the test runner: while pytest drives the bench, freed
\* of the monitor under a run flag that was not taken down since, no reader thread
\* that was not told to stop holds the tty, and no soak's observer has one beside it,
\* whatever subscribes, suspends, resumes, resets or wedges meanwhile
\* (SerialMonitor._open, which tests the run flag before an await and starts the
\* reader after it; TestRunner.start and reset).
THEOREM ReadersKeepOutAlways == Spec => []ReadersKeepOut
<1>1. Init => RunsAlone /\ OwnersAlone
  BY DEF Init, RunsAlone, OwnersAlone, AllStopped, Procs
<1>2. RunsAlone /\ OwnersAlone => ReadersKeepOut
  BY DEF OwnersAlone, RunsAlone, AllStopped, ReadersKeepOut, ObserverAlone, NoReaderMidRun
<1> QED
  BY <1>1, <1>2, BooksAlways, RunsAloneNext, OwnersAloneNext, PTL DEF Spec, BooksInv

-----------------------------------------------------------------------------
(* The fleet of emulators.                                                 *)

Member == [node : Nodes, serial : Serials]
UpPlaces == {"off", "cloning", "copied", "stripping", "allocating", "launching", "booting",
             "provisioning", "saving", "next", "failed", "undoing"}
UpRecs == [at : UpPlaces, node : Nodes, serial : Serials, snap : BOOLEAN,
           relay : Relays \cup {NoRelay}, nodes : Seq(Member)]
KillRecs == [by : {"nobody", "up", "down"}, left : Seq(Member), delete : Seq(Member)]
CliRecs == [by : {"nobody", "cli"}, left : SUBSET Serials, delete : SUBSET Nodes]
Emus == [state : {"none", "booting", "up", "dying"}, node : Nodes, relay : Relays \cup {NoRelay}]

MemoryTypes ==
  /\ upPhase \in {"idle", "bringing_up", "ready", "error", "tearing_down"}
  /\ fleet \in Seq(Member) /\ up \in UpRecs /\ kills \in KillRecs

WorldTypes ==
  /\ cli \in CliRecs
  /\ clones \in [Nodes -> {"none", "dir", "raw", "whole"}]
  /\ snaps \in [Nodes -> Relays \cup {NoRelay}]
  /\ emus \in [Serials -> Emus] /\ atakDeaths \in Nat

AtakTypes == MemoryTypes /\ WorldTypes

\* Who is at work on the fleet, and what the server says of it.
AtWork ==
  /\ up.at # "off" <=> upPhase = "bringing_up"
  /\ up.at = "undoing" <=> kills.by = "up"
  /\ kills.by = "down" <=> upPhase = "tearing_down"
  /\ kills.by = "nobody" => kills = NoKills
  /\ up.at = "off" => up = NotUp
  /\ up.at # "off" => fleet = <<>> /\ up.relay \in Relays

\* What a bring-up knows of the console port and the disk of its node.
UpStands ==
  /\ up.at = "launching" =>
       /\ emus[up.serial].state = "none"
       /\ up.snap /\ clones[up.node] = "whole" => snaps[up.node] # NoRelay
  /\ up.at = "booting" /\ emus[up.serial].state = "booting" =>
       /\ emus[up.serial].node = up.node
       /\ up.snap => emus[up.serial].relay # NoRelay

Provisioned(m) ==
  emus[m.serial].state = "up" /\ emus[m.serial].node = m.node => emus[m.serial].relay # NoRelay

Early == {"cloning", "copied", "stripping", "allocating", "launching", "booting"}

\* The nodes that came up are those before the present one, and provisioned but for it.
NodeStands(m) ==
  /\ m.node <= up.node
  /\ up.at \in Early => m.node < up.node
  /\ up.at \in {"saving", "next"} => Provisioned(m)
  /\ m.node = up.node => m.serial = up.serial
  /\ m.node < up.node => Provisioned(m)

NodesStand ==
  /\ \A m \in Range(up.nodes) : NodeStands(m)
  /\ upPhase = "ready" => \A m \in Range(fleet) : Provisioned(m)

\* What a bring-up that broke has yet to kill.
UndoStands ==
  up.at = "undoing" =>
    \A m \in Range(up.nodes) : Running(m.serial) => \E k \in Range(kills.left) : k.serial = m.serial

AtakStands == AtakTypes /\ AtWork /\ UpStands /\ NodesStand /\ UndoStands /\ NothingOrphaned

-----------------------------------------------------------------------------
(* Sequences of members.                                                   *)

LEMMA RangeOf == ASSUME NEW S, NEW q \in Seq(S) PROVE Range(q) \subseteq S
BY DEF Range

LEMMA RangeOfNone == Range(<<>>) = {}
BY DEF Range

LEMMA RangeOfAppend ==
  ASSUME NEW S, NEW q \in Seq(S), NEW e \in S
  PROVE  Append(q, e) \in Seq(S) /\ Range(Append(q, e)) = Range(q) \cup {e}
<1>1. /\ Append(q, e) \in Seq(S) /\ Len(Append(q, e)) = Len(q) + 1 /\ Len(q) \in Nat
      /\ \A i \in 1 .. Len(q) + 1 : Append(q, e)[i] = IF i <= Len(q) THEN q[i] ELSE e
  BY AppendProperties
<1>2. DOMAIN q = 1 .. Len(q) /\ DOMAIN Append(q, e) = 1 .. Len(q) + 1
  BY <1>1
<1>3. Range(q) = {q[i] : i \in 1 .. Len(q)}
  BY <1>2 DEF Range
<1>4. Range(Append(q, e)) = {Append(q, e)[i] : i \in 1 .. Len(q) + 1}
  BY <1>2 DEF Range
<1>5. ASSUME NEW x \in Range(q) PROVE x \in Range(Append(q, e))
  <2>1. PICK i \in 1 .. Len(q) : x = q[i]
    BY <1>3
  <2>2. i \in 1 .. Len(q) + 1 /\ Append(q, e)[i] = x
    BY <1>1, <2>1
  <2> QED
    BY <1>4, <2>2
<1>6. e \in Range(Append(q, e))
  <2>1. Len(q) + 1 \in 1 .. Len(q) + 1 /\ Append(q, e)[Len(q) + 1] = e
    BY <1>1
  <2> QED
    BY <1>4, <2>1
<1>7. ASSUME NEW x \in Range(Append(q, e)) PROVE x \in Range(q) \cup {e}
  <2>1. PICK i \in 1 .. Len(q) + 1 : x = Append(q, e)[i]
    BY <1>4
  <2>2. CASE i <= Len(q)
    BY <1>1, <1>3, <2>1, <2>2
  <2>3. CASE ~(i <= Len(q))
    BY <1>1, <2>1, <2>3
  <2> QED
    BY <2>2, <2>3
<1> QED
  BY <1>1, <1>5, <1>6, <1>7

LEMMA RangeOfTail ==
  ASSUME NEW S, NEW q \in Seq(S), q # <<>>
  PROVE  /\ Head(q) \in S /\ Tail(q) \in Seq(S)
         /\ Range(q) = {Head(q)} \cup Range(Tail(q))
<1>1. /\ Head(q) = q[1] /\ Tail(q) \in Seq(S) /\ Len(q) \in Nat /\ Len(q) >= 1
      /\ Len(Tail(q)) = Len(q) - 1 /\ \A i \in 1 .. Len(q) - 1 : Tail(q)[i] = q[i + 1]
  BY HeadTailProperties, EmptySeq, LenProperties
<1>2. DOMAIN q = 1 .. Len(q) /\ DOMAIN Tail(q) = 1 .. Len(q) - 1
  BY <1>1
<1>3. Range(q) = {q[i] : i \in 1 .. Len(q)}
  BY <1>2 DEF Range
<1>4. Range(Tail(q)) = {Tail(q)[i] : i \in 1 .. Len(q) - 1}
  BY <1>2 DEF Range
<1>5. 1 \in 1 .. Len(q) /\ Head(q) \in Range(q) /\ Head(q) \in S
  BY <1>1, <1>3
<1>6. ASSUME NEW x \in Range(Tail(q)) PROVE x \in Range(q)
  <2>1. PICK i \in 1 .. Len(q) - 1 : x = Tail(q)[i]
    BY <1>4
  <2>2. i + 1 \in 1 .. Len(q) /\ q[i + 1] = x
    BY <1>1, <2>1
  <2> QED
    BY <1>3, <2>2
<1>7. ASSUME NEW x \in Range(q) PROVE x = Head(q) \/ x \in Range(Tail(q))
  <2>1. PICK i \in 1 .. Len(q) : x = q[i]
    BY <1>3
  <2>2. CASE i = 1
    BY <1>1, <2>1, <2>2
  <2>3. CASE i # 1
    <3>1. i - 1 \in 1 .. Len(q) - 1 /\ Tail(q)[i - 1] = q[(i - 1) + 1] /\ (i - 1) + 1 = i
      BY <1>1, <2>1, <2>3
    <3> QED
      BY <1>4, <2>1, <3>1
  <2> QED
    BY <2>2, <2>3
<1> QED
  BY <1>1, <1>5, <1>6, <1>7

-----------------------------------------------------------------------------
(* What a step does to the bring-up.                                       *)

UpNow(at, node, serial, snap, relay, nodes) ==
  /\ up' \in UpRecs /\ up'.at = at /\ up'.node = node /\ up'.serial = serial
  /\ up'.snap = snap /\ up'.relay = relay /\ up'.nodes = nodes

LEMMA NodesAre == 0 \in Nodes /\ 1 \in Serials /\ NoRelay \notin Relays
BY AtakAssumption DEF Nodes, Serials

LEMMA NotUpIs ==
  /\ NotUp \in UpRecs /\ NotUp.at = "off" /\ NotUp.node = 0 /\ NotUp.serial = 1
  /\ NotUp.relay = NoRelay /\ NotUp.nodes = <<>> /\ NotUp.snap = FALSE
BY NodesAre DEF NotUp, UpRecs, UpPlaces

LEMMA NoKillsIs ==
  NoKills \in KillRecs /\ NoKills.by = "nobody" /\ NoKills.left = <<>> /\ NoKills.delete = <<>>
BY DEF NoKills, KillRecs

LEMMA HeadsAre ==
  ASSUME AtakTypes
  PROVE  /\ kills.left # <<>> => Head(kills.left) \in Member /\ Head(kills.left).serial \in Serials
         /\ kills.delete # <<>> => Head(kills.delete) \in Member /\ Head(kills.delete).node \in Nodes
<1>1. kills.left \in Seq(Member) /\ kills.delete \in Seq(Member)
  BY DEF AtakTypes, MemoryTypes, KillRecs
<1>2. \A m \in Member : m.serial \in Serials /\ m.node \in Nodes
  BY DEF Member
<1>3. kills.left # <<>> => Head(kills.left) \in Member
  BY <1>1, RangeOfTail
<1>4. kills.delete # <<>> => Head(kills.delete) \in Member
  BY <1>1, RangeOfTail
<1> QED
  BY <1>2, <1>3, <1>4

LEMMA UpMoves ==
  ASSUME AtakTypes, NEW x \in UpPlaces, UpGoes(x)
  PROVE  UpNow(x, up.node, up.serial, up.snap, up.relay, up.nodes)
BY DEF AtakTypes, MemoryTypes, UpGoes, UpNow, UpRecs

LEMMA UpAllocates ==
  ASSUME AtakTypes, NEW s \in Serials, NEW b \in BOOLEAN,
         up' = [up EXCEPT !.at = "launching", !.serial = s, !.snap = b]
  PROVE  UpNow("launching", up.node, s, b, up.relay, up.nodes)
BY DEF AtakTypes, MemoryTypes, UpNow, UpRecs, UpPlaces

LEMMA UpBoots ==
  ASSUME AtakTypes, Boots
  PROVE  /\ UpNow(IF up.snap THEN "next" ELSE "provisioning", up.node, up.serial, up.snap, up.relay,
                  Append(up.nodes, [node |-> up.node, serial |-> up.serial]))
         /\ Range(up'.nodes) = Range(up.nodes) \cup {[node |-> up.node, serial |-> up.serial]}
<1> DEFINE at == IF up.snap THEN "next" ELSE "provisioning"
           m == [node |-> up.node, serial |-> up.serial]
           q == Append(up.nodes, m)
<1>1. up \in UpRecs /\ m \in Member /\ up.nodes \in Seq(Member)
  BY DEF AtakTypes, MemoryTypes, UpRecs, Member
<1>2. q \in Seq(Member) /\ Range(q) = Range(up.nodes) \cup {m}
  BY <1>1, RangeOfAppend
<1>3. at \in UpPlaces
  BY DEF UpPlaces
<1>4. up' = [up EXCEPT !.at = at, !.nodes = q]
  BY DEF Boots
<1> HIDE DEF at, q
<1>5. UpNow(at, up.node, up.serial, up.snap, up.relay, q)
  BY <1>1, <1>2, <1>3, <1>4 DEF UpNow, UpRecs
<1> QED
  BY <1>2, <1>5 DEF UpNow, at, q

LEMMA UpNext ==
  ASSUME AtakTypes, NextNode
  PROVE  UpNow("cloning", up.node + 1, up.serial, up.snap, up.relay, up.nodes)
<1>1. up \in UpRecs /\ up.node + 1 \in Nodes
  BY AtakAssumption DEF AtakTypes, MemoryTypes, UpRecs, NextNode, Nodes
<1>2. up' = [up EXCEPT !.at = "cloning", !.node = up.node + 1]
  BY <1>1 DEF NextNode, UpRecs
<1> QED
  BY <1>1, <1>2 DEF UpNow, UpRecs, UpPlaces

LEMMA UpBegins ==
  ASSUME AtakTypes, NEW relay \in Relays, UpAsked(relay)
  PROVE  UpNow("cloning", 0, 1, FALSE, relay, <<>>)
<1>1. up' = [NotUp EXCEPT !.at = "cloning", !.relay = relay]
  BY DEF UpAsked
<1> QED
  BY <1>1, NotUpIs DEF UpNow, UpRecs, UpPlaces

LEMMA UpStays ==
  ASSUME AtakTypes, up' = up
  PROVE  UpNow(up.at, up.node, up.serial, up.snap, up.relay, up.nodes)
BY DEF AtakTypes, MemoryTypes, UpNow

\* Which emulators a step starts, stops or points at a relay.

LEMMA KilledStops ==
  ASSUME AtakTypes, NEW s \in Serials, emus' = Killed(s)
  PROVE  /\ emus' \in [Serials -> Emus] /\ ~Running(s)'
         /\ emus[s].state = "none" => emus'[s].state = "none"
         /\ \A t \in Serials \ {s} : emus'[t] = emus[t]
<1>1. emus[s] \in Emus /\ emus \in [Serials -> Emus]
  BY DEF AtakTypes, WorldTypes
<1>2. CASE Running(s)
  <2>1. emus' = [emus EXCEPT ![s] = [emus[s] EXCEPT !.state = "dying"]]
    BY <1>1, <1>2 DEF Killed
  <2>2. [emus[s] EXCEPT !.state = "dying"] \in Emus /\ [emus[s] EXCEPT !.state = "dying"].state = "dying"
    BY <1>1 DEF Emus
  <2>3. emus' \in [Serials -> Emus] /\ emus'[s].state = "dying" /\ \A t \in Serials \ {s} : emus'[t] = emus[t]
    BY <1>1, <2>1, <2>2
  <2> QED
    BY <1>2, <2>3 DEF Running
<1>3. CASE ~Running(s)
  BY <1>1, <1>3 DEF Killed, Running
<1> QED
  BY <1>2, <1>3

LEMMA NoEmuIs == NoEmu \in Emus /\ NoEmu.state = "none"
BY NodesAre DEF NoEmu, Emus

LEMMA LaunchesOne ==
  ASSUME AtakTypes, Launches
  PROVE  /\ emus' \in [Serials -> Emus] /\ \A t \in Serials \ {up.serial} : emus'[t] = emus[t]
         /\ \/ emus' = emus
            \/ /\ emus'[up.serial].state = "booting" /\ emus'[up.serial].node = up.node
               /\ emus'[up.serial].relay = IF up.snap THEN snaps[up.node] ELSE NoRelay
               /\ clones[up.node] = "whole"
<1>1. emus \in [Serials -> Emus] /\ up \in UpRecs /\ snaps[up.node] \in Relays \cup {NoRelay}
      /\ up.serial \in Serials /\ up.node \in Nodes
  BY DEF AtakTypes, MemoryTypes, WorldTypes, UpRecs
<1>2. PICK e : e = [state |-> "booting", node |-> up.node, relay |-> IF up.snap THEN snaps[up.node] ELSE NoRelay]
  OBVIOUS
<1>3. e \in Emus /\ e.state = "booting" /\ e.node = up.node /\ e.relay = IF up.snap THEN snaps[up.node] ELSE NoRelay
  BY <1>1, <1>2 DEF Emus
<1>4. emus' = emus \/ (emus' = [emus EXCEPT ![up.serial] = e] /\ clones[up.node] = "whole")
  BY <1>2 DEF Launches
<1> QED
  BY <1>1, <1>3, <1>4

LEMMA BootsOne ==
  ASSUME AtakTypes, Boots
  PROVE  /\ emus' \in [Serials -> Emus] /\ \A t \in Serials \ {up.serial} : emus'[t] = emus[t]
         /\ emus'[up.serial].state = "up" /\ emus'[up.serial].node = emus[up.serial].node
         /\ emus'[up.serial].relay = emus[up.serial].relay
<1>1. emus \in [Serials -> Emus] /\ up.serial \in Serials /\ emus[up.serial] \in Emus
  BY DEF AtakTypes, MemoryTypes, WorldTypes, UpRecs
<1>2. emus' = [emus EXCEPT ![up.serial] = [emus[up.serial] EXCEPT !.state = "up"]]
  BY <1>1 DEF Boots
<1>3. [emus[up.serial] EXCEPT !.state = "up"] \in Emus
  BY <1>1 DEF Emus
<1> QED
  BY <1>1, <1>2, <1>3 DEF Emus

LEMMA ProvisionsOne ==
  ASSUME AtakTypes, Provisions
  PROVE  /\ emus' \in [Serials -> Emus] /\ \A t \in Serials \ {up.serial} : emus'[t] = emus[t]
         /\ emus'[up.serial].state = emus[up.serial].state /\ emus'[up.serial].node = emus[up.serial].node
         /\ emus'[up.serial].relay = up.relay
<1>1. emus \in [Serials -> Emus] /\ up.serial \in Serials /\ emus[up.serial] \in Emus
      /\ up.relay \in Relays \cup {NoRelay}
  BY DEF AtakTypes, MemoryTypes, WorldTypes, UpRecs
<1>2. emus' = [emus EXCEPT ![up.serial] = [emus[up.serial] EXCEPT !.relay = up.relay]]
  BY <1>1 DEF Provisions
<1>3. [emus[up.serial] EXCEPT !.relay = up.relay] \in Emus
  BY <1>1 DEF Emus
<1> QED
  BY <1>1, <1>2, <1>3 DEF Emus

\* The server keeps members and nothing else.
LEMMA NextMemory == AtakTypes /\ [AtakNext]_atakVars => MemoryTypes'
<1> SUFFICES ASSUME AtakTypes, [AtakNext]_atakVars PROVE MemoryTypes'
  OBVIOUS
<1>1. CASE UNCHANGED atakVars
  BY <1>1 DEF atakVars, memory, AtakTypes, MemoryTypes
<1>2. CASE Reuses
  <2>1. UpNow("allocating", up.node, up.serial, up.snap, up.relay, up.nodes)
    BY <1>2, UpMoves DEF Reuses, UpPlaces
  <2> QED
    BY <1>2, <2>1 DEF Reuses, memory, disk, counts, Up, UpNow, AtakTypes, MemoryTypes
<1>3. CASE Copies
  <2>1. PICK x \in {"copied", "failed"} : UpNow(x, up.node, up.serial, up.snap, up.relay, up.nodes)
    BY <1>3, UpMoves DEF Copies, UpPlaces
  <2> QED
    BY <1>3, <2>1 DEF Copies, memory, disk, counts, Up, UpNow, AtakTypes, MemoryTypes
<1>4. CASE CopyRefused
  <2>1. UpNow("failed", up.node, up.serial, up.snap, up.relay, up.nodes)
    BY <1>4, UpMoves DEF CopyRefused, UpPlaces
  <2> QED
    BY <1>4, <2>1 DEF CopyRefused, memory, disk, counts, Up, UpNow, AtakTypes, MemoryTypes
<1>5. CASE WritesIni
  <2>1. UpNow("stripping", up.node, up.serial, up.snap, up.relay, up.nodes)
    BY <1>5, UpMoves DEF WritesIni, UpPlaces
  <2> QED
    BY <1>5, <2>1 DEF WritesIni, memory, disk, counts, Up, UpNow, AtakTypes, MemoryTypes
<1>6. CASE Strips
  <2>1. UpNow("allocating", up.node, up.serial, up.snap, up.relay, up.nodes)
    BY <1>6, UpMoves DEF Strips, UpPlaces
  <2> QED
    BY <1>6, <2>1 DEF Strips, memory, disk, counts, Up, UpNow, AtakTypes, MemoryTypes
<1>7. CASE Allocates
  <2>1. \/ UpNow("failed", up.node, up.serial, up.snap, up.relay, up.nodes)
        \/ \E s \in Serials : /\ emus[s].state = "none"
                              /\ UpNow("launching", up.node, s, snaps[up.node] # NoRelay, up.relay, up.nodes)
    BY <1>7, UpMoves, UpAllocates DEF Allocates, UpPlaces
  <2> QED
    BY <1>7, <2>1 DEF Allocates, memory, disk, counts, Up, UpNow, AtakTypes, MemoryTypes
<1>8. CASE Launches
  <2>1. UpNow("booting", up.node, up.serial, up.snap, up.relay, up.nodes)
    BY <1>8, UpMoves DEF Launches, UpPlaces
  <2> QED
    BY <1>8, <2>1 DEF Launches, memory, disk, counts, Up, UpNow, AtakTypes, MemoryTypes
<1>9. CASE Boots
  <2>1. UpNow(IF up.snap THEN "next" ELSE "provisioning", up.node, up.serial, up.snap, up.relay,
              Append(up.nodes, [node |-> up.node, serial |-> up.serial]))
    BY <1>9, UpBoots
  <2> QED
    BY <1>9, <2>1 DEF Boots, memory, disk, counts, Up, UpNow, AtakTypes, MemoryTypes
<1>10. CASE BootFails
  <2>1. UpNow("failed", up.node, up.serial, up.snap, up.relay, up.nodes)
    BY <1>10, UpMoves DEF BootFails, UpPlaces
  <2> QED
    BY <1>10, <2>1 DEF BootFails, memory, disk, counts, Up, UpNow, AtakTypes, MemoryTypes
<1>11. CASE ProvisionFails
  <2>1. UpNow("failed", up.node, up.serial, up.snap, up.relay, up.nodes)
    BY <1>11, UpMoves DEF ProvisionFails, UpPlaces
  <2> QED
    BY <1>11, <2>1 DEF ProvisionFails, memory, disk, counts, Up, UpNow, AtakTypes, MemoryTypes
<1>12. CASE Provisions
  <2>1. UpNow("saving", up.node, up.serial, up.snap, up.relay, up.nodes)
    BY <1>12, UpMoves DEF Provisions, UpPlaces
  <2> QED
    BY <1>12, <2>1 DEF Provisions, memory, disk, counts, Up, UpNow, AtakTypes, MemoryTypes
<1>13. CASE SavesSnapshot
  <2>1. UpNow("next", up.node, up.serial, up.snap, up.relay, up.nodes)
    BY <1>13, UpMoves DEF SavesSnapshot, UpPlaces
  <2> QED
    BY <1>13, <2>1 DEF SavesSnapshot, memory, disk, counts, Up, UpNow, AtakTypes, MemoryTypes
<1>14. CASE NextNode
  <2>1. UpNow("cloning", up.node + 1, up.serial, up.snap, up.relay, up.nodes)
    BY <1>14, UpNext
  <2> QED
    BY <1>14, <2>1 DEF NextNode, memory, disk, counts, Up, UpNow, AtakTypes, MemoryTypes
<1>15. CASE UpReady
  <2>1. UpNow("off", 0, 1, FALSE, NoRelay, <<>>) /\ up' = NotUp
    BY <1>15, NotUpIs DEF UpReady, UpNow
  <2> QED
    BY <1>15, <2>1 DEF UpReady, UpNow, AtakTypes, MemoryTypes, UpRecs
<1>16. CASE UpFails
  <2>1. UpNow("undoing", up.node, up.serial, up.snap, up.relay, up.nodes)
    BY <1>16, UpMoves DEF UpFails, UpPlaces
  <2>2. kills' \in KillRecs
    BY <1>16 DEF UpFails, KillRecs, AtakTypes, MemoryTypes, UpRecs
  <2> QED
    BY <1>16, <2>1, <2>2 DEF UpFails, memory, disk, counts, UpNow, AtakTypes, MemoryTypes
<1>17. CASE KillsNext
  <2>1. UpNow(up.at, up.node, up.serial, up.snap, up.relay, up.nodes) /\ up' = up
    BY <1>17, UpStays DEF KillsNext, memory
  <2>2. kills' \in KillRecs
    <3>1. kills' = [kills EXCEPT !.left = Tail(kills.left)]
      BY <1>17 DEF KillsNext, KillRecs, AtakTypes, MemoryTypes
    <3>2. Tail(kills.left) \in Seq(Member)
      BY <1>17, RangeOfTail DEF KillsNext, KillRecs, AtakTypes, MemoryTypes
    <3> QED
      BY <3>1, <3>2 DEF KillRecs, AtakTypes, MemoryTypes
  <2> QED
    BY <1>17, <2>1, <2>2 DEF KillsNext, memory, disk, counts, UpNow, AtakTypes, MemoryTypes
<1>18. CASE Deletes
  <2>1. UpNow(up.at, up.node, up.serial, up.snap, up.relay, up.nodes) /\ up' = up
    BY <1>18, UpStays DEF Deletes, memory
  <2>2. kills' \in KillRecs
    <3>1. kills' = [kills EXCEPT !.delete = Tail(kills.delete)]
      BY <1>18 DEF Deletes, KillRecs, AtakTypes, MemoryTypes
    <3>2. Tail(kills.delete) \in Seq(Member)
      BY <1>18, RangeOfTail DEF Deletes, KillRecs, AtakTypes, MemoryTypes
    <3> QED
      BY <3>1, <3>2 DEF KillRecs, AtakTypes, MemoryTypes
  <2> QED
    BY <1>18, <2>1, <2>2 DEF Deletes, memory, disk, counts, UpNow, AtakTypes, MemoryTypes
<1>19. CASE KillsRaise
  <2>1. up' = (IF kills.by = "up" THEN NotUp ELSE up) /\ up' \in UpRecs
    BY <1>19, NotUpIs DEF KillsRaise, KillsOver, AtakTypes, MemoryTypes
  <2> QED
    BY <1>19, <2>1, NoKillsIs DEF KillsRaise, memory, disk, counts, KillsOver, AtakTypes, MemoryTypes
<1>20. CASE KillsDone
  <2>1. up' = (IF kills.by = "up" THEN NotUp ELSE up) /\ up' \in UpRecs
    BY <1>20, NotUpIs DEF KillsDone, KillsOver, AtakTypes, MemoryTypes
  <2> QED
    BY <1>20, <2>1, NoKillsIs DEF KillsDone, memory, disk, counts, KillsOver, AtakTypes, MemoryTypes
<1>21. CASE CliKills
  <2>1. UpNow(up.at, up.node, up.serial, up.snap, up.relay, up.nodes) /\ up' = up
    BY <1>21, UpStays DEF CliKills, memory
  <2> QED
    BY <1>21, <2>1 DEF CliKills, memory, disk, counts, UpNow, AtakTypes, MemoryTypes
<1>22. CASE CliDeletes
  <2>1. UpNow(up.at, up.node, up.serial, up.snap, up.relay, up.nodes) /\ up' = up
    BY <1>22, UpStays DEF CliDeletes, memory
  <2> QED
    BY <1>22, <2>1 DEF CliDeletes, memory, disk, counts, UpNow, AtakTypes, MemoryTypes
<1>23. CASE CliOver
  <2>1. UpNow(up.at, up.node, up.serial, up.snap, up.relay, up.nodes) /\ up' = up
    BY <1>23, UpStays DEF CliOver, memory
  <2> QED
    BY <1>23, <2>1 DEF CliOver, memory, disk, counts, UpNow, AtakTypes, MemoryTypes
<1>24. CASE AtakServerDies
  <2>1. UpNow("off", 0, 1, FALSE, NoRelay, <<>>) /\ up' = NotUp
    BY <1>24, NotUpIs DEF AtakServerDies, UpNow
  <2> QED
    BY <1>24, <2>1, NoKillsIs DEF AtakServerDies, UpNow, AtakTypes, MemoryTypes
<1>25. ASSUME NEW relay \in Relays, UpAsked(relay) PROVE MemoryTypes'
  <2>1. UpNow("cloning", 0, 1, FALSE, relay, <<>>)
    BY <1>25, UpBegins
  <2> QED
    BY <1>25, <2>1 DEF UpAsked, memory, disk, counts, UpNow, AtakTypes, MemoryTypes
<1>26. ASSUME NEW delete \in BOOLEAN, DownAsked(delete) PROVE MemoryTypes'
  <2>1. UpNow(up.at, up.node, up.serial, up.snap, up.relay, up.nodes) /\ up' = up
    BY <1>26, UpStays DEF DownAsked, memory
  <2>2. kills' \in KillRecs
    BY <1>26 DEF DownAsked, KillRecs, AtakTypes, MemoryTypes
  <2> QED
    BY <1>26, <2>1, <2>2 DEF DownAsked, memory, disk, counts, UpNow, AtakTypes, MemoryTypes
<1>27. ASSUME NEW delete \in BOOLEAN, CliDown(delete) PROVE MemoryTypes'
  <2>1. UpNow(up.at, up.node, up.serial, up.snap, up.relay, up.nodes) /\ up' = up
    BY <1>27, UpStays DEF CliDown, memory
  <2> QED
    BY <1>27, <2>1 DEF CliDown, memory, disk, counts, UpNow, AtakTypes, MemoryTypes
<1>28. ASSUME NEW s \in Serials, EmulatorExits(s) PROVE MemoryTypes'
  <2>1. UpNow(up.at, up.node, up.serial, up.snap, up.relay, up.nodes) /\ up' = up
    BY <1>28, UpStays DEF EmulatorExits, memory
  <2> QED
    BY <1>28, <2>1 DEF EmulatorExits, memory, disk, counts, UpNow, AtakTypes, MemoryTypes
<1> QED
  BY <1>1, <1>2, <1>3, <1>4, <1>5, <1>6, <1>7, <1>8, <1>9, <1>10, <1>11, <1>12, <1>13, <1>14, 
     <1>15, <1>16, <1>17, <1>18, <1>19, <1>20, <1>21, <1>22, <1>23, <1>24, <1>25, <1>26, <1>27, <1>28
      DEF AtakNext, UpStep, KillsStep

\* The emulators and their disks, and the command line.
LEMMA NextWorld == AtakTypes /\ [AtakNext]_atakVars => WorldTypes'
<1> SUFFICES ASSUME AtakTypes, [AtakNext]_atakVars PROVE WorldTypes'
  OBVIOUS
<1>1. CASE UNCHANGED atakVars
  BY <1>1 DEF atakVars, disk, counts, AtakTypes, WorldTypes
<1>2. CASE Reuses
  BY <1>2 DEF Reuses, memory, disk, counts, Up, AtakTypes, WorldTypes, MemoryTypes, UpRecs
<1>3. CASE Copies
  BY <1>3 DEF Copies, memory, disk, counts, Up, AtakTypes, WorldTypes, MemoryTypes, UpRecs
<1>4. CASE CopyRefused
  BY <1>4 DEF CopyRefused, memory, disk, counts, Up, AtakTypes, WorldTypes, MemoryTypes, UpRecs
<1>5. CASE WritesIni
  BY <1>5 DEF WritesIni, memory, disk, counts, Up, AtakTypes, WorldTypes, MemoryTypes, UpRecs
<1>6. CASE Strips
  BY <1>6 DEF Strips, memory, disk, counts, Up, AtakTypes, WorldTypes, MemoryTypes, UpRecs
<1>7. CASE Allocates
  BY <1>7 DEF Allocates, memory, disk, counts, Up, AtakTypes, WorldTypes, MemoryTypes, UpRecs
<1>8. CASE Launches
  BY <1>8, LaunchesOne DEF Launches, memory, disk, counts, Up, AtakTypes, WorldTypes
<1>9. CASE Boots
  BY <1>9, BootsOne DEF Boots, memory, disk, counts, Up, AtakTypes, WorldTypes
<1>10. CASE BootFails
  BY <1>10, NoEmuIs DEF BootFails, memory, disk, counts, Up, AtakTypes, WorldTypes, MemoryTypes, UpRecs
<1>11. CASE ProvisionFails
  BY <1>11 DEF ProvisionFails, memory, disk, counts, Up, AtakTypes, WorldTypes, MemoryTypes, UpRecs
<1>12. CASE Provisions
  BY <1>12, ProvisionsOne DEF Provisions, memory, disk, counts, Up, AtakTypes, WorldTypes
<1>13. CASE SavesSnapshot
  BY <1>13 DEF SavesSnapshot, memory, disk, counts, Up, AtakTypes, WorldTypes, MemoryTypes, UpRecs
<1>14. CASE NextNode
  BY <1>14 DEF NextNode, memory, disk, counts, Up, AtakTypes, WorldTypes, MemoryTypes, UpRecs
<1>15. CASE UpReady
  BY <1>15 DEF UpReady, memory, disk, counts, AtakTypes, WorldTypes, MemoryTypes, UpRecs
<1>16. CASE UpFails
  BY <1>16 DEF UpFails, memory, disk, counts, AtakTypes, WorldTypes, MemoryTypes, UpRecs
<1>17. CASE KillsNext
  <2>1. Head(kills.left).serial \in Serials
    BY <1>17, HeadsAre DEF KillsNext
  <2>2. emus' \in [Serials -> Emus]
    BY <1>17, <2>1, KilledStops DEF KillsNext
  <2> QED
    BY <1>17, <2>2 DEF KillsNext, disk, counts, AtakTypes, WorldTypes
<1>18. CASE Deletes
  <2>1. Head(kills.delete).node \in Nodes
    BY <1>18, HeadsAre DEF Deletes
  <2> QED
    BY <1>18, <2>1 DEF Deletes, counts, AtakTypes, WorldTypes
<1>19. CASE KillsRaise
  BY <1>19 DEF KillsRaise, memory, disk, counts, KillsOver, AtakTypes, WorldTypes, MemoryTypes, UpRecs
<1>20. CASE KillsDone
  BY <1>20 DEF KillsDone, memory, disk, counts, KillsOver, AtakTypes, WorldTypes, MemoryTypes, UpRecs
<1>21. CASE CliKills
  <2>1. PICK s \in cli.left : emus' = Killed(s) /\ cli' = [cli EXCEPT !.left = @ \ {s}]
    BY <1>21 DEF CliKills
  <2>2. s \in Serials /\ cli' \in CliRecs
    BY <2>1 DEF AtakTypes, WorldTypes, CliRecs
  <2>3. emus' \in [Serials -> Emus]
    BY <2>1, <2>2, KilledStops
  <2> QED
    BY <1>21, <2>2, <2>3 DEF CliKills, disk, counts, AtakTypes, WorldTypes
<1>22. CASE CliDeletes
  <2>1. PICK n \in cli.delete :
          /\ clones' = [clones EXCEPT ![n] = IF @ = "dir" THEN @ ELSE "none"]
          /\ snaps' = [snaps EXCEPT ![n] = IF clones[n] = "dir" THEN @ ELSE NoRelay]
          /\ cli' = [cli EXCEPT !.delete = @ \ {n}]
    BY <1>22 DEF CliDeletes
  <2>2. n \in Nodes /\ cli' \in CliRecs
    BY <2>1 DEF AtakTypes, WorldTypes, CliRecs
  <2> QED
    BY <1>22, <2>1, <2>2 DEF CliDeletes, counts, AtakTypes, WorldTypes
<1>23. CASE CliOver
  <2>1. cli' \in CliRecs
    BY <1>23 DEF CliOver, NoCli, CliRecs
  <2> QED
    BY <1>23, <2>1 DEF CliOver, disk, counts, AtakTypes, WorldTypes
<1>24. CASE AtakServerDies
  BY <1>24 DEF AtakServerDies, memory, disk, counts, AtakTypes, WorldTypes, MemoryTypes, UpRecs
<1>25. ASSUME NEW relay \in Relays, UpAsked(relay) PROVE WorldTypes'
  BY <1>25 DEF UpAsked, memory, disk, counts, AtakTypes, WorldTypes, MemoryTypes, UpRecs
<1>26. ASSUME NEW delete \in BOOLEAN, DownAsked(delete) PROVE WorldTypes'
  BY <1>26 DEF DownAsked, memory, disk, counts, AtakTypes, WorldTypes, MemoryTypes, UpRecs
<1>27. ASSUME NEW delete \in BOOLEAN, CliDown(delete) PROVE WorldTypes'
  <2>1. cli' \in CliRecs
    BY <1>27 DEF CliDown, CliRecs, Discovered
  <2> QED
    BY <1>27, <2>1 DEF CliDown, disk, AtakTypes, WorldTypes
<1>28. ASSUME NEW s \in Serials, EmulatorExits(s) PROVE WorldTypes'
  BY <1>28, NoEmuIs DEF EmulatorExits, memory, disk, counts, AtakTypes, WorldTypes, MemoryTypes, UpRecs
<1> QED
  BY <1>1, <1>2, <1>3, <1>4, <1>5, <1>6, <1>7, <1>8, <1>9, <1>10, <1>11, <1>12, <1>13, <1>14, 
     <1>15, <1>16, <1>17, <1>18, <1>19, <1>20, <1>21, <1>22, <1>23, <1>24, <1>25, <1>26, <1>27, <1>28
      DEF AtakNext, UpStep, KillsStep

\* Whoever is at work is what the phase says, and clears it when it is over.
LEMMA NextAtWork == AtakTypes /\ AtWork /\ [AtakNext]_atakVars => AtWork'
<1> SUFFICES ASSUME AtakTypes, AtWork, [AtakNext]_atakVars PROVE AtWork'
  OBVIOUS
<1>1. CASE UNCHANGED atakVars
  BY <1>1 DEF atakVars, memory, AtWork
<1>2. CASE Reuses
  <2>1. UpNow("allocating", up.node, up.serial, up.snap, up.relay, up.nodes)
    BY <1>2, UpMoves DEF Reuses, UpPlaces
  <2> QED
    BY <1>2, <2>1 DEF Reuses, memory, disk, counts, Up, UpNow, AtWork
<1>3. CASE Copies
  <2>1. PICK x \in {"copied", "failed"} : UpNow(x, up.node, up.serial, up.snap, up.relay, up.nodes)
    BY <1>3, UpMoves DEF Copies, UpPlaces
  <2> QED
    BY <1>3, <2>1 DEF Copies, memory, disk, counts, Up, UpNow, AtWork
<1>4. CASE CopyRefused
  <2>1. UpNow("failed", up.node, up.serial, up.snap, up.relay, up.nodes)
    BY <1>4, UpMoves DEF CopyRefused, UpPlaces
  <2> QED
    BY <1>4, <2>1 DEF CopyRefused, memory, disk, counts, Up, UpNow, AtWork
<1>5. CASE WritesIni
  <2>1. UpNow("stripping", up.node, up.serial, up.snap, up.relay, up.nodes)
    BY <1>5, UpMoves DEF WritesIni, UpPlaces
  <2> QED
    BY <1>5, <2>1 DEF WritesIni, memory, disk, counts, Up, UpNow, AtWork
<1>6. CASE Strips
  <2>1. UpNow("allocating", up.node, up.serial, up.snap, up.relay, up.nodes)
    BY <1>6, UpMoves DEF Strips, UpPlaces
  <2> QED
    BY <1>6, <2>1 DEF Strips, memory, disk, counts, Up, UpNow, AtWork
<1>7. CASE Allocates
  <2>1. \/ UpNow("failed", up.node, up.serial, up.snap, up.relay, up.nodes)
        \/ \E s \in Serials : /\ emus[s].state = "none"
                              /\ UpNow("launching", up.node, s, snaps[up.node] # NoRelay, up.relay, up.nodes)
    BY <1>7, UpMoves, UpAllocates DEF Allocates, UpPlaces
  <2> QED
    BY <1>7, <2>1 DEF Allocates, memory, disk, counts, Up, UpNow, AtWork
<1>8. CASE Launches
  <2>1. UpNow("booting", up.node, up.serial, up.snap, up.relay, up.nodes)
    BY <1>8, UpMoves DEF Launches, UpPlaces
  <2> QED
    BY <1>8, <2>1 DEF Launches, memory, disk, counts, Up, UpNow, AtWork
<1>9. CASE Boots
  <2>1. UpNow(IF up.snap THEN "next" ELSE "provisioning", up.node, up.serial, up.snap, up.relay,
              Append(up.nodes, [node |-> up.node, serial |-> up.serial]))
    BY <1>9, UpBoots
  <2> QED
    BY <1>9, <2>1 DEF Boots, memory, disk, counts, Up, UpNow, AtWork
<1>10. CASE BootFails
  <2>1. UpNow("failed", up.node, up.serial, up.snap, up.relay, up.nodes)
    BY <1>10, UpMoves DEF BootFails, UpPlaces
  <2> QED
    BY <1>10, <2>1 DEF BootFails, memory, disk, counts, Up, UpNow, AtWork
<1>11. CASE ProvisionFails
  <2>1. UpNow("failed", up.node, up.serial, up.snap, up.relay, up.nodes)
    BY <1>11, UpMoves DEF ProvisionFails, UpPlaces
  <2> QED
    BY <1>11, <2>1 DEF ProvisionFails, memory, disk, counts, Up, UpNow, AtWork
<1>12. CASE Provisions
  <2>1. UpNow("saving", up.node, up.serial, up.snap, up.relay, up.nodes)
    BY <1>12, UpMoves DEF Provisions, UpPlaces
  <2> QED
    BY <1>12, <2>1 DEF Provisions, memory, disk, counts, Up, UpNow, AtWork
<1>13. CASE SavesSnapshot
  <2>1. UpNow("next", up.node, up.serial, up.snap, up.relay, up.nodes)
    BY <1>13, UpMoves DEF SavesSnapshot, UpPlaces
  <2> QED
    BY <1>13, <2>1 DEF SavesSnapshot, memory, disk, counts, Up, UpNow, AtWork
<1>14. CASE NextNode
  <2>1. UpNow("cloning", up.node + 1, up.serial, up.snap, up.relay, up.nodes)
    BY <1>14, UpNext
  <2> QED
    BY <1>14, <2>1 DEF NextNode, memory, disk, counts, Up, UpNow, AtWork
<1>15. CASE UpReady
  <2>1. UpNow("off", 0, 1, FALSE, NoRelay, <<>>) /\ up' = NotUp
    BY <1>15, NotUpIs DEF UpReady, UpNow
  <2> QED
    BY <1>15, <2>1 DEF UpReady, memory, disk, counts, UpNow, AtWork
<1>16. CASE UpFails
  <2>1. UpNow("undoing", up.node, up.serial, up.snap, up.relay, up.nodes)
    BY <1>16, UpMoves DEF UpFails, UpPlaces
  <2>2. kills'.by = "up"
    BY <1>16 DEF UpFails
  <2> QED
    BY <1>16, <2>1, <2>2 DEF UpFails, UpNow, AtWork, AtakTypes, MemoryTypes, KillRecs
<1>17. CASE KillsNext
  <2>1. UpNow(up.at, up.node, up.serial, up.snap, up.relay, up.nodes) /\ up' = up
    BY <1>17, UpStays DEF KillsNext, memory
  <2>2. kills'.by = kills.by /\ kills.by # "nobody"
    BY <1>17, NoKillsIs DEF KillsNext, AtWork, AtakTypes, MemoryTypes, KillRecs
  <2> QED
    BY <1>17, <2>1, <2>2 DEF KillsNext, memory, UpNow, AtWork
<1>18. CASE Deletes
  <2>1. UpNow(up.at, up.node, up.serial, up.snap, up.relay, up.nodes) /\ up' = up
    BY <1>18, UpStays DEF Deletes, memory
  <2>2. kills'.by = kills.by /\ kills.by # "nobody"
    BY <1>18, NoKillsIs DEF Deletes, AtWork, AtakTypes, MemoryTypes, KillRecs
  <2> QED
    BY <1>18, <2>1, <2>2 DEF Deletes, memory, UpNow, AtWork
<1>19. CASE KillsRaise
  <2>1. up' = (IF kills.by = "up" THEN NotUp ELSE up) /\ up' \in UpRecs
    BY <1>19, NotUpIs DEF KillsRaise, KillsOver, AtakTypes, MemoryTypes
  <2> QED
    BY <1>19, <2>1, NoKillsIs, NotUpIs DEF KillsRaise, memory, disk, counts, KillsOver, AtWork, AtakTypes, MemoryTypes, KillRecs
<1>20. CASE KillsDone
  <2>1. up' = (IF kills.by = "up" THEN NotUp ELSE up) /\ up' \in UpRecs
    BY <1>20, NotUpIs DEF KillsDone, KillsOver, AtakTypes, MemoryTypes
  <2> QED
    BY <1>20, <2>1, NoKillsIs, NotUpIs DEF KillsDone, memory, disk, counts, KillsOver, AtWork, AtakTypes, MemoryTypes, KillRecs
<1>21. CASE CliKills
  <2>1. UpNow(up.at, up.node, up.serial, up.snap, up.relay, up.nodes) /\ up' = up
    BY <1>21, UpStays DEF CliKills, memory
  <2> QED
    BY <1>21, <2>1 DEF CliKills, memory, disk, counts, UpNow, AtWork
<1>22. CASE CliDeletes
  <2>1. UpNow(up.at, up.node, up.serial, up.snap, up.relay, up.nodes) /\ up' = up
    BY <1>22, UpStays DEF CliDeletes, memory
  <2> QED
    BY <1>22, <2>1 DEF CliDeletes, memory, disk, counts, UpNow, AtWork
<1>23. CASE CliOver
  <2>1. UpNow(up.at, up.node, up.serial, up.snap, up.relay, up.nodes) /\ up' = up
    BY <1>23, UpStays DEF CliOver, memory
  <2> QED
    BY <1>23, <2>1 DEF CliOver, memory, disk, counts, UpNow, AtWork
<1>24. CASE AtakServerDies
  <2>1. UpNow("off", 0, 1, FALSE, NoRelay, <<>>) /\ up' = NotUp
    BY <1>24, NotUpIs DEF AtakServerDies, UpNow
  <2> QED
    BY <1>24, <2>1, NoKillsIs DEF AtakServerDies, UpNow, AtWork
<1>25. ASSUME NEW relay \in Relays, UpAsked(relay) PROVE AtWork'
  <2>1. UpNow("cloning", 0, 1, FALSE, relay, <<>>)
    BY <1>25, UpBegins
  <2> QED
    BY <1>25, <2>1 DEF UpAsked, memory, disk, counts, UpNow, AtWork
<1>26. ASSUME NEW delete \in BOOLEAN, DownAsked(delete) PROVE AtWork'
  <2>1. UpNow(up.at, up.node, up.serial, up.snap, up.relay, up.nodes) /\ up' = up
    BY <1>26, UpStays DEF DownAsked, memory
  <2>2. kills'.by = "down"
    BY <1>26 DEF DownAsked
  <2> QED
    BY <1>26, <2>1, <2>2 DEF DownAsked, UpNow, AtWork, AtakTypes, MemoryTypes, KillRecs
<1>27. ASSUME NEW delete \in BOOLEAN, CliDown(delete) PROVE AtWork'
  <2>1. UpNow(up.at, up.node, up.serial, up.snap, up.relay, up.nodes) /\ up' = up
    BY <1>27, UpStays DEF CliDown, memory
  <2> QED
    BY <1>27, <2>1 DEF CliDown, memory, disk, counts, UpNow, AtWork
<1>28. ASSUME NEW s \in Serials, EmulatorExits(s) PROVE AtWork'
  <2>1. UpNow(up.at, up.node, up.serial, up.snap, up.relay, up.nodes) /\ up' = up
    BY <1>28, UpStays DEF EmulatorExits, memory
  <2> QED
    BY <1>28, <2>1 DEF EmulatorExits, memory, disk, counts, UpNow, AtWork
<1> QED
  BY <1>1, <1>2, <1>3, <1>4, <1>5, <1>6, <1>7, <1>8, <1>9, <1>10, <1>11, <1>12, <1>13, <1>14, 
     <1>15, <1>16, <1>17, <1>18, <1>19, <1>20, <1>21, <1>22, <1>23, <1>24, <1>25, <1>26, <1>27, <1>28
      DEF AtakNext, UpStep, KillsStep

\* The port that was allocated stays free, and the emulator that boots there is the node's.
LEMMA NextUpStands == AtakTypes /\ AtWork /\ UpStands /\ [AtakNext]_atakVars => UpStands'
<1> SUFFICES ASSUME AtakTypes, AtWork, UpStands, [AtakNext]_atakVars PROVE UpStands'
  OBVIOUS
<1>1. CASE UNCHANGED atakVars
  BY <1>1 DEF atakVars, memory, disk, UpStands
<1>2. CASE Reuses
  <2>1. UpNow("allocating", up.node, up.serial, up.snap, up.relay, up.nodes)
    BY <1>2, UpMoves DEF Reuses, UpPlaces
  <2> QED
    BY <1>2, <2>1 DEF Reuses, memory, disk, counts, Up, UpNow, UpStands, AtWork
<1>3. CASE Copies
  <2>1. PICK x \in {"copied", "failed"} : UpNow(x, up.node, up.serial, up.snap, up.relay, up.nodes)
    BY <1>3, UpMoves DEF Copies, UpPlaces
  <2> QED
    BY <1>3, <2>1 DEF Copies, memory, disk, counts, Up, UpNow, UpStands, AtWork
<1>4. CASE CopyRefused
  <2>1. UpNow("failed", up.node, up.serial, up.snap, up.relay, up.nodes)
    BY <1>4, UpMoves DEF CopyRefused, UpPlaces
  <2> QED
    BY <1>4, <2>1 DEF CopyRefused, memory, disk, counts, Up, UpNow, UpStands, AtWork
<1>5. CASE WritesIni
  <2>1. UpNow("stripping", up.node, up.serial, up.snap, up.relay, up.nodes)
    BY <1>5, UpMoves DEF WritesIni, UpPlaces
  <2> QED
    BY <1>5, <2>1 DEF WritesIni, memory, disk, counts, Up, UpNow, UpStands, AtWork
<1>6. CASE Strips
  <2>1. UpNow("allocating", up.node, up.serial, up.snap, up.relay, up.nodes)
    BY <1>6, UpMoves DEF Strips, UpPlaces
  <2> QED
    BY <1>6, <2>1 DEF Strips, memory, disk, counts, Up, UpNow, UpStands, AtWork
<1>7. CASE Allocates
  <2>1. \/ UpNow("failed", up.node, up.serial, up.snap, up.relay, up.nodes)
        \/ \E s \in Serials : /\ emus[s].state = "none"
                              /\ UpNow("launching", up.node, s, snaps[up.node] # NoRelay, up.relay, up.nodes)
    BY <1>7, UpMoves, UpAllocates DEF Allocates, UpPlaces
  <2>2. UNCHANGED <<disk, emus>>
    BY <1>7 DEF Allocates
  <2> QED
    BY <2>1, <2>2 DEF disk, UpNow, UpStands
<1>8. CASE Launches
  <2>1. UpNow("booting", up.node, up.serial, up.snap, up.relay, up.nodes)
    BY <1>8, UpMoves DEF Launches, UpPlaces
  <2>2. up.snap /\ clones[up.node] = "whole" => snaps[up.node] # NoRelay
    BY <1>8 DEF Launches, Up, UpStands
  <2>3. emus[up.serial].state = "none"
    BY <1>8 DEF Launches, Up, UpStands
  <2> QED
    BY <1>8, <2>1, <2>2, <2>3, LaunchesOne DEF UpNow, UpStands
<1>9. CASE Boots
  <2>1. UpNow(IF up.snap THEN "next" ELSE "provisioning", up.node, up.serial, up.snap, up.relay,
              Append(up.nodes, [node |-> up.node, serial |-> up.serial]))
    BY <1>9, UpBoots
  <2> QED
    BY <1>9, <2>1 DEF Boots, memory, disk, counts, Up, UpNow, UpStands, AtWork
<1>10. CASE BootFails
  <2>1. UpNow("failed", up.node, up.serial, up.snap, up.relay, up.nodes)
    BY <1>10, UpMoves DEF BootFails, UpPlaces
  <2> QED
    BY <1>10, <2>1 DEF BootFails, memory, disk, counts, Up, UpNow, UpStands, AtWork
<1>11. CASE ProvisionFails
  <2>1. UpNow("failed", up.node, up.serial, up.snap, up.relay, up.nodes)
    BY <1>11, UpMoves DEF ProvisionFails, UpPlaces
  <2> QED
    BY <1>11, <2>1 DEF ProvisionFails, memory, disk, counts, Up, UpNow, UpStands, AtWork
<1>12. CASE Provisions
  <2>1. UpNow("saving", up.node, up.serial, up.snap, up.relay, up.nodes)
    BY <1>12, UpMoves DEF Provisions, UpPlaces
  <2> QED
    BY <1>12, <2>1 DEF Provisions, memory, disk, counts, Up, UpNow, UpStands, AtWork
<1>13. CASE SavesSnapshot
  <2>1. UpNow("next", up.node, up.serial, up.snap, up.relay, up.nodes)
    BY <1>13, UpMoves DEF SavesSnapshot, UpPlaces
  <2> QED
    BY <1>13, <2>1 DEF SavesSnapshot, memory, disk, counts, Up, UpNow, UpStands, AtWork
<1>14. CASE NextNode
  <2>1. UpNow("cloning", up.node + 1, up.serial, up.snap, up.relay, up.nodes)
    BY <1>14, UpNext
  <2> QED
    BY <1>14, <2>1 DEF NextNode, memory, disk, counts, Up, UpNow, UpStands, AtWork
<1>15. CASE UpReady
  <2>1. UpNow("off", 0, 1, FALSE, NoRelay, <<>>) /\ up' = NotUp
    BY <1>15, NotUpIs DEF UpReady, UpNow
  <2> QED
    BY <1>15, <2>1 DEF UpReady, memory, disk, counts, UpNow, UpStands, AtWork
<1>16. CASE UpFails
  <2>1. UpNow("undoing", up.node, up.serial, up.snap, up.relay, up.nodes)
    BY <1>16, UpMoves DEF UpFails, UpPlaces
  <2> QED
    BY <1>16, <2>1 DEF UpFails, memory, disk, counts, UpNow, UpStands, AtWork
<1>17. CASE KillsNext
  <2>1. UpNow(up.at, up.node, up.serial, up.snap, up.relay, up.nodes) /\ up' = up
    BY <1>17, UpStays DEF KillsNext, memory
  <2>2. PICK s \in Serials : emus' = Killed(s)
    BY <1>17, HeadsAre DEF KillsNext
  <2>3. /\ emus[s].state = "none" => emus'[s].state = "none"
        /\ emus'[s].state # "booting" /\ \A t \in Serials \ {s} : emus'[t] = emus[t]
    BY <2>2, KilledStops DEF Running
  <2>4. /\ emus[up.serial].state = "none" => emus'[up.serial].state = "none"
        /\ emus'[up.serial].state = "booting" => emus'[up.serial] = emus[up.serial]
    BY <2>3 DEF AtakTypes, MemoryTypes, UpRecs
  <2> QED
    BY <1>17, <2>1, <2>4 DEF KillsNext, disk, UpStands
<1>18. CASE Deletes
  <2>1. UpNow(up.at, up.node, up.serial, up.snap, up.relay, up.nodes) /\ up' = up
    BY <1>18, UpStays DEF Deletes, memory
  <2>2. clones'[up.node] = "whole" => clones[up.node] = "whole" /\ snaps'[up.node] = snaps[up.node]
    BY <1>18, HeadsAre DEF Deletes, AtakTypes, MemoryTypes, WorldTypes, UpRecs
  <2> QED
    BY <1>18, <2>1, <2>2 DEF Deletes, UpStands
<1>19. CASE KillsRaise
  <2>1. up' = (IF kills.by = "up" THEN NotUp ELSE up) /\ up' \in UpRecs
    BY <1>19, NotUpIs DEF KillsRaise, KillsOver, AtakTypes, MemoryTypes
  <2> QED
    BY <1>19, <2>1, NotUpIs DEF KillsRaise, memory, disk, counts, KillsOver, UpStands
<1>20. CASE KillsDone
  <2>1. up' = (IF kills.by = "up" THEN NotUp ELSE up) /\ up' \in UpRecs
    BY <1>20, NotUpIs DEF KillsDone, KillsOver, AtakTypes, MemoryTypes
  <2> QED
    BY <1>20, <2>1, NotUpIs DEF KillsDone, memory, disk, counts, KillsOver, UpStands
<1>21. CASE CliKills
  <2>1. UpNow(up.at, up.node, up.serial, up.snap, up.relay, up.nodes) /\ up' = up
    BY <1>21, UpStays DEF CliKills, memory
  <2>2. PICK s \in Serials : emus' = Killed(s)
    BY <1>21 DEF CliKills, AtakTypes, WorldTypes, CliRecs
  <2>3. /\ emus[s].state = "none" => emus'[s].state = "none"
        /\ emus'[s].state # "booting" /\ \A t \in Serials \ {s} : emus'[t] = emus[t]
    BY <2>2, KilledStops DEF Running
  <2>4. /\ emus[up.serial].state = "none" => emus'[up.serial].state = "none"
        /\ emus'[up.serial].state = "booting" => emus'[up.serial] = emus[up.serial]
    BY <2>3 DEF AtakTypes, MemoryTypes, UpRecs
  <2> QED
    BY <1>21, <2>1, <2>4 DEF CliKills, memory, disk, UpStands
<1>22. CASE CliDeletes
  <2>1. UpNow(up.at, up.node, up.serial, up.snap, up.relay, up.nodes) /\ up' = up
    BY <1>22, UpStays DEF CliDeletes, memory
  <2>2. clones'[up.node] = "whole" => clones[up.node] = "whole" /\ snaps'[up.node] = snaps[up.node]
    BY <1>22 DEF CliDeletes, AtakTypes, MemoryTypes, WorldTypes, UpRecs, CliRecs
  <2> QED
    BY <1>22, <2>1, <2>2 DEF CliDeletes, UpStands
<1>23. CASE CliOver
  <2>1. UpNow(up.at, up.node, up.serial, up.snap, up.relay, up.nodes) /\ up' = up
    BY <1>23, UpStays DEF CliOver, memory
  <2> QED
    BY <1>23, <2>1 DEF CliOver, memory, disk, counts, UpNow, UpStands, AtWork
<1>24. CASE AtakServerDies
  <2>1. UpNow("off", 0, 1, FALSE, NoRelay, <<>>) /\ up' = NotUp
    BY <1>24, NotUpIs DEF AtakServerDies, UpNow
  <2> QED
    BY <1>24, <2>1 DEF AtakServerDies, memory, disk, counts, UpNow, UpStands, AtWork
<1>25. ASSUME NEW relay \in Relays, UpAsked(relay) PROVE UpStands'
  <2>1. UpNow("cloning", 0, 1, FALSE, relay, <<>>)
    BY <1>25, UpBegins
  <2> QED
    BY <1>25, <2>1 DEF UpAsked, memory, disk, counts, UpNow, UpStands, AtWork
<1>26. ASSUME NEW delete \in BOOLEAN, DownAsked(delete) PROVE UpStands'
  <2>1. UpNow(up.at, up.node, up.serial, up.snap, up.relay, up.nodes) /\ up' = up
    BY <1>26, UpStays DEF DownAsked, memory
  <2> QED
    BY <1>26, <2>1 DEF DownAsked, memory, disk, counts, UpNow, UpStands, AtWork
<1>27. ASSUME NEW delete \in BOOLEAN, CliDown(delete) PROVE UpStands'
  <2>1. UpNow(up.at, up.node, up.serial, up.snap, up.relay, up.nodes) /\ up' = up
    BY <1>27, UpStays DEF CliDown, memory
  <2> QED
    BY <1>27, <2>1 DEF CliDown, memory, disk, counts, UpNow, UpStands, AtWork
<1>28. ASSUME NEW s \in Serials, EmulatorExits(s) PROVE UpStands'
  <2>1. UpNow(up.at, up.node, up.serial, up.snap, up.relay, up.nodes) /\ up' = up
    BY <1>28, UpStays DEF EmulatorExits, memory
  <2>2. /\ emus[up.serial].state = "none" => emus'[up.serial].state = "none"
        /\ emus'[up.serial].state = "booting" => emus'[up.serial] = emus[up.serial]
    BY <1>28, NoEmuIs DEF EmulatorExits, AtakTypes, MemoryTypes, WorldTypes, UpRecs
  <2> QED
    BY <1>28, <2>1, <2>2 DEF EmulatorExits, disk, UpStands
<1> QED
  BY <1>1, <1>2, <1>3, <1>4, <1>5, <1>6, <1>7, <1>8, <1>9, <1>10, <1>11, <1>12, <1>13, <1>14, 
     <1>15, <1>16, <1>17, <1>18, <1>19, <1>20, <1>21, <1>22, <1>23, <1>24, <1>25, <1>26, <1>27, <1>28
      DEF AtakNext, UpStep, KillsStep

\* The bring-up and the fleet hold members.
LEMMA NodesAreMembers ==
  ASSUME AtakTypes
  PROVE  \A m \in Range(up.nodes) \cup Range(fleet) : m \in Member /\ m.serial \in Serials
<1>1. up.nodes \in Seq(Member) /\ fleet \in Seq(Member)
  BY DEF AtakTypes, MemoryTypes, UpRecs
<1>2. Range(up.nodes) \subseteq Member /\ Range(fleet) \subseteq Member
  BY <1>1, RangeOf
<1>3. \A m \in Member : m.serial \in Serials
  BY DEF Member
<1> QED
  BY <1>2, <1>3

\* A member stays provisioned where its emulator does not come up for another node.
LEMMA ProvisionedStays ==
  ASSUME NEW m, Provisioned(m),
         \/ emus'[m.serial] = emus[m.serial] \/ emus'[m.serial].state # "up"
         \/ emus'[m.serial].node # m.node \/ emus'[m.serial].relay # NoRelay
  PROVE  Provisioned(m)'
BY DEF Provisioned

\* Where the bring-up stays and no emulator comes up, so do its nodes and the fleet's.
LEMMA NodesFrame ==
  ASSUME NodesStand, UNCHANGED <<up, fleet>>, upPhase' = "ready" => upPhase = "ready",
         AtakTypes, \A s \in Serials : emus'[s] = emus[s] \/ emus'[s].state # "up"
  PROVE  NodesStand'
<1>1. \A m \in Member : m.serial \in Serials
  BY DEF Member
<1>2. Range(up.nodes) \subseteq Member /\ Range(fleet) \subseteq Member
  BY RangeOf DEF AtakTypes, MemoryTypes, UpRecs
<1>3. ASSUME NEW m \in Member, Provisioned(m) PROVE Provisioned(m)'
  BY <1>1, <1>3 DEF Provisioned
<1>4. ASSUME NEW m \in Range(up.nodes) PROVE NodeStands(m)'
  BY <1>2, <1>3 DEF NodesStand, NodeStands
<1>5. ASSUME upPhase' = "ready", NEW m \in Range(fleet) PROVE Provisioned(m)'
  BY <1>2, <1>3, <1>5 DEF NodesStand
<1> QED
  BY <1>4, <1>5 DEF NodesStand

\* A node is provisioned before the next is begun, and the last before the fleet is ready.
LEMMA NextNodes == AtakTypes /\ AtWork /\ UpStands /\ NodesStand /\ [AtakNext]_atakVars => NodesStand'
<1> SUFFICES ASSUME AtakTypes, AtWork, UpStands, NodesStand, [AtakNext]_atakVars PROVE NodesStand'
  OBVIOUS
<1>1. CASE UNCHANGED atakVars
  BY <1>1 DEF atakVars, memory, NodesStand, NodeStands, Provisioned
<1>2. CASE Reuses
  <2>1. UpNow("allocating", up.node, up.serial, up.snap, up.relay, up.nodes)
    BY <1>2, UpMoves DEF Reuses, UpPlaces
  <2>2. upPhase' = "bringing_up" /\ Range(up.nodes) \subseteq Member
    <3>1. upPhase' = "bringing_up"
      BY <1>2 DEF Reuses, memory, disk, counts, Up, AtWork
    <3> QED
      BY <3>1, NodesAreMembers
  <2>3. \A m \in Member : m.serial \in Serials /\ m.node \in Nat /\ up.node \in Nat
    BY AtakAssumption DEF Member, Nodes, AtakTypes, MemoryTypes, UpRecs
  <2>4. ASSUME NEW m \in Range(up.nodes) PROVE NodeStands(m)'
    BY <1>2, <2>1, <2>2, <2>3 DEF Reuses, memory, disk, counts, Up, UpNow, NodesStand, NodeStands, Provisioned, Early
  <2> QED
    BY <2>1, <2>2, <2>4 DEF UpNow, NodesStand
<1>3. CASE Copies
  <2>1. PICK x \in {"copied", "failed"} : UpNow(x, up.node, up.serial, up.snap, up.relay, up.nodes)
    BY <1>3, UpMoves DEF Copies, UpPlaces
  <2>2. upPhase' = "bringing_up" /\ Range(up.nodes) \subseteq Member
    <3>1. upPhase' = "bringing_up"
      BY <1>3 DEF Copies, memory, disk, counts, Up, AtWork
    <3> QED
      BY <3>1, NodesAreMembers
  <2>3. \A m \in Member : m.serial \in Serials /\ m.node \in Nat /\ up.node \in Nat
    BY AtakAssumption DEF Member, Nodes, AtakTypes, MemoryTypes, UpRecs
  <2>4. ASSUME NEW m \in Range(up.nodes) PROVE NodeStands(m)'
    BY <1>3, <2>1, <2>2, <2>3 DEF Copies, memory, disk, counts, Up, UpNow, NodesStand, NodeStands, Provisioned, Early
  <2> QED
    BY <2>1, <2>2, <2>4 DEF UpNow, NodesStand
<1>4. CASE CopyRefused
  <2>1. UpNow("failed", up.node, up.serial, up.snap, up.relay, up.nodes)
    BY <1>4, UpMoves DEF CopyRefused, UpPlaces
  <2>2. upPhase' = "bringing_up" /\ Range(up.nodes) \subseteq Member
    <3>1. upPhase' = "bringing_up"
      BY <1>4 DEF CopyRefused, memory, disk, counts, Up, AtWork
    <3> QED
      BY <3>1, NodesAreMembers
  <2>3. \A m \in Member : m.serial \in Serials /\ m.node \in Nat /\ up.node \in Nat
    BY AtakAssumption DEF Member, Nodes, AtakTypes, MemoryTypes, UpRecs
  <2>4. ASSUME NEW m \in Range(up.nodes) PROVE NodeStands(m)'
    BY <1>4, <2>1, <2>2, <2>3 DEF CopyRefused, memory, disk, counts, Up, UpNow, NodesStand, NodeStands, Provisioned, Early
  <2> QED
    BY <2>1, <2>2, <2>4 DEF UpNow, NodesStand
<1>5. CASE WritesIni
  <2>1. UpNow("stripping", up.node, up.serial, up.snap, up.relay, up.nodes)
    BY <1>5, UpMoves DEF WritesIni, UpPlaces
  <2>2. upPhase' = "bringing_up" /\ Range(up.nodes) \subseteq Member
    <3>1. upPhase' = "bringing_up"
      BY <1>5 DEF WritesIni, memory, disk, counts, Up, AtWork
    <3> QED
      BY <3>1, NodesAreMembers
  <2>3. \A m \in Member : m.serial \in Serials /\ m.node \in Nat /\ up.node \in Nat
    BY AtakAssumption DEF Member, Nodes, AtakTypes, MemoryTypes, UpRecs
  <2>4. ASSUME NEW m \in Range(up.nodes) PROVE NodeStands(m)'
    BY <1>5, <2>1, <2>2, <2>3 DEF WritesIni, memory, disk, counts, Up, UpNow, NodesStand, NodeStands, Provisioned, Early
  <2> QED
    BY <2>1, <2>2, <2>4 DEF UpNow, NodesStand
<1>6. CASE Strips
  <2>1. UpNow("allocating", up.node, up.serial, up.snap, up.relay, up.nodes)
    BY <1>6, UpMoves DEF Strips, UpPlaces
  <2>2. upPhase' = "bringing_up" /\ Range(up.nodes) \subseteq Member
    <3>1. upPhase' = "bringing_up"
      BY <1>6 DEF Strips, memory, disk, counts, Up, AtWork
    <3> QED
      BY <3>1, NodesAreMembers
  <2>3. \A m \in Member : m.serial \in Serials /\ m.node \in Nat /\ up.node \in Nat
    BY AtakAssumption DEF Member, Nodes, AtakTypes, MemoryTypes, UpRecs
  <2>4. ASSUME NEW m \in Range(up.nodes) PROVE NodeStands(m)'
    BY <1>6, <2>1, <2>2, <2>3 DEF Strips, memory, disk, counts, Up, UpNow, NodesStand, NodeStands, Provisioned, Early
  <2> QED
    BY <2>1, <2>2, <2>4 DEF UpNow, NodesStand
<1>7. CASE Allocates
  <2>1. \/ UpNow("failed", up.node, up.serial, up.snap, up.relay, up.nodes)
        \/ \E s \in Serials : /\ emus[s].state = "none"
                              /\ UpNow("launching", up.node, s, snaps[up.node] # NoRelay, up.relay, up.nodes)
    BY <1>7, UpMoves, UpAllocates DEF Allocates, UpPlaces
  <2>2. upPhase' = "bringing_up" /\ Range(up.nodes) \subseteq Member
    <3>1. upPhase' = "bringing_up"
      BY <1>7 DEF Allocates, memory, disk, counts, Up, AtWork
    <3> QED
      BY <3>1, NodesAreMembers
  <2>3. \A m \in Member : m.serial \in Serials /\ m.node \in Nat /\ up.node \in Nat
    BY AtakAssumption DEF Member, Nodes, AtakTypes, MemoryTypes, UpRecs
  <2>4. ASSUME NEW m \in Range(up.nodes) PROVE NodeStands(m)'
    <3>1. NodeStands(m) /\ m \in Member /\ up.at = "allocating"
      BY <1>7, <2>2 DEF Allocates, Up, NodesStand
    <3>2. Provisioned(m) => Provisioned(m)'
      BY <1>7 DEF Allocates, disk, Provisioned
    <3>3. CASE UpNow("failed", up.node, up.serial, up.snap, up.relay, up.nodes)
      BY <3>1, <3>2, <3>3 DEF UpNow, NodeStands, Early
    <3>4. CASE \E s \in Serials : UpNow("launching", up.node, s, snaps[up.node] # NoRelay, up.relay, up.nodes)
      <4>1. up'.at = "launching" /\ up'.node = up.node
        BY <3>4 DEF UpNow
      <4> QED
        BY <2>3, <3>1, <3>2, <4>1 DEF NodeStands, Early
    <3> QED
      BY <2>1, <3>3, <3>4
  <2> QED
    BY <2>1, <2>2, <2>4 DEF UpNow, NodesStand
<1>8. CASE Launches
  <2>1. UpNow("booting", up.node, up.serial, up.snap, up.relay, up.nodes)
    BY <1>8, UpMoves DEF Launches, UpPlaces
  <2>2. upPhase' = "bringing_up" /\ Range(up.nodes) \subseteq Member
    <3>1. upPhase' = "bringing_up"
      BY <1>8 DEF Launches, memory, disk, counts, Up, AtWork
    <3> QED
      BY <3>1, NodesAreMembers
  <2>3. \A m \in Member : m.serial \in Serials /\ m.node \in Nat /\ up.node \in Nat
    BY AtakAssumption DEF Member, Nodes, AtakTypes, MemoryTypes, UpRecs
  <2>4. ASSUME NEW m \in Range(up.nodes) PROVE NodeStands(m)'
    <3>1. NodeStands(m) /\ m \in Member
      BY <2>2 DEF NodesStand
    <3>2. up.relay \in Relays /\ up.at \in {"launching", "provisioning"}
      BY <1>8 DEF Launches, Up, AtWork
    <3>3. Provisioned(m) => Provisioned(m)'
      BY <1>8, <2>3, <3>1, <3>2, LaunchesOne, NodesAre DEF Provisioned
    <3>4. m.node <= up.node
      BY <1>8, <2>3, <3>1, <3>2, LaunchesOne, NodesAre DEF NodeStands, Provisioned
    <3> QED
      BY <1>8, <2>1, <2>3, <3>1, <3>2, <3>3, <3>4 DEF Launches, Up, UpNow, NodeStands, Early
  <2> QED
    BY <2>1, <2>2, <2>4 DEF UpNow, NodesStand
<1>9. CASE Boots
  <2>1. UpNow(IF up.snap THEN "next" ELSE "provisioning", up.node, up.serial, up.snap, up.relay,
              Append(up.nodes, [node |-> up.node, serial |-> up.serial]))
    BY <1>9, UpBoots
  <2>2. upPhase' = "bringing_up" /\ Range(up.nodes) \subseteq Member
    <3>1. upPhase' = "bringing_up"
      BY <1>9 DEF Boots, memory, disk, counts, Up, AtWork
    <3> QED
      BY <3>1, NodesAreMembers
  <2>3. \A m \in Member : m.serial \in Serials /\ m.node \in Nat /\ up.node \in Nat
    BY AtakAssumption DEF Member, Nodes, AtakTypes, MemoryTypes, UpRecs
  <2>4. up.at = "booting" /\ emus[up.serial].state = "booting"
    BY <1>9 DEF Boots, Up
  <2>5. emus[up.serial].node = up.node /\ (up.snap => emus[up.serial].relay # NoRelay)
    BY <2>4 DEF UpStands
  <2>6. ASSUME NEW m \in Range(up.nodes) PROVE NodeStands(m)'
    <3>1. NodeStands(m) /\ m \in Member /\ m.node < up.node
      BY <2>2, <2>4 DEF NodesStand, NodeStands, Early
    <3>2. Provisioned(m)'
      BY <1>9, <2>3, <2>5, <3>1, BootsOne DEF NodeStands, Provisioned
    <3> QED
      BY <2>1, <2>3, <3>1, <3>2 DEF UpNow, NodeStands, Early
  <2>7. ASSUME NEW m, m = [node |-> up.node, serial |-> up.serial] PROVE NodeStands(m)'
    <3>1. m.node = up.node /\ m.serial = up.serial
      BY <2>7
    <3>2. up.snap => Provisioned(m)'
      BY <1>9, <2>5, <3>1, BootsOne DEF Provisioned
    <3> QED
      BY <2>1, <2>3, <2>4, <3>1, <3>2 DEF UpNow, NodeStands, Early, AtakTypes, MemoryTypes, UpRecs, Nodes
  <2>8. Range(up'.nodes) = Range(up.nodes) \cup {[node |-> up.node, serial |-> up.serial]}
    BY <1>9, UpBoots
  <2> QED
    BY <2>2, <2>6, <2>7, <2>8 DEF NodesStand
<1>10. CASE BootFails
  <2>1. UpNow("failed", up.node, up.serial, up.snap, up.relay, up.nodes)
    BY <1>10, UpMoves DEF BootFails, UpPlaces
  <2>2. upPhase' = "bringing_up" /\ Range(up.nodes) \subseteq Member
    <3>1. upPhase' = "bringing_up"
      BY <1>10 DEF BootFails, memory, disk, counts, Up, AtWork
    <3> QED
      BY <3>1, NodesAreMembers
  <2>3. \A m \in Member : m.serial \in Serials /\ m.node \in Nat /\ up.node \in Nat
    BY AtakAssumption DEF Member, Nodes, AtakTypes, MemoryTypes, UpRecs
  <2>4. ASSUME NEW m \in Range(up.nodes) PROVE NodeStands(m)'
    <3>1. NodeStands(m) /\ m \in Member /\ up.at = "booting"
      BY <1>10, <2>2 DEF BootFails, Up, NodesStand
    <3>2. Provisioned(m) => Provisioned(m)'
      BY <1>10, <2>3, <3>1, NoEmuIs DEF BootFails, Provisioned, AtakTypes, MemoryTypes, WorldTypes, UpRecs
    <3> QED
      BY <2>1, <2>3, <3>1, <3>2 DEF UpNow, NodeStands, Early
  <2> QED
    BY <2>1, <2>2, <2>4 DEF UpNow, NodesStand
<1>11. CASE ProvisionFails
  <2>1. UpNow("failed", up.node, up.serial, up.snap, up.relay, up.nodes)
    BY <1>11, UpMoves DEF ProvisionFails, UpPlaces
  <2>2. upPhase' = "bringing_up" /\ Range(up.nodes) \subseteq Member
    <3>1. upPhase' = "bringing_up"
      BY <1>11 DEF ProvisionFails, memory, disk, counts, Up, AtWork
    <3> QED
      BY <3>1, NodesAreMembers
  <2>3. \A m \in Member : m.serial \in Serials /\ m.node \in Nat /\ up.node \in Nat
    BY AtakAssumption DEF Member, Nodes, AtakTypes, MemoryTypes, UpRecs
  <2>4. ASSUME NEW m \in Range(up.nodes) PROVE NodeStands(m)'
    BY <1>11, <2>1, <2>2, <2>3 DEF ProvisionFails, memory, disk, counts, Up, UpNow, NodesStand, NodeStands, Provisioned, Early
  <2> QED
    BY <2>1, <2>2, <2>4 DEF UpNow, NodesStand
<1>12. CASE Provisions
  <2>1. UpNow("saving", up.node, up.serial, up.snap, up.relay, up.nodes)
    BY <1>12, UpMoves DEF Provisions, UpPlaces
  <2>2. upPhase' = "bringing_up" /\ Range(up.nodes) \subseteq Member
    <3>1. upPhase' = "bringing_up"
      BY <1>12 DEF Provisions, memory, disk, counts, Up, AtWork
    <3> QED
      BY <3>1, NodesAreMembers
  <2>3. \A m \in Member : m.serial \in Serials /\ m.node \in Nat /\ up.node \in Nat
    BY AtakAssumption DEF Member, Nodes, AtakTypes, MemoryTypes, UpRecs
  <2>4. ASSUME NEW m \in Range(up.nodes) PROVE NodeStands(m)'
    <3>1. NodeStands(m) /\ m \in Member
      BY <2>2 DEF NodesStand
    <3>2. up.relay \in Relays /\ up.at \in {"launching", "provisioning"}
      BY <1>12 DEF Provisions, Up, AtWork
    <3>3. Provisioned(m) => Provisioned(m)'
      BY <1>12, <2>3, <3>1, <3>2, ProvisionsOne, NodesAre DEF Provisioned
    <3>4. m.node = up.node => Provisioned(m)'
      BY <1>12, <2>3, <3>1, <3>2, ProvisionsOne, NodesAre DEF NodeStands, Provisioned
    <3> QED
      BY <1>12, <2>1, <2>3, <3>1, <3>2, <3>3, <3>4 DEF Provisions, Up, UpNow, NodeStands, Early
  <2> QED
    BY <2>1, <2>2, <2>4 DEF UpNow, NodesStand
<1>13. CASE SavesSnapshot
  <2>1. UpNow("next", up.node, up.serial, up.snap, up.relay, up.nodes)
    BY <1>13, UpMoves DEF SavesSnapshot, UpPlaces
  <2>2. upPhase' = "bringing_up" /\ Range(up.nodes) \subseteq Member
    <3>1. upPhase' = "bringing_up"
      BY <1>13 DEF SavesSnapshot, memory, disk, counts, Up, AtWork
    <3> QED
      BY <3>1, NodesAreMembers
  <2>3. \A m \in Member : m.serial \in Serials /\ m.node \in Nat /\ up.node \in Nat
    BY AtakAssumption DEF Member, Nodes, AtakTypes, MemoryTypes, UpRecs
  <2>4. ASSUME NEW m \in Range(up.nodes) PROVE NodeStands(m)'
    BY <1>13, <2>1, <2>2, <2>3 DEF SavesSnapshot, memory, disk, counts, Up, UpNow, NodesStand, NodeStands, Provisioned, Early
  <2> QED
    BY <2>1, <2>2, <2>4 DEF UpNow, NodesStand
<1>14. CASE NextNode
  <2>1. UpNow("cloning", up.node + 1, up.serial, up.snap, up.relay, up.nodes)
    BY <1>14, UpNext
  <2>2. upPhase' = "bringing_up" /\ Range(up.nodes) \subseteq Member
    <3>1. upPhase' = "bringing_up"
      BY <1>14 DEF NextNode, memory, disk, counts, Up, AtWork
    <3> QED
      BY <3>1, NodesAreMembers
  <2>3. \A m \in Member : m.serial \in Serials /\ m.node \in Nat /\ up.node \in Nat
    BY AtakAssumption DEF Member, Nodes, AtakTypes, MemoryTypes, UpRecs
  <2>4. ASSUME NEW m \in Range(up.nodes) PROVE NodeStands(m)'
    BY <1>14, <2>1, <2>2, <2>3 DEF NextNode, memory, disk, counts, Up, UpNow, NodesStand, NodeStands, Provisioned, Early
  <2> QED
    BY <2>1, <2>2, <2>4 DEF UpNow, NodesStand
<1>15. CASE UpReady
  <2>1. UpNow("off", 0, 1, FALSE, NoRelay, <<>>) /\ up' = NotUp
    BY <1>15, NotUpIs DEF UpReady, UpNow
  <2>2. ASSUME NEW m \in Range(fleet') PROVE Provisioned(m)'
    BY <1>15, <2>2 DEF UpReady, NodesStand, NodeStands, Provisioned
  <2> QED
    BY <2>1, <2>2, RangeOfNone DEF UpNow, NodesStand
<1>16. CASE UpFails
  <2>1. UpNow("undoing", up.node, up.serial, up.snap, up.relay, up.nodes)
    BY <1>16, UpMoves DEF UpFails, UpPlaces
  <2>2. upPhase' = "bringing_up" /\ Range(up.nodes) \subseteq Member
    <3>1. upPhase' = "bringing_up"
      BY <1>16 DEF UpFails, memory, disk, counts, AtWork
    <3> QED
      BY <3>1, NodesAreMembers
  <2>3. \A m \in Member : m.serial \in Serials /\ m.node \in Nat /\ up.node \in Nat
    BY AtakAssumption DEF Member, Nodes, AtakTypes, MemoryTypes, UpRecs
  <2>4. ASSUME NEW m \in Range(up.nodes) PROVE NodeStands(m)'
    BY <1>16, <2>1, <2>2, <2>3 DEF UpFails, memory, disk, counts, UpNow, NodesStand, NodeStands, Provisioned, Early
  <2> QED
    BY <2>1, <2>2, <2>4 DEF UpNow, NodesStand
<1>17. CASE KillsNext
  <2>1. PICK s \in Serials : emus' = Killed(s)
    BY <1>17, HeadsAre DEF KillsNext
  <2>2. \A t \in Serials : emus'[t] = emus[t] \/ emus'[t].state # "up"
    BY <2>1, KilledStops DEF Running
  <2> QED
    BY <1>17, <2>2, NodesFrame DEF KillsNext
<1>18. CASE Deletes
  BY <1>18, NodesFrame DEF Deletes, memory, disk, counts
<1>19. CASE KillsRaise
  <2>1. up' = (IF kills.by = "up" THEN NotUp ELSE up) /\ up' \in UpRecs
    BY <1>19, NotUpIs DEF KillsRaise, KillsOver, AtakTypes, MemoryTypes
  <2>2. UNCHANGED <<fleet, emus>> /\ upPhase' # "ready"
    BY <1>19 DEF KillsRaise, memory, disk, counts, KillsOver
  <2> QED
    BY <2>1, <2>2, NotUpIs, RangeOfNone DEF NodesStand, NodeStands, Provisioned
<1>20. CASE KillsDone
  <2>1. up' = (IF kills.by = "up" THEN NotUp ELSE up) /\ up' \in UpRecs
    BY <1>20, NotUpIs DEF KillsDone, KillsOver, AtakTypes, MemoryTypes
  <2>2. UNCHANGED <<fleet, emus>> /\ upPhase' # "ready"
    BY <1>20 DEF KillsDone, memory, disk, counts, KillsOver
  <2> QED
    BY <2>1, <2>2, NotUpIs, RangeOfNone DEF NodesStand, NodeStands, Provisioned
<1>21. CASE CliKills
  <2>1. PICK s \in Serials : emus' = Killed(s)
    BY <1>21 DEF CliKills, AtakTypes, WorldTypes, CliRecs
  <2>2. \A t \in Serials : emus'[t] = emus[t] \/ emus'[t].state # "up"
    BY <2>1, KilledStops DEF Running
  <2> QED
    BY <1>21, <2>2, NodesFrame DEF CliKills, memory
<1>22. CASE CliDeletes
  BY <1>22, NodesFrame DEF CliDeletes, memory, disk, counts
<1>23. CASE CliOver
  BY <1>23, NodesFrame DEF CliOver, memory, disk, counts
<1>24. CASE AtakServerDies
  <2>1. UpNow("off", 0, 1, FALSE, NoRelay, <<>>) /\ up' = NotUp
    BY <1>24, NotUpIs DEF AtakServerDies, UpNow
  <2> QED
    BY <1>24, <2>1, RangeOfNone DEF AtakServerDies, UpNow, NodesStand
<1>25. ASSUME NEW relay \in Relays, UpAsked(relay) PROVE NodesStand'
  <2>1. UpNow("cloning", 0, 1, FALSE, relay, <<>>)
    BY <1>25, UpBegins
  <2> QED
    BY <1>25, <2>1, RangeOfNone DEF UpAsked, UpNow, NodesStand
<1>26. ASSUME NEW delete \in BOOLEAN, DownAsked(delete) PROVE NodesStand'
  <2>1. UNCHANGED <<up, emus>> /\ upPhase' # "ready"
    BY <1>26 DEF DownAsked
  <2> QED
    BY <2>1 DEF NodesStand, NodeStands, Provisioned
<1>27. ASSUME NEW delete \in BOOLEAN, CliDown(delete) PROVE NodesStand'
  BY <1>27, NodesFrame DEF CliDown, memory, disk, counts
<1>28. ASSUME NEW s \in Serials, EmulatorExits(s) PROVE NodesStand'
  <2>1. \A t \in Serials : emus'[t] = emus[t] \/ emus'[t].state # "up"
    BY <1>28, NoEmuIs DEF EmulatorExits, AtakTypes, WorldTypes
  <2> QED
    BY <1>28, <2>1, NodesFrame DEF EmulatorExits, memory
<1> QED
  BY <1>1, <1>2, <1>3, <1>4, <1>5, <1>6, <1>7, <1>8, <1>9, <1>10, <1>11, <1>12, <1>13, <1>14, 
     <1>15, <1>16, <1>17, <1>18, <1>19, <1>20, <1>21, <1>22, <1>23, <1>24, <1>25, <1>26, <1>27, <1>28
      DEF AtakNext, UpStep, KillsStep

\* A bring-up that broke kills all it started.
LEMMA NextUndo == AtakTypes /\ AtWork /\ UndoStands /\ [AtakNext]_atakVars => UndoStands'
<1> SUFFICES ASSUME AtakTypes, AtWork, UndoStands, [AtakNext]_atakVars PROVE UndoStands'
  OBVIOUS
<1>1. CASE UNCHANGED atakVars
  BY <1>1 DEF atakVars, memory, UndoStands, Running
<1>2. CASE Reuses
  <2>1. UpNow("allocating", up.node, up.serial, up.snap, up.relay, up.nodes)
    BY <1>2, UpMoves DEF Reuses, UpPlaces
  <2> QED
    BY <1>2, <2>1 DEF Reuses, memory, disk, counts, Up, UpNow, UndoStands, Running, AtWork
<1>3. CASE Copies
  <2>1. PICK x \in {"copied", "failed"} : UpNow(x, up.node, up.serial, up.snap, up.relay, up.nodes)
    BY <1>3, UpMoves DEF Copies, UpPlaces
  <2> QED
    BY <1>3, <2>1 DEF Copies, memory, disk, counts, Up, UpNow, UndoStands, Running, AtWork
<1>4. CASE CopyRefused
  <2>1. UpNow("failed", up.node, up.serial, up.snap, up.relay, up.nodes)
    BY <1>4, UpMoves DEF CopyRefused, UpPlaces
  <2> QED
    BY <1>4, <2>1 DEF CopyRefused, memory, disk, counts, Up, UpNow, UndoStands, Running, AtWork
<1>5. CASE WritesIni
  <2>1. UpNow("stripping", up.node, up.serial, up.snap, up.relay, up.nodes)
    BY <1>5, UpMoves DEF WritesIni, UpPlaces
  <2> QED
    BY <1>5, <2>1 DEF WritesIni, memory, disk, counts, Up, UpNow, UndoStands, Running, AtWork
<1>6. CASE Strips
  <2>1. UpNow("allocating", up.node, up.serial, up.snap, up.relay, up.nodes)
    BY <1>6, UpMoves DEF Strips, UpPlaces
  <2> QED
    BY <1>6, <2>1 DEF Strips, memory, disk, counts, Up, UpNow, UndoStands, Running, AtWork
<1>7. CASE Allocates
  <2>1. \/ UpNow("failed", up.node, up.serial, up.snap, up.relay, up.nodes)
        \/ \E s \in Serials : /\ emus[s].state = "none"
                              /\ UpNow("launching", up.node, s, snaps[up.node] # NoRelay, up.relay, up.nodes)
    BY <1>7, UpMoves, UpAllocates DEF Allocates, UpPlaces
  <2>2. up'.at # "undoing"
    BY <2>1 DEF UpNow
  <2> QED
    BY <2>2 DEF UndoStands
<1>8. CASE Launches
  <2>1. UpNow("booting", up.node, up.serial, up.snap, up.relay, up.nodes)
    BY <1>8, UpMoves DEF Launches, UpPlaces
  <2>2. up'.at # "undoing"
    BY <2>1 DEF UpNow
  <2> QED
    BY <2>2 DEF UndoStands
<1>9. CASE Boots
  <2>1. UpNow(IF up.snap THEN "next" ELSE "provisioning", up.node, up.serial, up.snap, up.relay,
              Append(up.nodes, [node |-> up.node, serial |-> up.serial]))
    BY <1>9, UpBoots
  <2>2. up'.at # "undoing"
    BY <2>1 DEF UpNow
  <2> QED
    BY <2>2 DEF UndoStands
<1>10. CASE BootFails
  <2>1. UpNow("failed", up.node, up.serial, up.snap, up.relay, up.nodes)
    BY <1>10, UpMoves DEF BootFails, UpPlaces
  <2>2. up'.at # "undoing"
    BY <2>1 DEF UpNow
  <2> QED
    BY <2>2 DEF UndoStands
<1>11. CASE ProvisionFails
  <2>1. UpNow("failed", up.node, up.serial, up.snap, up.relay, up.nodes)
    BY <1>11, UpMoves DEF ProvisionFails, UpPlaces
  <2> QED
    BY <1>11, <2>1 DEF ProvisionFails, memory, disk, counts, Up, UpNow, UndoStands, Running, AtWork
<1>12. CASE Provisions
  <2>1. UpNow("saving", up.node, up.serial, up.snap, up.relay, up.nodes)
    BY <1>12, UpMoves DEF Provisions, UpPlaces
  <2>2. up'.at # "undoing"
    BY <2>1 DEF UpNow
  <2> QED
    BY <2>2 DEF UndoStands
<1>13. CASE SavesSnapshot
  <2>1. UpNow("next", up.node, up.serial, up.snap, up.relay, up.nodes)
    BY <1>13, UpMoves DEF SavesSnapshot, UpPlaces
  <2> QED
    BY <1>13, <2>1 DEF SavesSnapshot, memory, disk, counts, Up, UpNow, UndoStands, Running, AtWork
<1>14. CASE NextNode
  <2>1. UpNow("cloning", up.node + 1, up.serial, up.snap, up.relay, up.nodes)
    BY <1>14, UpNext
  <2> QED
    BY <1>14, <2>1 DEF NextNode, memory, disk, counts, Up, UpNow, UndoStands, Running, AtWork
<1>15. CASE UpReady
  <2>1. UpNow("off", 0, 1, FALSE, NoRelay, <<>>) /\ up' = NotUp
    BY <1>15, NotUpIs DEF UpReady, UpNow
  <2> QED
    BY <1>15, <2>1 DEF UpReady, memory, disk, counts, UpNow, UndoStands, Running, AtWork
<1>16. CASE UpFails
  <2>1. UpNow("undoing", up.node, up.serial, up.snap, up.relay, up.nodes)
    BY <1>16, UpMoves DEF UpFails, UpPlaces
  <2>2. kills'.left = up.nodes /\ up'.nodes = up.nodes
    BY <1>16, <2>1 DEF UpFails, UpNow
  <2> QED
    BY <2>2 DEF UndoStands
<1>17. CASE KillsNext
  <2>1. UpNow(up.at, up.node, up.serial, up.snap, up.relay, up.nodes) /\ up' = up
    BY <1>17, UpStays DEF KillsNext, memory
  <2>2. PICK h \in Member : h = Head(kills.left) /\ h.serial \in Serials /\ emus' = Killed(h.serial)
    BY <1>17, HeadsAre DEF KillsNext
  <2>3. \A t \in Serials : Running(t)' => Running(t) /\ t # h.serial
    BY <2>2, KilledStops DEF Running
  <2>4. ASSUME NEW m \in Range(up.nodes) PROVE m.serial \in Serials
    BY NodesAreMembers
  <2>5. kills'.left = Tail(kills.left) /\ Range(kills.left) = {h} \cup Range(Tail(kills.left))
    <3>1. kills.left \in Seq(Member) /\ kills.left # <<>>
      BY <1>17 DEF KillsNext, AtakTypes, MemoryTypes, KillRecs
    <3>2. Range(kills.left) = {h} \cup Range(Tail(kills.left))
      BY <2>2, <3>1, RangeOfTail
    <3>3. kills'.left = Tail(kills.left)
      BY <1>17 DEF KillsNext, AtakTypes, MemoryTypes, KillRecs
    <3> QED
      BY <3>2, <3>3
  <2> QED
    BY <2>1, <2>3, <2>4, <2>5 DEF UndoStands
<1>18. CASE Deletes
  <2>1. UpNow(up.at, up.node, up.serial, up.snap, up.relay, up.nodes) /\ up' = up
    BY <1>18, UpStays DEF Deletes, memory
  <2> QED
    BY <1>18, <2>1 DEF Deletes, memory, disk, counts, UpNow, UndoStands, Running, AtWork
<1>19. CASE KillsRaise
  <2>1. up' = (IF kills.by = "up" THEN NotUp ELSE up) /\ up' \in UpRecs
    BY <1>19, NotUpIs DEF KillsRaise, KillsOver, AtakTypes, MemoryTypes
  <2> QED
    BY <1>19, <2>1, NotUpIs DEF KillsRaise, memory, disk, counts, KillsOver, UndoStands, AtWork
<1>20. CASE KillsDone
  <2>1. up' = (IF kills.by = "up" THEN NotUp ELSE up) /\ up' \in UpRecs
    BY <1>20, NotUpIs DEF KillsDone, KillsOver, AtakTypes, MemoryTypes
  <2> QED
    BY <1>20, <2>1, NotUpIs DEF KillsDone, memory, disk, counts, KillsOver, UndoStands, AtWork
<1>21. CASE CliKills
  <2>1. UpNow(up.at, up.node, up.serial, up.snap, up.relay, up.nodes) /\ up' = up
    BY <1>21, UpStays DEF CliKills, memory
  <2>2. PICK s \in Serials : emus' = Killed(s)
    BY <1>21 DEF CliKills, AtakTypes, WorldTypes, CliRecs
  <2>3. \A t \in Serials : Running(t)' => Running(t)
    BY <2>2, KilledStops DEF Running
  <2>4. ASSUME NEW m \in Range(up.nodes) PROVE m.serial \in Serials
    BY NodesAreMembers
  <2> QED
    BY <1>21, <2>1, <2>3, <2>4 DEF CliKills, memory, UndoStands
<1>22. CASE CliDeletes
  <2>1. UpNow(up.at, up.node, up.serial, up.snap, up.relay, up.nodes) /\ up' = up
    BY <1>22, UpStays DEF CliDeletes, memory
  <2> QED
    BY <1>22, <2>1 DEF CliDeletes, memory, disk, counts, UpNow, UndoStands, Running, AtWork
<1>23. CASE CliOver
  <2>1. UpNow(up.at, up.node, up.serial, up.snap, up.relay, up.nodes) /\ up' = up
    BY <1>23, UpStays DEF CliOver, memory
  <2> QED
    BY <1>23, <2>1 DEF CliOver, memory, disk, counts, UpNow, UndoStands, Running, AtWork
<1>24. CASE AtakServerDies
  <2>1. UpNow("off", 0, 1, FALSE, NoRelay, <<>>) /\ up' = NotUp
    BY <1>24, NotUpIs DEF AtakServerDies, UpNow
  <2> QED
    BY <1>24, <2>1 DEF AtakServerDies, memory, disk, counts, UpNow, UndoStands, Running, AtWork
<1>25. ASSUME NEW relay \in Relays, UpAsked(relay) PROVE UndoStands'
  <2>1. UpNow("cloning", 0, 1, FALSE, relay, <<>>)
    BY <1>25, UpBegins
  <2> QED
    BY <1>25, <2>1 DEF UpAsked, memory, disk, counts, UpNow, UndoStands, Running, AtWork
<1>26. ASSUME NEW delete \in BOOLEAN, DownAsked(delete) PROVE UndoStands'
  <2>1. UpNow(up.at, up.node, up.serial, up.snap, up.relay, up.nodes) /\ up' = up
    BY <1>26, UpStays DEF DownAsked, memory
  <2> QED
    BY <1>26, <2>1 DEF DownAsked, memory, disk, counts, UpNow, UndoStands, Running, AtWork
<1>27. ASSUME NEW delete \in BOOLEAN, CliDown(delete) PROVE UndoStands'
  <2>1. UpNow(up.at, up.node, up.serial, up.snap, up.relay, up.nodes) /\ up' = up
    BY <1>27, UpStays DEF CliDown, memory
  <2> QED
    BY <1>27, <2>1 DEF CliDown, memory, disk, counts, UpNow, UndoStands, Running, AtWork
<1>28. ASSUME NEW s \in Serials, EmulatorExits(s) PROVE UndoStands'
  <2>1. UpNow(up.at, up.node, up.serial, up.snap, up.relay, up.nodes) /\ up' = up
    BY <1>28, UpStays DEF EmulatorExits, memory
  <2>3. \A t \in Serials : Running(t)' => Running(t)
    BY <1>28, NoEmuIs DEF EmulatorExits, AtakTypes, WorldTypes, Running
  <2>4. ASSUME NEW m \in Range(up.nodes) PROVE m.serial \in Serials
    BY NodesAreMembers
  <2> QED
    BY <1>28, <2>1, <2>3, <2>4 DEF EmulatorExits, memory, UndoStands
<1> QED
  BY <1>1, <1>2, <1>3, <1>4, <1>5, <1>6, <1>7, <1>8, <1>9, <1>10, <1>11, <1>12, <1>13, <1>14, 
     <1>15, <1>16, <1>17, <1>18, <1>19, <1>20, <1>21, <1>22, <1>23, <1>24, <1>25, <1>26, <1>27, <1>28
      DEF AtakNext, UpStep, KillsStep

\* What was started stays known to someone who will kill it.
LEMMA NextOrphans == AtakTypes /\ AtWork /\ UndoStands /\ NothingOrphaned /\ [AtakNext]_atakVars => NothingOrphaned'
<1> SUFFICES ASSUME AtakTypes, AtWork, UndoStands, NothingOrphaned, [AtakNext]_atakVars PROVE NothingOrphaned'
  OBVIOUS
<1>1. CASE UNCHANGED atakVars
  BY <1>1 DEF atakVars, memory, counts, NothingOrphaned, Known, Running
<1>2. CASE Reuses
  <2> SUFFICES ASSUME atakDeaths' = 0, NEW t \in Serials, Running(t)', t \notin abandoned' PROVE Known(t)'
    BY DEF NothingOrphaned
  <2>1. UpNow("allocating", up.node, up.serial, up.snap, up.relay, up.nodes)
    BY <1>2, UpMoves DEF Reuses, UpPlaces
  <2>2. Running(t) /\ Known(t)
    BY <1>2 DEF Reuses, memory, disk, counts, Up, Running, NothingOrphaned
  <2> QED
    BY <1>2, <2>1, <2>2 DEF Reuses, memory, disk, counts, Up, UpNow, Known
<1>3. CASE Copies
  <2> SUFFICES ASSUME atakDeaths' = 0, NEW t \in Serials, Running(t)', t \notin abandoned' PROVE Known(t)'
    BY DEF NothingOrphaned
  <2>1. PICK x \in {"copied", "failed"} : UpNow(x, up.node, up.serial, up.snap, up.relay, up.nodes)
    BY <1>3, UpMoves DEF Copies, UpPlaces
  <2>2. Running(t) /\ Known(t)
    BY <1>3 DEF Copies, memory, disk, counts, Up, Running, NothingOrphaned
  <2> QED
    BY <1>3, <2>1, <2>2 DEF Copies, memory, disk, counts, Up, UpNow, Known
<1>4. CASE CopyRefused
  <2> SUFFICES ASSUME atakDeaths' = 0, NEW t \in Serials, Running(t)', t \notin abandoned' PROVE Known(t)'
    BY DEF NothingOrphaned
  <2>1. UpNow("failed", up.node, up.serial, up.snap, up.relay, up.nodes)
    BY <1>4, UpMoves DEF CopyRefused, UpPlaces
  <2>2. Running(t) /\ Known(t)
    BY <1>4 DEF CopyRefused, memory, disk, counts, Up, Running, NothingOrphaned
  <2> QED
    BY <1>4, <2>1, <2>2 DEF CopyRefused, memory, disk, counts, Up, UpNow, Known
<1>5. CASE WritesIni
  <2> SUFFICES ASSUME atakDeaths' = 0, NEW t \in Serials, Running(t)', t \notin abandoned' PROVE Known(t)'
    BY DEF NothingOrphaned
  <2>1. UpNow("stripping", up.node, up.serial, up.snap, up.relay, up.nodes)
    BY <1>5, UpMoves DEF WritesIni, UpPlaces
  <2>2. Running(t) /\ Known(t)
    BY <1>5 DEF WritesIni, memory, disk, counts, Up, Running, NothingOrphaned
  <2> QED
    BY <1>5, <2>1, <2>2 DEF WritesIni, memory, disk, counts, Up, UpNow, Known
<1>6. CASE Strips
  <2> SUFFICES ASSUME atakDeaths' = 0, NEW t \in Serials, Running(t)', t \notin abandoned' PROVE Known(t)'
    BY DEF NothingOrphaned
  <2>1. UpNow("allocating", up.node, up.serial, up.snap, up.relay, up.nodes)
    BY <1>6, UpMoves DEF Strips, UpPlaces
  <2>2. Running(t) /\ Known(t)
    BY <1>6 DEF Strips, memory, disk, counts, Up, Running, NothingOrphaned
  <2> QED
    BY <1>6, <2>1, <2>2 DEF Strips, memory, disk, counts, Up, UpNow, Known
<1>7. CASE Allocates
  <2> SUFFICES ASSUME atakDeaths' = 0, NEW t \in Serials, Running(t)', t \notin abandoned' PROVE Known(t)'
    BY DEF NothingOrphaned
  <2>1. \/ UpNow("failed", up.node, up.serial, up.snap, up.relay, up.nodes)
        \/ \E s \in Serials : /\ emus[s].state = "none"
                              /\ UpNow("launching", up.node, s, snaps[up.node] # NoRelay, up.relay, up.nodes)
    BY <1>7, UpMoves, UpAllocates DEF Allocates, UpPlaces
  <2>2. Running(t) /\ Known(t)
    BY <1>7 DEF Allocates, memory, disk, counts, Up, Running, NothingOrphaned
  <2> QED
    BY <1>7, <2>1, <2>2 DEF Allocates, memory, disk, counts, Up, UpNow, Known
<1>8. CASE Launches
  <2> SUFFICES ASSUME atakDeaths' = 0, NEW t \in Serials, Running(t)', t \notin abandoned' PROVE Known(t)'
    BY DEF NothingOrphaned
  <2>1. UpNow("booting", up.node, up.serial, up.snap, up.relay, up.nodes)
    BY <1>8, UpMoves DEF Launches, UpPlaces
  <2>2. t = up.serial \/ Known(t)
    BY <1>8, LaunchesOne DEF Launches, Up, counts, Running, NothingOrphaned
  <2> QED
    BY <1>8, <2>1, <2>2 DEF Launches, Up, UpNow, Known
<1>9. CASE Boots
  <2> SUFFICES ASSUME atakDeaths' = 0, NEW t \in Serials, Running(t)', t \notin abandoned' PROVE Known(t)'
    BY DEF NothingOrphaned
  <2>1. UpNow(IF up.snap THEN "next" ELSE "provisioning", up.node, up.serial, up.snap, up.relay,
              Append(up.nodes, [node |-> up.node, serial |-> up.serial]))
    BY <1>9, UpBoots
  <2>2. Running(t) /\ Known(t)
    BY <1>9, BootsOne DEF Boots, Up, counts, Running, NothingOrphaned
  <2>3. Range(up'.nodes) = Range(up.nodes) \cup {[node |-> up.node, serial |-> up.serial]}
    BY <1>9, UpBoots
  <2>4. UNCHANGED <<fleet, kills>>
    BY <1>9 DEF Boots, Up
  <2>5. CASE t = up.serial
    <3>1. PICK m \in Range(up'.nodes) : m = [node |-> up.node, serial |-> up.serial]
      BY <2>3
    <3>2. m.serial = t
      BY <3>1, <2>5
    <3> QED
      BY <3>2 DEF Known
  <2>6. CASE t # up.serial
    BY <2>2, <2>3, <2>4, <2>6 DEF Known
  <2> QED
    BY <2>5, <2>6
<1>10. CASE BootFails
  <2> SUFFICES ASSUME atakDeaths' = 0, NEW t \in Serials, Running(t)', t \notin abandoned' PROVE Known(t)'
    BY DEF NothingOrphaned
  <2>1. UpNow("failed", up.node, up.serial, up.snap, up.relay, up.nodes)
    BY <1>10, UpMoves DEF BootFails, UpPlaces
  <2>2. t # up.serial /\ Known(t)
    BY <1>10, NoEmuIs DEF BootFails, Up, counts, Running, NothingOrphaned, AtakTypes, MemoryTypes, WorldTypes, UpRecs
  <2> QED
    BY <1>10, <2>1, <2>2 DEF BootFails, Up, UpNow, Known
<1>11. CASE ProvisionFails
  <2> SUFFICES ASSUME atakDeaths' = 0, NEW t \in Serials, Running(t)', t \notin abandoned' PROVE Known(t)'
    BY DEF NothingOrphaned
  <2>1. UpNow("failed", up.node, up.serial, up.snap, up.relay, up.nodes)
    BY <1>11, UpMoves DEF ProvisionFails, UpPlaces
  <2>2. Running(t) /\ Known(t)
    BY <1>11 DEF ProvisionFails, memory, disk, counts, Up, Running, NothingOrphaned
  <2> QED
    BY <1>11, <2>1, <2>2 DEF ProvisionFails, memory, disk, counts, Up, UpNow, Known
<1>12. CASE Provisions
  <2> SUFFICES ASSUME atakDeaths' = 0, NEW t \in Serials, Running(t)', t \notin abandoned' PROVE Known(t)'
    BY DEF NothingOrphaned
  <2>1. UpNow("saving", up.node, up.serial, up.snap, up.relay, up.nodes)
    BY <1>12, UpMoves DEF Provisions, UpPlaces
  <2>2. Known(t)
    BY <1>12, ProvisionsOne DEF Provisions, Up, counts, Running, NothingOrphaned
  <2> QED
    BY <1>12, <2>1, <2>2 DEF Provisions, Up, UpNow, Known
<1>13. CASE SavesSnapshot
  <2> SUFFICES ASSUME atakDeaths' = 0, NEW t \in Serials, Running(t)', t \notin abandoned' PROVE Known(t)'
    BY DEF NothingOrphaned
  <2>1. UpNow("next", up.node, up.serial, up.snap, up.relay, up.nodes)
    BY <1>13, UpMoves DEF SavesSnapshot, UpPlaces
  <2>2. Running(t) /\ Known(t)
    BY <1>13 DEF SavesSnapshot, memory, disk, counts, Up, Running, NothingOrphaned
  <2> QED
    BY <1>13, <2>1, <2>2 DEF SavesSnapshot, memory, disk, counts, Up, UpNow, Known
<1>14. CASE NextNode
  <2> SUFFICES ASSUME atakDeaths' = 0, NEW t \in Serials, Running(t)', t \notin abandoned' PROVE Known(t)'
    BY DEF NothingOrphaned
  <2>1. UpNow("cloning", up.node + 1, up.serial, up.snap, up.relay, up.nodes)
    BY <1>14, UpNext
  <2>2. Running(t) /\ Known(t)
    BY <1>14 DEF NextNode, memory, disk, counts, Up, Running, NothingOrphaned
  <2> QED
    BY <1>14, <2>1, <2>2 DEF NextNode, memory, disk, counts, Up, UpNow, Known
<1>15. CASE UpReady
  <2> SUFFICES ASSUME atakDeaths' = 0, NEW t \in Serials, Running(t)', t \notin abandoned' PROVE Known(t)'
    BY DEF NothingOrphaned
  <2>1. UpNow("off", 0, 1, FALSE, NoRelay, <<>>) /\ up' = NotUp
    BY <1>15, NotUpIs DEF UpReady, UpNow
  <2>2. Known(t) /\ fleet = <<>> /\ UNCHANGED kills /\ fleet' = up.nodes
    BY <1>15 DEF UpReady, counts, Running, NothingOrphaned, AtWork
  <2> QED
    BY <1>15, <2>1, <2>2, RangeOfNone DEF UpReady, UpNow, Known
<1>16. CASE UpFails
  <2> SUFFICES ASSUME atakDeaths' = 0, NEW t \in Serials, Running(t)', t \notin abandoned' PROVE Known(t)'
    BY DEF NothingOrphaned
  <2>1. UpNow("undoing", up.node, up.serial, up.snap, up.relay, up.nodes)
    BY <1>16, UpMoves DEF UpFails, UpPlaces
  <2>2. Known(t) /\ kills.left = <<>>
    BY <1>16, NoKillsIs DEF UpFails, counts, Running, NothingOrphaned, AtWork
  <2> QED
    BY <1>16, <2>1, <2>2, RangeOfNone DEF UpFails, UpNow, Known
<1>17. CASE KillsNext
  <2> SUFFICES ASSUME atakDeaths' = 0, NEW t \in Serials, Running(t)', t \notin abandoned' PROVE Known(t)'
    BY DEF NothingOrphaned
  <2>1. PICK h \in Member : h = Head(kills.left) /\ h.serial \in Serials /\ emus' = Killed(h.serial)
    BY <1>17, HeadsAre DEF KillsNext
  <2>2. Running(t) /\ t # h.serial
    BY <2>1, KilledStops DEF Running
  <2>3. Known(t)
    BY <1>17, <2>2 DEF KillsNext, counts, NothingOrphaned
  <2>4. kills'.left = Tail(kills.left) /\ Range(kills.left) = {h} \cup Range(Tail(kills.left))
    <3>1. kills.left \in Seq(Member) /\ kills.left # <<>>
      BY <1>17 DEF KillsNext, AtakTypes, MemoryTypes, KillRecs
    <3>2. Range(kills.left) = {h} \cup Range(Tail(kills.left))
      BY <2>1, <3>1, RangeOfTail
    <3>3. kills'.left = Tail(kills.left)
      BY <1>17 DEF KillsNext, AtakTypes, MemoryTypes, KillRecs
    <3> QED
      BY <3>2, <3>3
  <2>5. UNCHANGED <<fleet, up>>
    BY <1>17 DEF KillsNext
  <2> QED
    BY <2>2, <2>3, <2>4, <2>5 DEF Known
<1>18. CASE Deletes
  <2> SUFFICES ASSUME atakDeaths' = 0, NEW t \in Serials, Running(t)', t \notin abandoned' PROVE Known(t)'
    BY DEF NothingOrphaned
  <2>1. UpNow(up.at, up.node, up.serial, up.snap, up.relay, up.nodes) /\ up' = up
    BY <1>18, UpStays DEF Deletes, memory
  <2>2. Known(t) /\ UNCHANGED fleet /\ kills'.left = kills.left
    BY <1>18 DEF Deletes, counts, Running, NothingOrphaned, AtakTypes, MemoryTypes, KillRecs
  <2> QED
    BY <2>1, <2>2 DEF Known
<1>19. CASE KillsRaise
  <2> SUFFICES ASSUME atakDeaths' = 0, NEW t \in Serials, Running(t)', t \notin abandoned' PROVE Known(t)'
    BY DEF NothingOrphaned
  <2>1. up' = (IF kills.by = "up" THEN NotUp ELSE up) /\ up' \in UpRecs
    BY <1>19, NotUpIs DEF KillsRaise, KillsOver, AtakTypes, MemoryTypes
  <2>2. Known(t) /\ UNCHANGED <<fleet, emus>> /\ Running(t) /\ kills'.left = <<>>
    BY <1>19, NoKillsIs DEF KillsRaise, KillsOver, counts, Running, NothingOrphaned
  <2>3. \A k \in Range(kills.left) : k.serial # t
    BY <1>19, RangeOfNone DEF KillsRaise, KillsOver
  <2>4. CASE kills.by = "up"
    <3>1. up.at = "undoing" /\ up' = NotUp
      BY <2>1, <2>4 DEF AtWork
    <3>2. \A m \in Range(up.nodes) : m.serial # t
      BY <2>2, <2>3, <3>1 DEF UndoStands
    <3> QED
      BY <2>2, <2>3, <3>1, <3>2 DEF Known
  <2>5. CASE kills.by # "up"
    BY <2>1, <2>2, <2>3, <2>5 DEF Known
  <2> QED
    BY <2>4, <2>5
<1>20. CASE KillsDone
  <2> SUFFICES ASSUME atakDeaths' = 0, NEW t \in Serials, Running(t)', t \notin abandoned' PROVE Known(t)'
    BY DEF NothingOrphaned
  <2>1. up' = (IF kills.by = "up" THEN NotUp ELSE up) /\ up' \in UpRecs
    BY <1>20, NotUpIs DEF KillsDone, KillsOver, AtakTypes, MemoryTypes
  <2>2. Known(t) /\ UNCHANGED <<fleet, emus>> /\ Running(t) /\ kills'.left = <<>>
    BY <1>20, NoKillsIs DEF KillsDone, KillsOver, counts, Running, NothingOrphaned
  <2>3. \A k \in Range(kills.left) : k.serial # t
    BY <1>20, RangeOfNone DEF KillsDone, KillsOver
  <2>4. CASE kills.by = "up"
    <3>1. up.at = "undoing" /\ up' = NotUp
      BY <2>1, <2>4 DEF AtWork
    <3>2. \A m \in Range(up.nodes) : m.serial # t
      BY <2>2, <2>3, <3>1 DEF UndoStands
    <3> QED
      BY <2>2, <2>3, <3>1, <3>2 DEF Known
  <2>5. CASE kills.by # "up"
    BY <2>1, <2>2, <2>3, <2>5 DEF Known
  <2> QED
    BY <2>4, <2>5
<1>21. CASE CliKills
  <2> SUFFICES ASSUME atakDeaths' = 0, NEW t \in Serials, Running(t)', t \notin abandoned' PROVE Known(t)'
    BY DEF NothingOrphaned
  <2>1. PICK s \in Serials : emus' = Killed(s)
    BY <1>21 DEF CliKills, AtakTypes, WorldTypes, CliRecs
  <2>2. Running(t)
    BY <2>1, KilledStops DEF Running
  <2>3. Known(t) /\ UNCHANGED memory
    BY <1>21, <2>2 DEF CliKills, counts, NothingOrphaned
  <2> QED
    BY <2>3 DEF memory, Known
<1>22. CASE CliDeletes
  <2> SUFFICES ASSUME atakDeaths' = 0, NEW t \in Serials, Running(t)', t \notin abandoned' PROVE Known(t)'
    BY DEF NothingOrphaned
  <2>1. UpNow(up.at, up.node, up.serial, up.snap, up.relay, up.nodes) /\ up' = up
    BY <1>22, UpStays DEF CliDeletes, memory
  <2>2. Running(t) /\ Known(t)
    BY <1>22 DEF CliDeletes, memory, disk, counts, Running, NothingOrphaned
  <2> QED
    BY <1>22, <2>1, <2>2 DEF CliDeletes, memory, disk, counts, UpNow, Known
<1>23. CASE CliOver
  <2> SUFFICES ASSUME atakDeaths' = 0, NEW t \in Serials, Running(t)', t \notin abandoned' PROVE Known(t)'
    BY DEF NothingOrphaned
  <2>1. UpNow(up.at, up.node, up.serial, up.snap, up.relay, up.nodes) /\ up' = up
    BY <1>23, UpStays DEF CliOver, memory
  <2>2. Running(t) /\ Known(t)
    BY <1>23 DEF CliOver, memory, disk, counts, Running, NothingOrphaned
  <2> QED
    BY <1>23, <2>1, <2>2 DEF CliOver, memory, disk, counts, UpNow, Known
<1>24. CASE AtakServerDies
  <2> SUFFICES ASSUME atakDeaths' = 0, NEW t \in Serials, Running(t)', t \notin abandoned' PROVE Known(t)'
    BY DEF NothingOrphaned
  <2> QED
    BY <1>24 DEF AtakServerDies, AtakTypes, WorldTypes
<1>25. ASSUME NEW relay \in Relays, UpAsked(relay) PROVE NothingOrphaned'
  <2> SUFFICES ASSUME atakDeaths' = 0, NEW t \in Serials, Running(t)', t \notin abandoned' PROVE Known(t)'
    BY DEF NothingOrphaned
  <2>1. UpNow("cloning", 0, 1, FALSE, relay, <<>>)
    BY <1>25, UpBegins
  <2>2. up = NotUp /\ fleet = <<>> /\ UNCHANGED <<fleet, kills>>
    BY <1>25 DEF UpAsked, AtWork
  <2>3. Known(t)
    BY <1>25 DEF UpAsked, Running, NothingOrphaned
  <2> QED
    BY <2>1, <2>2, <2>3, NotUpIs DEF UpNow, Known
<1>26. ASSUME NEW delete \in BOOLEAN, DownAsked(delete) PROVE NothingOrphaned'
  <2> SUFFICES ASSUME atakDeaths' = 0, NEW t \in Serials, Running(t)', t \notin abandoned' PROVE Known(t)'
    BY DEF NothingOrphaned
  <2>1. UpNow(up.at, up.node, up.serial, up.snap, up.relay, up.nodes) /\ up' = up
    BY <1>26, UpStays DEF DownAsked, memory
  <2>2. kills.by = "nobody"
    BY <1>26 DEF DownAsked, AtWork, AtakTypes, MemoryTypes, KillRecs
  <2>3. Known(t) /\ kills.left = <<>>
    BY <1>26, <2>2, NoKillsIs DEF DownAsked, counts, Running, NothingOrphaned, AtWork
  <2>4. kills'.left = fleet
    BY <1>26 DEF DownAsked
  <2> QED
    BY <2>1, <2>3, <2>4, RangeOfNone DEF Known
<1>27. ASSUME NEW delete \in BOOLEAN, CliDown(delete) PROVE NothingOrphaned'
  <2> SUFFICES ASSUME atakDeaths' = 0, NEW t \in Serials, Running(t)', t \notin abandoned' PROVE Known(t)'
    BY DEF NothingOrphaned
  <2>1. UpNow(up.at, up.node, up.serial, up.snap, up.relay, up.nodes) /\ up' = up
    BY <1>27, UpStays DEF CliDown, memory
  <2>2. Running(t) /\ Known(t)
    BY <1>27 DEF CliDown, memory, disk, counts, Running, NothingOrphaned
  <2> QED
    BY <1>27, <2>1, <2>2 DEF CliDown, memory, disk, counts, UpNow, Known
<1>28. ASSUME NEW s \in Serials, EmulatorExits(s) PROVE NothingOrphaned'
  <2> SUFFICES ASSUME atakDeaths' = 0, NEW t \in Serials, Running(t)', t \notin abandoned' PROVE Known(t)'
    BY DEF NothingOrphaned
  <2>1. UpNow(up.at, up.node, up.serial, up.snap, up.relay, up.nodes) /\ up' = up
    BY <1>28, UpStays DEF EmulatorExits, memory
  <2>2. Running(t)
    BY <1>28, NoEmuIs DEF EmulatorExits, AtakTypes, WorldTypes, Running
  <2>3. Known(t) /\ UNCHANGED memory
    BY <1>28, <2>2 DEF EmulatorExits, counts, NothingOrphaned
  <2> QED
    BY <2>3 DEF memory, Known
<1> QED
  BY <1>1, <1>2, <1>3, <1>4, <1>5, <1>6, <1>7, <1>8, <1>9, <1>10, <1>11, <1>12, <1>13, <1>14, 
     <1>15, <1>16, <1>17, <1>18, <1>19, <1>20, <1>21, <1>22, <1>23, <1>24, <1>25, <1>26, <1>27, <1>28
      DEF AtakNext, UpStep, KillsStep

-----------------------------------------------------------------------------
LEMMA AtakStandsInit == AtakInit => AtakStands
<1> SUFFICES ASSUME AtakInit PROVE AtakStands
  OBVIOUS
<1>1. MemoryTypes
  BY NotUpIs, NoKillsIs DEF AtakInit, AtakFresh, MemoryTypes
<1>2. WorldTypes
  BY NoEmuIs DEF AtakInit, AtakFresh, WorldTypes, NoCli, CliRecs
<1>3. AtWork /\ UpStands /\ UndoStands
  BY NotUpIs, NoKillsIs DEF AtakInit, AtakFresh, AtWork, UpStands, UndoStands
<1>4. NodesStand
  BY NotUpIs, RangeOfNone DEF AtakInit, AtakFresh, NodesStand
<1>5. NothingOrphaned
  BY NoEmuIs DEF AtakInit, AtakFresh, NothingOrphaned, Running
<1> QED
  BY <1>1, <1>2, <1>3, <1>4, <1>5 DEF AtakStands, AtakTypes

LEMMA AtakStandsInductive == AtakStands /\ [AtakNext]_atakVars => AtakStands'
BY NextMemory, NextWorld, NextAtWork, NextUpStands, NextNodes, NextUndo, NextOrphans
DEF AtakStands, AtakTypes

LEMMA AtakStandsImplies == AtakStands => AtakInv
<1> SUFFICES ASSUME AtakStands PROVE AtakInv
  OBVIOUS
<1>1. AtakTypeOK
  BY DEF AtakStands, AtakTypes, MemoryTypes, WorldTypes, UpRecs, KillRecs, CliRecs, Emus, Member, Members, AtakTypeOK
<1>2. OneAtATime /\ FleetHasWorker
  BY DEF AtakStands, AtakTypes, MemoryTypes, KillRecs, AtWork, OneAtATime, FleetHasWorker
<1>3. ReadyIsProvisioned
  BY DEF AtakStands, NodesStand, Provisioned, ReadyIsProvisioned
<1> QED
  BY <1>1, <1>2, <1>3 DEF AtakStands, AtakInv

\* With any number of nodes, console ports, calls and deaths of the server: no emulator is
\* orphaned while the server lives but those a broken teardown left, no bring-up meets a
\* teardown, a fleet that is ready is provisioned, and no call leaves the phase behind.
THEOREM AtakInvAlways == AtakSpec => []AtakInv
<1>1. AtakInit => AtakStands
  BY AtakStandsInit
<1>2. AtakStands /\ [AtakNext]_atakVars => AtakStands'
  BY AtakStandsInductive
<1>3. AtakStands => AtakInv
  BY AtakStandsImplies
<1> QED
  BY <1>1, <1>2, <1>3, PTL DEF AtakSpec

-----------------------------------------------------------------------------
(* The registry of the devices.                                            *)

Paths == Ports \cup {Nowhere}
Places == Slots \cup {Nowhere}
Whose == Boards \cup {Nowhere}
Sights == [port : Paths, slot : Places]

BusRecs == [port : Paths, slot : Places, wedged : BOOLEAN]

ScanSteps == {"idle", "listed", "next", "write", "written", "slot", "slotted", "offline", "off"}
EnrichSteps == {"idle", "begun", "waiting", "connecting", "read", "write", "gone", "failed",
                "probing", "cycling"}
RecoverySteps == {"idle", "asked", "waiting", "ladder", "checking", "rereading", "requeued",
                  "probing", "done"}

ScanRecs == [at : ScanSteps, found : UNION {[S -> Sights] : S \in SUBSET Boards},
             todo : SUBSET Boards, board : Whose, row : DeviceRows, changed : BOOLEAN]
EnrichRecs == [at : EnrichSteps, port : Paths, slot : Places, locked : BOOLEAN, full : BOOLEAN]
RecoveryRecs == [at : RecoverySteps, board : Whose, port : Paths, slot : Places,
                 recovered : BOOLEAN, answered : BOOLEAN]

\* Boards that are plugged in sit at different paths.
BusStands ==
  /\ bus \in [Boards -> BusRecs]
  /\ \A a, b \in Boards : a # b /\ bus[a].port = bus[b].port => bus[a].port = Nowhere

RowsStand ==
  /\ rows \in [Boards -> DeviceRows]
  /\ \A b \in Boards : ~rows[b].known => rows[b] = NoRow

\* A scan works on boards that it has found.
ScanStands ==
  /\ scan \in ScanRecs
  /\ scan.at \in {"next", "write", "written", "slot", "slotted"} => scan.todo \subseteq DOMAIN scan.found
  /\ scan.at \in {"write", "written", "slot", "slotted"} => scan.board \in DOMAIN scan.found

\* An enrichment under way is marked.
EnrichStands ==
  /\ enrich \in [Boards -> EnrichRecs] /\ enriching \subseteq Boards
  /\ \A b \in Boards : b \in enriching <=> enrich[b].at # "idle"

MarksStand ==
  /\ enriched \in [Boards -> Paths] /\ backoff \subseteq Boards /\ cooldown \subseteq Boards
  /\ guardOf \in [Boards -> {"free", "enrich", "recover"}]

\* Past its mark a recovery is the only one of its board.
Marked(r) == recovery[r].at \notin {"idle", "asked"}

RecoveriesStand ==
  /\ recovery \in [Recoveries -> RecoveryRecs] /\ active \subseteq Boards
  /\ \A r \in Recoveries :
       /\ recovery[r].at = "idle" <=> recovery[r].board = Nowhere
       /\ Marked(r) => recovery[r].board \in active
       /\ recovery[r].recovered => recovery[r].answered
  /\ \A r, q \in Recoveries :
       Marked(r) /\ Marked(q) /\ recovery[r].board = recovery[q].board => r = q
  /\ \A b \in active : \E r \in Recoveries : Marked(r) /\ recovery[r].board = b

DiscoveryStands ==
  /\ BusStands /\ RowsStand /\ ScanStands /\ EnrichStands /\ MarksStand /\ RecoveriesStand
  /\ GuardIsHeld

LEMMA NoRowIsRow == NoRow \in DeviceRows /\ ~NoRow.known
BY DEF NoRow, DeviceRows

LEMMA BoardAt ==
  ASSUME BusStands, NEW b \in Boards
  PROVE  bus[b] \in BusRecs /\ bus[b].port \in Paths /\ bus[b].slot \in Places
BY DEF BusStands, BusRecs

LEMMA RowOf ==
  ASSUME RowsStand, NEW b \in Boards
  PROVE  rows[b] \in DeviceRows /\ rows[b].port \in Paths /\ rows[b].slot \in Places
         /\ rows[b].known \in BOOLEAN /\ rows[b].online \in BOOLEAN /\ rows[b].read \in BOOLEAN
         /\ rows[b].env \in {"none", "auto", "pinned"} /\ rows[b].locked \in BOOLEAN
BY DEF RowsStand, DeviceRows, Paths, Places

LEMMA ScanIs ==
  ASSUME ScanStands
  PROVE  /\ scan \in ScanRecs /\ scan.at \in ScanSteps /\ scan.todo \subseteq Boards
         /\ scan.board \in Boards \cup {Nowhere} /\ scan.row \in DeviceRows /\ scan.changed \in BOOLEAN
         /\ DOMAIN scan.found \subseteq Boards
         /\ scan.found \in [DOMAIN scan.found -> Sights]
<1>1. scan \in ScanRecs
  BY DEF ScanStands
<1>2. scan.found \in UNION {[S -> Sights] : S \in SUBSET Boards}
  BY <1>1 DEF ScanRecs
<1>3. PICK S \in SUBSET Boards : scan.found \in [S -> Sights]
  BY <1>2
<1> QED
  BY <1>1, <1>3 DEF ScanRecs, Whose

LEMMA EnrichIs ==
  ASSUME EnrichStands, NEW b \in Boards
  PROVE  enrich[b] \in EnrichRecs /\ enrich[b].at \in EnrichSteps /\ enrich[b].port \in Paths
         /\ enrich[b].slot \in Places /\ enrich[b].locked \in BOOLEAN /\ enrich[b].full \in BOOLEAN
BY DEF EnrichStands, EnrichRecs

LEMMA RecoveryIs ==
  ASSUME RecoveriesStand, NEW r \in Recoveries
  PROVE  recovery[r] \in RecoveryRecs /\ recovery[r].at \in RecoverySteps
         /\ recovery[r].board \in Boards \cup {Nowhere} /\ recovery[r].port \in Paths
         /\ recovery[r].slot \in Places /\ recovery[r].recovered \in BOOLEAN
         /\ recovery[r].answered \in BOOLEAN
         /\ (recovery[r].at # "idle" => recovery[r].board \in Boards)
<1>1. recovery[r] \in RecoveryRecs /\ (recovery[r].at = "idle" <=> recovery[r].board = Nowhere)
  BY DEF RecoveriesStand
<1> QED
  BY <1>1 DEF RecoveryRecs, Whose

-----------------------------------------------------------------------------
(* The effects of the steps.                                               *)

EnrichGets(b, at) ==
  /\ enrich' \in [Boards -> EnrichRecs] /\ enrich'[b].at = at
  /\ \A c \in Boards \ {b} : enrich'[c] = enrich[c]

LEMMA EnrichSet ==
  ASSUME EnrichStands, NEW b \in Boards, NEW v \in EnrichRecs, enrich' = [enrich EXCEPT ![b] = v]
  PROVE  EnrichGets(b, v.at)
BY DEF EnrichGets, EnrichStands

LEMMA EnrichMoves ==
  ASSUME EnrichStands, NEW b \in Boards, NEW at \in EnrichSteps,
         enrich' = [enrich EXCEPT ![b].at = at]
  PROVE  EnrichGets(b, at)
<1> DEFINE v == [enrich[b] EXCEPT !.at = at]
<1>1. v \in EnrichRecs /\ v.at = at
  BY EnrichIs DEF EnrichRecs
<1>2. enrich' = [enrich EXCEPT ![b] = v]
  OBVIOUS
<1> HIDE DEF v
<1> QED
  BY <1>1, <1>2, EnrichSet

LEMMA EnrichRests ==
  ASSUME EnrichStands, NEW b \in Boards, EnrichOver(b)
  PROVE  EnrichGets(b, "idle") /\ enriching' = enriching \ {b}
<1>1. AtRest \in EnrichRecs /\ AtRest.at = "idle"
  BY DEF AtRest, EnrichRecs, EnrichSteps, Paths, Places
<1> QED
  BY <1>1, EnrichSet DEF EnrichOver

RecoveryGets(r, at, board, recovered, answered) ==
  /\ recovery' \in [Recoveries -> RecoveryRecs]
  /\ recovery'[r].at = at /\ recovery'[r].board = board
  /\ (recovery'[r].recovered <=> recovered) /\ (recovery'[r].answered <=> answered)
  /\ \A q \in Recoveries \ {r} : recovery'[q] = recovery[q]

LEMMA RecoverySet ==
  ASSUME RecoveriesStand, NEW r \in Recoveries, NEW v \in RecoveryRecs,
         recovery' = [recovery EXCEPT ![r] = v]
  PROVE  RecoveryGets(r, v.at, v.board, v.recovered, v.answered)
BY DEF RecoveryGets, RecoveriesStand

LEMMA RecoveryMoves ==
  ASSUME RecoveriesStand, NEW r \in Recoveries, NEW at \in RecoverySteps, RecoveryGoes(r, at)
  PROVE  RecoveryGets(r, at, recovery[r].board, recovery[r].recovered, recovery[r].answered)
<1> DEFINE v == [recovery[r] EXCEPT !.at = at]
<1>0. recovery[r] \in RecoveryRecs
  BY RecoveryIs
<1>1. v \in RecoveryRecs /\ v.at = at /\ v.board = recovery[r].board
      /\ v.recovered = recovery[r].recovered /\ v.answered = recovery[r].answered
  BY <1>0 DEF RecoveryRecs
<1>2. recovery' = [recovery EXCEPT ![r] = v]
  BY DEF RecoveryGoes
<1> HIDE DEF v
<1> QED
  BY <1>1, <1>2, RecoverySet DEF RecoveryGets

LEMMA RecoveryReleases ==
  ASSUME RecoveriesStand, NEW r \in Recoveries, NEW at \in RecoverySteps, NEW answer \in BOOLEAN,
         RecoveryLeaves(r, at, answer)
  PROVE  RecoveryGets(r, at, recovery[r].board, answer, answer)
<1> DEFINE v == [recovery[r] EXCEPT !.at = at, !.recovered = answer, !.answered = answer]
<1>0. recovery[r] \in RecoveryRecs
  BY RecoveryIs
<1>1. v \in RecoveryRecs /\ v.at = at /\ v.board = recovery[r].board
      /\ v.recovered = answer /\ v.answered = answer
  BY <1>0 DEF RecoveryRecs
<1>2. recovery' = [recovery EXCEPT ![r] = v]
  BY DEF RecoveryLeaves
<1> HIDE DEF v
<1> QED
  BY <1>1, <1>2, RecoverySet DEF RecoveryGets

LEMMA RecoveryClears ==
  ASSUME RecoveriesStand, NEW r \in Recoveries, recovery' = [recovery EXCEPT ![r] = NoRecovery]
  PROVE  RecoveryGets(r, "idle", Nowhere, FALSE, FALSE)
<1>1. NoRecovery \in RecoveryRecs /\ NoRecovery.at = "idle" /\ NoRecovery.board = Nowhere
      /\ ~NoRecovery.recovered /\ ~NoRecovery.answered
  BY DEF NoRecovery, RecoveryRecs, RecoverySteps, Paths, Places, Whose
<1> HIDE DEF NoRecovery
<1> QED
  BY <1>1, RecoverySet DEF RecoveryGets

-----------------------------------------------------------------------------
(* The bench.                                                              *)

LEMMA BusSet ==
  ASSUME BusStands, NEW b \in Boards, NEW v \in BusRecs, bus' = [bus EXCEPT ![b] = v],
         v.port = Nowhere \/ v.port = bus[b].port \/ v.port \in FreePorts
  PROVE  BusStands'
<1>1. bus' \in [Boards -> BusRecs]
  BY DEF BusStands
<1>2. ASSUME NEW c \in Boards, c # b, bus[c].port = v.port PROVE v.port = Nowhere
  <2>1. CASE v.port = bus[b].port
    BY <1>2, <2>1 DEF BusStands
  <2>2. CASE v.port \in FreePorts
    BY <1>2, <2>2 DEF FreePorts, At
  <2> QED
    BY <2>1, <2>2
<1>3. bus'[b] = v /\ \A c \in Boards \ {b} : bus'[c] = bus[c]
  BY DEF BusStands
<1>4. ASSUME NEW c \in Boards, NEW d \in Boards, c # d, bus'[c].port = bus'[d].port
      PROVE  bus'[c].port = Nowhere
  <2>1. CASE c = b
    BY <1>2, <1>3, <1>4, <2>1
  <2>2. CASE d = b
    BY <1>2, <1>3, <1>4, <2>2
  <2>3. CASE c # b /\ d # b
    BY <1>3, <1>4, <2>3 DEF BusStands
  <2> QED
    BY <2>1, <2>2, <2>3
<1> QED
  BY <1>1, <1>4 DEF BusStands

LEMMA FreePortsArePorts == FreePorts \subseteq Ports
BY DEF FreePorts

LEMMA PowerCycleKeeps ==
  ASSUME BusStands, NEW slot, PowerCycle(slot)
  PROVE  BusStands'
<1>1. CASE UNCHANGED bus
  BY <1>1 DEF BusStands
<1>2. CASE ~UNCHANGED bus
  <2>0. PICK b \in In(slot) : \E p \in FreePorts \cup {bus[b].port} :
          bus' = [bus EXCEPT ![b].port = p, ![b].wedged = FALSE]
    BY <1>2 DEF PowerCycle
  <2>1. PICK p \in FreePorts \cup {bus[b].port} : bus' = [bus EXCEPT ![b].port = p, ![b].wedged = FALSE]
    BY <2>0
  <2>2. b \in Boards
    BY DEF In
  <2>3. bus[b] \in BusRecs /\ p \in Paths
    BY <2>2, BoardAt, FreePortsArePorts DEF Paths
  <2> DEFINE v == [bus[b] EXCEPT !.port = p, !.wedged = FALSE]
  <2>4. v \in BusRecs /\ v.port = p
    BY <2>3 DEF BusRecs
  <2>5. bus' = [bus EXCEPT ![b] = v]
    BY <2>1
  <2> HIDE DEF v
  <2> QED
    BY <2>2, <2>4, <2>5, BusSet
<1> QED
  BY <1>1, <1>2

LEMMA BenchChangeKeeps ==
  ASSUME BusStands, BenchChanges
  PROVE  BusStands'
<1>1. CASE UNCHANGED bus
  BY <1>1 DEF BusStands
<1>2. ASSUME NEW b \in Boards, Plug(b) PROVE BusStands'
  <2>1. PICK p \in FreePorts, s \in Places : bus' = [bus EXCEPT ![b] = [port |-> p, slot |-> s, wedged |-> FALSE]]
    BY <1>2 DEF Plug, Places
  <2> DEFINE v == [port |-> p, slot |-> s, wedged |-> FALSE]
  <2>2. v \in BusRecs /\ v.port = p
    BY FreePortsArePorts DEF BusRecs, Paths
  <2>3. bus' = [bus EXCEPT ![b] = v]
    BY <2>1
  <2> HIDE DEF v
  <2> QED
    BY <2>2, <2>3, BusSet
<1>3. ASSUME NEW b \in Boards, Unplug(b) PROVE BusStands'
  <2>1. Unplugged \in BusRecs /\ Unplugged.port = Nowhere
    BY DEF Unplugged, BusRecs, Paths, Places
  <2>2. bus' = [bus EXCEPT ![b] = Unplugged]
    BY <1>3 DEF Unplug
  <2> QED
    BY <2>1, <2>2, BusSet
<1>4. ASSUME NEW b \in Boards, Wedges(b) PROVE BusStands'
  <2> DEFINE v == [bus[b] EXCEPT !.wedged = TRUE]
  <2>1. bus[b] \in BusRecs
    BY BoardAt
  <2>2. v \in BusRecs /\ v.port = bus[b].port
    BY <2>1 DEF BusRecs
  <2>3. bus' = [bus EXCEPT ![b] = v]
    BY <1>4 DEF Wedges
  <2> HIDE DEF v
  <2> QED
    BY <2>2, <2>3, BusSet
<1> QED
  BY <1>1, <1>2, <1>3, <1>4 DEF BenchChanges

-----------------------------------------------------------------------------
(* The rows.                                                               *)

LEMMA RowSet ==
  ASSUME RowsStand, NEW b, NEW v \in DeviceRows, v.known \/ v = NoRow, rows' = [rows EXCEPT ![b] = v]
  PROVE  RowsStand'
BY DEF RowsStand

LEMMA SightOf ==
  ASSUME ScanStands, scan.at \in {"write", "written", "slot", "slotted"}
  PROVE  scan.board \in Boards /\ scan.found[scan.board].port \in Paths
         /\ scan.found[scan.board].slot \in Places /\ scan.board \in DOMAIN scan.found
<1>1. scan.board \in DOMAIN scan.found
  BY DEF ScanStands
<1>2. scan.found[scan.board] \in Sights
  BY <1>1, ScanIs
<1> QED
  BY <1>1, <1>2, ScanIs DEF Sights

LEMMA UpsertKeeps ==
  ASSUME RowsStand, ScanStands, UpsertWrites
  PROVE  RowsStand'
<1> DEFINE b == scan.board
<1>1. b \in Boards /\ scan.found[b].port \in Paths /\ rows' = [rows EXCEPT ![b] = Upserted(b)]
  BY SightOf DEF UpsertWrites
<1>2. PICK p \in Paths : p = scan.found[b].port
  BY <1>1
<1> HIDE DEF b
<1>3. CASE ~scan.row.known
  <2> DEFINE v == [NoRow EXCEPT !.known = TRUE, !.online = TRUE, !.port = p]
  <2>1. v \in DeviceRows /\ v.known
    BY DEF NoRow, DeviceRows, Paths
  <2>2. rows' = [rows EXCEPT ![b] = v]
    BY <1>1, <1>2, <1>3 DEF Upserted
  <2> HIDE DEF v
  <2> QED
    BY <2>1, <2>2, RowSet
<1>4. CASE scan.row.known /\ ~rows[b].known
  <2>1. rows' = rows
    BY <1>1, <1>4 DEF Upserted, RowsStand
  <2> QED
    BY <2>1 DEF RowsStand
<1>5. CASE scan.row.known /\ rows[b].known
  <2>0. rows[b] \in DeviceRows
    BY <1>1, RowOf
  <2> DEFINE v == [rows[b] EXCEPT !.online = TRUE, !.port = p]
  <2>1. v \in DeviceRows /\ v.known
    BY <1>5, <2>0 DEF DeviceRows, Paths
  <2>2. rows' = [rows EXCEPT ![b] = v]
    BY <1>1, <1>2, <1>5 DEF Upserted
  <2> HIDE DEF v
  <2> QED
    BY <2>1, <2>2, RowSet
<1> QED
  BY <1>3, <1>4, <1>5

LEMMA SlotKeeps ==
  ASSUME RowsStand, ScanStands, SlotWrites
  PROVE  RowsStand'
<1> DEFINE b == scan.board
<1>1. b \in Boards /\ scan.found[b].slot \in Places
      /\ rows' = IF rows[b].known THEN [rows EXCEPT ![b].slot = scan.found[b].slot] ELSE rows
  BY SightOf DEF SlotWrites
<1>2. PICK s \in Places : s = scan.found[b].slot
  BY <1>1
<1> HIDE DEF b
<1>3. CASE ~rows[b].known
  BY <1>1, <1>3 DEF RowsStand
<1>4. CASE rows[b].known
  <2>0. rows[b] \in DeviceRows
    BY <1>1, RowOf
  <2> DEFINE v == [rows[b] EXCEPT !.slot = s]
  <2>1. v \in DeviceRows /\ v.known
    BY <1>4, <2>0 DEF DeviceRows, Places
  <2>2. rows' = [rows EXCEPT ![b] = v]
    BY <1>1, <1>2, <1>4
  <2> HIDE DEF v
  <2> QED
    BY <2>1, <2>2, RowSet
<1> QED
  BY <1>3, <1>4

LEMMA OfflineKeeps ==
  ASSUME RowsStand, MarkOffline
  PROVE  RowsStand'
<1>1. rows' = [b \in Boards |-> IF rows[b].online /\ b \notin DOMAIN scan.found
                                THEN [rows[b] EXCEPT !.online = FALSE] ELSE rows[b]]
  BY DEF MarkOffline
<1>2. ASSUME NEW b \in Boards PROVE rows'[b] \in DeviceRows /\ (~rows'[b].known => rows'[b] = NoRow)
  <2>1. rows[b] \in DeviceRows
    BY RowOf
  <2>2. CASE rows[b].online /\ b \notin DOMAIN scan.found
    <3>1. rows[b].known
      BY <2>2 DEF RowsStand, NoRow
    <3>2. rows'[b] = [rows[b] EXCEPT !.online = FALSE]
      BY <1>1, <2>2
    <3>3. [rows[b] EXCEPT !.online = FALSE] \in DeviceRows /\ [rows[b] EXCEPT !.online = FALSE].known
      BY <2>1, <3>1 DEF DeviceRows
    <3> QED
      BY <3>2, <3>3
  <2>3. CASE ~(rows[b].online /\ b \notin DOMAIN scan.found)
    BY <1>1, <2>1, <2>3 DEF RowsStand
  <2> QED
    BY <2>2, <2>3
<1>3. rows' \in [Boards -> DeviceRows]
  <2>1. rows' = [b \in Boards |-> rows'[b]]
    BY <1>1
  <2> QED
    BY <1>2, <2>1
<1> QED
  BY <1>2, <1>3 DEF RowsStand

LEMMA EnrichmentKeeps ==
  ASSUME RowsStand, EnrichStands, NEW b \in Boards, EnrichWrites(b)
  PROVE  RowsStand'
<1>1. CASE UNCHANGED rows
  BY <1>1 DEF RowsStand
<1>2. CASE enrich[b].at = "write"
  <2>1. rows' = [rows EXCEPT ![b] = Enriched(b)]
    BY <1>2 DEF EnrichWrites
  <2>2. CASE ~rows[b].known
    <3>1. rows' = rows
      BY <2>1, <2>2 DEF Enriched, RowsStand
    <3> QED
      BY <3>1 DEF RowsStand
  <2>3. CASE rows[b].known
    <3>0. rows[b] \in DeviceRows /\ enrich[b].full \in BOOLEAN /\ rows[b].read \in BOOLEAN
      BY RowOf, EnrichIs
    <3>1. PICK full \in BOOLEAN : full = (rows[b].read \/ enrich[b].full)
      BY <3>0
    <3>2. PICK env \in {"none", "auto", "pinned"} :
            env = IF enrich[b].locked THEN rows[b].env ELSE "auto"
      BY <3>0 DEF DeviceRows
    <3> DEFINE v == [rows[b] EXCEPT !.read = full, !.env = env]
    <3>3. v \in DeviceRows /\ v.known
      BY <2>3, <3>0 DEF DeviceRows
    <3>4. rows' = [rows EXCEPT ![b] = v]
      BY <2>1, <2>3, <3>1, <3>2 DEF Enriched
    <3> HIDE DEF v
    <3> QED
      BY <3>3, <3>4, RowSet
  <2> QED
    BY <2>2, <2>3
<1> QED
  BY <1>1, <1>2 DEF EnrichWrites

LEMMA PinKeeps ==
  ASSUME RowsStand, SetEnv
  PROVE  RowsStand'
<1>1. PICK b \in Boards, pin \in BOOLEAN :
        /\ rows[b].known
        /\ rows' = [rows EXCEPT ![b].env = IF pin THEN "pinned" ELSE "none", ![b].locked = pin]
  BY DEF SetEnv
<1>2. PICK env \in {"none", "auto", "pinned"} : env = IF pin THEN "pinned" ELSE "none"
  OBVIOUS
<1>3. rows[b] \in DeviceRows
  BY RowOf
<1> DEFINE v == [rows[b] EXCEPT !.env = env, !.locked = pin]
<1>4. v \in DeviceRows /\ v.known
  BY <1>1, <1>3 DEF DeviceRows
<1>5. rows' = [rows EXCEPT ![b] = v]
  BY <1>1, <1>2
<1> HIDE DEF v
<1> QED
  BY <1>4, <1>5, RowSet

LEMMA ForgetKeeps ==
  ASSUME RowsStand, Forgets
  PROVE  RowsStand'
BY NoRowIsRow, RowSet DEF Forgets

LEMMA BusGoesOn ==
  ASSUME BusStands, [DiscNext]_discVars
  PROVE  BusStands'
<1>0. ASSUME UNCHANGED bus PROVE BusStands'
  BY <1>0 DEF BusStands
<1>1. CASE BenchChanges
  BY <1>1, BenchChangeKeeps
<1>2. ASSUME NEW b \in Boards, UnwedgeCycles(b) PROVE BusStands'
  BY <1>2, PowerCycleKeeps DEF UnwedgeCycles
<1>3. ASSUME NEW r \in Recoveries, Ladder(r) PROVE BusStands'
  BY <1>3, PowerCycleKeeps DEF Ladder, BusStands
<1>4. ASSUME TestRunEnds \/ ScanLists \/ ScanLocates \/ UpsertReads \/ UpsertWrites \/
         UpsertReturns \/ ScanBreaks \/ SlotWrites \/ MarkOffline \/ ScanEnds \/
         ForgetAsks \/ Forgets \/ SetEnv
      PROVE  BusStands'
  BY <1>0, <1>4 DEF TestRunEnds, ScanLists, ScanLocates, UpsertReads, UpsertWrites, UpsertReturns,
     ScanBreaks, SlotWrites, MarkOffline, ScanEnds, ForgetAsks, Forgets, SetEnv, discVars,
     bench, registry, enrichVars, recoveryVars
<1>5. ASSUME NEW b \in Boards, EnrichReadsRow(b) \/ EnrichEnters(b) \/ EnrichConnects(b) \/ EnrichLooks(b) \/
         EnrichWrites(b) \/ EnrichFails(b) \/ EnrichRefused(b) \/ UnwedgeAsks(b) \/ UnwedgeProbes(b) \/
         BackoffEnds(b) \/ CooldownEnds(b)
      PROVE  BusStands'
  BY <1>0, <1>5 DEF EnrichReadsRow, EnrichEnters, EnrichConnects, EnrichLooks, EnrichWrites, EnrichFails, EnrichRefused,
     UnwedgeAsks, UnwedgeProbes, BackoffEnds, CooldownEnds, discVars, bench, registry, enrichVars,
     recoveryVars
<1>6. ASSUME NEW r \in Recoveries, RecoveryAsks(r) \/ RecoveryBegins(r) \/ RecoveryEnters(r) \/ RecoveryProbes(r)
         \/ RecoveryRereads(r) \/ RecoveryEnds(r) \/ RecoveryRefused(r)
      PROVE  BusStands'
  BY <1>0, <1>6 DEF RecoveryAsks, RecoveryBegins, RecoveryEnters, RecoveryProbes, RecoveryRereads,
     RecoveryEnds, RecoveryOver, RecoveryRefused, discVars, bench, registry, enrichVars, recoveryVars
<1>7. CASE UNCHANGED discVars
  BY <1>0, <1>7 DEF discVars
<1> QED
  BY <1>1, <1>2, <1>3, <1>4, <1>5, <1>6, <1>7 DEF DiscNext, Scan, Enrich, Recover

LEMMA RowsGoOn ==
  ASSUME RowsStand, ScanStands, EnrichStands, [DiscNext]_discVars
  PROVE  RowsStand'
<1>0. ASSUME UNCHANGED rows PROVE RowsStand'
  BY <1>0 DEF RowsStand
<1>1. CASE UpsertWrites
  BY <1>1, UpsertKeeps
<1>2. CASE SlotWrites
  BY <1>2, SlotKeeps
<1>3. CASE MarkOffline
  BY <1>3, OfflineKeeps
<1>4. ASSUME NEW b \in Boards, EnrichWrites(b) PROVE RowsStand'
  BY <1>4, EnrichmentKeeps
<1>5. CASE Forgets
  BY <1>5, ForgetKeeps
<1>6. CASE SetEnv
  BY <1>6, PinKeeps
<1>7. ASSUME BenchChanges \/ TestRunEnds \/ ScanLists \/ ScanLocates \/ UpsertReads \/
         UpsertReturns \/ ScanBreaks \/ ScanEnds \/ ForgetAsks
      PROVE  RowsStand'
  BY <1>0, <1>7 DEF BenchChanges, TestRunEnds, ScanLists, ScanLocates, UpsertReads, UpsertReturns,
     ScanBreaks, ScanEnds, ForgetAsks, discVars, bench, registry, enrichVars, recoveryVars
<1>8. ASSUME NEW b \in Boards, EnrichReadsRow(b) \/ EnrichEnters(b) \/ EnrichConnects(b) \/ EnrichLooks(b) \/
         EnrichFails(b) \/ EnrichRefused(b) \/ UnwedgeAsks(b) \/ UnwedgeProbes(b) \/ UnwedgeCycles(b) \/
         BackoffEnds(b) \/ CooldownEnds(b)
      PROVE  RowsStand'
  BY <1>0, <1>8 DEF EnrichReadsRow, EnrichEnters, EnrichConnects, EnrichLooks, EnrichFails, EnrichRefused, UnwedgeAsks,
     UnwedgeProbes, UnwedgeCycles, BackoffEnds, CooldownEnds, discVars, bench, registry, enrichVars,
     recoveryVars
<1>9. ASSUME NEW r \in Recoveries, RecoveryAsks(r) \/ RecoveryBegins(r) \/ RecoveryEnters(r) \/ Ladder(r) \/
         RecoveryProbes(r) \/ RecoveryRereads(r) \/ RecoveryEnds(r) \/ RecoveryRefused(r)
      PROVE  RowsStand'
  BY <1>0, <1>9 DEF RecoveryAsks, RecoveryBegins, RecoveryEnters, Ladder, RecoveryProbes,
     RecoveryRereads, RecoveryEnds, RecoveryOver, RecoveryRefused, discVars, bench, registry, enrichVars, recoveryVars
<1>10. CASE UNCHANGED discVars
  BY <1>0, <1>10 DEF discVars
<1> QED
  BY <1>1, <1>2, <1>3, <1>4, <1>5, <1>6, <1>7, <1>8, <1>9, <1>10 DEF DiscNext, Scan, Enrich, Recover

-----------------------------------------------------------------------------
(* The scan.                                                               *)

LEMMA RestingIs ==
  /\ Resting \in ScanRecs /\ Resting.at = "idle" /\ Resting.todo = {}
<1>1. [b \in {} |-> Nowhere] \in UNION {[S -> Sights] : S \in SUBSET Boards}
  <2>1. [b \in {} |-> Nowhere] \in [{} -> Sights] /\ {} \in SUBSET Boards
    OBVIOUS
  <2> QED
    BY <2>1
<1> QED
  BY <1>1, NoRowIsRow DEF Resting, ScanRecs, ScanSteps, Whose

LEMMA SightsAre ==
  ASSUME NEW f, NEW S \in SUBSET Boards, f \in [S -> Sights]
  PROVE  f \in UNION {[T -> Sights] : T \in SUBSET Boards}
OBVIOUS

LEMMA ListKeeps ==
  ASSUME BusStands, ScanLists
  PROVE  ScanStands'
<1> DEFINE there == {b \in Boards : bus[b].port # Nowhere}
<1> DEFINE f == [b \in there |-> [port |-> bus[b].port, slot |-> Nowhere]]
<1>1. there \in SUBSET Boards /\ f \in [there -> Sights]
  <2>1. ASSUME NEW b \in there PROVE [port |-> bus[b].port, slot |-> Nowhere] \in Sights
    BY BoardAt DEF Sights, Places
  <2> QED
    BY <2>1
<1>2. f \in UNION {[S -> Sights] : S \in SUBSET Boards}
  BY <1>1, SightsAre
<1>3. scan' = [Resting EXCEPT !.at = "listed", !.found = f]
  BY DEF ScanLists
<1> HIDE DEF f
<1>4. scan' \in ScanRecs /\ scan'.at = "listed"
  <2> HIDE DEF there, Resting
  <2> QED
    BY <1>2, <1>3, RestingIs DEF ScanRecs, ScanSteps
<1> QED
  BY <1>4 DEF ScanStands

LEMMA SlotAtIsPlace == ASSUME BusStands, NEW port PROVE SlotAt(port) \in Places
<1>1. CASE At(port) = {}
  BY <1>1 DEF SlotAt, Places
<1>2. CASE At(port) # {}
  <2>1. (CHOOSE b \in At(port) : TRUE) \in At(port)
    BY <1>2
  <2>2. (CHOOSE b \in At(port) : TRUE) \in Boards
    BY <2>1 DEF At
  <2> QED
    BY <1>2, <2>2, BoardAt DEF SlotAt
<1> QED
  BY <1>1, <1>2

LEMMA LocateKeeps ==
  ASSUME BusStands, ScanStands, ScanLocates
  PROVE  ScanStands'
<1> DEFINE S == DOMAIN scan.found
<1> DEFINE f == [b \in S |-> [scan.found[b] EXCEPT !.slot = SlotAt(scan.found[b].port)]]
<1>1. S \in SUBSET Boards /\ scan.found \in [S -> Sights] /\ scan \in ScanRecs
  BY ScanIs
<1>2. ASSUME NEW b \in S PROVE [scan.found[b] EXCEPT !.slot = SlotAt(scan.found[b].port)] \in Sights
  <2>1. scan.found[b] \in Sights
    BY <1>1
  <2>2. PICK s \in Places : s = SlotAt(scan.found[b].port)
    BY SlotAtIsPlace
  <2>3. [scan.found[b] EXCEPT !.slot = s] \in Sights
    BY <2>1 DEF Sights
  <2> QED
    BY <2>2, <2>3
<1>3. f \in [S -> Sights] /\ DOMAIN f = S
  BY <1>2
<1>4. f \in UNION {[T -> Sights] : T \in SUBSET Boards}
  BY <1>1, <1>3, SightsAre
<1>5. scan' = [scan EXCEPT !.at = "next", !.todo = S, !.found = f]
  BY DEF ScanLocates
<1> HIDE DEF f, S
<1>6. scan' \in ScanRecs /\ scan'.at = "next" /\ scan'.todo = S /\ scan'.found = f
  BY <1>1, <1>4, <1>5 DEF ScanRecs, ScanSteps
<1> QED
  BY <1>3, <1>6 DEF ScanStands

LEMMA ReadsKeep ==
  ASSUME RowsStand, ScanStands, UpsertReads
  PROVE  ScanStands'
<1>1. scan.at = "next" /\ scan \in ScanRecs /\ scan.todo \subseteq DOMAIN scan.found
  BY DEF UpsertReads, ScanStands
<1>2. PICK b \in scan.todo : scan' = [scan EXCEPT !.at = "write", !.board = b, !.row = rows[b]]
  BY DEF UpsertReads
<1>3. b \in Whose /\ rows[b] \in DeviceRows
  BY RowOf, ScanIs DEF Whose
<1>4. scan' \in ScanRecs /\ scan'.board = b /\ scan'.todo = scan.todo /\ scan'.found = scan.found
  BY <1>1, <1>2, <1>3 DEF ScanRecs, ScanSteps
<1> QED
  BY <1>1, <1>4 DEF ScanStands

LEMMA WriteKeeps ==
  ASSUME ScanStands, UpsertWrites
  PROVE  ScanStands'
<1>1. scan.at = "write" /\ scan \in ScanRecs /\ scan.todo \subseteq DOMAIN scan.found
      /\ scan.board \in DOMAIN scan.found
  BY DEF UpsertWrites, ScanStands
<1>2. PICK c \in BOOLEAN : c <=> ~scan.row.known \/ ~scan.row.online
                                 \/ scan.row.port # scan.found[scan.board].port
  OBVIOUS
<1>3. scan' = [scan EXCEPT !.at = "written", !.changed = c]
  BY <1>2 DEF UpsertWrites
<1>4. scan' \in ScanRecs /\ scan'.board = scan.board /\ scan'.todo = scan.todo /\ scan'.found = scan.found
  BY <1>1, <1>3 DEF ScanRecs, ScanSteps
<1> QED
  BY <1>1, <1>4 DEF ScanStands

LEMMA ReturnsKeep ==
  ASSUME ScanStands, UpsertReturns
  PROVE  ScanStands'
<1>1. scan \in ScanRecs /\ scan.todo \subseteq DOMAIN scan.found
      /\ scan.board \in DOMAIN scan.found
  BY DEF UpsertReturns, ScanStands
<1>2. CASE scan' = [scan EXCEPT !.at = "slot", !.changed = TRUE]
  <2>1. scan' \in ScanRecs /\ scan'.board = scan.board /\ scan'.todo = scan.todo /\ scan'.found = scan.found
    BY <1>1, <1>2 DEF ScanRecs, ScanSteps
  <2> QED
    BY <1>1, <2>1 DEF ScanStands
<1>3. CASE scan' = [scan EXCEPT !.at = "next", !.board = Nowhere, !.row = NoRow,
                        !.changed = FALSE, !.todo = @ \ {scan.board}]
  <2>0. scan.todo \subseteq Boards
    BY ScanIs
  <2>1. PICK T \in SUBSET Boards : T = scan.todo \ {scan.board}
    BY <2>0
  <2>2. scan' = [scan EXCEPT !.at = "next", !.board = Nowhere, !.row = NoRow, !.changed = FALSE, !.todo = T]
    BY <1>3, <2>1
  <2>3. scan' \in ScanRecs /\ scan'.at = "next" /\ scan'.todo = T /\ scan'.found = scan.found
    <3> HIDE DEF NoRow
    <3> QED
      BY <1>1, <2>2, NoRowIsRow DEF ScanRecs, ScanSteps, Whose
  <2> QED
    BY <1>1, <2>1, <2>3 DEF ScanStands
<1> QED
  BY <1>2, <1>3 DEF UpsertReturns

LEMMA SlottedKeeps ==
  ASSUME ScanStands, SlotWrites
  PROVE  ScanStands'
<1>1. scan.at = "slot" /\ scan \in ScanRecs /\ scan.todo \subseteq DOMAIN scan.found
      /\ scan.board \in DOMAIN scan.found /\ scan' = [scan EXCEPT !.at = "slotted"]
  BY DEF SlotWrites, ScanStands
<1>2. scan' \in ScanRecs /\ scan'.board = scan.board /\ scan'.todo = scan.todo /\ scan'.found = scan.found
  BY <1>1 DEF ScanRecs, ScanSteps
<1> QED
  BY <1>1, <1>2 DEF ScanStands

LEMMA OfflineScanKeeps ==
  ASSUME ScanStands, MarkOffline
  PROVE  ScanStands'
<1>1. PICK T \in SUBSET Boards : T = {b \in Boards : rows[b].online /\ b \notin DOMAIN scan.found}
  OBVIOUS
<1>2. scan' = [Resting EXCEPT !.at = "offline", !.todo = T]
  BY <1>1 DEF MarkOffline
<1>3. scan' \in ScanRecs /\ scan'.at = "offline"
  <2> HIDE DEF Resting
  <2> QED
    BY <1>2, RestingIs DEF ScanRecs, ScanSteps
<1> QED
  BY <1>3 DEF ScanStands

LEMMA RestKeeps ==
  ASSUME scan' = Resting
  PROVE  ScanStands'
<1> HIDE DEF Resting
<1> QED
  BY RestingIs DEF ScanStands

LEMMA ScanGoesOn ==
  ASSUME BusStands, RowsStand, ScanStands, [DiscNext]_discVars
  PROVE  ScanStands'
<1>0. ASSUME UNCHANGED scan PROVE ScanStands'
  BY <1>0 DEF ScanStands
<1>1. CASE ScanLists
  BY <1>1, ListKeeps
<1>2. CASE ScanLocates
  BY <1>2, LocateKeeps
<1>3. CASE UpsertReads
  BY <1>3, ReadsKeep
<1>4. CASE UpsertWrites
  BY <1>4, WriteKeeps
<1>5. CASE UpsertReturns
  BY <1>5, ReturnsKeep
<1>6. CASE ScanBreaks
  BY <1>6, RestKeeps DEF ScanBreaks
<1>7. CASE SlotWrites
  BY <1>7, SlottedKeeps
<1>8. CASE MarkOffline
  BY <1>8, OfflineScanKeeps
<1>9. CASE ScanEnds
  BY <1>9, RestKeeps DEF ScanEnds
<1>10. ASSUME BenchChanges \/ TestRunEnds \/ ForgetAsks \/ Forgets \/ SetEnv
      PROVE  ScanStands'
  BY <1>0, <1>10 DEF BenchChanges, TestRunEnds, ForgetAsks, Forgets, SetEnv, discVars, bench, registry,
     enrichVars, recoveryVars
<1>11. ASSUME NEW b \in Boards, EnrichReadsRow(b) \/ EnrichEnters(b) \/ EnrichConnects(b) \/ EnrichLooks(b) \/
         EnrichWrites(b) \/ EnrichFails(b) \/ EnrichRefused(b) \/ UnwedgeAsks(b) \/ UnwedgeProbes(b) \/
         UnwedgeCycles(b) \/ BackoffEnds(b) \/ CooldownEnds(b)
      PROVE  ScanStands'
  BY <1>0, <1>11 DEF EnrichReadsRow, EnrichEnters, EnrichConnects, EnrichLooks, EnrichWrites, EnrichFails, EnrichRefused,
     UnwedgeAsks, UnwedgeProbes, UnwedgeCycles, BackoffEnds, CooldownEnds, discVars, bench, registry,
     enrichVars, recoveryVars
<1>12. ASSUME NEW r \in Recoveries, RecoveryAsks(r) \/ RecoveryBegins(r) \/ RecoveryEnters(r) \/ Ladder(r) \/
         RecoveryProbes(r) \/ RecoveryRereads(r) \/ RecoveryEnds(r) \/ RecoveryRefused(r)
      PROVE  ScanStands'
  BY <1>0, <1>12 DEF RecoveryAsks, RecoveryBegins, RecoveryEnters, Ladder, RecoveryProbes,
     RecoveryRereads, RecoveryEnds, RecoveryOver, RecoveryRefused, discVars, bench, registry, enrichVars, recoveryVars
<1>13. CASE UNCHANGED discVars
  BY <1>0, <1>13 DEF discVars
<1> QED
  BY <1>1, <1>2, <1>3, <1>4, <1>5, <1>6, <1>7, <1>8, <1>9, <1>10, <1>11, <1>12, <1>13 DEF DiscNext, Scan, Enrich, Recover

-----------------------------------------------------------------------------
(* The enrichments.                                                        *)

\* How an enrichment of a board goes on, and its mark with it.
EnrichMay(b, at) ==
  /\ EnrichGets(b, at)
  /\ \/ at # "idle" /\ enriching' \in {enriching, enriching \cup {b}} /\ b \in enriching'
     \/ at = "idle" /\ enriching' = enriching \ {b}

LEMMA EnrichMayKeeps ==
  ASSUME EnrichStands, NEW b \in Boards, NEW at \in EnrichSteps, EnrichMay(b, at)
  PROVE  EnrichStands'
BY DEF EnrichStands, EnrichMay, EnrichGets

LEMMA MarkedWhileOn ==
  ASSUME EnrichStands, NEW b \in Boards, enrich[b].at # "idle"
  PROVE  b \in enriching
BY DEF EnrichStands

LEMMA EnrichPut ==
  ASSUME EnrichStands, NEW b \in Boards, NEW v \in EnrichRecs, enrich[b].at # "idle", v.at # "idle",
         enrich' = [enrich EXCEPT ![b] = v], UNCHANGED enriching
  PROVE  EnrichMay(b, v.at)
BY EnrichSet, MarkedWhileOn DEF EnrichMay

LEMMA EnrichStep ==
  ASSUME EnrichStands, NEW b \in Boards, NEW at \in EnrichSteps, enrich[b].at # "idle", at # "idle",
         EnrichGoes(b, at), UNCHANGED enriching
  PROVE  EnrichMay(b, at)
BY EnrichMoves, MarkedWhileOn DEF EnrichMay, EnrichGoes

LEMMA EnrichStops ==
  ASSUME EnrichStands, NEW b \in Boards, EnrichOver(b)
  PROVE  EnrichMay(b, "idle")
BY EnrichRests DEF EnrichMay

LEMMA UpsertBegins ==
  ASSUME EnrichStands, ScanStands, UpsertReturns
  PROVE  \/ UNCHANGED <<enrich, enriching>>
         \/ \E b \in Boards : enrich[b].at = "idle" /\ EnrichMay(b, "begun")
<1> DEFINE b == scan.board
<1>1. b \in Boards
  BY SightOf DEF UpsertReturns
<1>2. CASE Needs(b, scan.changed) /\ enrich' = [enrich EXCEPT ![b].at = "begun"]
           /\ enriching' = enriching \cup {b}
  <2> HIDE DEF b
  <2>1. b \notin enriching
    BY <1>2 DEF Needs
  <2>2. enrich[b].at = "idle"
    BY <1>1, <2>1 DEF EnrichStands
  <2>3. EnrichGets(b, "begun")
    BY <1>1, <1>2, EnrichMoves DEF EnrichSteps
  <2>4. EnrichMay(b, "begun")
    BY <1>2, <2>3 DEF EnrichMay
  <2> QED
    BY <1>1, <2>2, <2>4
<1>3. CASE UNCHANGED <<enrich, enriching>>
  BY <1>3
<1> QED
  BY <1>2, <1>3 DEF UpsertReturns, enrichVars

LEMMA RowRead ==
  ASSUME EnrichStands, RowsStand, NEW b \in Boards, EnrichReadsRow(b)
  PROVE  EnrichMay(b, "idle") \/ EnrichMay(b, "waiting")
<1>1. CASE EnrichOver(b)
  BY <1>1, EnrichStops
<1>2. CASE enrich' = [enrich EXCEPT ![b].at = "waiting", ![b].port = rows[b].port] /\ UNCHANGED enriching
  <2> DEFINE v == [enrich[b] EXCEPT !.at = "waiting", !.port = rows[b].port]
  <2>1. enrich[b] \in EnrichRecs /\ rows[b].port \in Paths
    BY EnrichIs, RowOf
  <2>2. v \in EnrichRecs /\ v.at = "waiting"
    BY <2>1 DEF EnrichRecs, EnrichSteps
  <2>3. enrich' = [enrich EXCEPT ![b] = v]
    BY <1>2
  <2> HIDE DEF v
  <2>4. EnrichMay(b, v.at)
    BY <1>2, <2>2, <2>3, EnrichPut DEF EnrichReadsRow
  <2> QED
    BY <2>2, <2>4
<1> QED
  BY <1>1, <1>2 DEF EnrichReadsRow

LEMMA Entered ==
  ASSUME EnrichStands, NEW b \in Boards, EnrichEnters(b)
  PROVE  EnrichMay(b, "idle") \/ EnrichMay(b, "connecting")
BY EnrichStops, EnrichStep DEF EnrichEnters, EnrichSteps

LEMMA Connected ==
  ASSUME EnrichStands, NEW b \in Boards, EnrichConnects(b)
  PROVE  EnrichMay(b, "read")
<1>1. CASE enrich' = [enrich EXCEPT ![b].at = "read", ![b].full = TRUE]
  <2> DEFINE v == [enrich[b] EXCEPT !.at = "read", !.full = TRUE]
  <2>1. enrich[b] \in EnrichRecs
    BY EnrichIs
  <2>2. v \in EnrichRecs /\ v.at = "read"
    BY <2>1 DEF EnrichRecs, EnrichSteps
  <2>3. enrich' = [enrich EXCEPT ![b] = v]
    BY <1>1
  <2> HIDE DEF v
  <2>4. EnrichMay(b, v.at)
    BY <2>2, <2>3, EnrichPut DEF EnrichConnects
  <2> QED
    BY <2>2, <2>4
<1>2. CASE EnrichGoes(b, "read")
  BY <1>2, EnrichStep DEF EnrichConnects, EnrichSteps
<1> QED
  BY <1>1, <1>2 DEF EnrichConnects

LEMMA Looked ==
  ASSUME EnrichStands, RowsStand, NEW b \in Boards, EnrichLooks(b)
  PROVE  EnrichMay(b, "write") \/ EnrichMay(b, "gone")
<1>1. PICK at \in {"write", "gone"} : at = IF rows[b].known THEN "write" ELSE "gone"
  OBVIOUS
<1> DEFINE v == [enrich[b] EXCEPT !.at = at, !.locked = rows[b].locked]
<1>2. enrich[b] \in EnrichRecs /\ rows[b].locked \in BOOLEAN
  BY EnrichIs, RowOf
<1>3. v \in EnrichRecs /\ v.at = at
  BY <1>2 DEF EnrichRecs, EnrichSteps
<1>4. enrich' = [enrich EXCEPT ![b] = v]
  BY <1>1 DEF EnrichLooks
<1> HIDE DEF v
<1>5. EnrichMay(b, v.at)
  BY <1>3, <1>4, EnrichPut DEF EnrichLooks
<1> QED
  BY <1>3, <1>5

LEMMA Written ==
  ASSUME EnrichStands, NEW b \in Boards, EnrichWrites(b)
  PROVE  EnrichMay(b, "idle")
BY EnrichStops DEF EnrichWrites

LEMMA Failed ==
  ASSUME EnrichStands, NEW b \in Boards, EnrichFails(b) \/ EnrichRefused(b)
  PROVE  EnrichMay(b, "failed")
BY EnrichStep DEF EnrichFails, EnrichRefused, EnrichSteps

LEMMA Asked ==
  ASSUME EnrichStands, RowsStand, NEW b \in Boards, UnwedgeAsks(b)
  PROVE  EnrichMay(b, "idle") \/ EnrichMay(b, "probing")
<1>1. CASE EnrichOver(b)
  BY <1>1, EnrichStops
<1>2. CASE /\ enrich' = [enrich EXCEPT ![b].at = "probing", ![b].port = rows[b].port, ![b].slot = rows[b].slot]
           /\ UNCHANGED enriching
  <2> DEFINE v == [enrich[b] EXCEPT !.at = "probing", !.port = rows[b].port, !.slot = rows[b].slot]
  <2>1. enrich[b] \in EnrichRecs /\ rows[b].port \in Paths /\ rows[b].slot \in Places
    BY EnrichIs, RowOf
  <2>2. v \in EnrichRecs /\ v.at = "probing"
    BY <2>1 DEF EnrichRecs, EnrichSteps
  <2>3. enrich' = [enrich EXCEPT ![b] = v]
    BY <1>2
  <2> HIDE DEF v
  <2>4. EnrichMay(b, v.at)
    BY <1>2, <2>2, <2>3, EnrichPut DEF UnwedgeAsks
  <2> QED
    BY <2>2, <2>4
<1> QED
  BY <1>1, <1>2 DEF UnwedgeAsks

LEMMA Probed ==
  ASSUME EnrichStands, NEW b \in Boards, UnwedgeProbes(b)
  PROVE  EnrichMay(b, "idle") \/ EnrichMay(b, "cycling")
BY EnrichStops, EnrichStep DEF UnwedgeProbes, EnrichSteps

LEMMA Cycled ==
  ASSUME EnrichStands, NEW b \in Boards, UnwedgeCycles(b)
  PROVE  EnrichMay(b, "idle")
BY EnrichStops DEF UnwedgeCycles

LEMMA EnrichGoesOn ==
  ASSUME RowsStand, ScanStands, EnrichStands, [DiscNext]_discVars
  PROVE  EnrichStands'
<1>0. ASSUME UNCHANGED <<enrich, enriching>> PROVE EnrichStands'
  BY <1>0 DEF EnrichStands
<1>1. CASE UpsertReturns
  <2>1. CASE UNCHANGED <<enrich, enriching>>
    BY <1>0, <2>1
  <2>2. CASE \E b \in Boards : enrich[b].at = "idle" /\ EnrichMay(b, "begun")
    BY <2>2, EnrichMayKeeps DEF EnrichSteps
  <2> QED
    BY <1>1, <2>1, <2>2, UpsertBegins
<1>2. ASSUME NEW b \in Boards, EnrichReadsRow(b) PROVE EnrichStands'
  BY <1>2, RowRead, EnrichMayKeeps DEF EnrichSteps
<1>3. ASSUME NEW b \in Boards, EnrichEnters(b) PROVE EnrichStands'
  BY <1>3, Entered, EnrichMayKeeps DEF EnrichSteps
<1>4. ASSUME NEW b \in Boards, EnrichConnects(b) PROVE EnrichStands'
  BY <1>4, Connected, EnrichMayKeeps DEF EnrichSteps
<1>5. ASSUME NEW b \in Boards, EnrichLooks(b) PROVE EnrichStands'
  BY <1>5, Looked, EnrichMayKeeps DEF EnrichSteps
<1>6. ASSUME NEW b \in Boards, EnrichWrites(b) PROVE EnrichStands'
  BY <1>6, Written, EnrichMayKeeps DEF EnrichSteps
<1>7. ASSUME NEW b \in Boards, EnrichFails(b) \/ EnrichRefused(b) PROVE EnrichStands'
  BY <1>7, Failed, EnrichMayKeeps DEF EnrichSteps
<1>8. ASSUME NEW b \in Boards, UnwedgeAsks(b) PROVE EnrichStands'
  BY <1>8, Asked, EnrichMayKeeps DEF EnrichSteps
<1>9. ASSUME NEW b \in Boards, UnwedgeProbes(b) PROVE EnrichStands'
  BY <1>9, Probed, EnrichMayKeeps DEF EnrichSteps
<1>10. ASSUME NEW b \in Boards, UnwedgeCycles(b) PROVE EnrichStands'
  BY <1>10, Cycled, EnrichMayKeeps DEF EnrichSteps
<1>11. ASSUME BenchChanges \/ TestRunEnds \/ ScanLists \/ ScanLocates \/ UpsertReads \/
         UpsertWrites \/ ScanBreaks \/ SlotWrites \/ MarkOffline \/ ScanEnds \/
         ForgetAsks \/ Forgets \/ SetEnv
      PROVE  EnrichStands'
  BY <1>0, <1>11 DEF BenchChanges, TestRunEnds, ScanLists, ScanLocates, UpsertReads, UpsertWrites,
     ScanBreaks, SlotWrites, MarkOffline, ScanEnds, ForgetAsks, Forgets, SetEnv, discVars,
     bench, registry, enrichVars, recoveryVars
<1>12. ASSUME NEW b \in Boards, BackoffEnds(b) \/ CooldownEnds(b)
      PROVE  EnrichStands'
  BY <1>0, <1>12 DEF BackoffEnds, CooldownEnds, discVars, bench, registry, enrichVars, recoveryVars
<1>13. ASSUME NEW r \in Recoveries, RecoveryAsks(r) \/ RecoveryBegins(r) \/ RecoveryEnters(r) \/ Ladder(r) \/
         RecoveryProbes(r) \/ RecoveryRereads(r) \/ RecoveryEnds(r) \/ RecoveryRefused(r)
      PROVE  EnrichStands'
  BY <1>0, <1>13 DEF RecoveryAsks, RecoveryBegins, RecoveryEnters, Ladder, RecoveryProbes,
     RecoveryRereads, RecoveryEnds, RecoveryOver, RecoveryRefused, discVars, bench, registry, enrichVars, recoveryVars
<1>14. CASE UNCHANGED discVars
  BY <1>0, <1>14 DEF discVars
<1> QED
  BY <1>1, <1>2, <1>3, <1>4, <1>5, <1>6, <1>7, <1>8, <1>9, <1>10, <1>11, <1>12, <1>13,
     <1>14 DEF DiscNext, Scan, Enrich, Recover

-----------------------------------------------------------------------------
(* The marks, the guards and the recoveries.                               *)

LEMMA EnrichedKeeps ==
  ASSUME EnrichStands, MarksStand, NEW b \in Boards, EnrichWrites(b)
  PROVE  MarksStand'
<1>1. enrich[b].port \in Paths
  BY EnrichIs
<1>2. enriched' = [enriched EXCEPT ![b] = enrich[b].port] \/ enriched' = enriched
  BY DEF EnrichWrites
<1>3. enriched' \in [Boards -> Paths]
  BY <1>1, <1>2 DEF MarksStand
<1> QED
  BY <1>3 DEF EnrichWrites, MarksStand

LEMMA OnlineAgainKeeps ==
  ASSUME MarksStand, ScanEnds
  PROVE  MarksStand'
<1>1. enriched' = [b \in Boards |-> IF b \in scan.todo THEN Nowhere ELSE enriched[b]]
  BY DEF ScanEnds
<1>2. enriched' \in [Boards -> Paths]
  BY <1>1 DEF MarksStand, Paths
<1> QED
  BY <1>2 DEF ScanEnds, MarksStand, enrichVars

LEMMA MarksGoOn ==
  ASSUME EnrichStands, MarksStand, [DiscNext]_discVars
  PROVE  MarksStand'
<1>0. ASSUME UNCHANGED <<enriched, backoff, cooldown, guardOf>> PROVE MarksStand'
  BY <1>0 DEF MarksStand
<1>1. CASE UpsertReturns
  BY <1>1 DEF UpsertReturns, MarksStand, enrichVars
<1>2. CASE ScanEnds
  BY <1>2, OnlineAgainKeeps
<1>3. ASSUME NEW b \in Boards, EnrichEnters(b) PROVE MarksStand'
  BY <1>3 DEF EnrichEnters, MarksStand, RecoveryLeaves, enrichVars
<1>4. ASSUME NEW b \in Boards, EnrichWrites(b) PROVE MarksStand'
  BY <1>4, EnrichedKeeps
<1>5. ASSUME NEW b \in Boards, EnrichFails(b) \/ EnrichRefused(b) PROVE MarksStand'
  BY <1>5 DEF EnrichFails, EnrichRefused, MarksStand, RecoveryLeaves, enrichVars
<1>6. ASSUME NEW b \in Boards, UnwedgeProbes(b) PROVE MarksStand'
  BY <1>6 DEF UnwedgeProbes, MarksStand, RecoveryLeaves, enrichVars
<1>7. ASSUME NEW b \in Boards, BackoffEnds(b) \/ CooldownEnds(b) PROVE MarksStand'
  BY <1>7 DEF BackoffEnds, CooldownEnds, MarksStand, RecoveryLeaves, enrichVars
<1>8. ASSUME NEW r \in Recoveries, RecoveryEnters(r) PROVE MarksStand'
  BY <1>8 DEF RecoveryEnters, MarksStand, RecoveryLeaves, enrichVars
<1>9. ASSUME NEW r \in Recoveries, Ladder(r) PROVE MarksStand'
  BY <1>9 DEF Ladder, MarksStand, RecoveryLeaves, enrichVars
<1>10. ASSUME NEW r \in Recoveries, RecoveryProbes(r) PROVE MarksStand'
  BY <1>10 DEF RecoveryProbes, MarksStand, RecoveryLeaves, enrichVars
<1>11. ASSUME BenchChanges \/ TestRunEnds \/ ScanLists \/ ScanLocates \/ UpsertReads \/
         UpsertWrites \/ ScanBreaks \/ SlotWrites \/ MarkOffline \/ ForgetAsks \/ Forgets
         \/ SetEnv
      PROVE  MarksStand'
  BY <1>0, <1>11 DEF BenchChanges, TestRunEnds, ScanLists, ScanLocates, UpsertReads, UpsertWrites,
     ScanBreaks, SlotWrites, MarkOffline, ForgetAsks, Forgets, SetEnv, discVars, bench,
     registry, enrichVars, recoveryVars
<1>12. ASSUME NEW b \in Boards, EnrichReadsRow(b) \/ EnrichConnects(b) \/ EnrichLooks(b) \/ UnwedgeAsks(b) \/
         UnwedgeCycles(b)
      PROVE  MarksStand'
  BY <1>0, <1>12 DEF EnrichReadsRow, EnrichConnects, EnrichLooks, UnwedgeAsks, UnwedgeCycles, discVars,
     bench, registry, enrichVars, recoveryVars
<1>13. ASSUME NEW r \in Recoveries, RecoveryAsks(r) \/ RecoveryBegins(r) \/ RecoveryRereads(r) \/ RecoveryEnds(r) \/ RecoveryRefused(r)
      PROVE  MarksStand'
  BY <1>0, <1>13 DEF RecoveryAsks, RecoveryBegins, RecoveryRereads, RecoveryEnds, RecoveryOver, RecoveryRefused, discVars, bench,
     registry, enrichVars, recoveryVars
<1>14. CASE UNCHANGED discVars
  BY <1>0, <1>14 DEF discVars
<1> QED
  BY <1>1, <1>2, <1>3, <1>4, <1>5, <1>6, <1>7, <1>8, <1>9, <1>10, <1>11, <1>12, <1>13,
     <1>14 DEF DiscNext, Scan, Enrich, Recover

\* How the recovery of a board goes on, without a change of its mark.
RecoveryMay(r, at) ==
  /\ Marked(r) /\ at \notin {"idle", "asked"} /\ UNCHANGED active
  /\ \E answer \in BOOLEAN : \/ RecoveryGets(r, at, recovery[r].board, answer, answer)
                             \/ RecoveryGets(r, at, recovery[r].board, recovery[r].recovered, recovery[r].answered)

LEMMA RecoveryMayKeeps ==
  ASSUME RecoveriesStand, NEW r \in Recoveries, NEW at \in RecoverySteps, RecoveryMay(r, at)
  PROVE  RecoveriesStand'
<1>1. /\ recovery' \in [Recoveries -> RecoveryRecs]
      /\ recovery'[r].at = at /\ recovery'[r].board = recovery[r].board
      /\ recovery'[r].recovered => recovery'[r].answered
      /\ \A q \in Recoveries \ {r} : recovery'[q] = recovery[q]
  BY DEF RecoveryMay, RecoveryGets, RecoveriesStand
<1>2. \A q \in Recoveries : Marked(q)' <=> Marked(q)
  BY <1>1 DEF Marked, RecoveryMay
<1>3. \A q \in Recoveries : recovery'[q].board = recovery[q].board
  BY <1>1
<1>4. active' = active
  BY DEF RecoveryMay
<1>5. \A q \in Recoveries : /\ recovery'[q].at = "idle" <=> recovery'[q].board = Nowhere
                            /\ recovery'[q].recovered => recovery'[q].answered
  BY <1>1 DEF RecoveryMay, Marked, RecoveriesStand
<1> QED
  BY <1>1, <1>2, <1>3, <1>4, <1>5 DEF RecoveriesStand

LEMMA Requested ==
  ASSUME RecoveriesStand, RowsStand, NEW r \in Recoveries, RecoveryAsks(r)
  PROVE  \E b \in Boards : recovery[r].at = "idle" /\ RecoveryGets(r, "asked", b, FALSE, FALSE)
<1>1. recovery[r].at = "idle"
  BY DEF RecoveryAsks
<1>2. PICK b \in Boards :
        recovery' = [recovery EXCEPT ![r] =
            [NoRecovery EXCEPT !.at = "asked", !.board = b, !.port = rows[b].port, !.slot = rows[b].slot]]
  BY DEF RecoveryAsks
<1> DEFINE v == [NoRecovery EXCEPT !.at = "asked", !.board = b, !.port = rows[b].port, !.slot = rows[b].slot]
<1>3. v \in RecoveryRecs /\ v.at = "asked" /\ v.board = b /\ ~v.recovered /\ ~v.answered
  BY RowOf DEF NoRecovery, RecoveryRecs, RecoverySteps, Whose
<1>4. recovery' = [recovery EXCEPT ![r] = v]
  BY <1>2
<1> HIDE DEF v
<1>5. RecoveryGets(r, "asked", b, FALSE, FALSE)
  BY <1>3, <1>4, RecoverySet DEF RecoveryGets
<1> QED
  BY <1>1, <1>5

LEMMA RequestKeeps ==
  ASSUME RecoveriesStand, RowsStand, NEW r \in Recoveries, RecoveryAsks(r)
  PROVE  RecoveriesStand'
<1>1. PICK b \in Boards : recovery[r].at = "idle" /\ RecoveryGets(r, "asked", b, FALSE, FALSE)
  BY Requested
<1>2. \A q \in Recoveries : Marked(q)' <=> Marked(q)
  BY <1>1 DEF Marked, RecoveryGets
<1>3. active' = active
  BY DEF RecoveryAsks
<1>4. \A q \in Recoveries : Marked(q) => recovery'[q].board = recovery[q].board
  BY <1>1 DEF Marked, RecoveryGets
<1>5. \A q \in Recoveries : /\ recovery'[q].at = "idle" <=> recovery'[q].board = Nowhere
                            /\ recovery'[q].recovered => recovery'[q].answered
  BY <1>1, DiscoveryAssumption DEF RecoveryGets, RecoveriesStand
<1>6. recovery' \in [Recoveries -> RecoveryRecs]
  BY <1>1 DEF RecoveryGets
<1> QED
  BY <1>2, <1>3, <1>4, <1>5, <1>6 DEF RecoveriesStand

LEMMA BeginKeeps ==
  ASSUME RecoveriesStand, NEW r \in Recoveries, RecoveryBegins(r)
  PROVE  RecoveriesStand'
<1> DEFINE b == recovery[r].board
<1>1. recovery[r].at = "asked" /\ b \in Boards /\ ~Marked(r)
  BY RecoveryIs DEF RecoveryBegins, Marked
<1>2. CASE b \in active
  <2>1. RecoveryGets(r, "idle", Nowhere, FALSE, FALSE) /\ active' = active
    BY <1>2, RecoveryClears DEF RecoveryBegins
  <2>2. \A q \in Recoveries : Marked(q)' <=> Marked(q)
    BY <1>1, <2>1 DEF Marked, RecoveryGets
  <2>3. \A q \in Recoveries : Marked(q) => recovery'[q].board = recovery[q].board
    BY <1>1, <2>1 DEF RecoveryGets
  <2>4. \A q \in Recoveries : /\ recovery'[q].at = "idle" <=> recovery'[q].board = Nowhere
                              /\ recovery'[q].recovered => recovery'[q].answered
    BY <2>1 DEF RecoveryGets, RecoveriesStand
  <2>5. recovery' \in [Recoveries -> RecoveryRecs]
    BY <2>1 DEF RecoveryGets
  <2> QED
    BY <2>1, <2>2, <2>3, <2>4, <2>5 DEF RecoveriesStand
<1>3. CASE b \notin active
  <2>1. RecoveryGets(r, "waiting", b, recovery[r].recovered, recovery[r].answered) /\ active' = active \cup {b}
    BY <1>3, RecoveryMoves DEF RecoveryBegins, RecoverySteps
  <2>2. \A q \in Recoveries : Marked(q)' <=> q = r \/ Marked(q)
    BY <2>1 DEF Marked, RecoveryGets
  <2>3. \A q \in Recoveries : recovery'[q].board = recovery[q].board
    BY <2>1 DEF RecoveryGets
  <2>4. \A q \in Recoveries : /\ recovery'[q].at = "idle" <=> recovery'[q].board = Nowhere
                              /\ recovery'[q].recovered => recovery'[q].answered
    BY <1>1, <2>1 DEF RecoveryGets, RecoveriesStand
  <2>5. recovery' \in [Recoveries -> RecoveryRecs]
    BY <2>1 DEF RecoveryGets
  <2>6. \A q \in Recoveries : Marked(q) => recovery[q].board # b
    BY <1>3 DEF RecoveriesStand
  <2>7. active' \subseteq Boards /\ \A q \in Recoveries : Marked(q)' => recovery'[q].board \in active'
    BY <1>1, <2>1, <2>2, <2>3 DEF RecoveriesStand
  <2>8. \A p, q \in Recoveries :
          Marked(p)' /\ Marked(q)' /\ recovery'[p].board = recovery'[q].board => p = q
    BY <2>2, <2>3, <2>6 DEF RecoveriesStand
  <2>9. \A c \in active' : \E q \in Recoveries : Marked(q)' /\ recovery'[q].board = c
    BY <2>1, <2>2, <2>3 DEF RecoveriesStand
  <2> HIDE DEF b
  <2> QED
    BY <2>4, <2>5, <2>7, <2>8, <2>9 DEF RecoveriesStand
<1> QED
  BY <1>2, <1>3

LEMMA EndKeeps ==
  ASSUME RecoveriesStand, NEW r \in Recoveries, RecoveryEnds(r) \/ RecoveryRefused(r)
  PROVE  RecoveriesStand'
<1> DEFINE b == recovery[r].board
<1>1. Marked(r) /\ RecoveryGets(r, "idle", Nowhere, FALSE, FALSE) /\ active' = active \ {b}
  BY RecoveryClears DEF RecoveryEnds, RecoveryRefused, RecoveryOver, Marked
<1>2. \A q \in Recoveries : Marked(q)' <=> q # r /\ Marked(q)
  BY <1>1 DEF Marked, RecoveryGets
<1>3. \A q \in Recoveries : Marked(q)' => recovery'[q].board = recovery[q].board
  BY <1>1, <1>2 DEF RecoveryGets
<1>4. \A q \in Recoveries : /\ recovery'[q].at = "idle" <=> recovery'[q].board = Nowhere
                            /\ recovery'[q].recovered => recovery'[q].answered
  BY <1>1 DEF RecoveryGets, RecoveriesStand
<1>5. recovery' \in [Recoveries -> RecoveryRecs] /\ active' \subseteq Boards
  BY <1>1 DEF RecoveryGets, RecoveriesStand
<1>6. \A q \in Recoveries : Marked(q)' => recovery'[q].board \in active'
  BY <1>1, <1>2, <1>3 DEF RecoveriesStand
<1>7. \A p, q \in Recoveries :
        Marked(p)' /\ Marked(q)' /\ recovery'[p].board = recovery'[q].board => p = q
  BY <1>2, <1>3 DEF RecoveriesStand
<1>8. \A c \in active' : \E q \in Recoveries : Marked(q)' /\ recovery'[q].board = c
  BY <1>1, <1>2, <1>3 DEF RecoveriesStand
<1> HIDE DEF b
<1> QED
  BY <1>4, <1>5, <1>6, <1>7, <1>8 DEF RecoveriesStand

LEMMA AnswersIs == ASSUME NEW port PROVE Answers(port) \in BOOLEAN
BY DEF Answers

LEMMA EntersMay ==
  ASSUME RecoveriesStand, NEW r \in Recoveries, RecoveryEnters(r)
  PROVE  \E at \in {"ladder", "probing"} : RecoveryMay(r, at)
<1>1. PICK at \in {"ladder", "probing"} : at = IF recovery[r].at = "waiting" THEN "ladder" ELSE "probing"
  OBVIOUS
<1>2. Marked(r) /\ active' = active /\ RecoveryGoes(r, at)
  BY <1>1 DEF RecoveryEnters, Marked
<1>3. RecoveryGets(r, at, recovery[r].board, recovery[r].recovered, recovery[r].answered)
  BY <1>2, RecoveryMoves DEF RecoverySteps
<1> QED
  BY <1>2, <1>3 DEF RecoveryMay

LEMMA LadderMay ==
  ASSUME RecoveriesStand, NEW r \in Recoveries, Ladder(r)
  PROVE  \E at \in {"rereading", "checking"} :
           /\ RecoveryMay(r, at) /\ guardOf' = IF at = "checking" THEN guardOf
                                               ELSE [guardOf EXCEPT ![recovery[r].board] = "free"]
<1>1. Marked(r) /\ active' = active
  BY DEF Ladder, Marked
<1>2. CASE RecoveryLeaves(r, "rereading", Answers(recovery[r].port))
  <2>1. PICK answer \in BOOLEAN : RecoveryLeaves(r, "rereading", answer)
    BY <1>2, AnswersIs
  <2>2. RecoveryGets(r, "rereading", recovery[r].board, answer, answer)
    BY <2>1, RecoveryReleases DEF RecoverySteps
  <2>3. RecoveryMay(r, "rereading")
    BY <1>1, <2>2 DEF RecoveryMay
  <2> QED
    BY <1>2, <2>3 DEF RecoveryLeaves
<1>3. CASE RecoveryGoes(r, "checking") /\ UNCHANGED guardOf
  <2>1. RecoveryGets(r, "checking", recovery[r].board, recovery[r].recovered, recovery[r].answered)
    BY <1>3, RecoveryMoves DEF RecoverySteps
  <2>2. RecoveryMay(r, "checking")
    BY <1>1, <2>1 DEF RecoveryMay
  <2> QED
    BY <1>3, <2>2
<1> QED
  BY <1>2, <1>3 DEF Ladder

LEMMA ProbesMay ==
  ASSUME RecoveriesStand, NEW r \in Recoveries, RecoveryProbes(r)
  PROVE  \E at \in {"rereading", "done"} : RecoveryMay(r, at)
<1>1. PICK at \in {"rereading", "done"} : at = IF recovery[r].at = "checking" THEN "rereading" ELSE "done"
  OBVIOUS
<1>2. PICK answer \in BOOLEAN : answer = Answers(recovery[r].port)
  BY AnswersIs
<1>3. Marked(r) /\ active' = active /\ RecoveryLeaves(r, at, answer)
  BY <1>1, <1>2 DEF RecoveryProbes, Marked
<1>4. RecoveryGets(r, at, recovery[r].board, answer, answer)
  BY <1>3, RecoveryReleases DEF RecoverySteps
<1> QED
  BY <1>3, <1>4 DEF RecoveryMay

LEMMA RereadsMay ==
  ASSUME RecoveriesStand, RowsStand, NEW r \in Recoveries, RecoveryRereads(r)
  PROVE  \E at \in {"requeued", "done"} : RecoveryMay(r, at)
<1>0. Marked(r) /\ active' = active /\ recovery' = [recovery EXCEPT ![r] = Reappeared(r)]
      /\ recovery[r] \in RecoveryRecs /\ recovery[r].board \in Boards
  BY RecoveryIs DEF RecoveryRereads, Marked
<1>1. rows[recovery[r].board].port \in Paths
  BY <1>0, RowOf
<1>2. CASE ~recovery[r].recovered /\ rows[recovery[r].board].online
  <2> DEFINE v == [recovery[r] EXCEPT !.at = "requeued", !.port = rows[recovery[r].board].port]
  <2>1. v \in RecoveryRecs /\ v.at = "requeued" /\ v.board = recovery[r].board
        /\ v.recovered = recovery[r].recovered /\ v.answered = recovery[r].answered
    BY <1>0, <1>1 DEF RecoveryRecs, RecoverySteps
  <2>2. recovery' = [recovery EXCEPT ![r] = v]
    BY <1>0, <1>2 DEF Reappeared
  <2> HIDE DEF v
  <2>3. RecoveryGets(r, "requeued", recovery[r].board, recovery[r].recovered, recovery[r].answered)
    BY <2>1, <2>2, RecoverySet DEF RecoveryGets
  <2> QED
    BY <1>0, <2>3 DEF RecoveryMay
<1>3. CASE ~(~recovery[r].recovered /\ rows[recovery[r].board].online)
  <2>1. RecoveryGoes(r, "done")
    BY <1>0, <1>3 DEF Reappeared, RecoveryGoes
  <2>2. RecoveryGets(r, "done", recovery[r].board, recovery[r].recovered, recovery[r].answered)
    BY <2>1, RecoveryMoves DEF RecoverySteps
  <2> QED
    BY <1>0, <2>2 DEF RecoveryMay
<1> QED
  BY <1>2, <1>3

LEMMA RecoveriesGoOn ==
  ASSUME RowsStand, RecoveriesStand, [DiscNext]_discVars
  PROVE  RecoveriesStand'
<1>0. ASSUME UNCHANGED <<recovery, active>> PROVE RecoveriesStand'
  BY <1>0 DEF RecoveriesStand, Marked
<1>1. ASSUME NEW r \in Recoveries, RecoveryAsks(r) PROVE RecoveriesStand'
  BY <1>1, RequestKeeps
<1>2. ASSUME NEW r \in Recoveries, RecoveryBegins(r) PROVE RecoveriesStand'
  BY <1>2, BeginKeeps
<1>3. ASSUME NEW r \in Recoveries, RecoveryEnters(r) PROVE RecoveriesStand'
  BY <1>3, EntersMay, RecoveryMayKeeps DEF RecoverySteps
<1>4. ASSUME NEW r \in Recoveries, Ladder(r) PROVE RecoveriesStand'
  BY <1>4, LadderMay, RecoveryMayKeeps DEF RecoverySteps
<1>5. ASSUME NEW r \in Recoveries, RecoveryProbes(r) PROVE RecoveriesStand'
  BY <1>5, ProbesMay, RecoveryMayKeeps DEF RecoverySteps
<1>6. ASSUME NEW r \in Recoveries, RecoveryRereads(r) PROVE RecoveriesStand'
  BY <1>6, RereadsMay, RecoveryMayKeeps DEF RecoverySteps
<1>7. ASSUME NEW r \in Recoveries, RecoveryEnds(r) \/ RecoveryRefused(r) PROVE RecoveriesStand'
  BY <1>7, EndKeeps
<1>8. ASSUME BenchChanges \/ TestRunEnds \/ ScanLists \/ ScanLocates \/ UpsertReads \/
         UpsertWrites \/ UpsertReturns \/ ScanBreaks \/ SlotWrites \/ MarkOffline \/
         ScanEnds \/ ForgetAsks \/ Forgets \/ SetEnv
      PROVE  RecoveriesStand'
  BY <1>0, <1>8 DEF BenchChanges, TestRunEnds, ScanLists, ScanLocates, UpsertReads, UpsertWrites,
     UpsertReturns, ScanBreaks, SlotWrites, MarkOffline, ScanEnds, ForgetAsks, Forgets,
     SetEnv, discVars, bench, registry, enrichVars, recoveryVars
<1>9. ASSUME NEW b \in Boards, EnrichReadsRow(b) \/ EnrichEnters(b) \/ EnrichConnects(b) \/ EnrichLooks(b) \/
         EnrichWrites(b) \/ EnrichFails(b) \/ EnrichRefused(b) \/ UnwedgeAsks(b) \/ UnwedgeProbes(b) \/
         UnwedgeCycles(b) \/ BackoffEnds(b) \/ CooldownEnds(b)
      PROVE  RecoveriesStand'
  BY <1>0, <1>9 DEF EnrichReadsRow, EnrichEnters, EnrichConnects, EnrichLooks, EnrichWrites, EnrichFails, EnrichRefused,
     UnwedgeAsks, UnwedgeProbes, UnwedgeCycles, BackoffEnds, CooldownEnds, discVars, bench, registry,
     enrichVars, recoveryVars
<1>10. CASE UNCHANGED discVars
  BY <1>0, <1>10 DEF discVars
<1> QED
  BY <1>1, <1>2, <1>3, <1>4, <1>5, <1>6, <1>7, <1>8, <1>9, <1>10 DEF DiscNext, Scan, Enrich, Recover

-----------------------------------------------------------------------------
(* The guards.                                                             *)

EnrichInside == {"connecting", "read", "write", "gone"}
RecoverInside == {"ladder", "checking", "probing"}

GuardOfBoard(b) ==
  /\ guardOf[b] = "enrich" <=> enrich[b].at \in EnrichInside
  /\ guardOf[b] = "recover" <=>
       \E r \in Recoveries : recovery[r].board = b /\ recovery[r].at \in RecoverInside

LEMMA GuardsAre == GuardIsHeld <=> \A b \in Boards : GuardOfBoard(b)
BY DEF GuardIsHeld, GuardOfBoard, EnrichInside, RecoverInside

LEMMA GuardsAreNext == GuardIsHeld' <=> \A b \in Boards : GuardOfBoard(b)'
BY DEF GuardIsHeld, GuardOfBoard, EnrichInside, RecoverInside

LEMMA GuardByEnrich ==
  ASSUME MarksStand, GuardIsHeld, NEW b \in Boards, NEW at \in EnrichSteps, EnrichMay(b, at),
         UNCHANGED recovery,
         \/ UNCHANGED guardOf /\ (enrich[b].at \in EnrichInside <=> at \in EnrichInside)
         \/ guardOf[b] = "free" /\ guardOf' = [guardOf EXCEPT ![b] = "enrich"] /\ at \in EnrichInside
         \/ enrich[b].at \in EnrichInside /\ guardOf' = [guardOf EXCEPT ![b] = "free"] /\ at \notin EnrichInside
  PROVE  GuardIsHeld'
<1>1. ASSUME NEW c \in Boards PROVE GuardOfBoard(c)'
  <2>0. GuardOfBoard(c)
    BY GuardsAre
  <2>1. CASE c # b
    <3>1. enrich'[c] = enrich[c] /\ guardOf'[c] = guardOf[c]
      BY <2>1 DEF EnrichMay, EnrichGets, MarksStand
    <3> QED
      BY <2>0, <3>1 DEF GuardOfBoard
  <2>2. CASE c = b
    <3>1. enrich'[b].at = at
      BY DEF EnrichMay, EnrichGets
    <3>2. CASE UNCHANGED guardOf /\ (enrich[b].at \in EnrichInside <=> at \in EnrichInside)
      BY <2>0, <2>2, <3>1, <3>2 DEF GuardOfBoard
    <3>3. CASE guardOf[b] = "free" /\ guardOf' = [guardOf EXCEPT ![b] = "enrich"] /\ at \in EnrichInside
      <4>1. guardOf'[b] = "enrich"
        BY <3>3 DEF MarksStand
      <4> QED
        BY <2>0, <2>2, <3>1, <3>3, <4>1 DEF GuardOfBoard
    <3>4. CASE enrich[b].at \in EnrichInside /\ guardOf' = [guardOf EXCEPT ![b] = "free"] /\ at \notin EnrichInside
      <4>1. guardOf'[b] = "free" /\ guardOf[b] = "enrich"
        BY <2>0, <2>2, <3>4 DEF MarksStand, GuardOfBoard
      <4> QED
        BY <2>0, <2>2, <3>1, <3>4, <4>1 DEF GuardOfBoard
    <3> QED
      BY <3>2, <3>3, <3>4
  <2> QED
    BY <2>1, <2>2
<1> QED
  BY <1>1, GuardsAreNext

LEMMA MarkedHasBoard ==
  ASSUME RecoveriesStand, NEW r \in Recoveries, Marked(r)
  PROVE  recovery[r].board \in Boards
BY RecoveryIs DEF Marked

LEMMA GuardByRecovery ==
  ASSUME MarksStand, RecoveriesStand, GuardIsHeld, NEW r \in Recoveries, NEW at \in RecoverySteps,
         RecoveryMay(r, at), UNCHANGED enrich,
         \/ UNCHANGED guardOf /\ (recovery[r].at \in RecoverInside <=> at \in RecoverInside)
         \/ /\ guardOf[recovery[r].board] = "free" /\ at \in RecoverInside
            /\ guardOf' = [guardOf EXCEPT ![recovery[r].board] = "recover"]
         \/ /\ recovery[r].at \in RecoverInside /\ at \notin RecoverInside
            /\ guardOf' = [guardOf EXCEPT ![recovery[r].board] = "free"]
  PROVE  GuardIsHeld'
<1> DEFINE b == recovery[r].board
<1>0. b \in Boards /\ Marked(r)
  BY MarkedHasBoard DEF RecoveryMay
<1>1. recovery'[r].at = at /\ \A q \in Recoveries : q # r => recovery'[q] = recovery[q]
  BY DEF RecoveryMay, RecoveryGets
<1>2. \A q \in Recoveries : recovery'[q].board = recovery[q].board
  BY <1>1 DEF RecoveryMay, RecoveryGets
<1> HIDE DEF b
<1>3. ASSUME NEW c \in Boards PROVE GuardOfBoard(c)'
  <2>0. GuardOfBoard(c)
    BY GuardsAre
  <2>1. CASE c # b
    <3>1. guardOf'[c] = guardOf[c]
      BY <2>1 DEF MarksStand, b
    <3>2. \A q \in Recoveries : recovery[q].board = c => recovery'[q] = recovery[q]
      BY <1>1, <2>1 DEF b
    <3> QED
      BY <1>2, <2>0, <3>1, <3>2 DEF GuardOfBoard
  <2>2. CASE c = b
    <3>1. CASE UNCHANGED guardOf /\ (recovery[r].at \in RecoverInside <=> at \in RecoverInside)
      <4>1. \A q \in Recoveries : recovery'[q].at \in RecoverInside <=> recovery[q].at \in RecoverInside
        BY <1>1, <3>1
      <4> QED
        BY <1>2, <2>0, <3>1, <4>1 DEF GuardOfBoard
    <3>2. CASE /\ guardOf[b] = "free" /\ at \in RecoverInside
               /\ guardOf' = [guardOf EXCEPT ![b] = "recover"]
      <4>1. guardOf'[b] = "recover" /\ enrich[b].at \notin EnrichInside
        BY <1>0, <2>0, <2>2, <3>2 DEF MarksStand, GuardOfBoard
      <4>2. recovery'[r].board = b /\ recovery'[r].at \in RecoverInside
        BY <1>1, <1>2, <3>2 DEF b
      <4> QED
        BY <2>2, <4>1, <4>2 DEF GuardOfBoard
    <3>3. CASE /\ recovery[r].at \in RecoverInside /\ at \notin RecoverInside
               /\ guardOf' = [guardOf EXCEPT ![b] = "free"]
      <4>1. guardOf'[b] = "free" /\ guardOf[b] = "recover"
        BY <1>0, <2>0, <2>2, <3>3 DEF MarksStand, GuardOfBoard, b
      <4>2. ASSUME NEW q \in Recoveries, recovery'[q].board = b, recovery'[q].at \in RecoverInside PROVE FALSE
        <5>1. q # r
          BY <1>1, <3>3, <4>2
        <5>2. Marked(q) /\ recovery[q].board = b
          BY <1>1, <4>2, <5>1 DEF Marked, RecoverInside
        <5> QED
          BY <1>0, <5>1, <5>2 DEF RecoveriesStand, b
      <4> QED
        BY <2>0, <2>2, <4>1, <4>2 DEF GuardOfBoard
    <3> QED
      BY <3>1, <3>2, <3>3 DEF b
  <2> QED
    BY <2>1, <2>2
<1> QED
  BY <1>3, GuardsAreNext

\* A recovery that is inside no guard before and after a step.
LEMMA GuardAside ==
  ASSUME GuardIsHeld, NEW r \in Recoveries, NEW at, NEW board, NEW x, NEW y,
         RecoveryGets(r, at, board, x, y), recovery[r].at \notin RecoverInside, at \notin RecoverInside,
         UNCHANGED <<enrich, guardOf>>
  PROVE  GuardIsHeld'
<1>1. ASSUME NEW c \in Boards PROVE GuardOfBoard(c)'
  <2>0. GuardOfBoard(c)
    BY GuardsAre
  <2>1. \A q \in Recoveries : /\ recovery'[q].at \in RecoverInside <=> recovery[q].at \in RecoverInside
                              /\ recovery[q].at \in RecoverInside => recovery'[q] = recovery[q]
    BY DEF RecoveryGets
  <2> QED
    BY <2>0, <2>1 DEF GuardOfBoard
<1> QED
  BY <1>1, GuardsAreNext

LEMMA GuardsGoOn ==
  ASSUME RowsStand, ScanStands, EnrichStands, MarksStand, RecoveriesStand, GuardIsHeld, [DiscNext]_discVars
  PROVE  GuardIsHeld'
<1>0. ASSUME UNCHANGED <<enrich, recovery, guardOf>> PROVE GuardIsHeld'
  BY <1>0 DEF GuardIsHeld
<1>1. CASE UpsertReturns
  <2>1. CASE UNCHANGED <<enrich, enriching>>
    BY <1>0, <1>1, <2>1 DEF UpsertReturns, recoveryVars
  <2>2. CASE \E b \in Boards : enrich[b].at = "idle" /\ EnrichMay(b, "begun")
    BY <1>1, <2>2, GuardByEnrich DEF UpsertReturns, EnrichSteps, EnrichInside, recoveryVars
  <2> QED
    BY <1>1, <2>1, <2>2, UpsertBegins
<1>2. ASSUME NEW b \in Boards, EnrichReadsRow(b) PROVE GuardIsHeld'
  BY <1>2, RowRead, GuardByEnrich DEF EnrichReadsRow, EnrichSteps, EnrichInside, recoveryVars
<1>3. ASSUME NEW b \in Boards, EnrichEnters(b) PROVE GuardIsHeld'
  <2>0. enrich[b].at = "waiting" /\ guardOf[b] = "free" /\ UNCHANGED recovery
    BY <1>3 DEF EnrichEnters, recoveryVars
  <2>1. CASE EnrichOver(b) /\ UNCHANGED guardOf
    BY <2>0, <2>1, EnrichStops, GuardByEnrich DEF EnrichSteps, EnrichInside
  <2>2. CASE EnrichGoes(b, "connecting") /\ guardOf' = [guardOf EXCEPT ![b] = "enrich"] /\ UNCHANGED enriching
    BY <2>0, <2>2, EnrichStep, GuardByEnrich DEF EnrichSteps, EnrichInside
  <2> QED
    BY <1>3, <2>1, <2>2 DEF EnrichEnters
<1>4. ASSUME NEW b \in Boards, EnrichConnects(b) PROVE GuardIsHeld'
  BY <1>4, Connected, GuardByEnrich DEF EnrichConnects, EnrichSteps, EnrichInside, recoveryVars
<1>5. ASSUME NEW b \in Boards, EnrichLooks(b) PROVE GuardIsHeld'
  BY <1>5, Looked, GuardByEnrich DEF EnrichLooks, EnrichSteps, EnrichInside, recoveryVars
<1>6. ASSUME NEW b \in Boards, EnrichWrites(b) PROVE GuardIsHeld'
  BY <1>6, Written, GuardByEnrich DEF EnrichWrites, EnrichSteps, EnrichInside, recoveryVars
<1>7. ASSUME NEW b \in Boards, EnrichFails(b) \/ EnrichRefused(b) PROVE GuardIsHeld'
  BY <1>7, Failed, GuardByEnrich DEF EnrichFails, EnrichRefused, EnrichSteps, EnrichInside, recoveryVars
<1>8. ASSUME NEW b \in Boards, UnwedgeAsks(b) PROVE GuardIsHeld'
  BY <1>8, Asked, GuardByEnrich DEF UnwedgeAsks, EnrichSteps, EnrichInside, recoveryVars
<1>9. ASSUME NEW b \in Boards, UnwedgeProbes(b) PROVE GuardIsHeld'
  BY <1>9, Probed, GuardByEnrich DEF UnwedgeProbes, EnrichSteps, EnrichInside, recoveryVars
<1>10. ASSUME NEW b \in Boards, UnwedgeCycles(b) PROVE GuardIsHeld'
  BY <1>10, Cycled, GuardByEnrich DEF UnwedgeCycles, EnrichSteps, EnrichInside, recoveryVars
<1>11. ASSUME NEW r \in Recoveries, RecoveryAsks(r) PROVE GuardIsHeld'
  <2>1. recovery[r].at \notin RecoverInside /\ "asked" \notin RecoverInside /\ UNCHANGED <<enrich, guardOf>>
    BY <1>11 DEF RecoveryAsks, RecoverInside, enrichVars
  <2> QED
    BY <1>11, <2>1, Requested, GuardAside
<1>12. ASSUME NEW r \in Recoveries, RecoveryBegins(r) PROVE GuardIsHeld'
  <2>1. /\ recovery[r].at \notin RecoverInside /\ UNCHANGED <<enrich, guardOf>>
        /\ "idle" \notin RecoverInside /\ "waiting" \notin RecoverInside
    BY <1>12 DEF RecoveryBegins, RecoverInside, enrichVars
  <2>2. CASE recovery' = [recovery EXCEPT ![r] = NoRecovery]
    BY <2>1, <2>2, RecoveryClears, GuardAside
  <2>3. CASE RecoveryGoes(r, "waiting")
    BY <2>1, <2>3, RecoveryMoves, GuardAside DEF RecoverySteps
  <2> QED
    BY <1>12, <2>2, <2>3 DEF RecoveryBegins
<1>13. ASSUME NEW r \in Recoveries, RecoveryEnters(r) PROVE GuardIsHeld'
  <2>1. PICK at \in {"ladder", "probing"} : RecoveryMay(r, at)
    BY <1>13, EntersMay
  <2> QED
    BY <1>13, <2>1, GuardByRecovery DEF RecoveryEnters, RecoverySteps, RecoverInside, enrichVars
<1>14. ASSUME NEW r \in Recoveries, Ladder(r) PROVE GuardIsHeld'
  <2>1. PICK at \in {"rereading", "checking"} :
          /\ RecoveryMay(r, at) /\ guardOf' = IF at = "checking" THEN guardOf
                                              ELSE [guardOf EXCEPT ![recovery[r].board] = "free"]
    BY <1>14, LadderMay
  <2>2. recovery[r].at = "ladder" /\ UNCHANGED enrich
    BY <1>14 DEF Ladder, enrichVars
  <2> QED
    BY <2>1, <2>2, GuardByRecovery DEF RecoverySteps, RecoverInside
<1>15. ASSUME NEW r \in Recoveries, RecoveryProbes(r) PROVE GuardIsHeld'
  <2>1. PICK at \in {"rereading", "done"} : RecoveryMay(r, at)
    BY <1>15, ProbesMay
  <2>2. recovery[r].at \in {"checking", "probing"} /\ UNCHANGED enrich
        /\ guardOf' = [guardOf EXCEPT ![recovery[r].board] = "free"]
    BY <1>15 DEF RecoveryProbes, RecoveryLeaves, enrichVars
  <2> QED
    BY <2>1, <2>2, GuardByRecovery DEF RecoverySteps, RecoverInside
<1>16. ASSUME NEW r \in Recoveries, RecoveryRereads(r) PROVE GuardIsHeld'
  <2>1. PICK at \in {"requeued", "done"} : RecoveryMay(r, at)
    BY <1>16, RereadsMay
  <2>2. recovery[r].at = "rereading" /\ UNCHANGED <<enrich, guardOf>>
    BY <1>16 DEF RecoveryRereads, enrichVars
  <2> QED
    BY <2>1, <2>2, GuardByRecovery DEF RecoverySteps, RecoverInside
<1>17. ASSUME NEW r \in Recoveries, RecoveryEnds(r) \/ RecoveryRefused(r) PROVE GuardIsHeld'
  <2>1. /\ recovery[r].at \notin RecoverInside /\ "idle" \notin RecoverInside
        /\ UNCHANGED <<enrich, guardOf>> /\ recovery' = [recovery EXCEPT ![r] = NoRecovery]
    BY <1>17 DEF RecoveryEnds, RecoveryRefused, RecoveryOver, RecoverInside, enrichVars
  <2> QED
    BY <2>1, RecoveryClears, GuardAside
<1>18. ASSUME BenchChanges \/ TestRunEnds \/ ScanLists \/ ScanLocates \/ UpsertReads \/
         UpsertWrites \/ ScanBreaks \/ SlotWrites \/ MarkOffline \/ ScanEnds \/
         ForgetAsks \/ Forgets \/ SetEnv
      PROVE  GuardIsHeld'
  BY <1>0, <1>18 DEF BenchChanges, TestRunEnds, ScanLists, ScanLocates, UpsertReads, UpsertWrites,
     ScanBreaks, SlotWrites, MarkOffline, ScanEnds, ForgetAsks, Forgets, SetEnv, discVars,
     bench, registry, enrichVars, recoveryVars
<1>19. ASSUME NEW b \in Boards, BackoffEnds(b) \/ CooldownEnds(b)
      PROVE  GuardIsHeld'
  BY <1>0, <1>19 DEF BackoffEnds, CooldownEnds, discVars, bench, registry, enrichVars, recoveryVars
<1>20. CASE UNCHANGED discVars
  BY <1>0, <1>20 DEF discVars
<1> QED
  BY <1>1, <1>2, <1>3, <1>4, <1>5, <1>6, <1>7, <1>8, <1>9, <1>10, <1>11, <1>12, <1>13,
     <1>14, <1>15, <1>16, <1>17, <1>18, <1>19, <1>20 DEF DiscNext, Scan, Enrich, Recover

-----------------------------------------------------------------------------
(* The invariant of the discovery.                                         *)

LEMMA DiscoveryFresh == DiscFresh => EnrichStands /\ MarksStand /\ RecoveriesStand /\ GuardIsHeld
<1> SUFFICES ASSUME DiscFresh PROVE EnrichStands /\ MarksStand /\ RecoveriesStand /\ GuardIsHeld
  OBVIOUS
<1>1. EnrichStands
  <2>1. AtRest \in EnrichRecs /\ AtRest.at = "idle"
    BY DEF AtRest, EnrichRecs, EnrichSteps, Paths, Places
  <2> HIDE DEF AtRest
  <2> QED
    BY <2>1 DEF DiscFresh, EnrichStands
<1>2. MarksStand
  BY DEF DiscFresh, MarksStand, Paths
<1>3. RecoveriesStand
  <2>1. NoRecovery \in RecoveryRecs /\ NoRecovery.at = "idle" /\ NoRecovery.board = Nowhere
        /\ ~NoRecovery.recovered
    BY DEF NoRecovery, RecoveryRecs, RecoverySteps, Paths, Places, Whose
  <2> HIDE DEF NoRecovery
  <2> QED
    BY <2>1 DEF DiscFresh, RecoveriesStand, Marked
<1>4. GuardIsHeld
  BY DEF DiscFresh, GuardIsHeld, AtRest, NoRecovery
<1> QED
  BY <1>1, <1>2, <1>3, <1>4

LEMMA DiscoveryStandsInit == DiscInit => DiscoveryStands
<1> SUFFICES ASSUME DiscInit PROVE DiscoveryStands
  OBVIOUS
<1>1. BusStands
  <2>0. Unplugged \in BusRecs /\ Unplugged.port = Nowhere
    BY DEF Unplugged, BusRecs, Paths, Places
  <2>4. PICK w \in Wired : bus = [b \in Boards |-> IF b \in DOMAIN w THEN w[b] ELSE Unplugged]
    BY DEF DiscInit
  <2> HIDE DEF Unplugged
  <2>1. ASSUME NEW b \in Boards PROVE bus[b] \in BusRecs
    <3>1. CASE b \in DOMAIN w
      <4>1. bus[b] = w[b] /\ w[b] \in [port : Ports, slot : Slots \cup {Nowhere}, wedged : BOOLEAN]
        BY <3>1, <2>4, DiscoveryAssumption
      <4> QED
        BY <4>1 DEF BusRecs, Paths, Places
    <3>2. CASE b \notin DOMAIN w
      BY <2>0, <2>4, <3>2
    <3> QED
      BY <3>1, <3>2
  <2>2. bus \in [Boards -> BusRecs]
    BY <2>1, <2>4
  <2>3. ASSUME NEW a \in Boards, NEW b \in Boards, a # b, bus[a].port = bus[b].port
        PROVE  bus[a].port = Nowhere
    <3>1. CASE a \in DOMAIN w /\ b \in DOMAIN w
      BY <2>3, <3>1, <2>4, DiscoveryAssumption
    <3>2. CASE a \notin DOMAIN w
      BY <2>0, <2>4, <3>2
    <3>3. CASE b \notin DOMAIN w
      BY <2>0, <2>3, <2>4, <3>3
    <3> QED
      BY <3>1, <3>2, <3>3
  <2> QED
    BY <2>2, <2>3 DEF BusStands
<1>2. RowsStand
  <2>1. ASSUME NEW b \in Boards PROVE rows[b] \in DeviceRows /\ (~rows[b].known => rows[b] = NoRow)
    <3>1. CASE b \in DOMAIN Stored
      BY <3>1, DiscoveryAssumption DEF DiscInit
    <3>2. CASE b \notin DOMAIN Stored
      BY <3>2, NoRowIsRow DEF DiscInit
    <3> QED
      BY <3>1, <3>2
  <2>2. rows \in [Boards -> DeviceRows]
    BY <2>1 DEF DiscInit
  <2> QED
    BY <2>1, <2>2 DEF RowsStand
<1>3. ScanStands
  <2>1. scan = Resting
    BY DEF DiscInit
  <2> HIDE DEF Resting
  <2> QED
    BY <2>1, RestingIs DEF ScanStands
<1> QED
  BY <1>1, <1>2, <1>3, DiscoveryFresh DEF DiscInit, DiscoveryStands

LEMMA DiscoveryStandsInductive == DiscoveryStands /\ [DiscNext]_discVars => DiscoveryStands'
BY BusGoesOn, RowsGoOn, ScanGoesOn, EnrichGoesOn, MarksGoOn, RecoveriesGoOn, GuardsGoOn
   DEF DiscoveryStands

LEMMA OneRecovery == RecoveriesStand => RecoveryIsOne
<1> SUFFICES ASSUME RecoveriesStand, NEW b \in Boards
             PROVE  Cardinality({r \in Recoveries : recovery[r].board = b /\ recovery[r].at # "asked"})
                      = (IF b \in active THEN 1 ELSE 0)
  BY DEF RecoveryIsOne
<1> DEFINE S == {r \in Recoveries : recovery[r].board = b /\ recovery[r].at # "asked"}
<1>0. b # Nowhere
  BY DiscoveryAssumption
<1>1. \A r \in Recoveries : r \in S <=> Marked(r) /\ recovery[r].board = b
  BY <1>0 DEF RecoveriesStand, Marked
<1>2. CASE b \in active
  <2>1. PICK r \in Recoveries : Marked(r) /\ recovery[r].board = b
    BY <1>2 DEF RecoveriesStand
  <2>2. S = {r}
    BY <1>1, <2>1 DEF RecoveriesStand
  <2> QED
    BY <1>2, <2>2, FS_Singleton
<1>3. CASE b \notin active
  <2>1. S = {}
    BY <1>1, <1>3 DEF RecoveriesStand
  <2> QED
    BY <1>3, <2>1, FS_EmptySet
<1> QED
  BY <1>2, <1>3

LEMMA DiscoveryStandsImplies == DiscoveryStands => DiscInv
<1> SUFFICES ASSUME DiscoveryStands PROVE DiscInv
  OBVIOUS
<1>1. DiscTypeOK
  <2>1. ASSUME NEW b \in Boards
        PROVE  /\ bus[b].port \in Ports \cup {Nowhere} /\ bus[b].slot \in Slots \cup {Nowhere}
               /\ rows[b].port \in Ports \cup {Nowhere} /\ rows[b].slot \in Slots \cup {Nowhere}
               /\ rows[b].env \in {"none", "auto", "pinned"}
               /\ ~rows[b].known => rows[b] = NoRow
    BY BoardAt, RowOf DEF DiscoveryStands, RowsStand, Paths, Places
  <2>2. ASSUME NEW b \in Boards
        PROVE  /\ enriched[b] \in Ports \cup {Nowhere}
               /\ guardOf[b] \in {"free", "enrich", "recover"}
               /\ enrich[b].at \in EnrichSteps
               /\ b \in enriching <=> enrich[b].at # "idle"
    BY EnrichIs DEF DiscoveryStands, MarksStand, EnrichStands, Paths
  <2>3. Apart([b \in Boards |-> bus[b].port])
    BY DEF DiscoveryStands, BusStands, Apart
  <2>4. \A r \in Recoveries : recovery[r].at \in RecoverySteps
    BY RecoveryIs DEF DiscoveryStands
  <2>5. scan.at \in ScanSteps
    BY ScanIs DEF DiscoveryStands
  <2>6. backoff \cup cooldown \cup active \subseteq Boards
    BY DEF DiscoveryStands, MarksStand, RecoveriesStand
  <2> QED
    BY <2>1, <2>2, <2>3, <2>4, <2>5, <2>6 DEF DiscTypeOK, EnrichSteps, RecoverySteps, ScanSteps
<1>2. RecoveredAnswered
  BY DEF DiscoveryStands, RecoveriesStand, RecoveredAnswered
<1> QED
  BY <1>1, <1>2, OneRecovery DEF DiscInv, DiscoveryStands

\* Enrichment and recovery of a device keep to its guard, one recovery of it is
\* under way at a time and marked as long, and what is reported as recovered has
\* answered: for any boards, ports, slots and calls, however scans, replugs, test
\* runs and forgotten rows fall between their steps (discovery.py, recovery.py).
THEOREM DiscInvAlways == DiscSpec => []DiscInv
<1>1. DiscInit => DiscoveryStands
  BY DiscoveryStandsInit
<1>2. DiscoveryStands /\ [DiscNext]_discVars => DiscoveryStands'
  BY DiscoveryStandsInductive
<1>3. DiscoveryStands => DiscInv
  BY DiscoveryStandsImplies
<1> QED
  BY <1>1, <1>2, <1>3, PTL DEF DiscSpec

\* The same where the bench of one port and the registry are checked together.
THEOREM DiscInvThere == FleetSpec => []DiscInv
<1>1. FleetInit => DiscoveryStands
  <2> SUFFICES ASSUME FleetInit PROVE DiscoveryStands
    OBVIOUS
  <2>1. CASE scene \in {"discovery", "stale"}
    BY <2>1, DiscoveryStandsInit DEF FleetInit
  <2>2. CASE scene \notin {"discovery", "stale"}
    <3>1. BusStands
      <4>1. Unplugged \in BusRecs /\ Unplugged.port = Nowhere
        BY DEF Unplugged, BusRecs, Paths, Places
      <4> HIDE DEF Unplugged
      <4> QED
        BY <2>2, <4>1 DEF FleetInit, BusStands
    <3>2. RowsStand
      <4>1. NoRow \in DeviceRows
        BY DEF NoRow, DeviceRows
      <4> HIDE DEF NoRow
      <4> QED
        BY <2>2, <4>1 DEF FleetInit, RowsStand
    <3>3. ScanStands
      <4>1. Resting \in ScanRecs
        BY RestingIs
      <4>2. [Resting EXCEPT !.at = "off"] \in ScanRecs
        BY <4>1 DEF ScanRecs, ScanSteps
      <4> HIDE DEF Resting
      <4>3. [Resting EXCEPT !.at = "off"].at = "off"
        BY <4>1 DEF ScanRecs
      <4> QED
        BY <2>2, <4>2, <4>3 DEF FleetInit, ScanStands
    <3> QED
      BY <2>2, <3>1, <3>2, <3>3, DiscoveryFresh DEF FleetInit, DiscoveryStands
  <2> QED
    BY <2>1, <2>2
<1>2. DiscoveryStands /\ [FleetNext]_fleetVars => DiscoveryStands'
  BY DiscoveryStandsInductive DEF FleetNext, fleetVars
<1>3. DiscoveryStands => DiscInv
  BY DiscoveryStandsImplies
<1> QED
  BY <1>1, <1>2, <1>3, PTL DEF FleetSpec

-----------------------------------------------------------------------------
(* One client stays subscribed, and nobody has the port twice.             *)

\* Who is not there in this scene.
Absent == Owners \cup Runs \cup Sweeps

\* A guarded operation that has had its monitor suspended.
Silenced(p) == pc[p] \in {"wedged", "body"} \/ (pc[p] = "suspend" /\ monHolder = p)

\* Nothing goes on before the client that stays is subscribed; from then on a reader
\* that lives is the one the monitor knows, wedged or not, and a guarded operation
\* that is past its suspension keeps it.
WedgeStands ==
  /\ \A p \in Absent : pc[p] = "idle"
  /\ pc[stays] # "release"
  /\ pc[stays] # "subscribed" => alive = {} /\ \A p \in Procs : p # stays => pc[p] = "idle"
  /\ alive \subseteq {mon.thread}
  /\ \A p \in Ops : Silenced(p) => mon.suspended
  /\ \A p \in Ops : pc[p] = "body" => alive = {}

WedgeInv == TypeInv /\ GuardInv /\ BooksInv /\ WedgeStands

\* A subscriber keeps the monitor known, and a second one keeps the first's release
\* from closing it.
LEMMA StaysKnown ==
  ASSUME TypeInv, RefsMatchSubscribers, NEW c \in Clients, pc[c] = "subscribed"
  PROVE  /\ mon.known /\ mon.refs \in Nat /\ mon.refs > 0
         /\ \A d \in Clients : d # c /\ Counted(d) => mon.refs > 1
<1>1. c \in Subscribers
  BY DEF Subscribers, Counted
<1>2. Cardinality(Subscribers \ {c}) = Cardinality(Subscribers) - 1
  BY <1>1, SubscribersFinite, FS_RemoveElement
<1>3. IsFiniteSet(Subscribers \ {c}) /\ Cardinality(Subscribers \ {c}) \in Nat
  BY SubscribersFinite, FS_RemoveElement, FS_Subset, FS_CardinalityType
<1>4. mon.refs = Cardinality(Subscribers)
  BY DEF RefsMatchSubscribers, Subscribers
<1>5. mon.refs \in Nat /\ mon.refs > 0
  BY <1>2, <1>3, <1>4, SubscribersFinite
<1>6. ASSUME NEW d \in Clients, d # c, Counted(d) PROVE mon.refs > 1
  <2>1. d \in Subscribers \ {c}
    BY <1>6 DEF Subscribers
  <2>2. Cardinality(Subscribers \ {c}) # 0
    BY <2>1, <1>3, FS_EmptySet
  <2> QED
    BY <2>2, <1>2, <1>3, <1>4, SubscribersFinite
<1> QED
  BY <1>5, <1>6 DEF RefsMatchSubscribers

\* What a call does to the readers and to the suspension when no close forgets the
\* monitor.
WedgeWrites(p) ==
  /\ mon'.known
  /\ alive' \subseteq {mon'.thread}
  /\ alive' # alive => ~mon.suspended
  /\ pc[p] \notin {"suspend", "resume"} => mon'.suspended = mon.suspended
  /\ pc[p] = "suspend" => mon'.suspended

LEMMA CallsThere ==
  ASSUME WedgeInv, NEW p \in Procs, MonitorCall(p), stays \in Clients,
         pc[stays] = "subscribed", pc[p] = "suspend" => p \in Ops
  PROVE  WedgeWrites(p)
<1>1. /\ mon \in MonRecord /\ mon.known /\ mon.refs > 0 /\ mon.refs \in Nat
      /\ alive \subseteq {mon.thread} /\ alive \subseteq Readers /\ None \notin Readers
  BY StaysKnown, ReadersAssumption
     DEF WedgeInv, BooksInv, WedgeStands, TypeInv, TypeOK, MonRecord
<1>2. p # None
  BY ProcsAssumption
<1>3. CASE Acquire(p)
  <2>1. pc[p] = "acquire"
    BY <1>3 DEF Acquire
  <2> QED
    BY <1>1, <1>3, <2>1 DEF Acquire, OpenBegin, MayOpen, MonRecord, WedgeWrites
<1>4. CASE monHolder = None /\ Release(p)
  <2>1. pc[p] = "release" /\ monHolder = None
    BY <1>4 DEF Release
  <2>2. p \in Clients /\ p # stays /\ Counted(p)
    BY <1>2, <2>1, SubscriberCalls DEF WedgeInv, Counted
  <2>3. mon.refs > 1
    BY <2>2, StaysKnown DEF WedgeInv, BooksInv
  <2> QED
    BY <1>1, <1>4, <2>1, <2>3 DEF Release, MonRecord, WedgeWrites
<1>5. CASE Suspend(p)
  <2>1. pc[p] = "suspend"
    BY <1>5 DEF Suspend
  <2> QED
    BY <1>1, <1>5, <2>1 DEF Suspend, CloseBegin, AfterClose, MonRecord, WedgeWrites
<1>6. CASE Resume(p)
  <2>1. pc[p] = "resume"
    BY <1>6 DEF Resume
  <2> QED
    BY <1>1, <1>6, <2>1 DEF Resume, OpenBegin, MayOpen, MonRecord, WedgeWrites
<1>7. CASE OpenEnd(p)
  <2>1. mon.thread = None /\ ~mon.suspended /\ pc[p] \in {"acquire", "resume"} /\ alive = {}
    BY <1>1, <1>2, <1>7 DEF OpenEnd, WedgeInv, BooksInv, LockInv, ThreadInv
  <2> QED
    BY <1>1, <1>7, <2>1 DEF OpenEnd, StartReader, MonRecord, WedgeWrites
<1>8. CASE CloseJoined(p) \/ CloseAbandoned(p)
  <2>1. monHolder = p /\ pc[p] = "suspend"
    BY <1>1, <1>2, <1>8 DEF CloseJoined, CloseAbandoned, WedgeInv, BooksInv, LockInv
  <2>2. mon.suspended
    BY <2>1 DEF WedgeInv, WedgeStands, Silenced
  <2> QED
    BY <1>1, <1>8, <2>1, <2>2 DEF CloseJoined, CloseAbandoned, AfterClose, MonRecord, WedgeWrites
<1> QED
  BY <1>3, <1>4, <1>5, <1>6, <1>7, <1>8 DEF MonitorCall, CallBegins, CallEnds

\* The client that stays subscribes: nobody else is there yet.
LEMMA StaysCalls ==
  ASSUME WedgeInv, stays \in Clients, MonitorCall(stays)
  PROVE  WedgeStands'
<1>1. /\ stays \in Procs /\ pc[stays] = "acquire" /\ monHolder \in {None, stays}
      /\ \/ monHolder' = stays /\ pc' = pc
         \/ monHolder' = None /\ pc' = [pc EXCEPT ![stays] = "subscribed"]
  <2>1. stays \in Procs
    BY DEF Procs
  <2>2. pc[stays] \in ClientPC /\ pc[stays] \in Methods
    BY <2>1, CallMoves, ProcsAssumption DEF WedgeInv, BooksInv, TypeInv, TypeOK, PCOf
  <2>3. pc[stays] = "acquire"
    BY <2>2 DEF ClientPC, Methods, WedgeInv, WedgeStands
  <2> QED
    BY <2>1, <2>3, CallMoves DEF WedgeInv, BooksInv, Goto, ReturnsTo
<1>2. alive = {} /\ \A p \in Procs : p # stays => pc[p] = "idle"
  BY <1>1 DEF WedgeInv, WedgeStands
<1>3. \A p \in Procs : p # stays => pc'[p] = "idle"
  BY <1>1, <1>2 DEF WedgeInv, TypeInv, TypeOK
<1>4. pc'[stays] \in {"acquire", "subscribed"} /\ (pc'[stays] = "acquire" => monHolder' = stays)
  BY <1>1 DEF WedgeInv, TypeInv, TypeOK
<1>5. (\A p \in Absent : p \in Procs /\ p # stays) /\ (\A p \in Ops : p \in Procs /\ p # stays)
      /\ stays # None
  BY <1>1, ProcsAssumption DEF Procs, Absent
<1>6. mon \in MonRecord
  BY DEF WedgeInv, TypeInv, TypeOK, MonRecord
<1>7. alive' \subseteq {mon'.thread} /\ (monHolder' = stays => alive' = {})
  <2>1. CASE OpenEnd(stays)
    BY <1>2, <1>5, <1>6, <2>1 DEF OpenEnd, Return, StartReader, MonRecord
  <2>2. CASE CallBegins(stays) \/ CloseJoined(stays) \/ CloseAbandoned(stays)
    BY <1>2, <2>2 DEF CallBegins, Acquire, Release, Suspend, Resume, OpenBegin, CloseBegin,
       CloseJoined, CloseAbandoned
  <2> QED
    BY <2>1, <2>2 DEF MonitorCall, CallEnds
<1> QED
  BY <1>3, <1>4, <1>5, <1>7 DEF WedgeStands, Silenced

\* Another client or an operation calls the monitor that one client keeps known.
LEMMA OthersCall ==
  ASSUME WedgeInv, stays \in Clients, NEW p \in Ops \cup Clients, p # stays, MonitorCall(p)
  PROVE  WedgeStands'
<1>1. p \in Procs /\ stays \in Procs /\ \A q \in Absent \cup Ops : q \in Procs /\ q # stays
  BY ProcsAssumption DEF Procs, Absent
<1>2. /\ p # None /\ pc[p] \in Methods /\ monHolder \in {None, p}
      /\ \/ monHolder' = p /\ pc' = pc
         \/ monHolder' = None /\ Goto(p, ReturnsTo(p))
  BY <1>1, CallMoves DEF WedgeInv, BooksInv
<1>3. pc[stays] = "subscribed"
  BY <1>1, <1>2 DEF WedgeInv, WedgeStands, Methods
<1>4. pc[p] = "suspend" => p \in Ops
  BY <1>1, ProcsAssumption DEF WedgeInv, TypeInv, TypeOK, PCOf, ClientPC
<1>5. WedgeWrites(p)
  BY <1>1, <1>3, <1>4, CallsThere
<1>6. \A q \in Procs : q # p => pc'[q] = pc[q]
  BY <1>2 DEF Goto, WedgeInv, TypeInv, TypeOK
<1>7. pc'[stays] = "subscribed" /\ \A q \in Absent : pc'[q] = "idle"
  <2>1. \A q \in Absent : q # p
    BY ProcsAssumption DEF Absent
  <2> QED
    BY <1>1, <1>3, <1>6, <2>1 DEF WedgeInv, WedgeStands
<1>8. p \in Ops => (Silenced(p)' => mon'.suspended) /\ (pc'[p] = "body" => alive' = {})
  <2> SUFFICES ASSUME p \in Ops PROVE (Silenced(p)' => mon'.suspended) /\ (pc'[p] = "body" => alive' = {})
    OBVIOUS
  <2>1. CASE monHolder' = p /\ pc' = pc
    BY <1>2, <1>5, <2>1 DEF Silenced, WedgeWrites, Methods
  <2>2. CASE monHolder' = None /\ Goto(p, ReturnsTo(p))
    <3>1. pc'[p] = ReturnsTo(p)
      BY <1>1, <2>2 DEF Goto, WedgeInv, TypeInv, TypeOK
    <3>2. CASE pc[p] = "suspend"
      <4>1. mon'.suspended /\ mon'.known /\ alive' \subseteq {mon'.thread}
        BY <1>5, <3>2 DEF WedgeWrites
      <4>2. CASE IsWedged'
        <5>1. ReturnsTo(p) = "wedged"
          BY <3>2, <4>2, ProcsAssumption DEF ReturnsTo
        <5> QED
          BY <3>1, <4>1, <5>1
      <4>3. CASE ~IsWedged'
        BY <4>1, <4>3 DEF IsWedged
      <4> QED
        BY <4>2, <4>3
    <3>3. CASE pc[p] # "suspend"
      <4>1. pc'[p] \in {"subscribed", "idle"}
        BY <1>2, <3>1, <3>3 DEF ReturnsTo, Methods
      <4> QED
        BY <4>1 DEF Silenced
    <3> QED
      BY <3>2, <3>3
  <2> QED
    BY <1>2, <2>1, <2>2
<1>9. ASSUME NEW q \in Ops, q # p
      PROVE  (Silenced(q)' => mon'.suspended) /\ (pc'[q] = "body" => alive' = {})
  <2>1. pc'[q] = pc[q] /\ q # None
    BY <1>1, <1>6, <1>9, ProcsAssumption DEF Procs
  <2>2. Silenced(q)' => pc[q] \in {"wedged", "body"}
    BY <1>2, <1>9, <2>1 DEF Silenced
  <2>3. SUFFICES ASSUME pc[q] \in {"wedged", "body"}
                 PROVE  mon'.suspended /\ (pc[q] = "body" => alive' = {})
    BY <2>1, <2>2
  <2>4. mon.suspended /\ (pc[q] = "body" => alive = {}) /\ InGuard(q)
    BY <2>3 DEF WedgeInv, WedgeStands, Silenced, InGuard
  <2>5. pc[p] \notin {"suspend", "resume"}
    <3>1. pc[p] \in {"suspend", "resume"} => p \in Ops
      BY <1>1, ProcsAssumption DEF WedgeInv, TypeInv, TypeOK, PCOf, ClientPC
    <3>2. p \in Ops => ~InGuard(p)
      BY <1>9, <2>4 DEF WedgeInv, GuardInv, HolderInGuard
    <3> QED
      BY <3>1, <3>2 DEF InGuard
  <2> QED
    BY <1>5, <2>4, <2>5 DEF WedgeWrites
<1>10. alive' \subseteq {mon'.thread}
  BY <1>5 DEF WedgeWrites
<1> QED
  BY <1>7, <1>8, <1>9, <1>10 DEF WedgeStands

LEMMA OpsThere ==
  ASSUME WedgeInv, stays \in Clients, WedgeScene, NEW p \in Ops, OpNext(p)
  PROVE  WedgeStands'
<1>1. p \in Procs /\ stays \in Procs /\ p # stays /\ p # None /\ p \notin Absent
      /\ (\A q \in Absent : q \in Procs) /\ (\A q \in Ops : q \in Procs)
  BY ProcsAssumption DEF Procs, Absent
<1>2. UNCHANGED monVars /\ pc[p] \notin Methods
  BY DEF OpNext, GuardEnter, GuardGranted, WedgeCleared, WedgeTimesOut, BodyEnds, IsNext, Methods
<1>3. monHolder # p
  BY <1>1, <1>2 DEF WedgeInv, TypeInv, CallerInside
<1>4. \E l : /\ Goto(p, l) /\ l \in {"suspend", "queued", "body", "resume"}
             /\ l = "body" => pc[p] = "wedged" /\ ~IsWedged
  BY DEF OpNext, GuardEnter, GuardGranted, WedgeCleared, WedgeTimesOut, BodyEnds, Enqueue,
     BodyOrResume
<1>5. /\ pc'[p] \in {"suspend", "queued", "body", "resume"}
      /\ pc'[p] = "body" => pc[p] = "wedged" /\ ~IsWedged
      /\ \A q \in Procs : q # p => pc'[q] = pc[q]
  BY <1>1, <1>4 DEF Goto, WedgeInv, TypeInv, TypeOK
<1>6. pc[stays] = "subscribed" /\ pc'[stays] = "subscribed"
  BY <1>1, <1>5 DEF WedgeScene
<1>7. mon.known
  BY <1>6, StaysKnown DEF WedgeInv, BooksInv
<1>8. Silenced(p)' => pc[p] = "wedged" /\ mon.suspended /\ alive = {}
  <2>1. Silenced(p)' => pc'[p] = "body"
    BY <1>2, <1>3, <1>5 DEF Silenced, monVars
  <2>2. pc[p] = "wedged" => mon.suspended
    BY DEF WedgeInv, WedgeStands, Silenced
  <2> QED
    BY <1>5, <1>7, <2>1, <2>2 DEF WedgeInv, WedgeStands, IsWedged
<1>9. \A q \in Ops : q # p => (Silenced(q)' <=> Silenced(q)) /\ pc'[q] = pc[q]
  BY <1>1, <1>2, <1>5 DEF Silenced, monVars
<1>10. \A q \in Ops : pc'[q] = "body" => Silenced(q)'
  BY DEF Silenced
<1> QED
  BY <1>1, <1>2, <1>5, <1>6, <1>8, <1>9, <1>10 DEF WedgeInv, WedgeStands, monVars

LEMMA ClientsThere ==
  ASSUME WedgeInv, stays \in Clients, WedgeScene, NEW p \in Clients, Subscribe(p) \/ Unsubscribe(p)
  PROVE  WedgeStands'
<1>1. p \in Procs /\ stays \in Procs /\ \A q \in Absent \cup Ops : q \in Procs /\ q # p
  BY ProcsAssumption DEF Procs, Absent
<1>2. UNCHANGED monVars
  BY DEF Subscribe, Unsubscribe
<1>3. /\ pc'[p] \in {"acquire", "release"}
      /\ pc'[p] = "release" => pc[p] = "subscribed"
      /\ pc[p] = "subscribed" => pc'[p] = "release"
      /\ \A q \in Procs : q # p => pc'[q] = pc[q]
  BY <1>1 DEF Subscribe, Unsubscribe, Goto, WedgeInv, TypeInv, TypeOK
<1>4. p # stays => pc[stays] = "subscribed"
  BY <1>3 DEF WedgeScene
<1>5. pc'[stays] # "release" /\ (p # stays => pc'[stays] = "subscribed")
      /\ (p = stays => pc[stays] # "subscribed")
  BY <1>1, <1>3, <1>4 DEF WedgeScene, WedgeInv, WedgeStands
<1>6. \A q \in Ops : (Silenced(q)' <=> Silenced(q)) /\ pc'[q] = pc[q]
  BY <1>1, <1>2, <1>3 DEF Silenced, monVars
<1> QED
  BY <1>1, <1>2, <1>3, <1>5, <1>6 DEF WedgeInv, WedgeStands, monVars

\* A soak, a run or a sweep does not begin; a reset that finds no monitor changes
\* the run flag alone.
LEMMA AbsentKeep ==
  ASSUME stays \in Clients, WedgeInv, WedgeScene, NEW p \in Absent, OwnerNext(p) \/ RunNext(p) \/ SweepNext(p)
  PROVE  WedgeStands'
<1>1. pc[p] = "idle" /\ pc'[p] = "idle" /\ p \in Procs /\ p # None
  BY ProcsAssumption DEF WedgeInv, WedgeStands, WedgeScene, Idle, Absent, Procs
<1>2. ~OwnerNext(p)
  BY <1>1 DEF OwnerNext, ClaimDevice, PortIsClear, WaitClearTimesOut, ObserverOpens, SoakCancelled,
     SoakLeaves, ObserverFails, SoakEnds, IsNext, Enqueue, Goto, WedgeInv, TypeInv, TypeOK
<1>3. ~SweepNext(p)
  BY <1>1 DEF SweepNext, SweepGate, SweepBegins, SweepEnds, Goto, WedgeInv, TypeInv, TypeOK
<1>4. CASE RunNext(p)
  <2>1. p \in Runs /\ Reset(p)
    BY <1>1, <1>4 DEF RunNext, RunChecks, RunCommits, SuspendAllTimesOut, RunFinishes, RunRestores, Reset,
       Goto, WedgeInv, TypeInv, TypeOK
  <2>2. PICK gone \in {q \in Runs : pc[q] \in {"driving", "exposed", "finishing", "resume"}} \cup {None} :
          /\ FlagDown(p, IF mon.known THEN "resume" ELSE "idle", gone)
          /\ \/ monHolder = gone /\ Return
             \/ monHolder # gone /\ UNCHANGED <<monHolder, monStage>>
    BY <2>1 DEF Reset
  <2>3. gone = None /\ UNCHANGED <<mon, alive>>
    BY <2>1, <2>2 DEF Reset, Absent, WedgeInv, WedgeStands
  <2>4. monHolder' = monHolder
    BY <2>2, <2>3 DEF Return
  <2>5. ASSUME NEW q \in Procs PROVE pc'[q] = pc[q]
    <3>1. pc[q] # "driving"
      BY ProcsAssumption DEF WedgeInv, WedgeStands, TypeInv, TypeOK, PCOf, OpPC, ClientPC, Procs, Absent
    <3>2. q # None
      BY ProcsAssumption
    <3>3. pc'[q] = IF q = p THEN pc'[p] ELSE pc[q]
      BY <1>1, <2>2, <2>3, <3>1, <3>2 DEF FlagDown
    <3> QED
      BY <1>1, <3>3
  <2>6. stays \in Procs /\ (\A q \in Absent \cup Ops : q \in Procs)
    BY DEF Procs, Absent
  <2>7. \A q \in Ops : Silenced(q)' <=> Silenced(q)
    BY <2>4, <2>5, <2>6 DEF Silenced
  <2> QED
    BY <2>3, <2>5, <2>6, <2>7 DEF WedgeInv, WedgeStands
<1> QED
  BY <1>2, <1>3, <1>4

LEMMA WedgeStandsInductive ==
  ASSUME stays \in Clients, WedgeInv, (Next /\ WedgeScene) \/ UNCHANGED vars
  PROVE  WedgeInv'
<1>1. TypeInv' /\ GuardInv' /\ BooksInv'
  BY TypeInvNext, GuardInvNext, BooksNext DEF WedgeInv
<1>2. CASE UNCHANGED vars
  <2>1. WedgeStands'
    BY <1>2 DEF WedgeInv, WedgeStands, Silenced, vars, monVars
  <2> QED
    BY <1>1, <2>1 DEF WedgeInv
<1>3. CASE Next /\ WedgeScene
  <2>1. ASSUME NEW p \in Absent, OwnerNext(p) \/ RunNext(p) \/ SweepNext(p) PROVE WedgeStands'
    BY <1>3, <2>1, AbsentKeep
  <2>2. ASSUME NEW p \in Procs, MonitorCall(p) PROVE WedgeStands'
    <3>1. p \in Ops \cup Clients
      <4>1. pc[p] \in Methods
        BY <2>2, CallMoves DEF WedgeInv, BooksInv
      <4>2. p \notin Absent
        BY <4>1 DEF WedgeInv, WedgeStands, Methods
      <4> QED
        BY <4>2 DEF Procs, Absent
    <3> QED
      BY <2>2, <3>1, StaysCalls, OthersCall
  <2>3. ASSUME NEW t \in Readers, ReaderExits(t) PROVE WedgeStands'
    BY <2>3 DEF ReaderExits, ReaderStops, ReaderFails, WedgeInv, WedgeStands, Silenced
  <2>4. WedgeStands'
    BY <1>3, <2>1, <2>2, <2>3, OpsThere, ClientsThere DEF Next, Absent
  <2> QED
    BY <1>1, <2>4 DEF WedgeInv
<1> QED
  BY <1>2, <1>3

LEMMA WedgeOne == WedgeInv => NeverDoubleOpened
<1> SUFFICES ASSUME WedgeInv PROVE NeverDoubleOpened
  OBVIOUS
<1> DEFINE B == {p \in Ops \cup Owners : pc[p] \in {"body", "held"}}
<1>1. Cardinality(alive) \in {0, 1} /\ (alive = {} => Cardinality(alive) = 0)
  <2>1. alive = {} \/ alive = {mon.thread}
    BY DEF WedgeInv, WedgeStands
  <2> QED
    BY <2>1, FS_EmptySet, FS_Singleton
<1>2. \A p \in B : p \in Ops /\ pc[p] = "body" /\ InGuard(p) /\ alive = {}
  <2>1. \A p \in Ops : pc[p] # "held"
    BY ProcsAssumption DEF WedgeInv, TypeInv, TypeOK, PCOf, OpPC, Procs
  <2> QED
    BY <2>1 DEF WedgeInv, WedgeStands, InGuard, Absent
<1>3. CASE B = {}
  BY <1>1, <1>3, FS_EmptySet DEF NeverDoubleOpened
<1>4. CASE B # {}
  <2>1. PICK p \in B : TRUE
    BY <1>4
  <2>2. B = {p}
    BY <1>2, <2>1, GuardInvExclusive DEF WedgeInv, GuardExclusive
  <2>3. Cardinality(B) = 1 /\ Cardinality(alive) = 0
    BY <1>1, <1>2, <2>1, <2>2, FS_Singleton
  <2> QED
    BY <2>3 DEF NeverDoubleOpened
<1> QED
  BY <1>3, <1>4

\* With one client that stays subscribed and neither a soak, a test run nor a sweep
\* of the hub under way, the port is never double-opened: a guarded operation enters
\* its body over a dead reader only, however often readers wedge, other clients come
\* and go and bodies overlap (portlock.py:118-124, serial_monitor.py:11-13).
THEOREM NeverDoubleOpenedAlways ==
  ASSUME stays \in Clients
  PROVE  FleetSpec => []NeverDoubleOpenedThere
<1> DEFINE J == scene = "wedge" => WedgeInv
<1>1. FleetInit => J
  <2>1. Init => WedgeStands
    <3> SUFFICES ASSUME Init PROVE WedgeStands
      OBVIOUS
    <3>1. \A p \in Procs : pc[p] = "idle"
      BY DEF Init
    <3>2. stays \in Procs /\ (\A p \in Absent : p \in Procs) /\ (\A p \in Ops : p \in Procs)
      BY DEF Procs, Absent
    <3> QED
      BY <3>1, <3>2 DEF Init, WedgeStands, Silenced
  <2> QED
    BY <2>1, TypeInvInit, GuardInvInit, BooksInit DEF FleetInit, WedgeInv
<1>2. J /\ [FleetNext]_fleetVars => J'
  <2> SUFFICES ASSUME J, [FleetNext]_fleetVars, scene' = "wedge" PROVE WedgeInv'
    OBVIOUS
  <2>1. scene = "wedge" /\ ((Next /\ WedgeScene) \/ UNCHANGED vars)
    BY DEF FleetNext, fleetVars
  <2> QED
    BY <2>1, WedgeStandsInductive
<1>3. J => NeverDoubleOpenedThere
  BY WedgeOne DEF NeverDoubleOpenedThere
<1> QED
  BY <1>1, <1>2, <1>3, PTL DEF FleetSpec

=============================================================================
