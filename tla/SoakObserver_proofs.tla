------------------------ MODULE SoakObserver_proofs -------------------------
(***************************************************************************)
(* Proofs about PortRegistry, about the SoakObserver that shares it, and   *)
(* about what the Datadog forwarder captures and ships.                    *)
(*                                                                         *)
(* Of PortRegistry, for any sets of callers: type correctness, that a      *)
(* lookup under the lock finds every monitor, that a session is closed     *)
(* once, and the refinement of PortOwnership.  Of SoakObserver, for any    *)
(* registry around it, any number of attempts and, but where a theorem     *)
(* says so, any place of a cancellation: what was established of the       *)
(* registry holds there by refinement.  Of FleetCapture, for any number of *)
(* devices: the references agree with the set.  Of LogForwarder, for any   *)
(* threads, queue and batches: nothing is shipped twice or out of order,   *)
(* and what is not shipped is counted.                                     *)
(***************************************************************************)
EXTENDS MCWatchers, SequenceTheorems, FiniteSetTheorems, WellFoundedInduction, TLAPS


-----------------------------------------------------------------------------
(* Type correctness.                                                       *)

LEMMA TypeInit == Init => TypeOK
BY DEF Init, TypeOK, PC

LEMMA SweepType ==
  ASSUME TypeOK
  PROVE  [s \in Sessions |-> IF s \in Swept THEN closes[s] + 1 ELSE closes[s]]
           \in [Sessions -> Nat]
BY DEF TypeOK

LEMMA LockerType ==
  ASSUME TypeOK, NEW p \in Lockers, LockPort(p) \/ LockerNext(p)
  PROVE  TypeOK'
<1> p \in Procs
  BY DEF Procs
<1>1. CASE LockPort(p)
  BY <1>1 DEF TypeOK, PC, LockPort, TakeLock, Goto, sessionVars
<1>2. CASE SweepLocked(p)
  BY <1>2, SweepType DEF TypeOK, PC, SweepLocked, SweepDead, Goto, sessionVars
<1>3. CASE Lookup(p)
  BY <1>3 DEF TypeOK, PC, Lookup, GiveLock, Goto, sessionVars
<1>4. CASE UploadEnds(p)
  BY <1>4 DEF TypeOK, PC, UploadEnds, GiveLock, Goto, sessionVars
<1>5. CASE OpenSpawns(p)
  BY <1>5 DEF TypeOK, PC, OpenSpawns, Goto, sessionVars
<1>6. CASE SpawnFails(p)
  BY <1>6 DEF TypeOK, PC, SpawnFails, GiveLock, Goto, sessionVars
<1>7. CASE OpenRegisters(p)
  BY <1>7 DEF TypeOK, PC, OpenRegisters, GiveLock, Goto, sessionVars
<1> QED
  BY <1>1, <1>2, <1>3, <1>4, <1>5, <1>6, <1>7 DEF LockerNext

LEMMA SessionType ==
  ASSUME TypeOK, NEW s \in Sessions, SerialClose(s) \/ MonitorExits(s)
  PROVE  TypeOK'
<1>1. CASE SerialClose(s)
  BY <1>1 DEF TypeOK, SerialClose
<1>2. CASE MonitorExits(s)
  BY <1>2 DEF TypeOK, MonitorExits
<1> QED
  BY <1>1, <1>2

LEMMA ConnectType ==
  ASSUME TypeOK, NEW c \in Connects,
         ConnectSweeps(c) \/ ConnectNext(c) \/ StuckReleased(c)
  PROVE  TypeOK'
<1> c \in Procs
  BY DEF Procs
<1>1. CASE ConnectSweeps(c)
  BY <1>1, SweepType DEF TypeOK, PC, ConnectSweeps, SweepDead, Goto, sessionVars
<1>2. CASE ConnectLooks(c)
  BY <1>2 DEF TypeOK, PC, ConnectLooks, GiveLock, Goto, sessionVars
<1>3. CASE ConnectLocks(c)
  BY <1>3 DEF TypeOK, PC, ConnectLocks, TakeLock, Goto, sessionVars
<1>4. CASE InterfaceOpens(c)
  BY <1>4 DEF TypeOK, PC, InterfaceOpens, GiveLock, Goto, sessionVars
<1>5. CASE CloseBegins(c)
  BY <1>5 DEF TypeOK, PC, CloseBegins, GiveLock, Goto, sessionVars
<1>6. CASE CloseReturns(c)
  BY <1>6 DEF TypeOK, PC, CloseReturns, GiveLock, Goto, sessionVars
<1>7. CASE CloseAbandoned(c)
  BY <1>7 DEF TypeOK, PC, CloseAbandoned, GiveLock, Goto, sessionVars
<1>8. CASE StuckReleased(c)
  BY <1>8 DEF TypeOK, PC, StuckReleased, GiveLock, Goto, sessionVars
<1> QED
  BY <1>1, <1>2, <1>3, <1>4, <1>5, <1>6, <1>7, <1>8 DEF ConnectNext

LEMMA OtherType ==
  ASSUME TypeOK, OtherSweeps \/ \E o \in Others : OtherLocks(o) \/ OtherUnlocks(o)
  PROVE  TypeOK'
<1>1. CASE OtherSweeps
  BY <1>1, SweepType DEF TypeOK, OtherSweeps
<1>2. CASE \E o \in Others : OtherLocks(o) \/ OtherUnlocks(o)
  BY <1>2 DEF TypeOK, OtherLocks, OtherUnlocks, sessionVars
<1> QED
  BY <1>1, <1>2

LEMMA TypeNext == TypeOK /\ [Next]_vars => TypeOK'
<1> SUFFICES ASSUME TypeOK, [Next]_vars PROVE TypeOK'
  OBVIOUS
<1>1. CASE UNCHANGED vars
  BY <1>1 DEF vars, TypeOK
<1>2. CASE Next
  BY <1>2, LockerType, SessionType, ConnectType, OtherType DEF Next, CallNext
<1> QED
  BY <1>1, <1>2

\* Every variable keeps its type.
THEOREM RegistryTypes == Spec => []TypeOK
BY TypeInit, TypeNext, PTL DEF Spec

-----------------------------------------------------------------------------
(* RegistryInv is inductive.                                               *)

LEMMA RegistryInvInit == Init => RegistryInv
BY CallersAssumption
   DEF Init, RegistryInv, LockHeld, OnRecord, ClearMeansAlone, OneMonitor, Monitors,
       Holds, Lockers, Procs

\* The callers that ask for sessions under the lock.
LEMMA LockerInv ==
  ASSUME TypeOK, RegistryInv, NEW p \in Lockers,
         LockPort(p) \/ LockerNext(p)
  PROVE  RegistryInv'
<1> USE CallersAssumption DEF TypeOK, RegistryInv, LockHeld, OnRecord,
         ClearMeansAlone, OneMonitor, Monitors, Holds, Lockers, Procs, Goto, sessionVars
<1>1. CASE LockPort(p)
  BY <1>1 DEF LockPort, TakeLock
<1>2. CASE SweepLocked(p)
  BY <1>2 DEF SweepLocked, SweepDead, Swept
\* A live monitor is registered or its session holds the lock: under the lock a
\* caller that finds none is alone.
<1>3. CASE Lookup(p)
  <2>1. LockHeld'
    BY <1>3 DEF Lookup, GiveLock, ActiveSession
  <2>2. OnRecord'
    BY <1>3 DEF Lookup, GiveLock, ActiveSession
  <2>3. ClearMeansAlone'
    BY <1>3 DEF Lookup, GiveLock, ActiveSession
  <2>4. OneMonitor'
    BY <1>3 DEF Lookup, GiveLock, ActiveSession
  <2> QED
    BY <2>1, <2>2, <2>3, <2>4 DEF RegistryInv
<1>4. CASE UploadEnds(p)
  BY <1>4 DEF UploadEnds, GiveLock
\* The caller found nobody under the lock it still has.
<1>5. CASE OpenSpawns(p)
  <2>1. LockHeld'
    BY <1>5 DEF OpenSpawns
  <2>2. OnRecord'
    BY <1>5 DEF OpenSpawns
  <2>3. ClearMeansAlone'
    BY <1>5 DEF OpenSpawns
  <2>4. OneMonitor'
    BY <1>5 DEF OpenSpawns
  <2> QED
    BY <2>1, <2>2, <2>3, <2>4 DEF RegistryInv
<1>6. CASE SpawnFails(p)
  BY <1>6 DEF SpawnFails, GiveLock
\* The monitor is on record before the lock is free.
<1>7. CASE OpenRegisters(p)
  <2>1. LockHeld'
    BY <1>7 DEF OpenRegisters, GiveLock
  <2>2. OnRecord'
    BY <1>7 DEF OpenRegisters, GiveLock
  <2>3. ClearMeansAlone'
    BY <1>7 DEF OpenRegisters, GiveLock
  <2>4. OneMonitor'
    BY <1>7 DEF OpenRegisters, GiveLock
  <2> QED
    BY <2>1, <2>2, <2>3, <2>4 DEF RegistryInv
<1> QED
  BY <1>1, <1>2, <1>3, <1>4, <1>5, <1>6, <1>7 DEF LockerNext

\* A monitor that is closed or exits only leaves room.
LEMMA SessionInv ==
  ASSUME TypeOK, RegistryInv, NEW s \in Sessions,
         SerialClose(s) \/ MonitorExits(s)
  PROVE  RegistryInv'
<1> USE CallersAssumption DEF TypeOK, RegistryInv, LockHeld, OnRecord,
         ClearMeansAlone, OneMonitor, Monitors, Holds, Lockers, Procs, Goto, sessionVars
<1>1. CASE SerialClose(s)
  BY <1>1 DEF SerialClose
<1>2. CASE MonitorExits(s)
  BY <1>2 DEF MonitorExits
<1> QED
  BY <1>1, <1>2

\* connect() takes the lock or pops sessions that exited: it makes no monitor.
LEMMA ConnectInv ==
  ASSUME TypeOK, RegistryInv, NEW c \in Connects,
         ConnectSweeps(c) \/ ConnectNext(c) \/ StuckReleased(c)
  PROVE  RegistryInv'
<1> USE CallersAssumption DEF TypeOK, RegistryInv, LockHeld, OnRecord,
         ClearMeansAlone, OneMonitor, Monitors, Holds, Lockers, Procs, Goto, sessionVars
<1>1. CASE ConnectSweeps(c)
  BY <1>1 DEF ConnectSweeps, SweepDead, Swept
<1>2. CASE ConnectLooks(c)
  BY <1>2 DEF ConnectLooks
<1>3. CASE ConnectLocks(c)
  BY <1>3 DEF ConnectLocks, TakeLock
<1>4. CASE InterfaceOpens(c)
  BY <1>4 DEF InterfaceOpens, GiveLock
<1>5. CASE CloseBegins(c)
  BY <1>5 DEF CloseBegins
<1>6. CASE CloseReturns(c)
  BY <1>6 DEF CloseReturns, GiveLock
<1>7. CASE CloseAbandoned(c)
  BY <1>7 DEF CloseAbandoned, GiveLock
<1>8. CASE StuckReleased(c)
  BY <1>8 DEF StuckReleased
<1> QED
  BY <1>1, <1>2, <1>3, <1>4, <1>5, <1>6, <1>7, <1>8 DEF ConnectNext

\* So do the other holders of the lock.
LEMMA OtherInv ==
  ASSUME TypeOK, RegistryInv,
         OtherSweeps \/ \E o \in Others : OtherLocks(o) \/ OtherUnlocks(o)
  PROVE  RegistryInv'
<1> USE CallersAssumption DEF TypeOK, RegistryInv, LockHeld, OnRecord,
         ClearMeansAlone, OneMonitor, Monitors, Holds, Lockers, Procs, Goto, sessionVars
<1>1. CASE OtherSweeps
  BY <1>1 DEF OtherSweeps, Swept
<1>2. CASE \E o \in Others : OtherLocks(o) \/ OtherUnlocks(o)
  BY <1>2 DEF OtherLocks, OtherUnlocks
<1> QED
  BY <1>1, <1>2

LEMMA RegistryInvNext == TypeOK /\ RegistryInv /\ [Next]_vars => RegistryInv'
<1> SUFFICES ASSUME TypeOK, RegistryInv, [Next]_vars PROVE RegistryInv'
  OBVIOUS
<1>1. CASE UNCHANGED vars
  BY <1>1 DEF vars, RegistryInv, LockHeld, OnRecord, ClearMeansAlone, OneMonitor,
              Monitors, Holds
<1>2. CASE Next
  BY <1>2, LockerInv, SessionInv, ConnectInv, OtherInv DEF Next, CallNext
<1> QED
  BY <1>1, <1>2

\* The strengthening of MonitorAlone: the lock is held by the call whose position
\* says so, every live monitor is registered or being spawned under the lock, and
\* who came through a lookup under the lock is alone.
THEOREM RegistryInvariant == Spec => []RegistryInv
BY TypeInit, TypeNext, RegistryInvInit, RegistryInvNext, PTL DEF Spec

LEMMA InvGivesAlone == TypeOK /\ RegistryInv => MonitorAlone
BY CallersAssumption
   DEF TypeOK, RegistryInv, ClearMeansAlone, OneMonitor, MonitorAlone, Lockers

\* No upload runs beside a monitor and no two monitors read one port, for any
\* number of callers.
THEOREM MonitorIsAlone == Spec => []MonitorAlone
BY RegistryTypes, RegistryInvariant, InvGivesAlone, PTL

-----------------------------------------------------------------------------
(* A session is closed once: it is on record, with no close to its name,   *)
(* until the one call that pops it closes it.                              *)

LEMMA ClosedOnceNext ==
  TypeOK /\ RegistryInv /\ ClosedOnce /\ [Next]_vars => ClosedOnce'
<1> SUFFICES ASSUME TypeOK, RegistryInv, ClosedOnce, [Next]_vars, NEW s \in Sessions
             PROVE  closes[s]' <= 1
  BY DEF ClosedOnce
<1> USE DEF TypeOK, RegistryInv, OnRecord, ClosedOnce
<1> DEFINE Pops == closes' = [t \in Sessions |-> IF t \in Swept THEN closes[t] + 1
                                               ELSE closes[t]]
<1>1. CASE Pops
  BY <1>1 DEF Swept
<1>2. CASE closes' = closes
  BY <1>2
<1>3. CASE \E t \in Sessions : OpenSpawns(t) \/ SerialClose(t)
  BY <1>3 DEF OpenSpawns, SerialClose
<1>4. Pops \/ closes' = closes \/ \E t \in Sessions : OpenSpawns(t) \/ SerialClose(t)
  <2>1. ASSUME NEW p \in Lockers, LockPort(p) \/ LockerNext(p)
        PROVE  Pops \/ closes' = closes \/ \E t \in Sessions : OpenSpawns(t)
    BY <2>1 DEF LockPort, LockerNext, SweepLocked, SweepDead, Lookup, UploadEnds,
                OpenSpawns, SpawnFails, OpenRegisters, sessionVars
  <2>2. ASSUME NEW c \in Connects,
               ConnectSweeps(c) \/ ConnectNext(c) \/ StuckReleased(c)
        PROVE  Pops \/ closes' = closes
    BY <2>2 DEF ConnectSweeps, SweepDead, ConnectNext, ConnectLooks, ConnectLocks,
                InterfaceOpens, CloseBegins, CloseReturns, CloseAbandoned,
                StuckReleased, sessionVars
  <2>3. CASE OtherSweeps \/ \E o \in Others : OtherLocks(o) \/ OtherUnlocks(o)
    BY <2>3 DEF OtherSweeps, OtherLocks, OtherUnlocks, sessionVars
  <2> QED
    BY <2>1, <2>2, <2>3 DEF Next, CallNext, MonitorExits, vars
<1> QED
  BY <1>1, <1>2, <1>3, <1>4

LEMMA ClosedOnceInit == Init => ClosedOnce
BY DEF Init, ClosedOnce

\* serial_close and the sweeps of all callers close a session at most once.
THEOREM SessionsCloseOnce == Spec => []ClosedOnce
BY RegistryTypes, RegistryInvariant, ClosedOnceInit, ClosedOnceNext, PTL DEF Spec

-----------------------------------------------------------------------------
(* The callers that ask under the lock implement single ownership.         *)

LEMMA OneUser ==
  ASSUME TypeOK, RegistryInv, NEW p \in Lockers, NEW q \in Lockers, Uses(p), Uses(q)
  PROVE  p = q
BY CallersAssumption
   DEF TypeOK, RegistryInv, LockHeld, ClearMeansAlone, OneMonitor, Uses, Holds, Lockers, Procs

\* `user` is the caller that uses the port, if there is one.
LEMMA UserOf ==
  ASSUME TypeOK, RegistryInv
  PROVE  /\ user \in Lockers \cup {None}
         /\ \A p \in Lockers : Uses(p) <=> user = p
<1>1. None \notin Lockers
  BY CallersAssumption DEF Procs, Lockers
<1>2. CASE \E p \in Lockers : Uses(p)
  <2>1. user \in Lockers /\ Uses(user)
    BY <1>2 DEF user
  <2> QED
    BY <2>1, OneUser
<1>3. CASE ~ \E p \in Lockers : Uses(p)
  BY <1>1, <1>3 DEF user
<1> QED
  BY <1>2, <1>3

LEMMA UserOfNext ==
  ASSUME TypeOK', RegistryInv'
  PROVE  /\ user' \in Lockers \cup {None}
         /\ \A p \in Lockers : Uses(p)' <=> user' = p
<1>1. None \notin Lockers
  BY CallersAssumption DEF Procs, Lockers
<1>2. ASSUME NEW p \in Lockers, NEW q \in Lockers, Uses(p)', Uses(q)' PROVE p = q
  BY <1>2, CallersAssumption
     DEF TypeOK, RegistryInv, LockHeld, ClearMeansAlone, OneMonitor, Uses, Holds,
         Lockers, Procs
<1>3. CASE \E p \in Lockers : Uses(p)'
  <2>1. user' \in Lockers /\ Uses(user)'
    BY <1>3 DEF user
  <2> QED
    BY <2>1, <1>2
<1>4. CASE ~ \E p \in Lockers : Uses(p)'
  BY <1>1, <1>4 DEF user
<1> QED
  BY <1>3, <1>4

\* A step changes the use of one caller at most.
LEMMA OneMoves ==
  ASSUME TypeOK, RegistryInv, [Next]_vars
  PROVE  \E p : \A q \in Lockers : q # p => (Uses(q)' <=> Uses(q))
<1> USE CallersAssumption DEF TypeOK, Uses, Monitors, Goto, Lockers, Procs, sessionVars
<1>1. ASSUME NEW p \in Lockers, LockPort(p) \/ LockerNext(p)
      PROVE  \A q \in Lockers : q # p => (Uses(q)' <=> Uses(q))
  <2>1. CASE SweepLocked(p)
    BY <2>1 DEF SweepLocked, SweepDead, Swept
  <2>2. CASE LockPort(p) \/ Lookup(p) \/ UploadEnds(p) \/ SpawnFails(p)
    BY <2>2 DEF LockPort, TakeLock, Lookup, UploadEnds, SpawnFails, GiveLock
  <2>3. CASE OpenSpawns(p) \/ OpenRegisters(p)
    BY <2>3 DEF OpenSpawns, OpenRegisters, GiveLock
  <2> QED
    BY <1>1, <2>1, <2>2, <2>3 DEF LockerNext
<1>2. ASSUME NEW s \in Sessions, SerialClose(s) \/ MonitorExits(s)
      PROVE  \A q \in Lockers : q # s => (Uses(q)' <=> Uses(q))
  BY <1>2 DEF SerialClose, MonitorExits
<1>3. ASSUME NEW c \in Connects,
             ConnectSweeps(c) \/ ConnectNext(c) \/ StuckReleased(c)
      PROVE  \A q \in Lockers : Uses(q)' <=> Uses(q)
  <2>1. CASE ConnectSweeps(c)
    BY <2>1 DEF ConnectSweeps, SweepDead, Swept
  <2>2. CASE ConnectNext(c) \/ StuckReleased(c)
    BY <2>2 DEF ConnectNext, ConnectLooks, ConnectLocks, TakeLock, InterfaceOpens,
                CloseBegins, CloseReturns, CloseAbandoned, StuckReleased, GiveLock
  <2> QED
    BY <1>3, <2>1, <2>2
<1>4. CASE OtherSweeps \/ \E o \in Others : OtherLocks(o) \/ OtherUnlocks(o)
  BY <1>4 DEF OtherSweeps, OtherLocks, OtherUnlocks, Swept
<1>5. CASE UNCHANGED vars
  BY <1>5 DEF vars
<1> HIDE DEF TypeOK, Uses, Lockers
<1> QED
  BY <1>1, <1>2, <1>3, <1>4, <1>5 DEF Next, CallNext

LEMMA StepRefines ==
  TypeOK /\ RegistryInv /\ TypeOK' /\ RegistryInv' /\ [Next]_vars
    => [Ownership!Next]_user
<1> SUFFICES ASSUME TypeOK, RegistryInv, TypeOK', RegistryInv', [Next]_vars,
                    user' # user
             PROVE  Ownership!Next
  OBVIOUS
<1>1. PICK p : \A q \in Lockers : q # p => (Uses(q)' <=> Uses(q))
  BY OneMoves
<1>2. /\ user \in Lockers \cup {None}
      /\ \A q \in Lockers : Uses(q) <=> user = q
  BY UserOf
<1>3. /\ user' \in Lockers \cup {None}
      /\ \A q \in Lockers : Uses(q)' <=> user' = q
  BY UserOfNext
<1>4. user = None \/ user' = None
  BY <1>1, <1>2, <1>3
<1> QED
  BY <1>2, <1>3, <1>4 DEF Ownership!Next, Ownership!Take, Ownership!Drop

LEMMA InitRefines == Init => Ownership!Init
<1> SUFFICES ASSUME Init PROVE user = None
  BY DEF Ownership!Init
<1>1. \A p \in Lockers : ~Uses(p)
  BY DEF Init, Uses, Monitors, Lockers, Procs
<1> QED
  BY <1>1 DEF user

\* Uploads and monitors implement the abstract port with one owner.
THEOREM RegistryOwnership == Spec => ExclusiveUse
<1>1. Spec => [](TypeOK /\ RegistryInv)
  BY RegistryTypes, RegistryInvariant, PTL
<1> QED
  BY <1>1, InitRefines, StepRefines, PTL DEF Spec, ExclusiveUse, Ownership!Spec

\* What the registry and its lock are for: a monitor shares the port with no upload, and
\* a session is closed once.
THEOREM RegistryKeepsApart == Spec => []SessionsKeepApart
BY RegistryTypes, MonitorIsAlone, SessionsCloseOnce, PTL DEF SessionsKeepApart


-----------------------------------------------------------------------------
(* The observer is one of the registry's other holders.                    *)

LEMMA ObsStepRefines == [ObsNext]_<<vars, obsVars>> => [Next]_vars
<1> SUFFICES ASSUME [ObsNext]_<<vars, obsVars>> PROVE [Next]_vars
  OBVIOUS
<1> USE ObserverAssumption
<1>1. CASE UNCHANGED vars
  BY <1>1
<1>2. CASE OtherSweeps \/ OtherLocks(Observer) \/ OtherUnlocks(Observer) \/ CallNext
  BY <1>2 DEF Next
<1>3. ASSUME Job \/ Coroutine
      PROVE  \/ UNCHANGED vars
             \/ OtherSweeps \/ OtherLocks(Observer) \/ OtherUnlocks(Observer)
  <2>1. CASE Job
    BY <2>1 DEF Job, JobSweeps, JobLooks, JobLocks, JobRefused, JobConnects,
                ConstructFails, JobCloses, Closed
  <2>2. CASE Coroutine
    BY <2>2 DEF Coroutine, Opened, Tick, Reopens, Reopened, CloseAll, Closed
  <2> QED
    BY <1>3, <2>1, <2>2
<1> QED
  BY <1>1, <1>2, <1>3
     DEF ObsNext, SoakOpens, SoakEnds, SoakAborted, ConnectionBreaks, OnConnectionLost

\* The observer does nothing to the port that PortRegistry does not allow.
THEOREM ObserverImplementsRegistry == ObsSpec => RegistrySpec
<1>1. ObsInit => Init
  BY DEF ObsInit
<1> QED
  BY <1>1, ObsStepRefines, PTL DEF ObsSpec, RegistrySpec, Spec

-----------------------------------------------------------------------------
(* Types.                                                                  *)

OwnTypes ==
  /\ soak \in {"off", "opening", "holding", "closing", "reopening", "ending"}
  /\ job \in {"none", "sweep", "look", "lock", "construct", "close", "ok", "failed"}
  /\ iface \in {"none", "live", "dead"}
  /\ owns \in BOOLEAN /\ held \in BOOLEAN /\ lost \in BOOLEAN
  /\ gaveUp \in BOOLEAN /\ news \in BOOLEAN
  /\ attempts \in 0 .. MaxAttempts

LEMMA ObsInitTypes == ObsInit => OwnTypes
<1>1. 0 \in 0 .. MaxAttempts
  BY ObserverAssumption
<1> QED
  BY <1>1 DEF ObsInit, OwnTypes

LEMMA OwnTypesNext == OwnTypes /\ [ObsNext]_<<vars, obsVars>> => OwnTypes'
<1> SUFFICES ASSUME OwnTypes, [ObsNext]_<<vars, obsVars>> PROVE OwnTypes'
  OBVIOUS
<1> USE ObserverAssumption DEF OwnTypes, obsVars, deviceVars
<1>0. 0 \in 0 .. MaxAttempts
  OBVIOUS
<1>1. CASE UNCHANGED <<vars, obsVars>>
  BY <1>1
<1>2. CASE CallNext /\ UNCHANGED obsVars
  BY <1>2
<1>3. CASE JobSweeps
  BY <1>3 DEF JobSweeps, OtherSweeps
<1>4. CASE JobLooks
  BY <1>4 DEF JobLooks
<1>5. CASE JobLocks
  BY <1>5 DEF JobLocks, OtherLocks
<1>6. CASE JobRefused
  BY <1>6 DEF JobRefused
<1>7. CASE JobConnects
  BY <1>7 DEF JobConnects
<1>8. CASE ConstructFails
  BY <1>8 DEF ConstructFails, OtherUnlocks
<1>9. CASE JobCloses
  BY <1>9 DEF JobCloses, Closed, OtherUnlocks
<1>10. CASE Opened
  BY <1>10 DEF Opened
<1>11. CASE Tick
  <2>1. attempts < MaxAttempts => attempts + 1 \in 0 .. MaxAttempts
    OBVIOUS
  <2>2. attempts' \in 0 .. MaxAttempts
    BY <1>11, <2>1 DEF Tick
  <2>3. /\ soak' \in {"holding", "closing"} /\ job' \in {job, "close"}
        /\ gaveUp' \in BOOLEAN
        /\ iface' = iface /\ owns' = owns /\ held' = held /\ lost' = lost /\ news' = news
    BY <1>11 DEF Tick
  <2> QED
    BY <2>2, <2>3
<1>12. CASE Reopens
  BY <1>12 DEF Reopens
<1>13. CASE Reopened
  BY <1>0, <1>13 DEF Reopened
<1>14. CASE CloseAll
  BY <1>14 DEF CloseAll, Closed, OtherUnlocks
<1>15. CASE SoakOpens
  BY <1>0, <1>15 DEF SoakOpens
<1>16. CASE SoakEnds
  BY <1>16 DEF SoakEnds
<1>17. CASE SoakAborted
  BY <1>17 DEF SoakAborted
<1>18. CASE ConnectionBreaks
  BY <1>18 DEF ConnectionBreaks
<1>19. CASE OnConnectionLost
  BY <1>19 DEF OnConnectionLost
<1> QED
  BY <1>1, <1>2, <1>3, <1>4, <1>5, <1>6, <1>7, <1>8, <1>9, <1>10, <1>11, <1>12, <1>13, <1>14, <1>15, <1>16, <1>17, <1>18, <1>19
     DEF ObsNext, Job, Coroutine

\* The attempts of a reconnect stay within RECONNECT_MAX_ATTEMPTS, and every other
\* variable keeps its type.
THEOREM ObserverTypes == ObsSpec => []ObsTypeOK
<1>1. ObsSpec => []OwnTypes
  BY ObsInitTypes, OwnTypesNext, PTL DEF ObsSpec
<1>2. TypeOK /\ OwnTypes => ObsTypeOK
  BY DEF OwnTypes, ObsTypeOK
<1> QED
  BY <1>1, <1>2, ObserverImplementsRegistry, RegistryTypes, PTL DEF RegistrySpec

-----------------------------------------------------------------------------
(* The lock and the interface.                                             *)

\* A thread that opens finds nothing open, and the coroutine starts a thread only
\* when the last one it waited for is through: a cancellation does not change
\* that, for what it leaves behind is kept away from the next soak.
Opens == job \in {"sweep", "look", "lock", "construct"}

HoldInv ==
  /\ lock = Observer <=> owns \/ job = "construct"
  /\ owns <=> iface # "none"
  /\ Opens => ~owns
  /\ soak = "closing" => job = "close" \/ (job = "ok" /\ ~owns)
  /\ soak = "holding" => ~Working

LEMMA HoldInvCalls ==
  ASSUME TypeOK, RegistryInv, HoldInv, CallNext, UNCHANGED obsVars
  PROVE  HoldInv'
<1> USE CallersAssumption, ObserverAssumption DEF TypeOK, Procs, Lockers
<1>1. lock' = Observer <=> lock = Observer
  <2>1. ASSUME NEW p \in Lockers, LockPort(p) \/ LockerNext(p)
        PROVE  lock' = Observer <=> lock = Observer
    BY <2>1 DEF LockPort, TakeLock, LockerNext, SweepLocked, SweepDead, Lookup,
                UploadEnds, OpenSpawns, SpawnFails, OpenRegisters, GiveLock,
                RegistryInv, LockHeld, Holds
  <2>2. ASSUME NEW s \in Sessions, SerialClose(s) \/ MonitorExits(s)
        PROVE  lock' = lock
    BY <2>2 DEF SerialClose, MonitorExits
  <2>3. ASSUME NEW c \in Connects,
               ConnectSweeps(c) \/ ConnectNext(c) \/ StuckReleased(c)
        PROVE  lock' = Observer <=> lock = Observer
    BY <2>3 DEF ConnectSweeps, SweepDead, ConnectNext, ConnectLooks, ConnectLocks,
                TakeLock, InterfaceOpens, CloseBegins, CloseReturns, CloseAbandoned,
                GiveLock, StuckReleased, RegistryInv, LockHeld, Holds
  <2> QED
    BY <2>1, <2>2, <2>3 DEF CallNext
<1> QED
  BY <1>1 DEF HoldInv, obsVars, deviceVars, Opens, Working

LEMMA HoldInvNext ==
  TypeOK /\ RegistryInv /\ OwnTypes /\ HoldInv /\ [ObsNext]_<<vars, obsVars>> => HoldInv'
<1> SUFFICES ASSUME TypeOK, RegistryInv, OwnTypes, HoldInv, [ObsNext]_<<vars, obsVars>>
             PROVE  HoldInv'
  OBVIOUS
<1> USE CallersAssumption, ObserverAssumption
    DEF OwnTypes, HoldInv, Opens, Working, vars, obsVars, deviceVars
<1>1. CASE UNCHANGED <<vars, obsVars>>
  BY <1>1
<1>2. CASE CallNext /\ UNCHANGED obsVars
  BY <1>2, HoldInvCalls
<1>3. CASE JobSweeps
  BY <1>3 DEF JobSweeps, OtherSweeps
<1>4. CASE JobLooks
  BY <1>4 DEF JobLooks
<1>5. CASE JobLocks
  BY <1>5 DEF JobLocks, OtherLocks
<1>6. CASE JobRefused
  BY <1>6 DEF JobRefused
<1>7. CASE JobConnects
  BY <1>7 DEF JobConnects
<1>8. CASE ConstructFails
  BY <1>8 DEF ConstructFails, OtherUnlocks
<1>9. CASE JobCloses
  BY <1>9 DEF JobCloses, Closed, OtherUnlocks
<1>10. CASE Opened
  BY <1>10 DEF Opened
<1>11. CASE Tick
  BY <1>11 DEF Tick
<1>12. CASE Reopens
  BY <1>12 DEF Reopens
<1>13. CASE Reopened
  BY <1>13 DEF Reopened
<1>14. CASE CloseAll
  BY <1>14 DEF CloseAll, Closed, OtherUnlocks
<1>15. CASE SoakOpens
  BY <1>15 DEF SoakOpens
<1>16. CASE SoakEnds
  BY <1>16 DEF SoakEnds
<1>17. CASE SoakAborted
  BY <1>17 DEF SoakAborted
<1>18. CASE ConnectionBreaks
  BY <1>18 DEF ConnectionBreaks
<1>19. CASE OnConnectionLost
  BY <1>19 DEF OnConnectionLost
<1> QED
  BY <1>1, <1>2, <1>3, <1>4, <1>5, <1>6, <1>7, <1>8, <1>9, <1>10, <1>11, <1>12, <1>13, <1>14, <1>15, <1>16, <1>17, <1>18, <1>19
     DEF ObsNext, Job, Coroutine

LEMMA HoldInvAlways == ObsSpec => [](OwnTypes /\ HoldInv)
<1>1. ObsInit => OwnTypes
  BY ObsInitTypes
<1>2. ObsInit => HoldInv
  BY CallersAssumption, ObserverAssumption
     DEF ObsInit, Init, HoldInv, Opens, Working
<1>3. ObsSpec => [](TypeOK /\ RegistryInv)
  BY ObserverImplementsRegistry, RegistryTypes, RegistryInvariant, PTL DEF RegistrySpec
<1> QED
  BY <1>1, <1>2, <1>3, OwnTypesNext, HoldInvNext, PTL DEF ObsSpec

\* The registry lock is the observer's exactly while it has or makes a connection,
\* wherever the soak is cancelled.
THEOREM LockIsWithInterface == ObsSpec => []LockFollowsInterface
<1>1. HoldInv => LockFollowsInterface
  BY DEF HoldInv, LockFollowsInterface
<1> QED
  BY <1>1, HoldInvAlways, PTL

-----------------------------------------------------------------------------
(* The end of a soak.                                                      *)

LetsGoInv ==
  /\ soak \in {"holding", "closing", "reopening", "ending"} => held
  /\ soak \in {"off", "ending"} => ~Opens
  /\ soak = "off" => ~owns
  /\ soak = "opening" /\ job = "failed" => ~owns

LEMMA LetsGoNext ==
  ASSUME Aborts \cap {"opening", "reopening"} = {}
  PROVE  OwnTypes /\ HoldInv /\ LetsGoInv /\ [ObsNext]_<<vars, obsVars>> => LetsGoInv'
<1> SUFFICES ASSUME OwnTypes, HoldInv, LetsGoInv, [ObsNext]_<<vars, obsVars>>
             PROVE  LetsGoInv'
  OBVIOUS
<1> USE DEF OwnTypes, HoldInv, LetsGoInv, Opens, Working, obsVars, deviceVars
<1>1. CASE UNCHANGED <<vars, obsVars>>
  BY <1>1
<1>2. CASE CallNext /\ UNCHANGED obsVars
  BY <1>2
<1>3. CASE JobSweeps
  BY <1>3 DEF JobSweeps, OtherSweeps
<1>4. CASE JobLooks
  BY <1>4 DEF JobLooks
<1>5. CASE JobLocks
  BY <1>5 DEF JobLocks, OtherLocks
<1>6. CASE JobRefused
  BY <1>6 DEF JobRefused
<1>7. CASE JobConnects
  BY <1>7 DEF JobConnects
<1>8. CASE ConstructFails
  BY <1>8 DEF ConstructFails, OtherUnlocks
<1>9. CASE JobCloses
  BY <1>9 DEF JobCloses, Closed, OtherUnlocks
<1>10. CASE Opened
  BY <1>10 DEF Opened
<1>11. CASE Tick
  BY <1>11 DEF Tick
<1>12. CASE Reopens
  BY <1>12 DEF Reopens
<1>13. CASE Reopened
  BY <1>13 DEF Reopened
<1>14. CASE CloseAll
  BY <1>14 DEF CloseAll, Closed, OtherUnlocks
<1>15. CASE SoakOpens
  BY <1>15 DEF SoakOpens
<1>16. CASE SoakEnds
  BY <1>16 DEF SoakEnds
<1>17. CASE SoakAborted
  <2>1. soak \in {"holding", "closing"}
    BY <1>17, ObserverAssumption DEF SoakAborted
  <2> QED
    BY <1>17, <2>1 DEF SoakAborted
<1>18. CASE ConnectionBreaks
  BY <1>18 DEF ConnectionBreaks
<1>19. CASE OnConnectionLost
  BY <1>19 DEF OnConnectionLost
<1> QED
  BY <1>1, <1>2, <1>3, <1>4, <1>5, <1>6, <1>7, <1>8, <1>9, <1>10, <1>11, <1>12, <1>13, <1>14, <1>15, <1>16, <1>17, <1>18, <1>19
     DEF ObsNext, Job, Coroutine

\* A soak that is over holds nothing, unless it can be cancelled while a thread
\* opens an interface for it.
THEOREM SoakAlwaysLetsGo ==
  ASSUME Aborts \cap {"opening", "reopening"} = {}
  PROVE  ObsSpec => []SoakLetsGo
<1>1. ObsInit => LetsGoInv
  BY DEF ObsInit, LetsGoInv, Opens
<1>2. OwnTypes /\ HoldInv /\ LetsGoInv => SoakLetsGo
  BY DEF OwnTypes, HoldInv, LetsGoInv, SoakLetsGo, Working
<1>3. OwnTypes /\ HoldInv /\ LetsGoInv /\ [ObsNext]_<<vars, obsVars>> => LetsGoInv'
  BY LetsGoNext
<1> QED
  BY <1>1, <1>2, <1>3, HoldInvAlways, PTL DEF ObsSpec

\* The observer, its interface and the lock belong together to the end of the soak, unless
\* it can be cancelled while a thread opens an interface for it.
THEOREM ObserverInvAlways ==
  ASSUME Aborts \cap {"opening", "reopening"} = {}
  PROVE  ObsSpec => []ObserverInv
<1>1. ObsSpec => []SoakLetsGo
  BY SoakAlwaysLetsGo
<1> QED
  BY <1>1, ObserverTypes, LockIsWithInterface, PTL DEF ObserverInv

\* With an observer among them, too, the users of a port are kept apart.
THEOREM ObserverKeepsApart == ObsSpec => []SessionsKeepApart
BY ObserverImplementsRegistry, RegistryKeepsApart, PTL DEF RegistrySpec

-----------------------------------------------------------------------------
(* What is captured of the fleet.                                          *)

CapRecs == [at : {"idle", "waits", "over"} \cup Applying, want : SUBSET Serials,
            on : Serials \cup {NoSerial}]

CapTypes ==
  /\ capturing \in BOOLEAN /\ testing \in BOOLEAN
  /\ online \subseteq Serials /\ captured \subseteq Serials
  /\ refs \in [Serials -> Nat] /\ rec \in [Reconcilers -> CapRecs]
  /\ broken \in 0..MaxBroken

OnMonitor == \A r \in Reconcilers : rec[r].on # NoSerial <=> rec[r].at \in AtMonitor

\* The lock.
OneApplies ==
  \A r, q \in Reconcilers : rec[r].at \in Applying /\ rec[q].at \in Applying => r = q

\* The reference and the set agree but for whoever is at the monitor.
AtHold(r, s) ==
  /\ rec[r].on = s
  /\ \/ rec[r].at = "acquires" /\ s \notin captured /\ refs[s] = 0
     \/ rec[r].at = "acquired" /\ s \notin captured /\ refs[s] = 1
     \/ rec[r].at = "releases" /\ s \in captured /\ refs[s] = 1
     \/ rec[r].at = "released" /\ s \in captured /\ refs[s] = 0

HoldStands(s) ==
  \/ /\ \A r \in Reconcilers : rec[r].on # s
     /\ refs[s] = (IF s \in captured THEN 1 ELSE 0)
  \/ \E r \in Reconcilers : AtHold(r, s)

HoldsStand == broken = 0 => \A s \in Serials : HoldStands(s)

CaptureStands == CapTypes /\ OnMonitor /\ OneApplies /\ HoldsStand

\* The effect of a step on the record of a caller.
CallerGets(r, at, want, on) ==
  /\ rec' \in [Reconcilers -> CapRecs]
  /\ rec'[r].at = at /\ rec'[r].want = want /\ rec'[r].on = on
  /\ \A q \in Reconcilers \ {r} : rec'[q] = rec[q]

LEMMA CallerSet ==
  ASSUME CapTypes, NEW r \in Reconcilers, NEW v \in CapRecs, rec' = [rec EXCEPT ![r] = v]
  PROVE  CallerGets(r, v.at, v.want, v.on)
BY DEF CallerGets, CapTypes

LEMMA CallerIs ==
  ASSUME CapTypes, NEW r \in Reconcilers
  PROVE  rec[r] \in CapRecs /\ rec[r].want \subseteq Serials /\ rec[r].on \in Serials \cup {NoSerial}
BY DEF CapTypes, CapRecs

LEMMA CallerAsks ==
  ASSUME CapTypes, NEW r \in Reconcilers, NEW want \in SUBSET Serials, Asks(r, want)
  PROVE  CallerGets(r, "waits", want, NoSerial)
<1> DEFINE v == [Idle EXCEPT !.at = "waits", !.want = want]
<1>1. v \in CapRecs /\ v.at = "waits" /\ v.want = want /\ v.on = NoSerial
  BY DEF Idle, CapRecs
<1>2. rec' = [rec EXCEPT ![r] = v]
  BY DEF Asks
<1> HIDE DEF v
<1> QED
  BY <1>1, <1>2, CallerSet

LEMMA CallerApplies ==
  ASSUME CapTypes, NEW r \in Reconcilers, NEW want \in SUBSET Serials, Applies(r, want)
  PROVE  CallerGets(r, "applies", Gated(want), rec[r].on)
<1>0. PICK w \in SUBSET Serials : w = Gated(want)
  BY DEF Gated
<1> DEFINE v == [rec[r] EXCEPT !.at = "applies", !.want = w]
<1>1. v \in CapRecs /\ v.at = "applies" /\ v.want = w /\ v.on = rec[r].on
  BY CallerIs DEF CapRecs, Applying
<1>2. rec' = [rec EXCEPT ![r] = v]
  BY <1>0 DEF Applies
<1> HIDE DEF v
<1> QED
  BY <1>0, <1>1, <1>2, CallerSet

LEMMA CallerGoes ==
  ASSUME CapTypes, NEW r \in Reconcilers, NEW at \in Applying, NEW s \in Serials \cup {NoSerial},
         Goes(r, at, s)
  PROVE  CallerGets(r, at, rec[r].want, s)
<1> DEFINE v == [rec[r] EXCEPT !.at = at, !.on = s]
<1>1. v \in CapRecs /\ v.at = at /\ v.want = rec[r].want /\ v.on = s
  BY CallerIs DEF CapRecs
<1>2. rec' = [rec EXCEPT ![r] = v]
  BY DEF Goes
<1> HIDE DEF v
<1> QED
  BY <1>1, <1>2, CallerSet

LEMMA CallerLeaves ==
  ASSUME CapTypes, NEW r \in Reconcilers, Leaves(r)
  PROVE  \E at \in {"idle", "over"} : CallerGets(r, at, {}, NoSerial)
<1>0. PICK at \in {"idle", "over"} : at = IF r = "stop" THEN "over" ELSE "idle"
  OBVIOUS
<1> DEFINE v == [Idle EXCEPT !.at = at]
<1>1. v \in CapRecs /\ v.at = at /\ v.want = {} /\ v.on = NoSerial
  BY <1>0 DEF Idle, CapRecs
<1>2. rec' = [rec EXCEPT ![r] = v]
  BY <1>0 DEF Leaves
<1> HIDE DEF v
<1> QED
  BY <1>0, <1>1, <1>2, CallerSet

LEMMA CallerEnters ==
  ASSUME CapTypes, OnMonitor, NEW r \in Reconcilers, Enters(r)
  PROVE  \E at \in {"reads", "applies"}, want \in SUBSET Serials :
           CallerGets(r, at, want, NoSerial)
<1>1. rec[r].on = NoSerial
  BY DEF Enters, OnMonitor, AtMonitor
<1>2. CASE r = "reload"
  <2>0. online \in SUBSET Serials
    BY DEF CapTypes
  <2> DEFINE v == [rec[r] EXCEPT !.at = "reads", !.want = online]
  <2>1. v \in CapRecs /\ v.at = "reads" /\ v.want = online /\ v.on = NoSerial
    BY <1>1, <2>0, CallerIs DEF CapRecs, Applying
  <2>2. rec' = [rec EXCEPT ![r] = v]
    BY <1>2 DEF Enters
  <2> HIDE DEF v
  <2>3. CallerGets(r, "reads", online, NoSerial)
    BY <2>1, <2>2, CallerSet
  <2> QED
    BY <2>0, <2>3
<1>3. CASE r # "reload"
  <2>1. Applies(r, rec[r].want) /\ rec[r].want \in SUBSET Serials
    BY <1>3, CallerIs DEF Enters
  <2>2. CallerGets(r, "applies", Gated(rec[r].want), NoSerial)
    BY <1>1, <2>1, CallerApplies
  <2> QED
    BY <2>1, <2>2 DEF Gated
<1> QED
  BY <1>2, <1>3

\* What the forwarder keeps of the fleet has its types.
LEMMA NextCapTypes ==
  ASSUME CapTypes, OnMonitor, [CapNext]_capVars
  PROVE  CapTypes'
<1>1. CASE TestRunToggles
  BY <1>1 DEF TestRunToggles, CapTypes
<1>2. ASSUME NEW s \in Serials, DeviceChanges(s) PROVE CapTypes'
  BY <1>2 DEF DeviceChanges, CapTypes
<1>3. CASE ScanAsks
  <2>1. CallerGets("scan", "waits", online, NoSerial)
    BY <1>3, CallerAsks DEF ScanAsks, Reconcilers, CapTypes
  <2> QED
    BY <1>3, <2>1 DEF ScanAsks, CallerGets, CapTypes, othersOfApply, worldVars, Asks
<1>4. CASE ReloadAsks
  <2>1. CallerGets("reload", "waits", {}, NoSerial)
    BY <1>4, CallerAsks DEF ReloadAsks, Reconcilers
  <2> QED
    BY <1>4, <2>1 DEF ReloadAsks, CallerGets, CapTypes, othersOfApply, worldVars, Asks
<1>5. CASE StopAsks
  <2>1. CallerGets("stop", "waits", {}, NoSerial)
    BY <1>5, CallerAsks DEF StopAsks, Reconcilers
  <2> QED
    BY <1>5, <2>1 DEF StopAsks, CallerGets, CapTypes, othersOfApply, worldVars, Asks
<1>6. ASSUME NEW r \in Reconcilers, Enters(r) PROVE CapTypes'
  <2>1. \E at \in {"reads", "applies"}, want \in SUBSET Serials : CallerGets(r, at, want, NoSerial)
    BY <1>6, CallerEnters DEF Enters
  <2> QED
    BY <1>6, <2>1 DEF Enters, CallerGets, CapTypes, othersOfApply, worldVars, Asks
<1>7. ASSUME NEW r \in Reconcilers, NEW s \in Serials, AcquireBegins(r, s) PROVE CapTypes'
  <2>1. CallerGets(r, "acquires", rec[r].want, s)
    BY <1>7, CallerGoes DEF AcquireBegins, Applying, AtMonitor
  <2> QED
    BY <1>7, <2>1 DEF AcquireBegins, CallerGets, CapTypes, othersOfApply, worldVars, Asks
<1>8. ASSUME NEW r \in Reconcilers, NEW s \in Serials, ReleaseBegins(r, s) PROVE CapTypes'
  <2>1. CallerGets(r, "releases", rec[r].want, s)
    BY <1>8, CallerGoes DEF ReleaseBegins, Applying, AtMonitor
  <2> QED
    BY <1>8, <2>1 DEF ReleaseBegins, CallerGets, CapTypes, othersOfApply, worldVars, Asks
<1>9. ASSUME NEW r \in Reconcilers, AcquireCounts(r) PROVE CapTypes'
  <2>1. CallerGets(r, "acquired", rec[r].want, rec[r].on)
    BY <1>9, CallerGoes, CallerIs DEF AcquireCounts, Applying, AtMonitor
  <2>2. rec[r].at = "acquires"
    BY <1>9 DEF AcquireCounts
  <2>3. rec[r].on \in Serials
    BY <2>2, CallerIs DEF OnMonitor, AtMonitor
  <2>4. PICK n : n = refs[rec[r].on] + 1
    OBVIOUS
  <2>5. n \in Nat
    BY <2>3, <2>4 DEF CapTypes
  <2>6. refs' = [refs EXCEPT ![rec[r].on] = n]
    BY <1>9, <2>4 DEF AcquireCounts
  <2>7. refs' \in [Serials -> Nat]
    BY <2>5, <2>6 DEF CapTypes
  <2> QED
    BY <1>9, <2>1, <2>7 DEF AcquireCounts, CallerGets, CapTypes, othersOfApply, worldVars
<1>10. ASSUME NEW r \in Reconcilers, AcquireEnds(r) PROVE CapTypes'
  <2>1. CallerGets(r, "applies", rec[r].want, NoSerial)
    BY <1>10, CallerGoes DEF AcquireEnds, Applying
  <2>2. rec[r].at = "acquired"
    BY <1>10 DEF AcquireEnds
  <2>3. captured' \subseteq Serials
    BY <1>10, <2>2, CallerIs DEF AcquireEnds, OnMonitor, AtMonitor, CapTypes
  <2> QED
    BY <1>10, <2>1, <2>3 DEF AcquireEnds, CallerGets, CapTypes, othersOfApply, worldVars
<1>11. ASSUME NEW r \in Reconcilers, ReleaseCounts(r) PROVE CapTypes'
  <2>1. CallerGets(r, "released", rec[r].want, rec[r].on)
    BY <1>11, CallerGoes, CallerIs DEF ReleaseCounts, Applying, AtMonitor
  <2>2. rec[r].at = "releases"
    BY <1>11 DEF ReleaseCounts
  <2>3. rec[r].on \in Serials
    BY <2>2, CallerIs DEF OnMonitor, AtMonitor
  <2>4. PICK n : n = IF refs[rec[r].on] = 0 THEN 0 ELSE refs[rec[r].on] - 1
    OBVIOUS
  <2>5. n \in Nat
    BY <2>3, <2>4 DEF CapTypes
  <2>6. refs' = [refs EXCEPT ![rec[r].on] = n]
    BY <1>11, <2>4 DEF ReleaseCounts
  <2>7. refs' \in [Serials -> Nat]
    BY <2>5, <2>6 DEF CapTypes
  <2> QED
    BY <1>11, <2>1, <2>7 DEF ReleaseCounts, CallerGets, CapTypes, othersOfApply, worldVars
<1>12. ASSUME NEW r \in Reconcilers, ReleaseEnds(r) PROVE CapTypes'
  <2>1. CallerGets(r, "applies", rec[r].want, NoSerial)
    BY <1>12, CallerGoes DEF ReleaseEnds, Applying
  <2>2. rec[r].at = "released"
    BY <1>12 DEF ReleaseEnds
  <2>3. captured' \subseteq Serials
    BY <1>12, <2>2, CallerIs DEF ReleaseEnds, OnMonitor, AtMonitor, CapTypes
  <2> QED
    BY <1>12, <2>1, <2>3 DEF ReleaseEnds, CallerGets, CapTypes, othersOfApply, worldVars
<1>13. ASSUME NEW r \in Reconcilers, ApplyEnds(r) PROVE CapTypes'
  <2>1. \E at \in {"idle", "over"} : CallerGets(r, at, {}, NoSerial)
    BY <1>13, CallerLeaves DEF ApplyEnds
  <2> QED
    BY <1>13, <2>1 DEF ApplyEnds, CallerGets, CapTypes, othersOfApply, worldVars, Asks
<1>14. CASE ReloadReads
  <2>1. \E want : CallerGets("reload", "applies", want, rec["reload"].on)
    BY <1>14, CallerApplies, CallerIs DEF ReloadReads, Reconcilers
  <2> QED
    BY <1>14, <2>1 DEF ReloadReads, CallerGets, CapTypes, othersOfApply, worldVars, Asks
<1>15. ASSUME NEW r \in Reconcilers, ApplyBreaks(r) PROVE CapTypes'
  <2>1. \E at \in {"idle", "over"} : CallerGets(r, at, {}, NoSerial)
    BY <1>15, CallerLeaves DEF ApplyBreaks
  <2>2. broken' \in 0..MaxBroken
    BY <1>15, CaptureAssumption DEF ApplyBreaks, CapTypes
  <2> QED
    BY <1>15, <2>1, <2>2 DEF ApplyBreaks, CallerGets, CapTypes, othersOfApply, worldVars
<1>16. CASE UNCHANGED capVars
  BY <1>16 DEF capVars, CapTypes
<1> QED
  BY <1>1, <1>2, <1>3, <1>4, <1>5, <1>6, <1>7, <1>8, <1>9, <1>10, <1>11, <1>12, <1>13, <1>14, <1>15, <1>16 DEF CapNext, Apply

\* A caller names the monitor it is at.
LEMMA NextOnMonitor ==
  ASSUME CapTypes, OnMonitor, [CapNext]_capVars
  PROVE  OnMonitor'
<1>1. CASE TestRunToggles
  BY <1>1 DEF TestRunToggles, OnMonitor
<1>2. ASSUME NEW s \in Serials, DeviceChanges(s) PROVE OnMonitor'
  BY <1>2 DEF DeviceChanges, OnMonitor
<1>3. CASE ScanAsks
  <2>1. CallerGets("scan", "waits", online, NoSerial)
    BY <1>3, CallerAsks DEF ScanAsks, Reconcilers, CapTypes
  <2>2. rec["scan"].at = "idle"
    BY <1>3 DEF ScanAsks, Asks
  <2>3. rec'["scan"].on # NoSerial <=> rec'["scan"].at \in AtMonitor
    BY <2>1, <2>2, CaptureAssumption DEF CallerGets, OnMonitor, AtMonitor, Reconcilers
  <2> QED
    BY <2>1, <2>3 DEF CallerGets, OnMonitor, Reconcilers
<1>4. CASE ReloadAsks
  <2>1. CallerGets("reload", "waits", {}, NoSerial)
    BY <1>4, CallerAsks DEF ReloadAsks, Reconcilers
  <2>2. rec["reload"].at = "idle"
    BY <1>4 DEF ReloadAsks, Asks
  <2>3. rec'["reload"].on # NoSerial <=> rec'["reload"].at \in AtMonitor
    BY <2>1, <2>2, CaptureAssumption DEF CallerGets, OnMonitor, AtMonitor, Reconcilers
  <2> QED
    BY <2>1, <2>3 DEF CallerGets, OnMonitor, Reconcilers
<1>5. CASE StopAsks
  <2>1. CallerGets("stop", "waits", {}, NoSerial)
    BY <1>5, CallerAsks DEF StopAsks, Reconcilers
  <2>2. rec["stop"].at = "idle"
    BY <1>5 DEF StopAsks, Asks
  <2>3. rec'["stop"].on # NoSerial <=> rec'["stop"].at \in AtMonitor
    BY <2>1, <2>2, CaptureAssumption DEF CallerGets, OnMonitor, AtMonitor, Reconcilers
  <2> QED
    BY <2>1, <2>3 DEF CallerGets, OnMonitor, Reconcilers
<1>6. ASSUME NEW r \in Reconcilers, Enters(r) PROVE OnMonitor'
  <2>1. \E at \in {"reads", "applies"}, want \in SUBSET Serials : CallerGets(r, at, want, NoSerial)
    BY <1>6, CallerEnters DEF Enters
  <2>2. rec[r].at = "waits" /\ CaptureLockFree
    BY <1>6 DEF Enters
  <2>3. rec'[r].on # NoSerial <=> rec'[r].at \in AtMonitor
    BY <2>1, <2>2, CaptureAssumption DEF CallerGets, OnMonitor, AtMonitor, Reconcilers
  <2> QED
    BY <2>1, <2>3 DEF CallerGets, OnMonitor, Reconcilers
<1>7. ASSUME NEW r \in Reconcilers, NEW s \in Serials, AcquireBegins(r, s) PROVE OnMonitor'
  <2>1. CallerGets(r, "acquires", rec[r].want, s)
    BY <1>7, CallerGoes DEF AcquireBegins, Applying, AtMonitor
  <2>2. rec[r].at = "applies" /\ s \notin captured
    BY <1>7 DEF AcquireBegins
  <2>3. rec'[r].on # NoSerial <=> rec'[r].at \in AtMonitor
    BY <2>1, <2>2, CaptureAssumption DEF CallerGets, OnMonitor, AtMonitor, Reconcilers
  <2> QED
    BY <2>1, <2>3 DEF CallerGets, OnMonitor, Reconcilers
<1>8. ASSUME NEW r \in Reconcilers, NEW s \in Serials, ReleaseBegins(r, s) PROVE OnMonitor'
  <2>1. CallerGets(r, "releases", rec[r].want, s)
    BY <1>8, CallerGoes DEF ReleaseBegins, Applying, AtMonitor
  <2>2. rec[r].at = "applies" /\ s \in captured
    BY <1>8 DEF ReleaseBegins
  <2>3. rec'[r].on # NoSerial <=> rec'[r].at \in AtMonitor
    BY <2>1, <2>2, CaptureAssumption DEF CallerGets, OnMonitor, AtMonitor, Reconcilers
  <2> QED
    BY <2>1, <2>3 DEF CallerGets, OnMonitor, Reconcilers
<1>9. ASSUME NEW r \in Reconcilers, AcquireCounts(r) PROVE OnMonitor'
  <2>1. CallerGets(r, "acquired", rec[r].want, rec[r].on)
    BY <1>9, CallerGoes, CallerIs DEF AcquireCounts, Applying, AtMonitor
  <2>2. rec[r].at = "acquires"
    BY <1>9 DEF AcquireCounts
  <2>3. rec'[r].on # NoSerial <=> rec'[r].at \in AtMonitor
    BY <2>1, <2>2, CaptureAssumption DEF CallerGets, OnMonitor, AtMonitor, Reconcilers
  <2> QED
    BY <2>1, <2>3 DEF CallerGets, OnMonitor, Reconcilers
<1>10. ASSUME NEW r \in Reconcilers, AcquireEnds(r) PROVE OnMonitor'
  <2>1. CallerGets(r, "applies", rec[r].want, NoSerial)
    BY <1>10, CallerGoes DEF AcquireEnds, Applying
  <2>2. rec[r].at = "acquired"
    BY <1>10 DEF AcquireEnds
  <2>3. rec'[r].on # NoSerial <=> rec'[r].at \in AtMonitor
    BY <2>1, <2>2, CaptureAssumption DEF CallerGets, OnMonitor, AtMonitor, Reconcilers
  <2> QED
    BY <2>1, <2>3 DEF CallerGets, OnMonitor, Reconcilers
<1>11. ASSUME NEW r \in Reconcilers, ReleaseCounts(r) PROVE OnMonitor'
  <2>1. CallerGets(r, "released", rec[r].want, rec[r].on)
    BY <1>11, CallerGoes, CallerIs DEF ReleaseCounts, Applying, AtMonitor
  <2>2. rec[r].at = "releases"
    BY <1>11 DEF ReleaseCounts
  <2>3. rec'[r].on # NoSerial <=> rec'[r].at \in AtMonitor
    BY <2>1, <2>2, CaptureAssumption DEF CallerGets, OnMonitor, AtMonitor, Reconcilers
  <2> QED
    BY <2>1, <2>3 DEF CallerGets, OnMonitor, Reconcilers
<1>12. ASSUME NEW r \in Reconcilers, ReleaseEnds(r) PROVE OnMonitor'
  <2>1. CallerGets(r, "applies", rec[r].want, NoSerial)
    BY <1>12, CallerGoes DEF ReleaseEnds, Applying
  <2>2. rec[r].at = "released"
    BY <1>12 DEF ReleaseEnds
  <2>3. rec'[r].on # NoSerial <=> rec'[r].at \in AtMonitor
    BY <2>1, <2>2, CaptureAssumption DEF CallerGets, OnMonitor, AtMonitor, Reconcilers
  <2> QED
    BY <2>1, <2>3 DEF CallerGets, OnMonitor, Reconcilers
<1>13. ASSUME NEW r \in Reconcilers, ApplyEnds(r) PROVE OnMonitor'
  <2>1. \E at \in {"idle", "over"} : CallerGets(r, at, {}, NoSerial)
    BY <1>13, CallerLeaves DEF ApplyEnds
  <2>2. rec[r].at = "applies"
    BY <1>13 DEF ApplyEnds
  <2>3. rec'[r].on # NoSerial <=> rec'[r].at \in AtMonitor
    BY <2>1, <2>2, CaptureAssumption DEF CallerGets, OnMonitor, AtMonitor, Reconcilers
  <2> QED
    BY <2>1, <2>3 DEF CallerGets, OnMonitor, Reconcilers
<1>14. CASE ReloadReads
  <2>1. \E want : CallerGets("reload", "applies", want, rec["reload"].on)
    BY <1>14, CallerApplies, CallerIs DEF ReloadReads, Reconcilers
  <2>2. rec["reload"].at = "reads"
    BY <1>14 DEF ReloadReads
  <2>3. rec'["reload"].on # NoSerial <=> rec'["reload"].at \in AtMonitor
    BY <2>1, <2>2, CaptureAssumption DEF CallerGets, OnMonitor, AtMonitor, Reconcilers
  <2> QED
    BY <2>1, <2>3 DEF CallerGets, OnMonitor, Reconcilers
<1>15. ASSUME NEW r \in Reconcilers, ApplyBreaks(r) PROVE OnMonitor'
  <2>1. \E at \in {"idle", "over"} : CallerGets(r, at, {}, NoSerial)
    BY <1>15, CallerLeaves DEF ApplyBreaks
  <2>2. rec[r].at \in AtMonitor
    BY <1>15 DEF ApplyBreaks
  <2>3. rec'[r].on # NoSerial <=> rec'[r].at \in AtMonitor
    BY <2>1, <2>2, CaptureAssumption DEF CallerGets, OnMonitor, AtMonitor, Reconcilers
  <2> QED
    BY <2>1, <2>3 DEF CallerGets, OnMonitor, Reconcilers
<1>16. CASE UNCHANGED capVars
  BY <1>16 DEF capVars, OnMonitor
<1> QED
  BY <1>1, <1>2, <1>3, <1>4, <1>5, <1>6, <1>7, <1>8, <1>9, <1>10, <1>11, <1>12, <1>13, <1>14, <1>15, <1>16 DEF CapNext, Apply

\* The set is worked on by one caller at a time.
LEMMA NextOneApplies ==
  ASSUME CapTypes, OnMonitor, OneApplies, [CapNext]_capVars
  PROVE  OneApplies'
<1>1. CASE TestRunToggles
  BY <1>1 DEF TestRunToggles, OneApplies
<1>2. ASSUME NEW s \in Serials, DeviceChanges(s) PROVE OneApplies'
  BY <1>2 DEF DeviceChanges, OneApplies
<1>3. CASE ScanAsks
  <2>1. CallerGets("scan", "waits", online, NoSerial)
    BY <1>3, CallerAsks DEF ScanAsks, Reconcilers, CapTypes
  <2>2. rec["scan"].at = "idle"
    BY <1>3 DEF ScanAsks, Asks
  <2>3. rec'["scan"].at \in Applying => rec["scan"].at \in Applying
    BY <2>1, <2>2 DEF CallerGets, Applying, AtMonitor
  <2> QED
    BY <2>1, <2>3 DEF CallerGets, OneApplies, Reconcilers
<1>4. CASE ReloadAsks
  <2>1. CallerGets("reload", "waits", {}, NoSerial)
    BY <1>4, CallerAsks DEF ReloadAsks, Reconcilers
  <2>2. rec["reload"].at = "idle"
    BY <1>4 DEF ReloadAsks, Asks
  <2>3. rec'["reload"].at \in Applying => rec["reload"].at \in Applying
    BY <2>1, <2>2 DEF CallerGets, Applying, AtMonitor
  <2> QED
    BY <2>1, <2>3 DEF CallerGets, OneApplies, Reconcilers
<1>5. CASE StopAsks
  <2>1. CallerGets("stop", "waits", {}, NoSerial)
    BY <1>5, CallerAsks DEF StopAsks, Reconcilers
  <2>2. rec["stop"].at = "idle"
    BY <1>5 DEF StopAsks, Asks
  <2>3. rec'["stop"].at \in Applying => rec["stop"].at \in Applying
    BY <2>1, <2>2 DEF CallerGets, Applying, AtMonitor
  <2> QED
    BY <2>1, <2>3 DEF CallerGets, OneApplies, Reconcilers
<1>6. ASSUME NEW r \in Reconcilers, Enters(r) PROVE OneApplies'
  <2>1. \E at \in {"reads", "applies"}, want \in SUBSET Serials : CallerGets(r, at, want, NoSerial)
    BY <1>6, CallerEnters DEF Enters
  <2>2. rec[r].at = "waits" /\ CaptureLockFree
    BY <1>6 DEF Enters
  <2>3. \A q \in Reconcilers : rec[q].at \notin Applying
    BY <2>1, <2>2 DEF CallerGets, Applying, AtMonitor, CaptureLockFree
  <2> QED
    BY <2>1, <2>3 DEF CallerGets, OneApplies, Reconcilers
<1>7. ASSUME NEW r \in Reconcilers, NEW s \in Serials, AcquireBegins(r, s) PROVE OneApplies'
  <2>1. CallerGets(r, "acquires", rec[r].want, s)
    BY <1>7, CallerGoes DEF AcquireBegins, Applying, AtMonitor
  <2>2. rec[r].at = "applies" /\ s \notin captured
    BY <1>7 DEF AcquireBegins
  <2>3. rec'[r].at \in Applying => rec[r].at \in Applying
    BY <2>1, <2>2 DEF CallerGets, Applying, AtMonitor
  <2> QED
    BY <2>1, <2>3 DEF CallerGets, OneApplies, Reconcilers
<1>8. ASSUME NEW r \in Reconcilers, NEW s \in Serials, ReleaseBegins(r, s) PROVE OneApplies'
  <2>1. CallerGets(r, "releases", rec[r].want, s)
    BY <1>8, CallerGoes DEF ReleaseBegins, Applying, AtMonitor
  <2>2. rec[r].at = "applies" /\ s \in captured
    BY <1>8 DEF ReleaseBegins
  <2>3. rec'[r].at \in Applying => rec[r].at \in Applying
    BY <2>1, <2>2 DEF CallerGets, Applying, AtMonitor
  <2> QED
    BY <2>1, <2>3 DEF CallerGets, OneApplies, Reconcilers
<1>9. ASSUME NEW r \in Reconcilers, AcquireCounts(r) PROVE OneApplies'
  <2>1. CallerGets(r, "acquired", rec[r].want, rec[r].on)
    BY <1>9, CallerGoes, CallerIs DEF AcquireCounts, Applying, AtMonitor
  <2>2. rec[r].at = "acquires"
    BY <1>9 DEF AcquireCounts
  <2>3. rec'[r].at \in Applying => rec[r].at \in Applying
    BY <2>1, <2>2 DEF CallerGets, Applying, AtMonitor
  <2> QED
    BY <2>1, <2>3 DEF CallerGets, OneApplies, Reconcilers
<1>10. ASSUME NEW r \in Reconcilers, AcquireEnds(r) PROVE OneApplies'
  <2>1. CallerGets(r, "applies", rec[r].want, NoSerial)
    BY <1>10, CallerGoes DEF AcquireEnds, Applying
  <2>2. rec[r].at = "acquired"
    BY <1>10 DEF AcquireEnds
  <2>3. rec'[r].at \in Applying => rec[r].at \in Applying
    BY <2>1, <2>2 DEF CallerGets, Applying, AtMonitor
  <2> QED
    BY <2>1, <2>3 DEF CallerGets, OneApplies, Reconcilers
<1>11. ASSUME NEW r \in Reconcilers, ReleaseCounts(r) PROVE OneApplies'
  <2>1. CallerGets(r, "released", rec[r].want, rec[r].on)
    BY <1>11, CallerGoes, CallerIs DEF ReleaseCounts, Applying, AtMonitor
  <2>2. rec[r].at = "releases"
    BY <1>11 DEF ReleaseCounts
  <2>3. rec'[r].at \in Applying => rec[r].at \in Applying
    BY <2>1, <2>2 DEF CallerGets, Applying, AtMonitor
  <2> QED
    BY <2>1, <2>3 DEF CallerGets, OneApplies, Reconcilers
<1>12. ASSUME NEW r \in Reconcilers, ReleaseEnds(r) PROVE OneApplies'
  <2>1. CallerGets(r, "applies", rec[r].want, NoSerial)
    BY <1>12, CallerGoes DEF ReleaseEnds, Applying
  <2>2. rec[r].at = "released"
    BY <1>12 DEF ReleaseEnds
  <2>3. rec'[r].at \in Applying => rec[r].at \in Applying
    BY <2>1, <2>2 DEF CallerGets, Applying, AtMonitor
  <2> QED
    BY <2>1, <2>3 DEF CallerGets, OneApplies, Reconcilers
<1>13. ASSUME NEW r \in Reconcilers, ApplyEnds(r) PROVE OneApplies'
  <2>1. \E at \in {"idle", "over"} : CallerGets(r, at, {}, NoSerial)
    BY <1>13, CallerLeaves DEF ApplyEnds
  <2>2. rec[r].at = "applies"
    BY <1>13 DEF ApplyEnds
  <2>3. rec'[r].at \in Applying => rec[r].at \in Applying
    BY <2>1, <2>2 DEF CallerGets, Applying, AtMonitor
  <2> QED
    BY <2>1, <2>3 DEF CallerGets, OneApplies, Reconcilers
<1>14. CASE ReloadReads
  <2>1. \E want : CallerGets("reload", "applies", want, rec["reload"].on)
    BY <1>14, CallerApplies, CallerIs DEF ReloadReads, Reconcilers
  <2>2. rec["reload"].at = "reads"
    BY <1>14 DEF ReloadReads
  <2>3. rec'["reload"].at \in Applying => rec["reload"].at \in Applying
    BY <2>1, <2>2 DEF CallerGets, Applying, AtMonitor
  <2> QED
    BY <2>1, <2>3 DEF CallerGets, OneApplies, Reconcilers
<1>15. ASSUME NEW r \in Reconcilers, ApplyBreaks(r) PROVE OneApplies'
  <2>1. \E at \in {"idle", "over"} : CallerGets(r, at, {}, NoSerial)
    BY <1>15, CallerLeaves DEF ApplyBreaks
  <2>2. rec[r].at \in AtMonitor
    BY <1>15 DEF ApplyBreaks
  <2>3. rec'[r].at \in Applying => rec[r].at \in Applying
    BY <2>1, <2>2 DEF CallerGets, Applying, AtMonitor
  <2> QED
    BY <2>1, <2>3 DEF CallerGets, OneApplies, Reconcilers
<1>16. CASE UNCHANGED capVars
  BY <1>16 DEF capVars, OneApplies
<1> QED
  BY <1>1, <1>2, <1>3, <1>4, <1>5, <1>6, <1>7, <1>8, <1>9, <1>10, <1>11, <1>12, <1>13, <1>14, <1>15, <1>16 DEF CapNext, Apply

\* A hold at which nothing happens stands.
LEMMA HoldKept ==
  ASSUME NEW s \in Serials, HoldStands(s), refs'[s] = refs[s], s \in captured' <=> s \in captured,
         \A q \in Reconcilers : rec'[q] = rec[q] \/ (rec[q].on # s /\ rec'[q].on # s)
  PROVE  HoldStands(s)'
BY DEF HoldStands, AtHold

\* Whoever is at a monitor is alone there, and its hold is that of its place.
LEMMA HoldOf ==
  ASSUME CapTypes, OnMonitor, OneApplies, NEW r \in Reconcilers, rec[r].at \in AtMonitor,
         HoldStands(rec[r].on)
  PROVE  AtHold(r, rec[r].on) /\ \A q \in Reconcilers \ {r} : rec[q].on # rec[r].on
<1>1. rec[r].on # NoSerial
  BY DEF OnMonitor
<1>2. \A q \in Reconcilers \ {r} : rec[q].on # rec[r].on
  BY <1>1 DEF OnMonitor, OneApplies, Applying
<1>3. \A q \in Reconcilers : AtHold(q, rec[r].on) => q = r
  BY <1>2 DEF AtHold
<1> QED
  BY <1>2, <1>3 DEF HoldStands


\* References and set agree, as long as nothing broke off.
LEMMA NextHolds ==
  ASSUME CapTypes, OnMonitor, OneApplies, HoldsStand, [CapNext]_capVars
  PROVE  HoldsStand'
<1>1. CASE TestRunToggles
  BY <1>1 DEF TestRunToggles, HoldsStand, HoldStands, AtHold
<1>2. ASSUME NEW s \in Serials, DeviceChanges(s) PROVE HoldsStand'
  BY <1>2 DEF DeviceChanges, HoldsStand, HoldStands, AtHold
<1>3. CASE ScanAsks
  <2>1. CallerGets("scan", "waits", online, NoSerial)
    BY <1>3, CallerAsks DEF ScanAsks, Reconcilers, CapTypes
  <2>2. rec["scan"].at = "idle"
    BY <1>3 DEF ScanAsks, Asks
  <2>3. UNCHANGED <<captured, refs, broken>>
    BY <1>3 DEF ScanAsks, Asks
  <2>4. rec["scan"].on = NoSerial /\ rec'["scan"].on = NoSerial
    BY <2>1, <2>2 DEF CallerGets, OnMonitor, AtMonitor, Reconcilers
  <2>5. ASSUME broken = 0, NEW s \in Serials PROVE HoldStands(s)'
    BY <2>1, <2>3, <2>4, <2>5, CaptureAssumption, HoldKept DEF CallerGets, HoldsStand
  <2> QED
    BY <2>3, <2>5 DEF HoldsStand
<1>4. CASE ReloadAsks
  <2>1. CallerGets("reload", "waits", {}, NoSerial)
    BY <1>4, CallerAsks DEF ReloadAsks, Reconcilers
  <2>2. rec["reload"].at = "idle"
    BY <1>4 DEF ReloadAsks, Asks
  <2>3. UNCHANGED <<captured, refs, broken>>
    BY <1>4 DEF ReloadAsks, Asks
  <2>4. rec["reload"].on = NoSerial /\ rec'["reload"].on = NoSerial
    BY <2>1, <2>2 DEF CallerGets, OnMonitor, AtMonitor, Reconcilers
  <2>5. ASSUME broken = 0, NEW s \in Serials PROVE HoldStands(s)'
    BY <2>1, <2>3, <2>4, <2>5, CaptureAssumption, HoldKept DEF CallerGets, HoldsStand
  <2> QED
    BY <2>3, <2>5 DEF HoldsStand
<1>5. CASE StopAsks
  <2>1. CallerGets("stop", "waits", {}, NoSerial)
    BY <1>5, CallerAsks DEF StopAsks, Reconcilers
  <2>2. rec["stop"].at = "idle"
    BY <1>5 DEF StopAsks, Asks
  <2>3. UNCHANGED <<captured, refs, broken>>
    BY <1>5 DEF StopAsks, Asks
  <2>4. rec["stop"].on = NoSerial /\ rec'["stop"].on = NoSerial
    BY <2>1, <2>2 DEF CallerGets, OnMonitor, AtMonitor, Reconcilers
  <2>5. ASSUME broken = 0, NEW s \in Serials PROVE HoldStands(s)'
    BY <2>1, <2>3, <2>4, <2>5, CaptureAssumption, HoldKept DEF CallerGets, HoldsStand
  <2> QED
    BY <2>3, <2>5 DEF HoldsStand
<1>6. ASSUME NEW r \in Reconcilers, Enters(r) PROVE HoldsStand'
  <2>1. \E at \in {"reads", "applies"}, want \in SUBSET Serials : CallerGets(r, at, want, NoSerial)
    BY <1>6, CallerEnters DEF Enters
  <2>2. rec[r].at = "waits" /\ CaptureLockFree
    BY <1>6 DEF Enters
  <2>3. UNCHANGED <<captured, refs, broken>>
    BY <1>6 DEF Enters, Asks
  <2>4. rec[r].on = NoSerial /\ rec'[r].on = NoSerial
    BY <2>1, <2>2 DEF CallerGets, OnMonitor, AtMonitor, Reconcilers
  <2>5. ASSUME broken = 0, NEW s \in Serials PROVE HoldStands(s)'
    BY <2>1, <2>3, <2>4, <2>5, CaptureAssumption, HoldKept DEF CallerGets, HoldsStand
  <2> QED
    BY <2>3, <2>5 DEF HoldsStand
<1>7. ASSUME NEW r \in Reconcilers, NEW s \in Serials, AcquireBegins(r, s) PROVE HoldsStand'
  <2>1. CallerGets(r, "acquires", rec[r].want, s)
    BY <1>7, CallerGoes DEF AcquireBegins, Applying, AtMonitor
  <2>2. rec[r].at = "applies" /\ s \notin captured
    BY <1>7 DEF AcquireBegins
  <2>3. UNCHANGED <<captured, refs, broken>>
    BY <1>7 DEF AcquireBegins
  <2>4. rec[r].on = NoSerial /\ rec[r].at \in Applying
    BY <2>2 DEF OnMonitor, AtMonitor, Applying
  <2>5. \A q \in Reconcilers : rec[q].on = NoSerial
    BY <2>4 DEF OneApplies, OnMonitor, Applying
  <2>6. ASSUME broken = 0, NEW t \in Serials PROVE HoldStands(t)'
    <3>1. HoldStands(t) /\ \A q \in Reconcilers : rec[q].on # t
      BY <2>5, <2>6, CaptureAssumption DEF HoldsStand
    <3>2. CASE t = s
      <4>1. refs[t] = (IF t \in captured THEN 1 ELSE 0)
        BY <3>1 DEF HoldStands, AtHold
      <4> QED
        BY <2>1, <2>2, <2>3, <3>2, <4>1 DEF CallerGets, HoldStands, AtHold
    <3>3. CASE t # s
      BY <2>1, <2>3, <3>1, <3>3, HoldKept DEF CallerGets
    <3> QED
      BY <3>2, <3>3
  <2> QED
    BY <2>3, <2>6 DEF HoldsStand
<1>8. ASSUME NEW r \in Reconcilers, NEW s \in Serials, ReleaseBegins(r, s) PROVE HoldsStand'
  <2>1. CallerGets(r, "releases", rec[r].want, s)
    BY <1>8, CallerGoes DEF ReleaseBegins, Applying, AtMonitor
  <2>2. rec[r].at = "applies" /\ s \in captured
    BY <1>8 DEF ReleaseBegins
  <2>3. UNCHANGED <<captured, refs, broken>>
    BY <1>8 DEF ReleaseBegins
  <2>4. rec[r].on = NoSerial /\ rec[r].at \in Applying
    BY <2>2 DEF OnMonitor, AtMonitor, Applying
  <2>5. \A q \in Reconcilers : rec[q].on = NoSerial
    BY <2>4 DEF OneApplies, OnMonitor, Applying
  <2>6. ASSUME broken = 0, NEW t \in Serials PROVE HoldStands(t)'
    <3>1. HoldStands(t) /\ \A q \in Reconcilers : rec[q].on # t
      BY <2>5, <2>6, CaptureAssumption DEF HoldsStand
    <3>2. CASE t = s
      <4>1. refs[t] = (IF t \in captured THEN 1 ELSE 0)
        BY <3>1 DEF HoldStands, AtHold
      <4> QED
        BY <2>1, <2>2, <2>3, <3>2, <4>1 DEF CallerGets, HoldStands, AtHold
    <3>3. CASE t # s
      BY <2>1, <2>3, <3>1, <3>3, HoldKept DEF CallerGets
    <3> QED
      BY <3>2, <3>3
  <2> QED
    BY <2>3, <2>6 DEF HoldsStand
<1>9. ASSUME NEW r \in Reconcilers, AcquireCounts(r) PROVE HoldsStand'
  <2>1. CallerGets(r, "acquired", rec[r].want, rec[r].on)
    BY <1>9, CallerGoes, CallerIs DEF AcquireCounts, Applying, AtMonitor
  <2>2. rec[r].at = "acquires"
    BY <1>9 DEF AcquireCounts
  <2>3. rec[r].at \in AtMonitor /\ rec[r].on \in Serials /\ UNCHANGED broken
    BY <1>9, <2>2, CallerIs DEF AcquireCounts, OnMonitor, AtMonitor
  <2>4. ASSUME broken = 0 PROVE AtHold(r, rec[r].on) /\ \A q \in Reconcilers \ {r} : rec[q].on # rec[r].on
    BY <2>3, <2>4, HoldOf DEF HoldsStand
  <2>5. ASSUME NEW t \in Serials, t # rec[r].on PROVE refs'[t] = refs[t] /\ (t \in captured' <=> t \in captured)
    BY <1>9, <2>5 DEF AcquireCounts, CapTypes
  <2>6. ASSUME broken = 0 PROVE refs'[rec[r].on] = 1 /\ rec[r].on \notin captured'
    BY <1>9, <2>2, <2>3, <2>4, <2>6 DEF AcquireCounts, AtHold, CapTypes
  <2>7. ASSUME broken = 0, NEW t \in Serials PROVE HoldStands(t)'
    <3>1. CASE t = rec[r].on
      BY <2>1, <2>3, <2>4, <2>6, <2>7, <3>1, CaptureAssumption DEF CallerGets, HoldStands, AtHold
    <3>2. CASE t # rec[r].on
      <4>1. HoldStands(t)
        BY <2>7 DEF HoldsStand
      <4>2. \A q \in Reconcilers : rec'[q] = rec[q] \/ (rec[q].on # t /\ rec'[q].on # t)
        BY <2>1, <3>2, CaptureAssumption DEF CallerGets
      <4> QED
        BY <2>5, <3>2, <4>1, <4>2, HoldKept
    <3> QED
      BY <3>1, <3>2
  <2> QED
    BY <2>3, <2>7 DEF HoldsStand
<1>10. ASSUME NEW r \in Reconcilers, AcquireEnds(r) PROVE HoldsStand'
  <2>1. CallerGets(r, "applies", rec[r].want, NoSerial)
    BY <1>10, CallerGoes DEF AcquireEnds, Applying
  <2>2. rec[r].at = "acquired"
    BY <1>10 DEF AcquireEnds
  <2>3. rec[r].at \in AtMonitor /\ rec[r].on \in Serials /\ UNCHANGED broken
    BY <1>10, <2>2, CallerIs DEF AcquireEnds, OnMonitor, AtMonitor
  <2>4. ASSUME broken = 0 PROVE AtHold(r, rec[r].on) /\ \A q \in Reconcilers \ {r} : rec[q].on # rec[r].on
    BY <2>3, <2>4, HoldOf DEF HoldsStand
  <2>5. ASSUME NEW t \in Serials, t # rec[r].on PROVE refs'[t] = refs[t] /\ (t \in captured' <=> t \in captured)
    BY <1>10, <2>5 DEF AcquireEnds, CapTypes
  <2>6. ASSUME broken = 0 PROVE refs'[rec[r].on] = 1 /\ rec[r].on \in captured'
    BY <1>10, <2>2, <2>3, <2>4, <2>6 DEF AcquireEnds, AtHold, CapTypes
  <2>7. ASSUME broken = 0, NEW t \in Serials PROVE HoldStands(t)'
    <3>1. CASE t = rec[r].on
      BY <2>1, <2>3, <2>4, <2>6, <2>7, <3>1, CaptureAssumption DEF CallerGets, HoldStands, AtHold
    <3>2. CASE t # rec[r].on
      <4>1. HoldStands(t)
        BY <2>7 DEF HoldsStand
      <4>2. \A q \in Reconcilers : rec'[q] = rec[q] \/ (rec[q].on # t /\ rec'[q].on # t)
        BY <2>1, <3>2, CaptureAssumption DEF CallerGets
      <4> QED
        BY <2>5, <3>2, <4>1, <4>2, HoldKept
    <3> QED
      BY <3>1, <3>2
  <2> QED
    BY <2>3, <2>7 DEF HoldsStand
<1>11. ASSUME NEW r \in Reconcilers, ReleaseCounts(r) PROVE HoldsStand'
  <2>1. CallerGets(r, "released", rec[r].want, rec[r].on)
    BY <1>11, CallerGoes, CallerIs DEF ReleaseCounts, Applying, AtMonitor
  <2>2. rec[r].at = "releases"
    BY <1>11 DEF ReleaseCounts
  <2>3. rec[r].at \in AtMonitor /\ rec[r].on \in Serials /\ UNCHANGED broken
    BY <1>11, <2>2, CallerIs DEF ReleaseCounts, OnMonitor, AtMonitor
  <2>4. ASSUME broken = 0 PROVE AtHold(r, rec[r].on) /\ \A q \in Reconcilers \ {r} : rec[q].on # rec[r].on
    BY <2>3, <2>4, HoldOf DEF HoldsStand
  <2>5. ASSUME NEW t \in Serials, t # rec[r].on PROVE refs'[t] = refs[t] /\ (t \in captured' <=> t \in captured)
    BY <1>11, <2>5 DEF ReleaseCounts, CapTypes
  <2>6. ASSUME broken = 0 PROVE refs'[rec[r].on] = 0 /\ rec[r].on \in captured'
    BY <1>11, <2>2, <2>3, <2>4, <2>6 DEF ReleaseCounts, AtHold, CapTypes
  <2>7. ASSUME broken = 0, NEW t \in Serials PROVE HoldStands(t)'
    <3>1. CASE t = rec[r].on
      BY <2>1, <2>3, <2>4, <2>6, <2>7, <3>1, CaptureAssumption DEF CallerGets, HoldStands, AtHold
    <3>2. CASE t # rec[r].on
      <4>1. HoldStands(t)
        BY <2>7 DEF HoldsStand
      <4>2. \A q \in Reconcilers : rec'[q] = rec[q] \/ (rec[q].on # t /\ rec'[q].on # t)
        BY <2>1, <3>2, CaptureAssumption DEF CallerGets
      <4> QED
        BY <2>5, <3>2, <4>1, <4>2, HoldKept
    <3> QED
      BY <3>1, <3>2
  <2> QED
    BY <2>3, <2>7 DEF HoldsStand
<1>12. ASSUME NEW r \in Reconcilers, ReleaseEnds(r) PROVE HoldsStand'
  <2>1. CallerGets(r, "applies", rec[r].want, NoSerial)
    BY <1>12, CallerGoes DEF ReleaseEnds, Applying
  <2>2. rec[r].at = "released"
    BY <1>12 DEF ReleaseEnds
  <2>3. rec[r].at \in AtMonitor /\ rec[r].on \in Serials /\ UNCHANGED broken
    BY <1>12, <2>2, CallerIs DEF ReleaseEnds, OnMonitor, AtMonitor
  <2>4. ASSUME broken = 0 PROVE AtHold(r, rec[r].on) /\ \A q \in Reconcilers \ {r} : rec[q].on # rec[r].on
    BY <2>3, <2>4, HoldOf DEF HoldsStand
  <2>5. ASSUME NEW t \in Serials, t # rec[r].on PROVE refs'[t] = refs[t] /\ (t \in captured' <=> t \in captured)
    BY <1>12, <2>5 DEF ReleaseEnds, CapTypes
  <2>6. ASSUME broken = 0 PROVE refs'[rec[r].on] = 0 /\ rec[r].on \notin captured'
    BY <1>12, <2>2, <2>3, <2>4, <2>6 DEF ReleaseEnds, AtHold, CapTypes
  <2>7. ASSUME broken = 0, NEW t \in Serials PROVE HoldStands(t)'
    <3>1. CASE t = rec[r].on
      BY <2>1, <2>3, <2>4, <2>6, <2>7, <3>1, CaptureAssumption DEF CallerGets, HoldStands, AtHold
    <3>2. CASE t # rec[r].on
      <4>1. HoldStands(t)
        BY <2>7 DEF HoldsStand
      <4>2. \A q \in Reconcilers : rec'[q] = rec[q] \/ (rec[q].on # t /\ rec'[q].on # t)
        BY <2>1, <3>2, CaptureAssumption DEF CallerGets
      <4> QED
        BY <2>5, <3>2, <4>1, <4>2, HoldKept
    <3> QED
      BY <3>1, <3>2
  <2> QED
    BY <2>3, <2>7 DEF HoldsStand
<1>13. ASSUME NEW r \in Reconcilers, ApplyEnds(r) PROVE HoldsStand'
  <2>1. \E at \in {"idle", "over"} : CallerGets(r, at, {}, NoSerial)
    BY <1>13, CallerLeaves DEF ApplyEnds
  <2>2. rec[r].at = "applies"
    BY <1>13 DEF ApplyEnds
  <2>3. UNCHANGED <<captured, refs, broken>>
    BY <1>13 DEF ApplyEnds, Asks
  <2>4. rec[r].on = NoSerial /\ rec'[r].on = NoSerial
    BY <2>1, <2>2 DEF CallerGets, OnMonitor, AtMonitor, Reconcilers
  <2>5. ASSUME broken = 0, NEW s \in Serials PROVE HoldStands(s)'
    BY <2>1, <2>3, <2>4, <2>5, CaptureAssumption, HoldKept DEF CallerGets, HoldsStand
  <2> QED
    BY <2>3, <2>5 DEF HoldsStand
<1>14. CASE ReloadReads
  <2>1. \E want : CallerGets("reload", "applies", want, rec["reload"].on)
    BY <1>14, CallerApplies, CallerIs DEF ReloadReads, Reconcilers
  <2>2. rec["reload"].at = "reads"
    BY <1>14 DEF ReloadReads
  <2>3. UNCHANGED <<captured, refs, broken>>
    BY <1>14 DEF ReloadReads, Asks
  <2>4. rec["reload"].on = NoSerial /\ rec'["reload"].on = NoSerial
    BY <2>1, <2>2 DEF CallerGets, OnMonitor, AtMonitor, Reconcilers
  <2>5. ASSUME broken = 0, NEW s \in Serials PROVE HoldStands(s)'
    BY <2>1, <2>3, <2>4, <2>5, CaptureAssumption, HoldKept DEF CallerGets, HoldsStand
  <2> QED
    BY <2>3, <2>5 DEF HoldsStand
<1>15. ASSUME NEW r \in Reconcilers, ApplyBreaks(r) PROVE HoldsStand'
  <2>1. broken' # 0
    BY <1>15 DEF ApplyBreaks, CapTypes
  <2> QED
    BY <2>1 DEF HoldsStand
<1>16. CASE UNCHANGED capVars
  BY <1>16 DEF capVars, HoldsStand, HoldStands, AtHold
<1> QED
  BY <1>1, <1>2, <1>3, <1>4, <1>5, <1>6, <1>7, <1>8, <1>9, <1>10, <1>11, <1>12, <1>13, <1>14, <1>15, <1>16 DEF CapNext, Apply

LEMMA CaptureStandsInductive == CaptureStands /\ [CapNext]_capVars => CaptureStands'
BY NextCapTypes, NextOnMonitor, NextOneApplies, NextHolds DEF CaptureStands

LEMMA CaptureStandsImplies == CaptureStands => CapTypeOK /\ OneHoldEach
<1> SUFFICES ASSUME CaptureStands PROVE CapTypeOK /\ OneHoldEach
  OBVIOUS
<1>1. CapTypeOK
  BY DEF CaptureStands, CapTypes, CapRecs, OnMonitor, CapTypeOK
<1>2. ASSUME broken = 0, NEW s \in Serials
      PROVE  \/ refs[s] = IF s \in captured THEN 1 ELSE 0
             \/ \E r \in Reconcilers : rec[r].on = s /\ refs[s] <= 1
  BY <1>2 DEF CaptureStands, HoldsStand, HoldStands, AtHold
<1> QED
  BY <1>1, <1>2 DEF OneHoldEach

LEMMA CaptureStandsInit == CapInit => CaptureStands
<1> SUFFICES ASSUME CapInit PROVE CaptureStands
  OBVIOUS
<1>1. Idle \in CapRecs /\ Idle.on = NoSerial /\ Idle.at = "idle"
  BY DEF Idle, CapRecs
<1>2. rec \in [Reconcilers -> CapRecs] /\ \A r \in Reconcilers : rec[r] = Idle
  BY <1>1 DEF CapInit
<1>3. CapTypes
  <2>1. broken \in 0..MaxBroken
    BY CaptureAssumption DEF CapInit, CapFresh
  <2>2. refs \in [Serials -> Nat]
    BY DEF CapInit, CapFresh
  <2> QED
    BY <1>2, <2>1, <2>2 DEF CapInit, CapFresh, CapTypes
<1> QED
  BY <1>1, <1>2, <1>3, CaptureAssumption
  DEF CapInit, CapFresh, CaptureStands, OnMonitor, OneApplies, HoldsStand, HoldStands, AtMonitor, Applying

\* With any number of devices, however scans, reloads and the stop overlap: the forwarder
\* has one reference on each monitor of its set and none on another, but where an acquire
\* or a release broke off.
THEOREM OneHoldEachAlways == CapSpec => [](CapTypeOK /\ OneHoldEach)
<1>1. CapInit => CaptureStands
  BY CaptureStandsInit
<1>2. CaptureStands /\ [CapNext]_capVars => CaptureStands'
  BY CaptureStandsInductive
<1>3. CaptureStands => CapTypeOK /\ OneHoldEach
  BY CaptureStandsImplies
<1> QED
  BY <1>1, <1>2, <1>3, PTL DEF CapSpec

-----------------------------------------------------------------------------
(* What is shipped of a batch.                                             *)

\* Induction, with the numbers at which the hypothesis holds as a set.
LEMMA AllNumbers ==
  ASSUME NEW T \in SUBSET Nat, 0 \in T, \A n \in T : n + 1 \in T
  PROVE  T = Nat
<1> DEFINE R == {pair \in Nat \X Nat : pair[1] < pair[2]}
           U == Nat \ T
<1>1. IsWellFoundedOn(R, Nat)
  BY NatLessThanWellFounded DEF OpToRel
<1>2. SUFFICES ASSUME U # {} PROVE FALSE
  OBVIOUS
<1>3. PICK m \in U : \A k \in U : ~(<<k, m>> \in R)
  BY <1>1, <1>2, WFMin
<1>4. m \in Nat /\ m # 0
  BY <1>3
<1>5. m - 1 \in Nat /\ m - 1 < m
  BY <1>4
<1>6. m - 1 \in T
  BY <1>3, <1>5
<1> QED
  BY <1>3, <1>5, <1>6

\* And the sequences: what holds of the empty one and is kept by an append.
LEMMA AllSequences ==
  ASSUME NEW S, NEW T \in SUBSET Seq(S), <<>> \in T,
         \A q \in T, x \in S : Append(q, x) \in T
  PROVE  T = Seq(S)
<1> DEFINE N == {n \in Nat : \A q \in Seq(S) : Len(q) = n => q \in T}
<1>1. 0 \in N
  BY EmptySeq
<1>2. ASSUME NEW n \in N PROVE n + 1 \in N
  <2> SUFFICES ASSUME NEW q \in Seq(S), Len(q) = n + 1 PROVE q \in T
    OBVIOUS
  <2>1. q # <<>>
    BY EmptySeq
  <2>2. PICK p \in Seq(S), x \in S : q = Append(p, x)
    BY <2>1, SequenceEmptyOrAppend
  <2>3. Len(p) = n
    BY <2>2, AppendProperties, LenProperties
  <2> QED
    BY <1>2, <2>2, <2>3
<1>3. N = Nat
  <2> HIDE DEF N
  <2>1. N \in SUBSET Nat
    BY DEF N
  <2> QED
    BY <1>1, <1>2, <2>1, AllNumbers
<1> QED
  BY <1>3, LenProperties

\* One record more.
Step(q, x) == IF x \in Debug THEN q ELSE Append(q, x)

Keeps(recs, g) ==
  g = [i \in 0..Len(recs) |->
        IF i = 0 THEN <<>>
        ELSE IF recs[i] \in Debug THEN g[i - 1] ELSE Append(g[i - 1], recs[i])]

LEMMA PayloadsIs ==
  ASSUME NEW recs
  PROVE  Payloads(recs) = (CHOOSE g : Keeps(recs, g))[Len(recs)]
BY DEF Payloads, Keeps

LEMMA KeepsExists ==
  ASSUME NEW S, NEW recs \in Seq(S)
  PROVE  \E g : Keeps(recs, g)
<1> DEFINE Until(n, g) == g = [i \in 0..n |->
             IF i = 0 THEN <<>>
             ELSE IF recs[i] \in Debug THEN g[i - 1] ELSE Append(g[i - 1], recs[i])]
           T == {n \in Nat : \E g : Until(n, g)}
<1>1. 0 \in T
  <2> DEFINE g == [i \in 0..0 |-> <<>>]
  <2>1. Until(0, g)
    BY Z3
  <2> QED
    BY <2>1
<1>2. ASSUME NEW n \in T PROVE n + 1 \in T
  <2>1. PICK g : Until(n, g)
    BY <1>2
  <2>2. PICK v : v = (IF recs[n + 1] \in Debug THEN g[n] ELSE Append(g[n], recs[n + 1]))
    OBVIOUS
  <2> DEFINE h == [i \in 0..n + 1 |-> IF i = n + 1 THEN v ELSE g[i]]
  <2>3. n \in Nat
    OBVIOUS
  <2>4. \A i \in 0..n : g[i] = IF i = 0 THEN <<>>
             ELSE IF recs[i] \in Debug THEN g[i - 1] ELSE Append(g[i - 1], recs[i])
    BY <2>1
  <2>5. \A i \in 0..n + 1 : h[i] = IF i = n + 1 THEN v ELSE g[i]
    OBVIOUS
  <2>6. \A i \in 0..n + 1 : h[i] = IF i = 0 THEN <<>>
             ELSE IF recs[i] \in Debug THEN h[i - 1] ELSE Append(h[i - 1], recs[i])
    <3> HIDE DEF h
    <3> SUFFICES ASSUME NEW i \in 0..n + 1
                 PROVE  h[i] = IF i = 0 THEN <<>>
                          ELSE IF recs[i] \in Debug THEN h[i - 1] ELSE Append(h[i - 1], recs[i])
      OBVIOUS
    <3>1. CASE i = n + 1
      <4>1. i - 1 = n /\ n \in 0..n + 1 /\ n # n + 1 /\ i # 0
        BY <2>3, <3>1
      <4>2. h[i - 1] = g[n] /\ i # 0
        BY <2>5, <4>1, Zenon
      <4> QED
        BY <2>2, <2>5, <3>1, <4>2
    <3>2. CASE i # n + 1
      <4>1. i \in 0..n /\ h[i] = g[i] /\ (i # 0 => h[i - 1] = g[i - 1])
        BY <2>3, <2>5, <3>2
      <4> QED
        BY <2>4, <4>1
    <3> QED
      BY <3>1, <3>2
  <2>7. Until(n + 1, h)
    BY <2>6
  <2>8. n + 1 \in Nat
    BY <2>3
  <2> HIDE DEF h, Until
  <2> QED
    BY <2>7, <2>8
<1>3. T = Nat
  <2> HIDE DEF T
  <2>1. T \in SUBSET Nat
    BY DEF T
  <2> QED
    BY <1>1, <1>2, <2>1, AllNumbers
<1>4. Len(recs) \in Nat
  BY LenProperties
<1>5. PICK g : Until(Len(recs), g)
  BY <1>3, <1>4
<1> QED
  BY <1>5 DEF Keeps

\* The function of the definition, point by point.
LEMMA PayloadsBy ==
  ASSUME NEW S, NEW recs \in Seq(S)
  PROVE  \E g : /\ Payloads(recs) = g[Len(recs)] /\ g[0] = <<>>
                /\ \A i \in 1..Len(recs) : g[i] = Step(g[i - 1], recs[i])
<1>1. Keeps(recs, CHOOSE g : Keeps(recs, g))
  BY KeepsExists
<1>2. PICK g : g = (CHOOSE f : Keeps(recs, f))
  OBVIOUS
<1>3. Keeps(recs, g) /\ Payloads(recs) = g[Len(recs)]
  BY <1>1, <1>2, PayloadsIs
<1>4. Len(recs) \in Nat
  BY LenProperties
<1>5. \A i \in 0..Len(recs) :
        g[i] = IF i = 0 THEN <<>>
               ELSE IF recs[i] \in Debug THEN g[i - 1] ELSE Append(g[i - 1], recs[i])
  BY <1>3 DEF Keeps
<1>6. g[0] = <<>>
  BY <1>4, <1>5
<1>7. \A i \in 1..Len(recs) : g[i] = Step(g[i - 1], recs[i])
  BY <1>4, <1>5 DEF Step
<1> QED
  BY <1>3, <1>6, <1>7

LEMMA PayloadsOfNone == Payloads(<<>>) = <<>>
<1>1. PICK g : Payloads(<<>>) = g[Len(<<>>)] /\ g[0] = <<>>
  BY PayloadsBy, EmptySeq
<1> QED
  BY <1>1, EmptySeq

LEMMA PayloadsOfAppend ==
  ASSUME NEW S, NEW q \in Seq(S), NEW x \in S
  PROVE  Payloads(Append(q, x)) = Step(Payloads(q), x)
<1> DEFINE p == Append(q, x)
<1>1. /\ p \in Seq(S) /\ Len(p) = Len(q) + 1 /\ Len(q) \in Nat
      /\ \A i \in 1..Len(q) : p[i] = q[i]
      /\ p[Len(q) + 1] = x
  BY AppendProperties, LenProperties
<1> HIDE DEF p
<1>2. PICK g : /\ Payloads(q) = g[Len(q)] /\ g[0] = <<>>
               /\ \A i \in 1..Len(q) : g[i] = Step(g[i - 1], q[i])
  BY PayloadsBy
<1>3. PICK h : /\ Payloads(p) = h[Len(p)] /\ h[0] = <<>>
               /\ \A i \in 1..Len(p) : h[i] = Step(h[i - 1], p[i])
  BY <1>1, PayloadsBy
<1> DEFINE T == {n \in Nat : n <= Len(q) => g[n] = h[n]}
<1>4. 0 \in T
  BY <1>2, <1>3
<1>5. ASSUME NEW n \in T PROVE n + 1 \in T
  <2> SUFFICES ASSUME n + 1 <= Len(q) PROVE g[n + 1] = h[n + 1]
    OBVIOUS
  <2>1. g[n] = h[n] /\ n + 1 \in 1..Len(q) /\ n + 1 \in 1..Len(p) /\ n + 1 - 1 = n
    BY <1>1
  <2>2. g[n + 1] = Step(g[n], q[n + 1]) /\ h[n + 1] = Step(h[n], p[n + 1])
    BY <1>2, <1>3, <2>1
  <2> QED
    BY <1>1, <2>1, <2>2
<1>6. T = Nat
  <2> HIDE DEF T
  <2>1. T \in SUBSET Nat
    BY DEF T
  <2> QED
    BY <1>4, <1>5, <2>1, AllNumbers
<1>7. g[Len(q)] = h[Len(q)]
  BY <1>1, <1>6
<1>8. Len(p) \in 1..Len(p) /\ Len(p) - 1 = Len(q)
  BY <1>1
<1>9. h[Len(p)] = Step(h[Len(q)], p[Len(p)])
  BY <1>3, <1>8
<1> QED
  BY <1>1, <1>2, <1>3, <1>7, <1>9 DEF p

LEMMA PayloadsAreRecords ==
  ASSUME NEW S
  PROVE  \A q \in Seq(S) : Payloads(q) \in Seq(S)
<1> DEFINE T == {q \in Seq(S) : Payloads(q) \in Seq(S)}
<1>1. <<>> \in T
  BY PayloadsOfNone, EmptySeq
<1>2. ASSUME NEW q \in T, NEW x \in S PROVE Append(q, x) \in T
  <2>1. PICK k \in Seq(S) : k = Payloads(q)
    BY <1>2
  <2>2. Payloads(Append(q, x)) = Step(k, x)
    BY <1>2, <2>1, PayloadsOfAppend
  <2>3. Append(q, x) \in Seq(S) /\ Append(k, x) \in Seq(S)
    BY <1>2, AppendProperties
  <2> QED
    BY <2>1, <2>2, <2>3 DEF Step
<1>3. T = Seq(S)
  <2> HIDE DEF T
  <2>1. T \in SUBSET Seq(S)
    BY DEF T
  <2> QED
    BY <1>1, <1>2, <2>1, AllSequences
<1> QED
  BY <1>3

LEMMA AppendOfBoth ==
  ASSUME NEW S, NEW x \in S
  PROVE  \A p, q \in Seq(S) : Append(p \o q, x) = p \o Append(q, x)
<1> SUFFICES ASSUME NEW p \in Seq(S), NEW q \in Seq(S)
             PROVE  Append(p \o q, x) = p \o Append(q, x)
  OBVIOUS
<1> QED
  OBVIOUS

\* What is shipped of two batches is what is shipped of each.
LEMMA PayloadsOfBoth ==
  ASSUME NEW S, NEW p \in Seq(S)
  PROVE  \A q \in Seq(S) : Payloads(p \o q) = Payloads(p) \o Payloads(q)
<1> DEFINE T == {q \in Seq(S) : Payloads(p \o q) = Payloads(p) \o Payloads(q)}
<1>1. <<>> \in T
  BY PayloadsOfNone, PayloadsAreRecords, EmptySeq, ConcatEmptySeq
<1>2. ASSUME NEW q \in T, NEW x \in S PROVE Append(q, x) \in T
  <2>1. p \o Append(q, x) = Append(p \o q, x) /\ p \o q \in Seq(S) /\ Append(q, x) \in Seq(S)
    BY AppendProperties, ConcatProperties
  <2>2. Payloads(p \o Append(q, x)) = Step(Payloads(p) \o Payloads(q), x)
    BY <2>1, PayloadsOfAppend
  <2>3. Payloads(Append(q, x)) = Step(Payloads(q), x)
    BY PayloadsOfAppend
  <2>4. Payloads(p) \in Seq(S) /\ Payloads(q) \in Seq(S)
    BY PayloadsAreRecords
  <2>5. Append(Payloads(p) \o Payloads(q), x) = Payloads(p) \o Append(Payloads(q), x)
    <3>1. PICK a \in Seq(S), b \in Seq(S) : a = Payloads(p) /\ b = Payloads(q)
      BY <2>4, Zenon
    <3>2. Append(a \o b, x) = a \o Append(b, x)
      <4>1. \A c, d \in Seq(S) : Append(c \o d, x) = c \o Append(d, x)
        BY AppendOfBoth
      <4> QED
        BY <4>1
    <3> QED
      BY <3>1, <3>2, Zenon
  <2> QED
    BY <2>1, <2>2, <2>3, <2>5 DEF Step
<1>3. T = Seq(S)
  <2> HIDE DEF T
  <2>1. T \in SUBSET Seq(S)
    BY DEF T
  <2> QED
    BY <1>1, <1>2, <2>1, AllSequences
<1> QED
  BY <1>3

\* What was kept is kept.
LEMMA PayloadsTwice ==
  ASSUME NEW S
  PROVE  \A q \in Seq(S) : Payloads(Payloads(q)) = Payloads(q)
<1> DEFINE T == {q \in Seq(S) : Payloads(Payloads(q)) = Payloads(q)}
<1>1. <<>> \in T
  BY PayloadsOfNone, EmptySeq
<1>2. ASSUME NEW q \in T, NEW x \in S PROVE Append(q, x) \in T
  <2>1. Payloads(Append(q, x)) = Step(Payloads(q), x) /\ Append(q, x) \in Seq(S)
    BY PayloadsOfAppend, AppendProperties
  <2>2. Payloads(q) \in Seq(S)
    BY PayloadsAreRecords
  <2>3. Payloads(Append(Payloads(q), x)) = Step(Payloads(q), x)
    BY <2>2, PayloadsOfAppend
  <2> QED
    BY <2>1, <2>3 DEF Step
<1>3. T = Seq(S)
  <2> HIDE DEF T
  <2>1. T \in SUBSET Seq(S)
    BY DEF T
  <2> QED
    BY <1>1, <1>2, <2>1, AllSequences
<1> QED
  BY <1>3


-----------------------------------------------------------------------------
(* Records in their order.                                                 *)

Increasing(q) == \A i, j \in 1..Len(q) : i < j => q[i] < q[j]

\* The records of p come before those of q, are some of q's, are at most n.
Before(p, q) == \A i \in 1..Len(p), j \in 1..Len(q) : p[i] < q[j]
Within(p, q) == \A i \in 1..Len(p) : \E j \in 1..Len(q) : p[i] = q[j]
Below(p, n) == \A i \in 1..Len(p) : p[i] <= n

LEMMA WithinKeeps ==
  ASSUME NEW p, NEW q, Within(p, q)
  PROVE  /\ \A r : (Before(q, r) => Before(p, r)) /\ (Before(r, q) => Before(r, p))
         /\ \A n : Below(q, n) => Below(p, n)
BY DEF Within, Before, Below

LEMMA NoneInOrder ==
  /\ Increasing(<<>>)
  /\ \A r : Before(<<>>, r) /\ Before(r, <<>>)
  /\ \A n : Below(<<>>, n)
BY EmptySeq DEF Increasing, Before, Below

LEMMA RecordsAreNumbers ==
  ASSUME NEW S \in SUBSET Nat, NEW q \in Seq(S)
  PROVE  Len(q) \in Nat /\ \A i \in 1..Len(q) : q[i] \in S /\ q[i] \in Nat
BY LenProperties

\* A record that comes after all.
LEMMA AppendInOrder ==
  ASSUME NEW S \in SUBSET Nat, NEW q \in Seq(S), NEW n \in Nat, n + 1 \in S, Below(q, n)
  PROVE  /\ Increasing(q) => Increasing(Append(q, n + 1))
         /\ \A r \in Seq(S) : Before(r, q) /\ Below(r, n) => Before(r, Append(q, n + 1))
         /\ Below(Append(q, n + 1), n + 1)
<1> DEFINE p == Append(q, n + 1)
<1>1. /\ p \in Seq(S) /\ Len(p) = Len(q) + 1 /\ Len(q) \in Nat
      /\ \A i \in 1..Len(q) : p[i] = q[i] /\ q[i] \in Nat /\ q[i] <= n
      /\ p[Len(q) + 1] = n + 1
  <2>1. \A i \in 1..Len(q) : q[i] \in Nat /\ q[i] <= n
    BY RecordsAreNumbers DEF Below
  <2> QED
    BY <2>1, AppendProperties, LenProperties
<1> HIDE DEF p
<1>2. \A i \in 1..Len(p) : i \in 1..Len(q) \/ i = Len(q) + 1
  BY <1>1
<1>3. ASSUME Increasing(q) PROVE Increasing(p)
  <2> SUFFICES ASSUME NEW i \in 1..Len(p), NEW j \in 1..Len(p), i < j PROVE p[i] < p[j]
    BY DEF Increasing
  <2>1. i \in 1..Len(q)
    BY <1>1
  <2>2. CASE j \in 1..Len(q)
    BY <1>1, <1>3, <2>1, <2>2 DEF Increasing
  <2>3. CASE j = Len(q) + 1
    BY <1>1, <2>1, <2>3
  <2> QED
    BY <1>2, <2>2, <2>3
<1>4. ASSUME NEW r \in Seq(S), Before(r, q), Below(r, n) PROVE Before(r, p)
  <2> SUFFICES ASSUME NEW i \in 1..Len(r), NEW j \in 1..Len(p) PROVE r[i] < p[j]
    BY DEF Before
  <2>1. r[i] \in Nat /\ r[i] <= n
    BY <1>4, LenProperties DEF Below
  <2>2. CASE j \in 1..Len(q)
    BY <1>1, <1>4, <2>2 DEF Before
  <2>3. CASE j = Len(q) + 1
    BY <1>1, <2>1, <2>3
  <2> QED
    BY <1>2, <2>2, <2>3
<1>5. Below(p, n + 1)
  BY <1>1, <1>2 DEF Below
<1> QED
  BY <1>3, <1>4, <1>5 DEF p

LEMMA BelowMore ==
  ASSUME NEW S \in SUBSET Nat, NEW q \in Seq(S), NEW n \in Nat, Below(q, n)
  PROVE  Below(q, n + 1)
BY RecordsAreNumbers DEF Below

\* A queue without its oldest record.
LEMMA TailInOrder ==
  ASSUME NEW S \in SUBSET Nat, NEW q \in Seq(S), q # <<>>
  PROVE  /\ Tail(q) \in Seq(S) /\ Len(Tail(q)) = Len(q) - 1
         /\ Within(Tail(q), q)
         /\ Increasing(q) => Increasing(Tail(q))
<1> DEFINE p == Tail(q)
<1>1. p \in Seq(S) /\ Len(p) = Len(q) - 1 /\ \A i \in 1..Len(p) : p[i] = q[i + 1]
  BY HeadTailProperties
<1>2. Len(q) \in Nat
  BY LenProperties
<1> HIDE DEF p
<1>3. Within(p, q)
  BY <1>1, <1>2 DEF Within
<1>4. Increasing(q) => Increasing(p)
  BY <1>1, <1>2 DEF Increasing
<1> QED
  BY <1>1, <1>3, <1>4 DEF p

\* A queue cut in two.
Cut(q, n, a, b) == a = SubSeq(q, 1, n) /\ b = SubSeq(q, n + 1, Len(q))

LEMMA CutInOrder ==
  ASSUME NEW S \in SUBSET Nat, NEW q \in Seq(S), NEW n \in 0..Len(q),
         NEW a, NEW b, Cut(q, n, a, b)
  PROVE  /\ a \in Seq(S) /\ Len(a) = n /\ b \in Seq(S) /\ Len(b) = Len(q) - n
         /\ a \o b = q
         /\ Within(a, q) /\ Within(b, q)
         /\ Increasing(q) => Increasing(a) /\ Increasing(b) /\ Before(a, b)
<1>1. Len(q) \in Nat /\ \A i \in 1..Len(q) : q[i] \in S
  BY LenProperties
<1>2. a \in Seq(S) /\ Len(a) = n /\ \A i \in 1..n : a[i] = q[i]
  <2>1. 1 \in Int /\ n \in Int /\ \A i \in 1..n : q[i] \in S
    BY <1>1
  <2>2. /\ a \in Seq(S) /\ Len(a) = IF 1 <= n THEN n - 1 + 1 ELSE 0
        /\ \A i \in 1..n - 1 + 1 : a[i] = q[1 + i - 1]
    BY <2>1, SubSeqProperties DEF Cut
  <2> QED
    BY <2>1, <2>2
<1>3. /\ b \in Seq(S) /\ Len(b) = Len(q) - n
      /\ \A i \in 1..Len(q) - n : b[i] = q[n + i]
  <2>1. n + 1 \in Int /\ Len(q) \in Int /\ n \in Nat /\ \A i \in n + 1..Len(q) : q[i] \in S
    BY <1>1
  <2>2. /\ b \in Seq(S)
        /\ Len(b) = IF n + 1 <= Len(q) THEN Len(q) - (n + 1) + 1 ELSE 0
        /\ \A i \in 1..Len(q) - (n + 1) + 1 : b[i] = q[n + 1 + i - 1]
    BY <2>1, SubSeqProperties DEF Cut
  <2> QED
    BY <1>1, <2>1, <2>2
<1>4. a \o b = q
  <2>1. 1 \in 1..Len(q) + 1 /\ n \in 1 - 1..Len(q) /\ Len(q) \in n..Len(q)
    BY <1>1
  <2>2. a \o b = SubSeq(q, 1, Len(q))
    BY <2>1, ConcatAdjacentSubSeq DEF Cut
  <2> QED
    BY <2>2, SubSeqFull
<1>5. Within(a, q)
  BY <1>1, <1>2 DEF Within
<1>6. Within(b, q)
  <2> SUFFICES ASSUME NEW i \in 1..Len(b) PROVE \E j \in 1..Len(q) : b[i] = q[j]
    BY DEF Within
  <2>1. n + i \in 1..Len(q) /\ b[i] = q[n + i]
    BY <1>1, <1>3
  <2> QED
    BY <2>1
<1>7. ASSUME Increasing(q) PROVE Increasing(a) /\ Increasing(b) /\ Before(a, b)
  <2>1. Increasing(a)
    BY <1>1, <1>2, <1>7 DEF Increasing
  <2>2. Increasing(b)
    <3> SUFFICES ASSUME NEW i \in 1..Len(b), NEW j \in 1..Len(b), i < j PROVE b[i] < b[j]
      BY DEF Increasing
    <3>1. n + i \in 1..Len(q) /\ n + j \in 1..Len(q) /\ n + i < n + j
      BY <1>1, <1>3
    <3>2. q[n + i] < q[n + j]
      BY <1>7, <3>1 DEF Increasing
    <3> QED
      BY <1>3, <3>2
  <2>3. Before(a, b)
    <3> SUFFICES ASSUME NEW i \in 1..Len(a), NEW j \in 1..Len(b) PROVE a[i] < b[j]
      BY DEF Before
    <3>1. i \in 1..Len(q) /\ n + j \in 1..Len(q) /\ i < n + j
      BY <1>1, <1>2, <1>3
    <3>2. q[i] < q[n + j]
      BY <1>7, <3>1 DEF Increasing
    <3> QED
      BY <1>2, <1>3, <3>2
  <2> QED
    BY <2>1, <2>2, <2>3
<1> QED
  BY <1>2, <1>3, <1>4, <1>5, <1>6, <1>7

\* Two batches, one after the other.
LEMMA BothInOrder ==
  ASSUME NEW S \in SUBSET Nat, NEW p \in Seq(S), NEW q \in Seq(S)
  PROVE  /\ Increasing(p) /\ Increasing(q) /\ Before(p, q) => Increasing(p \o q)
         /\ \A r : Before(p, r) /\ Before(q, r) => Before(p \o q, r)
         /\ \A n : Below(p, n) /\ Below(q, n) => Below(p \o q, n)
<1> DEFINE b == p \o q
<1>1. /\ b \in Seq(S) /\ Len(b) = Len(p) + Len(q) /\ Len(p) \in Nat /\ Len(q) \in Nat
      /\ \A i \in 1..Len(p) + Len(q) : b[i] = IF i <= Len(p) THEN p[i] ELSE q[i - Len(p)]
  BY ConcatProperties, LenProperties
<1> HIDE DEF b
<1>2. ASSUME NEW i \in 1..Len(b)
      PROVE  \/ i \in 1..Len(p) /\ b[i] = p[i]
             \/ i - Len(p) \in 1..Len(q) /\ b[i] = q[i - Len(p)] /\ i > Len(p)
  BY <1>1
<1>3. ASSUME Increasing(p), Increasing(q), Before(p, q) PROVE Increasing(b)
  <2> SUFFICES ASSUME NEW i \in 1..Len(b), NEW j \in 1..Len(b), i < j PROVE b[i] < b[j]
    BY DEF Increasing
  <2>1. CASE j \in 1..Len(p)
    <3>1. i \in 1..Len(p) /\ b[i] = p[i] /\ b[j] = p[j]
      BY <1>1, <2>1
    <3> QED
      BY <1>3, <2>1, <3>1 DEF Increasing
  <2>2. CASE j \notin 1..Len(p)
    <3>1. j - Len(p) \in 1..Len(q) /\ b[j] = q[j - Len(p)]
      BY <1>2, <2>2
    <3>2. CASE i \in 1..Len(p) /\ b[i] = p[i]
      BY <1>3, <3>1, <3>2 DEF Before
    <3>3. CASE i - Len(p) \in 1..Len(q) /\ b[i] = q[i - Len(p)]
      <4>1. i - Len(p) < j - Len(p)
        BY <1>1
      <4> QED
        BY <1>3, <3>1, <3>3, <4>1 DEF Increasing
    <3> QED
      BY <1>2, <3>2, <3>3
  <2> QED
    BY <2>1, <2>2
<1>4. \A r : Before(p, r) /\ Before(q, r) => Before(b, r)
  BY <1>2 DEF Before
<1>5. \A n : Below(p, n) /\ Below(q, n) => Below(b, n)
  BY <1>2 DEF Below
<1> QED
  BY <1>3, <1>4, <1>5 DEF b

\* What is shipped of a batch is some of its records, in their order.
LEMMA PayloadsInOrder ==
  ASSUME NEW S \in SUBSET Nat
  PROVE  \A q \in Seq(S) :
           /\ Within(Payloads(q), q)
           /\ Increasing(q) => Increasing(Payloads(q))
<1> DEFINE T == {q \in Seq(S) : /\ Within(Payloads(q), q)
                                /\ Increasing(q) => Increasing(Payloads(q))}
<1>1. <<>> \in T
  BY PayloadsOfNone, EmptySeq DEF Increasing, Within
<1>2. ASSUME NEW q \in T, NEW x \in S PROVE Append(q, x) \in T
  <2> DEFINE p == Append(q, x)
  <2>1. /\ p \in Seq(S) /\ Len(p) = Len(q) + 1 /\ Len(q) \in Nat
        /\ \A i \in 1..Len(q) : p[i] = q[i]
        /\ p[Len(q) + 1] = x
    BY AppendProperties, LenProperties
  <2>2. Payloads(p) = Step(Payloads(q), x)
    BY PayloadsOfAppend
  <2> HIDE DEF p
  <2>3. PICK k \in Seq(S) : k = Payloads(q)
    BY PayloadsAreRecords
  <2>4. PICK l : l = Payloads(p)
    OBVIOUS
  <2>5. Within(k, q) /\ (Increasing(q) => Increasing(k))
    BY <1>2, <2>3
  <2>6. Increasing(p) => Increasing(q)
    BY <2>1 DEF Increasing
  <2>7. CASE x \in Debug
    <3>1. l = k
      BY <2>2, <2>3, <2>4, <2>7 DEF Step
    <3>2. Within(k, p)
      BY <2>1, <2>5 DEF Within
    <3>3. p \in T
      BY <2>1, <2>4, <2>5, <2>6, <3>1, <3>2
    <3> QED
      BY <3>3 DEF p
  <2>8. CASE x \notin Debug
    <3>1. l = Append(k, x)
      BY <2>2, <2>3, <2>4, <2>8 DEF Step
    <3>2. /\ Len(l) = Len(k) + 1 /\ Len(k) \in Nat
          /\ \A i \in 1..Len(k) : l[i] = k[i]
          /\ l[Len(k) + 1] = x
      BY <3>1, AppendProperties, LenProperties
    <3>3. ASSUME NEW i \in 1..Len(l) PROVE \E j \in 1..Len(p) : l[i] = p[j]
      <4>1. CASE i = Len(k) + 1
        BY <2>1, <3>2, <4>1
      <4>2. CASE i \in 1..Len(k)
        <5>1. PICK j \in 1..Len(q) : k[i] = q[j]
          BY <2>5, <4>2 DEF Within
        <5> QED
          BY <2>1, <3>2, <4>2, <5>1
      <4> QED
        BY <3>2, <4>1, <4>2
    <3>4. ASSUME Increasing(p) PROVE Increasing(l)
      <4>1. Increasing(k)
        BY <2>5, <2>6, <3>4
      <4>2. ASSUME NEW i \in 1..Len(k) PROVE k[i] < x
        <5>1. PICK j \in 1..Len(q) : k[i] = q[j]
          BY <2>5 DEF Within
        <5>2. j \in 1..Len(p) /\ Len(q) + 1 \in 1..Len(p) /\ j < Len(q) + 1
          BY <2>1
        <5>3. p[j] < p[Len(q) + 1]
          BY <3>4, <5>2 DEF Increasing
        <5> QED
          BY <2>1, <5>1, <5>3
      <4> SUFFICES ASSUME NEW i \in 1..Len(l), NEW j \in 1..Len(l), i < j PROVE l[i] < l[j]
        BY DEF Increasing
      <4>3. CASE j = Len(k) + 1
        <5>1. i \in 1..Len(k)
          BY <3>2, <4>3
        <5> QED
          BY <3>2, <4>2, <4>3, <5>1
      <4>4. CASE j # Len(k) + 1
        <5>1. i \in 1..Len(k) /\ j \in 1..Len(k)
          BY <3>2, <4>4
        <5> QED
          BY <3>2, <4>1, <5>1 DEF Increasing
      <4> QED
        BY <4>3, <4>4
    <3>5. Within(l, p)
      BY <3>3 DEF Within
    <3>6. p \in T
      BY <2>1, <2>4, <3>4, <3>5
    <3> QED
      BY <3>6 DEF p
  <2> QED
    BY <2>7, <2>8
<1>3. T = Seq(S)
  <2> HIDE DEF T
  <2>1. T \in SUBSET Seq(S)
    BY DEF T
  <2> QED
    BY <1>1, <1>2, <2>1, AllSequences
<1> QED
  BY <1>3

-----------------------------------------------------------------------------
(* The forwarder.                                                          *)

Records == 1..MaxRecs

FwdTypes ==
  /\ key \in BOOLEAN /\ backoff \in BOOLEAN
  /\ raced \in BOOLEAN /\ troubled \in BOOLEAN
  /\ loop \in {"off", "sleeps", "tags", "posts", "over"}
  /\ submit \in [Submitters -> {"idle", "room", "full"}]
  /\ queue \in Seq(Records) /\ Len(queue) <= QueueMax
  /\ batch \in Seq(Records) /\ worker \in Seq(Records) /\ intake \in Seq(Records)
  /\ appended \in Nat /\ evicted \in Nat /\ dropped \in Nat

Waiting == {t \in Submitters : Pending(t)}
Full == {t \in Submitters : submit[t] = "full"}

CountsStand ==
  /\ appended + Cardinality(Waiting) <= MaxRecs
  /\ dropped <= appended + Cardinality(Waiting)
  /\ evicted <= appended

\* One batch is on its way at a time, and past the stop only what the worker has.
BatchStands ==
  /\ batch # <<>> <=> loop = "tags"
  /\ loop = "posts" => worker # <<>>
  /\ worker # <<>> => loop \in {"posts", "over"}

\* What Datadog has, what is on its way and what waits are in the order of the appends.
OrderStands ==
  /\ Increasing(intake) /\ Increasing(worker) /\ Increasing(batch) /\ Increasing(queue)
  /\ Before(intake, worker) /\ Before(intake, batch) /\ Before(intake, queue)
  /\ Before(worker, batch) /\ Before(worker, queue) /\ Before(batch, queue)
  /\ Below(intake, appended) /\ Below(worker, appended)
  /\ Below(batch, appended) /\ Below(queue, appended)

AllRecords == [i \in 1..appended |-> i]

Chain(a, b, c, d) == a \o (b \o (c \o d))

LossStands ==
  ~troubled =>
    Chain(Payloads(intake), Payloads(worker), Payloads(batch), Payloads(queue))
      = Payloads(AllRecords)

\* Until the queue changes behind a thread's back, those that wait have seen it as it is.
LooksStand ==
  ~raced =>
    /\ dropped = evicted + Cardinality(Full)
    /\ \A t \in Waiting : submit[t] = "full" <=> Len(queue) >= QueueMax

ForwarderStands ==
  FwdTypes /\ CountsStand /\ BatchStands /\ OrderStands /\ LossStands /\ LooksStand

LEMMA RecordsAre == Records \in SUBSET Nat
BY ForwarderAssumption DEF Records

LEMMA ThreadsCounted ==
  ASSUME NEW T, T \subseteq Submitters
  PROVE  IsFiniteSet(T) /\ Cardinality(T) \in Nat /\ Cardinality(T) <= Cardinality(Submitters)
         /\ Cardinality(Submitters) \in Nat
BY ForwarderAssumption, FS_Subset, FS_CardinalityType

LEMMA OneMore ==
  ASSUME NEW T, T \subseteq Submitters, NEW t \in Submitters, t \notin T
  PROVE  Cardinality(T \cup {t}) = Cardinality(T) + 1
BY ThreadsCounted, FS_AddElement

LEMMA OneLess ==
  ASSUME NEW T, T \subseteq Submitters, NEW t \in T
  PROVE  Cardinality(T \ {t}) = Cardinality(T) - 1 /\ Cardinality(T) >= 1
<1>1. IsFiniteSet(T)
  BY ThreadsCounted
<1>2. Cardinality(T \ {t}) = Cardinality(T) - 1
  BY <1>1, FS_RemoveElement
<1>3. Cardinality(T \ {t}) \in Nat /\ Cardinality(T) \in Nat
  <2>1. T \ {t} \subseteq Submitters
    OBVIOUS
  <2> QED
    BY <2>1, ThreadsCounted
<1> QED
  BY <1>2, <1>3

LEMMA OneIs ==
  /\ \A t : Cardinality({t}) = 1
  /\ Cardinality({}) = 0
BY FS_Singleton, FS_EmptySet

\* Those that wait, before and after a look and an append.
LEMMA WaitingAfterLook ==
  ASSUME FwdTypes, NEW t \in Submitters, SubmitLooks(t)
  PROVE  /\ Waiting' = Waiting \cup {t} /\ t \notin Waiting /\ Waiting \subseteq Submitters
         /\ Full \subseteq Waiting
         /\ Full' = IF Len(queue) >= QueueMax THEN Full \cup {t} ELSE Full
BY DEF FwdTypes, SubmitLooks, MayLook, Waiting, Full, Pending

LEMMA WaitingAfterAppend ==
  ASSUME FwdTypes, NEW t \in Submitters, SubmitAppends(t)
  PROVE  /\ Waiting' = Waiting \ {t} /\ t \in Waiting /\ Waiting \subseteq Submitters
         /\ Full' = Full \ {t} /\ Full \subseteq Waiting
BY DEF FwdTypes, SubmitAppends, Waiting, Full, Pending

LEMMA NextRecord ==
  ASSUME FwdTypes, CountsStand, NEW t \in Submitters, SubmitAppends(t)
  PROVE  /\ appended + 1 \in Records
         /\ Cardinality(Waiting') = Cardinality(Waiting) - 1
         /\ Cardinality(Waiting) \in Nat /\ Cardinality(Waiting) >= 1
<1>1. Cardinality(Waiting \ {t}) = Cardinality(Waiting) - 1 /\ Cardinality(Waiting) >= 1
  BY WaitingAfterAppend, OneLess
<1>2. Cardinality(Waiting) \in Nat
  BY WaitingAfterAppend, ThreadsCounted
<1>3. Cardinality(Waiting') = Cardinality(Waiting) - 1
  BY <1>1, WaitingAfterAppend
<1>4. appended + Cardinality(Waiting) <= MaxRecs /\ appended \in Nat /\ MaxRecs \in Nat
  BY ForwarderAssumption DEF FwdTypes, CountsStand
<1>5. appended + 1 \in Records
  BY <1>1, <1>2, <1>4 DEF Records
<1> QED
  BY <1>1, <1>2, <1>3, <1>5

\* The queue as the append finds it, without its oldest record where it is full.
LEMMA RoomIsMade ==
  ASSUME FwdTypes, NEW t \in Submitters, SubmitAppends(t)
  PROVE  \E q \in Seq(Records) :
           /\ queue' = Append(q, appended + 1)
           /\ Len(q) < QueueMax
           /\ Within(q, queue) /\ (Increasing(queue) => Increasing(q))
           /\ \/ Len(queue) < QueueMax /\ q = queue /\ evicted' = evicted /\ troubled' = troubled
              \/ Len(queue) >= QueueMax /\ evicted' = evicted + 1 /\ troubled'
<1>1. queue \in Seq(Records) /\ Len(queue) \in Nat /\ QueueMax \in Nat /\ QueueMax > 0
      /\ Len(queue) <= QueueMax
  BY LenProperties, ForwarderAssumption DEF FwdTypes
<1>2. CASE Len(queue) >= QueueMax
  <2>1. queue # <<>>
    BY <1>1, <1>2, EmptySeq
  <2>2. queue' = Append(Tail(queue), appended + 1) /\ evicted' = evicted + 1 /\ troubled'
    BY <1>2 DEF SubmitAppends
  <2>3. /\ Tail(queue) \in Seq(Records) /\ Len(Tail(queue)) = Len(queue) - 1
        /\ Within(Tail(queue), queue)
        /\ Increasing(queue) => Increasing(Tail(queue))
    BY <1>1, <2>1, RecordsAre, TailInOrder
  <2>4. Len(Tail(queue)) < QueueMax
    BY <1>1, <2>3
  <2> QED
    BY <1>2, <2>2, <2>3, <2>4
<1>3. CASE ~(Len(queue) >= QueueMax)
  <2>1. queue' = Append(queue, appended + 1) /\ evicted' = evicted /\ troubled' = troubled
    BY <1>3 DEF SubmitAppends, FwdTypes
  <2>2. Within(queue, queue)
    BY DEF Within
  <2> QED
    BY <1>1, <1>3, <2>1, <2>2
<1> QED
  BY <1>2, <1>3

\* A batch is taken off the queue.
LEMMA QueueIsCut ==
  ASSUME FwdTypes, FlushPops
  PROVE  /\ batch' \in Seq(Records) /\ queue' \in Seq(Records)
         /\ batch' # <<>> /\ Len(queue') < Len(queue) /\ Len(queue') \in Nat
         /\ batch' \o queue' = queue
         /\ Within(batch', queue) /\ Within(queue', queue)
         /\ Increasing(queue) => Increasing(batch') /\ Increasing(queue') /\ Before(batch', queue')
<1>1. queue \in Seq(Records) /\ Len(queue) \in Nat /\ queue # <<>>
  BY LenProperties DEF FwdTypes, FlushPops
<1>2. Len(queue) # 0
  BY <1>1, EmptySeq
<1>3. PICK n : n = Least(Len(queue), BatchMax)
  OBVIOUS
<1>4. n \in 0..Len(queue) /\ n > 0
  BY <1>1, <1>2, <1>3, ForwarderAssumption DEF Least
<1>5. batch' = SubSeq(queue, 1, n) /\ queue' = SubSeq(queue, n + 1, Len(queue))
  BY <1>3 DEF FlushPops, PopOldest
<1>6. /\ batch' \in Seq(Records) /\ Len(batch') = n
      /\ queue' \in Seq(Records) /\ Len(queue') = Len(queue) - n
      /\ batch' \o queue' = queue
      /\ Within(batch', queue) /\ Within(queue', queue)
      /\ Increasing(queue) => Increasing(batch') /\ Increasing(queue') /\ Before(batch', queue')
  <2>1. PICK a, b : a = batch' /\ b = queue'
    OBVIOUS
  <2>2. Cut(queue, n, a, b)
    BY <1>5, <2>1 DEF Cut
  <2>3. /\ a \in Seq(Records) /\ Len(a) = n /\ b \in Seq(Records) /\ Len(b) = Len(queue) - n
        /\ a \o b = queue
        /\ Within(a, queue) /\ Within(b, queue)
        /\ Increasing(queue) => Increasing(a) /\ Increasing(b) /\ Before(a, b)
    <3>1. n \in 0..Len(queue) /\ queue \in Seq(Records) /\ Records \in SUBSET Nat
      BY <1>1, <1>4, RecordsAre
    <3> QED
      BY <2>2, <3>1, CutInOrder
  <2> QED
    BY <2>1, <2>3
<1>7. batch' # <<>>
  BY <1>4, <1>6, EmptySeq
<1>8. Len(queue') < Len(queue) /\ Len(queue') \in Nat
  BY <1>1, <1>4, <1>6
<1> QED
  BY <1>6, <1>7, <1>8

LEMMA NextFwdTypes ==
  ASSUME FwdTypes, CountsStand, [FwdNext]_fwdVars
  PROVE  FwdTypes'
<1>1. ASSUME NEW t \in Submitters, SubmitLooks(t) PROVE FwdTypes'
  BY <1>1 DEF FwdTypes, SubmitLooks, MayLook, othersOfSubmit
<1>2. ASSUME NEW t \in Submitters, SubmitAppends(t) PROVE FwdTypes'
  <2>1. appended + 1 \in Records
    BY <1>2, NextRecord
  <2>2. PICK q \in Seq(Records) :
          /\ queue' = Append(q, appended + 1) /\ Len(q) < QueueMax
          /\ evicted' = evicted \/ evicted' = evicted + 1
    BY <1>2, RoomIsMade
  <2>3. queue' \in Seq(Records) /\ Len(queue') <= QueueMax
    BY <2>1, <2>2, AppendProperties, LenProperties, ForwarderAssumption
  <2>4. submit' \in [Submitters -> {"idle", "room", "full"}] /\ appended' \in Nat /\ evicted' \in Nat
    BY <1>2, <2>2 DEF FwdTypes, SubmitAppends
  <2>5. troubled' \in BOOLEAN /\ raced' \in BOOLEAN /\ UNCHANGED <<othersOfSubmit, dropped>>
    BY <1>2 DEF FwdTypes, SubmitAppends
  <2> QED
    BY <2>3, <2>4, <2>5 DEF FwdTypes, othersOfSubmit
<1>3. CASE FwdStart
  BY <1>3 DEF FwdTypes, FwdStart, othersOfSubmit, queueVars, LoopAfterPost
<1>4. CASE Reload
  BY <1>4 DEF FwdTypes, Reload, othersOfSubmit, queueVars, LoopAfterPost
<1>5. CASE FwdStop
  <2>1. batch' \in Seq(Records)
    BY <1>5, EmptySeq DEF FwdStop, TagsFail
  <2> QED
    BY <1>5, <2>1 DEF FwdTypes, FwdStop, TagsFail, queueVars
<1>6. CASE FlushPops
  <2>1. batch' \in Seq(Records) /\ queue' \in Seq(Records) /\ Len(queue') <= QueueMax
    <3>1. Len(queue) \in Nat /\ Len(queue) <= QueueMax
      BY LenProperties DEF FwdTypes
    <3> QED
      BY <1>6, <3>1, QueueIsCut, ForwarderAssumption
  <2> QED
    BY <1>6, <2>1 DEF FwdTypes, FlushPops
<1>7. CASE FlushPosts
  <2>1. worker' \in Seq(Records) /\ batch' \in Seq(Records)
    BY <1>7, PayloadsAreRecords, EmptySeq DEF FlushPosts, FwdTypes
  <2> QED
    BY <1>7, <2>1 DEF FwdTypes, FlushPosts, queueVars
<1>8. CASE TagsFail
  <2>1. batch' \in Seq(Records)
    BY <1>8, EmptySeq DEF FwdStop, TagsFail
  <2> QED
    BY <1>8, <2>1 DEF FwdTypes, FwdStop, TagsFail, queueVars
<1>9. CASE BackoffEnds
  BY <1>9 DEF FwdTypes, BackoffEnds, othersOfSubmit, queueVars, LoopAfterPost
<1>10. CASE PostDelivers
  <2>1. worker' \in Seq(Records) /\ intake' \in Seq(Records)
    <3>1. intake \o worker \in Seq(Records) /\ <<>> \in Seq(Records) /\ intake \in Seq(Records)
      BY EmptySeq, ConcatProperties DEF FwdTypes
    <3> QED
      BY <1>10, <3>1 DEF PostDelivers
  <2> QED
    BY <1>10, <2>1 DEF FwdTypes, PostDelivers, queueVars, LoopAfterPost
<1>11. CASE PostRejected
  <2>1. worker' \in Seq(Records) /\ intake' \in Seq(Records)
    <3>1. intake \o worker \in Seq(Records) /\ <<>> \in Seq(Records) /\ intake \in Seq(Records)
      BY EmptySeq, ConcatProperties DEF FwdTypes
    <3> QED
      BY <1>11, <3>1 DEF PostRejected
  <2> QED
    BY <1>11, <2>1 DEF FwdTypes, PostRejected, queueVars, LoopAfterPost
<1>12. CASE PostFails
  <2>1. worker' \in Seq(Records) /\ intake' \in Seq(Records)
    <3>1. intake \o worker \in Seq(Records) /\ <<>> \in Seq(Records) /\ intake \in Seq(Records)
      BY EmptySeq, ConcatProperties DEF FwdTypes
    <3> QED
      BY <1>12, <3>1 DEF PostFails
  <2> QED
    BY <1>12, <2>1 DEF FwdTypes, PostFails, queueVars, LoopAfterPost
<1>13. CASE UNCHANGED fwdVars
  BY <1>13 DEF FwdTypes, fwdVars
<1> QED
  BY <1>1, <1>2, <1>3, <1>4, <1>5, <1>6, <1>7, <1>8, <1>9, <1>10, <1>11, <1>12, <1>13 DEF FwdNext, PostEnds

LEMMA NextCounts ==
  ASSUME FwdTypes, CountsStand, [FwdNext]_fwdVars
  PROVE  CountsStand'
<1>1. ASSUME NEW t \in Submitters, SubmitLooks(t) PROVE CountsStand'
  <2>1. Cardinality(Waiting') = Cardinality(Waiting) + 1 /\ Cardinality(Waiting) \in Nat
    BY <1>1, WaitingAfterLook, OneMore, ThreadsCounted
  <2>2. appended + Cardinality(Waiting) < MaxRecs
    BY <1>1 DEF SubmitLooks, MayLook, Waiting
  <2>3. appended' = appended /\ evicted' = evicted /\ (dropped' = dropped \/ dropped' = dropped + 1)
    BY <1>1 DEF SubmitLooks, othersOfSubmit
  <2> QED
    BY <2>1, <2>2, <2>3, ForwarderAssumption DEF CountsStand, FwdTypes
<1>2. ASSUME NEW t \in Submitters, SubmitAppends(t) PROVE CountsStand'
  <2>1. Cardinality(Waiting') = Cardinality(Waiting) - 1 /\ Cardinality(Waiting) \in Nat
    BY <1>2, NextRecord
  <2>2. evicted' = evicted \/ evicted' = evicted + 1
    BY <1>2, RoomIsMade
  <2>3. appended' = appended + 1 /\ dropped' = dropped
    BY <1>2 DEF SubmitAppends
  <2> QED
    BY <2>1, <2>2, <2>3, ForwarderAssumption DEF CountsStand, FwdTypes
<1>3. CASE FwdStart
  BY <1>3 DEF CountsStand, Waiting, Pending, FwdStart, othersOfSubmit, queueVars
<1>4. CASE Reload
  BY <1>4 DEF CountsStand, Waiting, Pending, Reload, othersOfSubmit, queueVars
<1>5. CASE FwdStop
  BY <1>5 DEF CountsStand, Waiting, Pending, FwdStop, othersOfSubmit, queueVars
<1>6. CASE FlushPops
  BY <1>6 DEF CountsStand, Waiting, Pending, FlushPops, othersOfSubmit, queueVars
<1>7. CASE FlushPosts
  BY <1>7 DEF CountsStand, Waiting, Pending, FlushPosts, othersOfSubmit, queueVars
<1>8. CASE TagsFail
  BY <1>8 DEF CountsStand, Waiting, Pending, TagsFail, othersOfSubmit, queueVars
<1>9. CASE BackoffEnds
  BY <1>9 DEF CountsStand, Waiting, Pending, BackoffEnds, othersOfSubmit, queueVars
<1>10. CASE PostDelivers
  BY <1>10 DEF CountsStand, Waiting, Pending, PostDelivers, othersOfSubmit, queueVars
<1>11. CASE PostRejected
  BY <1>11 DEF CountsStand, Waiting, Pending, PostRejected, othersOfSubmit, queueVars
<1>12. CASE PostFails
  BY <1>12 DEF CountsStand, Waiting, Pending, PostFails, othersOfSubmit, queueVars
<1>13. CASE UNCHANGED fwdVars
  BY <1>13 DEF CountsStand, Waiting, Pending, fwdVars
<1> QED
  BY <1>1, <1>2, <1>3, <1>4, <1>5, <1>6, <1>7, <1>8, <1>9, <1>10, <1>11, <1>12, <1>13 DEF FwdNext, PostEnds

LEMMA NextBatch ==
  ASSUME FwdTypes, BatchStands, [FwdNext]_fwdVars
  PROVE  BatchStands'
<1>1. ASSUME NEW t \in Submitters, SubmitLooks(t) PROVE BatchStands'
  BY <1>1 DEF FwdTypes, BatchStands, SubmitLooks, othersOfSubmit, queueVars, LoopAfterPost
<1>2. ASSUME NEW t \in Submitters, SubmitAppends(t) PROVE BatchStands'
  BY <1>2 DEF FwdTypes, BatchStands, SubmitAppends, othersOfSubmit, queueVars, LoopAfterPost
<1>3. CASE FwdStart
  BY <1>3 DEF FwdTypes, BatchStands, FwdStart, othersOfSubmit, queueVars, LoopAfterPost
<1>4. CASE Reload
  BY <1>4 DEF FwdTypes, BatchStands, Reload, othersOfSubmit, queueVars, LoopAfterPost
<1>5. CASE FwdStop
  BY <1>5 DEF FwdTypes, BatchStands, FwdStop, othersOfSubmit, queueVars, LoopAfterPost
<1>6. CASE FlushPops
  <2>1. batch' # <<>>
    BY <1>6, QueueIsCut
  <2> QED
    BY <1>6, <2>1 DEF FwdTypes, BatchStands, FlushPops
<1>7. CASE FlushPosts
  BY <1>7 DEF FwdTypes, BatchStands, FlushPosts, othersOfSubmit, queueVars, LoopAfterPost
<1>8. CASE TagsFail
  BY <1>8 DEF FwdTypes, BatchStands, TagsFail, othersOfSubmit, queueVars, LoopAfterPost
<1>9. CASE BackoffEnds
  BY <1>9 DEF FwdTypes, BatchStands, BackoffEnds, othersOfSubmit, queueVars, LoopAfterPost
<1>10. CASE PostDelivers
  BY <1>10 DEF FwdTypes, BatchStands, PostDelivers, othersOfSubmit, queueVars, LoopAfterPost
<1>11. CASE PostRejected
  BY <1>11 DEF FwdTypes, BatchStands, PostRejected, othersOfSubmit, queueVars, LoopAfterPost
<1>12. CASE PostFails
  BY <1>12 DEF FwdTypes, BatchStands, PostFails, othersOfSubmit, queueVars, LoopAfterPost
<1>13. CASE UNCHANGED fwdVars
  BY <1>13 DEF BatchStands, fwdVars
<1> QED
  BY <1>1, <1>2, <1>3, <1>4, <1>5, <1>6, <1>7, <1>8, <1>9, <1>10, <1>11, <1>12, <1>13 DEF FwdNext, PostEnds

LEMMA NextOrder ==
  ASSUME FwdTypes, CountsStand, OrderStands, [FwdNext]_fwdVars
  PROVE  OrderStands'
<1>1. ASSUME NEW t \in Submitters, SubmitLooks(t) PROVE OrderStands'
  BY <1>1 DEF OrderStands, SubmitLooks, othersOfSubmit, queueVars
<1>2. ASSUME NEW t \in Submitters, SubmitAppends(t) PROVE OrderStands'
  <2>1. PICK q \in Seq(Records) :
          /\ queue' = Append(q, appended + 1)
          /\ Within(q, queue) /\ (Increasing(queue) => Increasing(q))
    BY <1>2, RoomIsMade
  <2>2. /\ appended' = appended + 1 /\ UNCHANGED <<intake, worker, batch>>
        /\ appended \in Nat /\ appended + 1 \in Records
        /\ intake \in Seq(Records) /\ worker \in Seq(Records) /\ batch \in Seq(Records)
    BY <1>2, NextRecord DEF SubmitAppends, othersOfSubmit, FwdTypes
  <2>3. /\ Increasing(q) /\ Below(q, appended)
        /\ Before(intake, q) /\ Before(worker, q) /\ Before(batch, q)
    BY <2>1, WithinKeeps DEF OrderStands
  <2>4. Increasing(queue') /\ Below(queue', appended + 1)
    BY <2>1, <2>2, <2>3, RecordsAre, AppendInOrder
  <2>5. Before(intake, queue') /\ Before(worker, queue') /\ Before(batch, queue')
    BY <2>1, <2>2, <2>3, RecordsAre, AppendInOrder DEF OrderStands
  <2>6. Below(intake, appended + 1) /\ Below(worker, appended + 1) /\ Below(batch, appended + 1)
    BY <2>2, RecordsAre, BelowMore DEF OrderStands
  <2> QED
    BY <2>2, <2>4, <2>5, <2>6 DEF OrderStands
<1>3. CASE FwdStart
  BY <1>3 DEF OrderStands, FwdStart, othersOfSubmit, queueVars
<1>4. CASE Reload
  BY <1>4 DEF OrderStands, Reload, othersOfSubmit, queueVars
<1>5. CASE FwdStop
  <2>1. batch' = <<>> /\ UNCHANGED <<intake, worker, queue, appended>>
    BY <1>5 DEF FwdStop, TagsFail, queueVars
  <2> QED
    BY <2>1, NoneInOrder DEF OrderStands
<1>6. CASE FlushPops
  <2>1. /\ Within(batch', queue) /\ Within(queue', queue)
        /\ Increasing(batch') /\ Increasing(queue') /\ Before(batch', queue')
    BY <1>6, QueueIsCut DEF OrderStands
  <2>2. UNCHANGED <<intake, worker, appended>>
    BY <1>6 DEF FlushPops
  <2> QED
    BY <2>1, <2>2, WithinKeeps DEF OrderStands
<1>7. CASE FlushPosts
  <2>1. Within(worker', batch) /\ Increasing(worker')
    BY <1>7, RecordsAre, PayloadsInOrder DEF FlushPosts, OrderStands, FwdTypes
  <2>2. batch' = <<>> /\ UNCHANGED <<intake, queue, appended>>
    BY <1>7 DEF FlushPosts, queueVars
  <2> QED
    BY <2>1, <2>2, WithinKeeps, NoneInOrder DEF OrderStands
<1>8. CASE TagsFail
  <2>1. batch' = <<>> /\ UNCHANGED <<intake, worker, queue, appended>>
    BY <1>8 DEF FwdStop, TagsFail, queueVars
  <2> QED
    BY <2>1, NoneInOrder DEF OrderStands
<1>9. CASE BackoffEnds
  BY <1>9 DEF OrderStands, BackoffEnds, othersOfSubmit, queueVars
<1>10. CASE PostDelivers
  <2>1. intake' = intake \o worker /\ worker' = <<>> /\ UNCHANGED <<batch, queue, appended>>
    BY <1>10 DEF PostDelivers, queueVars
  <2>2. intake \in Seq(Records) /\ worker \in Seq(Records)
    BY DEF FwdTypes
  <2>3. /\ Increasing(intake \o worker) /\ Below(intake \o worker, appended)
        /\ Before(intake \o worker, batch) /\ Before(intake \o worker, queue)
    BY <2>2, RecordsAre, BothInOrder DEF OrderStands
  <2> QED
    BY <2>1, <2>3, NoneInOrder DEF OrderStands
<1>11. CASE PostRejected
  <2>1. worker' = <<>> /\ UNCHANGED <<intake, batch, queue, appended>>
    BY <1>11 DEF PostRejected, queueVars
  <2> QED
    BY <2>1, NoneInOrder DEF OrderStands
<1>12. CASE PostFails
  <2>1. intake' \in {intake, intake \o worker} /\ worker' = <<>>
        /\ UNCHANGED <<batch, queue, appended>>
    BY <1>12 DEF PostFails, queueVars
  <2>2. intake \in Seq(Records) /\ worker \in Seq(Records)
    BY DEF FwdTypes
  <2>3. /\ Increasing(intake \o worker) /\ Below(intake \o worker, appended)
        /\ Before(intake \o worker, batch) /\ Before(intake \o worker, queue)
    BY <2>2, RecordsAre, BothInOrder DEF OrderStands
  <2>4. /\ Increasing(intake') /\ Below(intake', appended)
        /\ Before(intake', batch) /\ Before(intake', queue)
    BY <2>1, <2>3 DEF OrderStands
  <2> QED
    BY <2>1, <2>4, NoneInOrder DEF OrderStands
<1>13. CASE UNCHANGED fwdVars
  BY <1>13 DEF OrderStands, fwdVars
<1> QED
  BY <1>1, <1>2, <1>3, <1>4, <1>5, <1>6, <1>7, <1>8, <1>9, <1>10, <1>11, <1>12, <1>13 DEF FwdNext, PostEnds

\* What is shipped of the records, and of one more.
LEMMA AllRecordsAre ==
  ASSUME NEW n \in Nat, NEW S \in SUBSET Nat, 1..n + 1 \subseteq S
  PROVE  /\ [i \in 1..n |-> i] \in Seq(S)
         /\ [i \in 1..n + 1 |-> i] = Append([i \in 1..n |-> i], n + 1)
<1>1. [i \in 1..n |-> i] \in Seq(S)
  BY IsASeq
<1>2. [i \in 1..n + 1 |-> i] \in Seq(S)
  BY IsASeq
<1> DEFINE a == [i \in 1..n |-> i]
           b == [i \in 1..n + 1 |-> i]
<1>3. Len(a) = n /\ \A i \in 1..n : a[i] = i
  BY <1>1
<1>4. Len(b) = n + 1 /\ \A i \in 1..n + 1 : b[i] = i
  BY <1>2
<1> HIDE DEF a, b
<1>5. a \in Seq(S) /\ b \in Seq(S) /\ n + 1 \in S
  BY <1>1, <1>2 DEF a, b
<1>6. /\ Append(a, n + 1) \in Seq(S) /\ Len(Append(a, n + 1)) = n + 1
      /\ \A i \in 1..n : Append(a, n + 1)[i] = a[i]
      /\ Append(a, n + 1)[n + 1] = n + 1
  BY <1>3, <1>5, AppendProperties
<1>7. b = Append(a, n + 1)
  <2>1. \A i \in 1..Len(b) : b[i] = Append(a, n + 1)[i]
    BY <1>3, <1>4, <1>6
  <2> QED
    BY <1>4, <1>5, <1>6, <2>1, SeqEqual
<1> QED
  BY <1>5, <1>7 DEF a, b

LEMMA ShippedOf ==
  ASSUME FwdTypes
  PROVE  /\ Payloads(intake) \in Seq(Records) /\ Payloads(worker) \in Seq(Records)
         /\ Payloads(batch) \in Seq(Records) /\ Payloads(queue) \in Seq(Records)
BY PayloadsAreRecords DEF FwdTypes

LEMMA ChainOfAll ==
  ASSUME NEW S, NEW a \in Seq(S), NEW b \in Seq(S), NEW c \in Seq(S), NEW d \in Seq(S)
  PROVE  Payloads(((a \o b) \o c) \o d)
           = Chain(Payloads(a), Payloads(b), Payloads(c), Payloads(d))
<1>1. /\ a \o (b \o (c \o d)) = ((a \o b) \o c) \o d
      /\ c \o d \in Seq(S) /\ b \o (c \o d) \in Seq(S)
  <2>1. c \o d \in Seq(S) /\ b \o (c \o d) \in Seq(S)
    BY ConcatProperties
  <2>2. a \o (b \o (c \o d)) = ((a \o b) \o c) \o d
    OBVIOUS
  <2> QED
    BY <2>1, <2>2
<1>2. Payloads(c \o d) = Payloads(c) \o Payloads(d)
  BY PayloadsOfBoth
<1>3. Payloads(b \o (c \o d)) = Payloads(b) \o Payloads(c \o d)
  BY <1>1, PayloadsOfBoth
<1>4. Payloads(a \o (b \o (c \o d))) = Payloads(a) \o Payloads(b \o (c \o d))
  BY <1>1, PayloadsOfBoth
<1> QED
  BY <1>1, <1>2, <1>3, <1>4 DEF Chain

LEMMA ChainOfOneMore ==
  ASSUME NEW S, NEW x \in S
  PROVE  \A a, b, c, d \in Seq(S) : Chain(a, b, c, Step(d, x)) = Step(Chain(a, b, c, d), x)
<1> SUFFICES ASSUME NEW a \in Seq(S), NEW b \in Seq(S), NEW c \in Seq(S), NEW d \in Seq(S)
             PROVE  Chain(a, b, c, Step(d, x)) = Step(Chain(a, b, c, d), x)
  OBVIOUS
<1>1. c \o d \in Seq(S) /\ b \o (c \o d) \in Seq(S)
  BY ConcatProperties
<1>2. c \o Append(d, x) = Append(c \o d, x)
  BY AppendOfBoth
<1>3. b \o Append(c \o d, x) = Append(b \o (c \o d), x)
  BY <1>1, AppendOfBoth
<1>4. a \o Append(b \o (c \o d), x) = Append(a \o (b \o (c \o d)), x)
  BY <1>1, AppendOfBoth
<1> QED
  BY <1>2, <1>3, <1>4 DEF Chain, Step

LEMMA NextLoss ==
  ASSUME FwdTypes, CountsStand, BatchStands, LossStands, [FwdNext]_fwdVars
  PROVE  LossStands'
<1>1. ASSUME NEW t \in Submitters, SubmitLooks(t) PROVE LossStands'
  BY <1>1 DEF LossStands, AllRecords, SubmitLooks, othersOfSubmit, queueVars
<1>2. ASSUME NEW t \in Submitters, SubmitAppends(t) PROVE LossStands'
  <2> SUFFICES ASSUME ~troubled' PROVE LossStands'
    BY DEF LossStands
  <2>1. queue' = Append(queue, appended + 1) /\ ~troubled
    BY <1>2, RoomIsMade
  <2>2. /\ appended' = appended + 1 /\ UNCHANGED <<intake, worker, batch>>
        /\ appended \in Nat /\ appended + 1 \in Records /\ queue \in Seq(Records)
    BY <1>2, NextRecord DEF SubmitAppends, othersOfSubmit, FwdTypes
  <2>3. /\ AllRecords \in Seq(Records)
        /\ AllRecords' = Append(AllRecords, appended + 1)
    <3>1. 1..appended + 1 \subseteq Records
      BY <2>2, ForwarderAssumption DEF Records
    <3> QED
      BY <2>2, <3>1, RecordsAre, AllRecordsAre DEF AllRecords
  <2>4. Payloads(queue') = Step(Payloads(queue), appended + 1)
    BY <2>1, <2>2, PayloadsOfAppend
  <2>5. Payloads(AllRecords') = Step(Payloads(AllRecords), appended + 1)
    BY <2>2, <2>3, PayloadsOfAppend
  <2>6. /\ Payloads(intake') = Payloads(intake) /\ Payloads(worker') = Payloads(worker)
        /\ Payloads(batch') = Payloads(batch)
    BY <2>2
  <2>7. PICK a \in Seq(Records), b \in Seq(Records), c \in Seq(Records), d \in Seq(Records) :
          /\ a = Payloads(intake) /\ b = Payloads(worker)
          /\ c = Payloads(batch) /\ d = Payloads(queue)
    BY ShippedOf
  <2>8. Chain(a, b, c, d) = Payloads(AllRecords)
    BY <2>1, <2>7 DEF LossStands
  <2>9. Chain(a, b, c, Step(d, appended + 1)) = Step(Chain(a, b, c, d), appended + 1)
    <3>1. PICK x \in Records : x = appended + 1
      BY <2>2
    <3>2. \A e, f, g, h \in Seq(Records) : Chain(e, f, g, Step(h, x)) = Step(Chain(e, f, g, h), x)
      BY ChainOfOneMore
    <3> QED
      BY <3>1, <3>2
  <2> QED
    BY <2>4, <2>5, <2>6, <2>7, <2>8, <2>9 DEF LossStands
<1>3. CASE FwdStart
  BY <1>3 DEF LossStands, AllRecords, FwdStart, othersOfSubmit, queueVars
<1>4. CASE Reload
  BY <1>4 DEF LossStands, AllRecords, Reload, othersOfSubmit, queueVars
<1>5. CASE FwdStop
  <2> SUFFICES ASSUME ~troubled' PROVE LossStands'
    BY DEF LossStands
  <2>1. ~troubled /\ batch = <<>>
    BY <1>5 DEF FwdStop
  <2>2. UNCHANGED <<intake, worker, batch, queue, appended, troubled>>
    BY <1>5, <2>1 DEF FwdStop, queueVars, FwdTypes
  <2> QED
    BY <2>2 DEF LossStands, AllRecords
<1>6. CASE FlushPops
  <2> SUFFICES ASSUME ~troubled' PROVE LossStands'
    BY DEF LossStands
  <2>1. batch' \in Seq(Records) /\ queue' \in Seq(Records) /\ batch' \o queue' = queue
    BY <1>6, QueueIsCut
  <2>2. UNCHANGED <<intake, worker, appended, troubled>> /\ batch = <<>>
    BY <1>6 DEF FlushPops, BatchStands
  <2>3. PICK p \in Seq(Records), q \in Seq(Records) : p = batch' /\ q = queue'
    BY <2>1
  <2>4. Payloads(queue) = Payloads(p) \o Payloads(q)
    BY <2>1, <2>3, PayloadsOfBoth
  <2>5. Payloads(batch) \o Payloads(queue) = Payloads(batch') \o Payloads(queue')
    BY <2>2, <2>3, <2>4, ShippedOf, PayloadsOfNone, ConcatEmptySeq
  <2> QED
    BY <2>2, <2>5 DEF LossStands, AllRecords, Chain
<1>7. CASE FlushPosts
  <2> SUFFICES ASSUME ~troubled' PROVE LossStands'
    BY DEF LossStands
  <2>1. /\ batch' = <<>> /\ worker' = Payloads(batch) /\ worker = <<>>
        /\ UNCHANGED <<intake, queue, appended, troubled>>
    BY <1>7 DEF FlushPosts, queueVars, BatchStands
  <2>2. Payloads(worker') = Payloads(batch)
    BY <2>1, PayloadsTwice DEF FwdTypes
  <2>3. Payloads(worker) = <<>> /\ Payloads(batch') = <<>>
    BY <2>1, PayloadsOfNone
  <2>4. PICK c \in Seq(Records), d \in Seq(Records) : c = Payloads(batch) /\ d = Payloads(queue)
    BY ShippedOf
  <2>5. <<>> \o (c \o d) = c \o (<<>> \o d)
    BY ConcatProperties, ConcatEmptySeq
  <2>6. Payloads(worker) \o (Payloads(batch) \o Payloads(queue))
          = Payloads(worker') \o (Payloads(batch') \o Payloads(queue'))
    BY <2>1, <2>2, <2>3, <2>4, <2>5
  <2> QED
    BY <2>1, <2>6 DEF LossStands, AllRecords, Chain
<1>8. CASE TagsFail
  BY <1>8 DEF LossStands, TagsFail
<1>9. CASE BackoffEnds
  BY <1>9 DEF LossStands, AllRecords, BackoffEnds, othersOfSubmit, queueVars
<1>10. CASE PostDelivers
  <2> SUFFICES ASSUME ~troubled' PROVE LossStands'
    BY DEF LossStands
  <2>1. /\ intake' = intake \o worker /\ worker' = <<>>
        /\ UNCHANGED <<batch, queue, appended, troubled>>
    BY <1>10 DEF PostDelivers, queueVars
  <2>2. Payloads(intake') = Payloads(intake) \o Payloads(worker)
    BY <2>1, PayloadsOfBoth DEF FwdTypes
  <2>3. Payloads(worker') = <<>>
    BY <2>1, PayloadsOfNone
  <2>4. PICK a \in Seq(Records), b \in Seq(Records), c \in Seq(Records), d \in Seq(Records) :
          /\ a = Payloads(intake) /\ b = Payloads(worker)
          /\ c = Payloads(batch) /\ d = Payloads(queue)
    BY ShippedOf
  <2>5. (a \o b) \o (<<>> \o (c \o d)) = a \o (b \o (c \o d))
    OBVIOUS
  <2>6. Payloads(intake) \o (Payloads(worker) \o (Payloads(batch) \o Payloads(queue)))
          = Payloads(intake') \o (Payloads(worker') \o (Payloads(batch') \o Payloads(queue')))
    BY <2>1, <2>2, <2>3, <2>4, <2>5
  <2> QED
    BY <2>1, <2>6 DEF LossStands, AllRecords, Chain
<1>11. CASE PostRejected
  BY <1>11 DEF LossStands, PostRejected
<1>12. CASE PostFails
  BY <1>12 DEF LossStands, PostFails
<1>13. CASE UNCHANGED fwdVars
  BY <1>13 DEF LossStands, AllRecords, fwdVars
<1> QED
  BY <1>1, <1>2, <1>3, <1>4, <1>5, <1>6, <1>7, <1>8, <1>9, <1>10, <1>11, <1>12, <1>13 DEF FwdNext, PostEnds

LEMMA NextLooks ==
  ASSUME FwdTypes, LooksStand, [FwdNext]_fwdVars
  PROVE  LooksStand'
<1>1. ASSUME NEW t \in Submitters, SubmitLooks(t) PROVE LooksStand'
  <2> SUFFICES ASSUME ~raced' PROVE LooksStand'
    BY DEF LooksStand
  <2>1. ~raced /\ UNCHANGED <<queue, evicted>>
    BY <1>1 DEF SubmitLooks
  <2>2. dropped = evicted + Cardinality(Full)
        /\ \A u \in Waiting : submit[u] = "full" <=> Len(queue) >= QueueMax
    BY <2>1 DEF LooksStand
  <2>3. /\ Waiting' = Waiting \cup {t} /\ t \notin Waiting /\ Waiting \subseteq Submitters
        /\ Full \subseteq Waiting
        /\ Full' = IF Len(queue) >= QueueMax THEN Full \cup {t} ELSE Full
    BY <1>1, WaitingAfterLook
  <2>4. Cardinality(Full \cup {t}) = Cardinality(Full) + 1 /\ Cardinality(Full) \in Nat
    BY <2>3, OneMore, ThreadsCounted
  <2>5. dropped' = IF Len(queue) >= QueueMax THEN dropped + 1 ELSE dropped
    BY <1>1 DEF SubmitLooks
  <2>6. dropped' = evicted' + Cardinality(Full')
    BY <2>1, <2>2, <2>3, <2>4, <2>5 DEF FwdTypes
  <2>7. \A u \in Waiting \cup {t} : submit'[u] = "full" <=> Len(queue) >= QueueMax
    BY <1>1, <2>2, <2>3 DEF SubmitLooks, FwdTypes
  <2> QED
    BY <2>1, <2>3, <2>6, <2>7 DEF LooksStand
<1>2. ASSUME NEW t \in Submitters, SubmitAppends(t) PROVE LooksStand'
  <2> SUFFICES ASSUME ~raced' PROVE LooksStand'
    BY DEF LooksStand
  <2>1. ~raced /\ \A u \in Submitters \ {t} : ~Pending(u)
    BY <1>2 DEF SubmitAppends
  <2>2. dropped = evicted + Cardinality(Full)
        /\ \A u \in Waiting : submit[u] = "full" <=> Len(queue) >= QueueMax
    BY <2>1 DEF LooksStand
  <2>3. /\ Waiting' = Waiting \ {t} /\ t \in Waiting /\ Waiting \subseteq Submitters
        /\ Full' = Full \ {t} /\ Full \subseteq Waiting
    BY <1>2, WaitingAfterAppend
  <2>4. Waiting' = {} /\ Full' = {}
    BY <2>1, <2>3 DEF Waiting
  <2>5. Full = IF Len(queue) >= QueueMax THEN {t} ELSE {}
    BY <2>1, <2>2, <2>3, <2>4 DEF Full, Waiting
  <2>6. dropped' = dropped
        /\ (IF Len(queue) >= QueueMax THEN evicted' = evicted + 1 ELSE evicted' = evicted)
    BY <1>2 DEF SubmitAppends
  <2>7. dropped' = evicted' + Cardinality(Full')
    <3>1. dropped \in Nat /\ evicted \in Nat /\ Cardinality(Full') = 0
      BY <2>4, OneIs DEF FwdTypes
    <3>2. CASE Len(queue) >= QueueMax
      <4>1. Cardinality(Full) = 1
        BY <2>5, <3>2, OneIs
      <4> QED
        BY <2>2, <2>6, <3>1, <3>2, <4>1
    <3>3. CASE ~(Len(queue) >= QueueMax)
      <4>1. Cardinality(Full) = 0
        BY <2>5, <3>3, OneIs
      <4> QED
        BY <2>2, <2>6, <3>1, <3>3, <4>1
    <3> QED
      BY <3>2, <3>3
  <2> QED
    BY <2>4, <2>7 DEF LooksStand
<1>3. CASE FwdStart
  BY <1>3 DEF LooksStand, Full, Waiting, Pending, FwdStart, othersOfSubmit, queueVars
<1>4. CASE Reload
  BY <1>4 DEF LooksStand, Full, Waiting, Pending, Reload, othersOfSubmit, queueVars
<1>5. CASE FwdStop
  BY <1>5 DEF LooksStand, Full, Waiting, Pending, FwdStop, othersOfSubmit, queueVars
<1>6. CASE FlushPops
  <2> SUFFICES ASSUME ~raced' PROVE LooksStand'
    BY DEF LooksStand
  <2>1. ~raced /\ Waiting = {} /\ UNCHANGED <<submit, dropped, evicted>>
    BY <1>6 DEF FlushPops, Waiting
  <2>2. Waiting' = {} /\ Full' = Full
    BY <2>1 DEF Waiting, Full, Pending
  <2> QED
    BY <2>1, <2>2 DEF LooksStand
<1>7. CASE FlushPosts
  BY <1>7 DEF LooksStand, Full, Waiting, Pending, FlushPosts, othersOfSubmit, queueVars
<1>8. CASE TagsFail
  BY <1>8 DEF LooksStand, Full, Waiting, Pending, TagsFail, othersOfSubmit, queueVars
<1>9. CASE BackoffEnds
  BY <1>9 DEF LooksStand, Full, Waiting, Pending, BackoffEnds, othersOfSubmit, queueVars
<1>10. CASE PostDelivers
  BY <1>10 DEF LooksStand, Full, Waiting, Pending, PostDelivers, othersOfSubmit, queueVars
<1>11. CASE PostRejected
  BY <1>11 DEF LooksStand, Full, Waiting, Pending, PostRejected, othersOfSubmit, queueVars
<1>12. CASE PostFails
  BY <1>12 DEF LooksStand, Full, Waiting, Pending, PostFails, othersOfSubmit, queueVars
<1>13. CASE UNCHANGED fwdVars
  BY <1>13 DEF LooksStand, Full, Waiting, Pending, fwdVars
<1> QED
  BY <1>1, <1>2, <1>3, <1>4, <1>5, <1>6, <1>7, <1>8, <1>9, <1>10, <1>11, <1>12, <1>13 DEF FwdNext, PostEnds

LEMMA ForwarderStandsInductive == ForwarderStands /\ [FwdNext]_fwdVars => ForwarderStands'
BY NextFwdTypes, NextCounts, NextBatch, NextOrder, NextLoss, NextLooks DEF ForwarderStands

LEMMA ForwarderStandsInit == FwdInit => ForwarderStands
<1> SUFFICES ASSUME FwdInit PROVE ForwarderStands
  OBVIOUS
<1>1. <<>> \in Seq(Records) /\ Len(<<>>) = 0
  BY EmptySeq
<1>2. FwdTypes
  <2>1. /\ queue = <<>> /\ batch = <<>> /\ worker = <<>> /\ intake = <<>>
        /\ appended = 0 /\ evicted = 0 /\ dropped = 0
    BY DEF FwdInit
  <2>2. Len(queue) <= QueueMax
    BY <1>1, <2>1, ForwarderAssumption
  <2>3. submit \in [Submitters -> {"idle", "room", "full"}]
    BY DEF FwdInit
  <2>4. /\ key \in BOOLEAN /\ backoff \in BOOLEAN /\ raced \in BOOLEAN /\ troubled \in BOOLEAN
        /\ loop \in {"off", "sleeps", "tags", "posts", "over"}
    BY DEF FwdInit
  <2> QED
    BY <1>1, <2>1, <2>2, <2>3, <2>4 DEF FwdTypes
<1>3. Waiting = {} /\ Full = {}
  BY DEF FwdInit, Waiting, Full, Pending
<1>4. CountsStand
  BY <1>3, OneIs, ForwarderAssumption DEF FwdInit, CountsStand
<1>5. BatchStands
  BY DEF FwdInit, BatchStands
<1>6. OrderStands
  BY NoneInOrder DEF FwdInit, OrderStands
<1>7. AllRecords = <<>>
  <2>1. AllRecords = [i \in 1..0 |-> i]
    BY DEF FwdInit, AllRecords
  <2> QED
    BY <2>1
<1>8. LossStands
  <2>1. Chain(<<>>, <<>>, <<>>, <<>>) = <<>>
    BY <1>1, ConcatEmptySeq DEF Chain
  <2>2. /\ Payloads(intake) = <<>> /\ Payloads(worker) = <<>> /\ Payloads(batch) = <<>>
        /\ Payloads(queue) = <<>> /\ Payloads(AllRecords) = <<>>
    BY <1>7, PayloadsOfNone DEF FwdInit
  <2> QED
    BY <2>1, <2>2 DEF LossStands
<1>9. LooksStand
  BY <1>3, OneIs DEF FwdInit, LooksStand
<1> QED
  BY <1>2, <1>4, <1>5, <1>6, <1>8, <1>9 DEF ForwarderStands

LEMMA ForwarderStandsImplies ==
  ForwarderStands => FwdTypeOK /\ ShippedOnce /\ NothingLostOnTheWay /\ DroppedIsEvicted
<1> SUFFICES ASSUME ForwarderStands
             PROVE  FwdTypeOK /\ ShippedOnce /\ NothingLostOnTheWay /\ DroppedIsEvicted
  OBVIOUS
<1> USE DEF ForwarderStands
<1>1. /\ Waiting \subseteq Submitters /\ Cardinality(Waiting) \in Nat
      /\ Cardinality(Waiting) <= Cardinality(Submitters) /\ Cardinality(Submitters) \in Nat
  <2>1. Waiting \subseteq Submitters
    BY DEF Waiting
  <2> QED
    BY <2>1, ThreadsCounted
<1>2. /\ appended \in 0..MaxRecs /\ evicted \in 0..MaxRecs
      /\ dropped \in 0..MaxRecs + Cardinality(Submitters)
  BY <1>1, ForwarderAssumption DEF FwdTypes, CountsStand
<1>3. FwdTypeOK
  BY <1>2 DEF FwdTypes, BatchStands, FwdTypeOK, Records
<1>4. ShippedOnce
  <2>1. DOMAIN intake = 1..Len(intake)
    BY LenProperties DEF FwdTypes
  <2> QED
    BY <2>1 DEF OrderStands, Increasing, ShippedOnce
<1>5. NothingLostOnTheWay
  <2>1. PICK a \in Seq(Records), b \in Seq(Records), c \in Seq(Records), d \in Seq(Records) :
          a = intake /\ b = worker /\ c = batch /\ d = queue
    BY DEF FwdTypes
  <2>2. Payloads(((a \o b) \o c) \o d)
          = Chain(Payloads(a), Payloads(b), Payloads(c), Payloads(d))
    BY ChainOfAll
  <2>3. Payloads(((intake \o worker) \o batch) \o queue)
          = Chain(Payloads(intake), Payloads(worker), Payloads(batch), Payloads(queue))
    BY <2>1, <2>2, Zenon
  <2> QED
    BY <2>3, Zenon DEF LossStands, AllRecords, NothingLostOnTheWay
<1>6. DroppedIsEvicted
  BY DEF LooksStand, Full, DroppedIsEvicted
<1> QED
  BY <1>3, <1>4, <1>5, <1>6

\* With any queue, batches and number of reader threads, and whatever the registry and the
\* intake answer: Datadog has the records once and in order, none is lost silently, and
\* the count of the dropped ones is right but where a thread was overtaken.
THEOREM ForwarderAlways ==
  FwdSpec => [](FwdTypeOK /\ ShippedOnce /\ NothingLostOnTheWay /\ DroppedIsEvicted)
<1>1. FwdInit => ForwarderStands
  BY ForwarderStandsInit
<1>2. ForwarderStands /\ [FwdNext]_fwdVars => ForwarderStands'
  BY ForwarderStandsInductive
<1>3. ForwarderStands => FwdTypeOK /\ ShippedOnce /\ NothingLostOnTheWay /\ DroppedIsEvicted
  BY ForwarderStandsImplies
<1> QED
  BY <1>1, <1>2, <1>3, PTL DEF FwdSpec

-----------------------------------------------------------------------------
(* What is captured of the fleet is shipped.                               *)

LEMMA WatchersStart == WatchersInit => ForwarderStands /\ CaptureStands
<1> SUFFICES ASSUME WatchersInit PROVE ForwarderStands /\ CaptureStands
  OBVIOUS
<1>1. ForwarderStands
  BY ForwarderStandsInit DEF WatchersInit
<1>2. ASSUME NEW r \in Reconcilers
      PROVE  rec[r] \in CapRecs /\ rec[r].on = NoSerial /\ rec[r].at \in {"idle", "over"}
  <2>1. Idle \in CapRecs /\ Idle.on = NoSerial /\ Idle.at = "idle"
    BY DEF Idle, CapRecs
  <2> DEFINE over == [Idle EXCEPT !.at = "over"]
  <2>2. over \in CapRecs /\ over.on = NoSerial /\ over.at = "over"
    BY DEF Idle, CapRecs
  <2> HIDE DEF over
  <2>3. rec[r] = IF which = "capture" THEN Idle ELSE over
    BY DEF WatchersInit, over
  <2> QED
    BY <2>1, <2>2, <2>3
<1>3. rec \in [Reconcilers -> CapRecs]
  <2>1. rec = [r \in Reconcilers |-> rec[r]]
    BY DEF WatchersInit
  <2> QED
    BY <1>2, <2>1
<1>4. CapTypes
  <2>1. broken \in 0..MaxBroken
    BY CaptureAssumption DEF WatchersInit, CapFresh
  <2>2. refs \in [Serials -> Nat]
    BY DEF WatchersInit, CapFresh
  <2> QED
    BY <1>3, <2>1, <2>2 DEF WatchersInit, CapFresh, CapTypes
<1>5. OnMonitor
  BY <1>2 DEF OnMonitor, AtMonitor
<1>6. OneApplies
  BY <1>2 DEF OneApplies, Applying, AtMonitor
<1>7. HoldsStand
  <2> SUFFICES ASSUME NEW s \in Serials PROVE HoldStands(s)
    BY DEF HoldsStand
  <2>1. captured = {} /\ refs[s] = 0
    BY DEF WatchersInit, CapFresh
  <2>2. \A r \in Reconcilers : rec[r].on # s
    BY <1>2, CaptureAssumption
  <2> QED
    BY <2>1, <2>2 DEF HoldStands
<1> QED
  BY <1>1, <1>4, <1>5, <1>6, <1>7 DEF CaptureStands

LEMMA WatchersStep ==
  ASSUME ForwarderStands, CaptureStands, [WatchersNext]_allVars
  PROVE  ForwarderStands' /\ CaptureStands'
<1>1. [FwdNext]_fwdVars /\ [CapNext]_capVars
  BY DEF WatchersNext, allVars
<1> QED
  BY <1>1, ForwarderStandsInductive, CaptureStandsInductive

\* With any fleet, queue, batches and reader threads, however scans, reloads, flushes and
\* failures of the intake, of the registry and of the monitors interleave: Datadog has the
\* records once and in order, none is lost without a trace, the count of the dropped ones
\* is that of the evicted ones but where a thread was overtaken, and each captured monitor
\* is held by one reference, but where an acquire or a release broke off.
THEOREM DatadogAlways == WatchersSpec => []DatadogInv
<1>1. WatchersInit => ForwarderStands /\ CaptureStands
  BY WatchersStart
<1>2. ForwarderStands /\ CaptureStands /\ [WatchersNext]_allVars
        => (ForwarderStands /\ CaptureStands)'
  BY WatchersStep
<1>3. ForwarderStands /\ CaptureStands => DatadogInv
  BY ForwarderStandsImplies, CaptureStandsImplies DEF DatadogInv
<1> QED
  BY <1>1, <1>2, <1>3, PTL DEF WatchersSpec

=============================================================================
