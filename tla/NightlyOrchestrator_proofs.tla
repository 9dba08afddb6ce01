---------------------- MODULE NightlyOrchestrator_proofs ----------------------
(***************************************************************************)
(* What the nightly pipeline guarantees for every number of nights, slots  *)
(* and deaths of the process: a slot is run once, a pipeline is never      *)
(* replaced by another, a night that came to its epilogue is not run       *)
(* again, one whose suite failed is never green, and no night starts its   *)
(* suite a third time.                                                     *)
(***************************************************************************)
EXTENDS NightlyOrchestrator, TLAPS

-----------------------------------------------------------------------------
(* Types.                                                                  *)

NightRow ==
  [slot : 0 .. MaxSlots, status : Unfinished \cup Finished,
   step : MainSteps \cup {"none", "bench_recover", "handoff", "done"},
   run : {"none", "open", "ok", "bad"}, attempts : Nat, report : BOOLEAN, launches : Nat]

TickPlaces == {"idle", "reviving", "closing", "bumping", "launching", "deciding"}
PipePlaces == {"none", "gate", "enter", "work", "restarting", "linking", "waiting",
               "recover", "handoff", "finish", "report", "done"}

Call == [at : TickPlaces, night : Nat, resume : MainSteps \cup {"none", "finalize"}]
Pipeline == [at : PipePlaces, night : Nat, step : MainSteps \cup {"none"},
             ran : BOOLEAN, ok : BOOLEAN, outcome : Finished]
SuiteRun == [run : {"none", "open", "ok", "bad"}, night : Nat]

NightTypes ==
  /\ nights \in Seq(NightRow) /\ Len(nights) <= MaxNights
  /\ up \in BOOLEAN /\ resumed \in BOOLEAN /\ cancel \in BOOLEAN /\ pending \in BOOLEAN
  /\ tick \in Call /\ runNow \in Call
  /\ lock \in {"free", "tick", "runNow"}
  /\ pipe \in Pipeline
  /\ bench \in {"free", "manual", "nightly"} /\ suite \in SuiteRun
  /\ slot \in 0 .. MaxSlots /\ deaths \in 0 .. MaxDeaths

\* Between the reading of a row and the launch of its pipeline.
OnItsWay == {"reviving", "closing", "bumping", "launching"}

\* Whose night and whose step each of them is at.
Whereabouts ==
  /\ tick.night \in 0 .. Len(nights)
  /\ tick.at \in OnItsWay => tick.night # 0
  /\ tick.at = "reviving" => tick.resume = "firmware_update"
  /\ tick.at \in {"closing", "bumping"} => tick.resume = "suite" /\ resumed
  /\ runNow.night \in 0 .. Len(nights) /\ runNow.at \in {"idle", "launching"}
  /\ runNow.at = "launching" => runNow.night # 0 /\ runNow.resume = "none"
  /\ pipe.night \in 0 .. Len(nights)
  /\ pipe.at = "none" <=> pipe.night = 0
  /\ pipe.at \in {"enter", "work", "restarting", "linking", "waiting"} => pipe.step \in MainSteps
  /\ pipe.at = "restarting" => pipe.step = "self_update"
  /\ pipe.at \in {"linking", "waiting"} => pipe.step = "suite"
  /\ suite.night \in 0 .. Len(nights)

\* A boot bumps the attempts of one night once.
AttemptsCounted ==
  \A n \in DOMAIN nights :
    /\ nights[n].attempts <= deaths + 1
    /\ ~resumed \/ tick.at \in {"closing", "bumping"} => nights[n].attempts <= deaths

NightTypeInv == NightTypes /\ Whereabouts

-----------------------------------------------------------------------------
(* The steps of a night.                                                   *)

LEMMA StepsAre ==
  /\ DOMAIN Steps = 1 .. 6
  /\ MainSteps = {"self_update", "firmware_update", "prebuild", "bench_check", "suite", "soak"}
<1>1. DOMAIN Steps = 1 .. 6
  BY DEF Steps
<1>2. /\ Steps[1] = "self_update" /\ Steps[2] = "firmware_update" /\ Steps[3] = "prebuild"
      /\ Steps[4] = "bench_check" /\ Steps[5] = "suite" /\ Steps[6] = "soak"
  BY DEF Steps
<1>3. 1 .. 6 = {1, 2, 3, 4, 5, 6}
  OBVIOUS
<1> QED
  BY <1>1, <1>2, <1>3 DEF MainSteps, Range

LEMMA IndexIs ==
  /\ Index("self_update") = 1 /\ Index("firmware_update") = 2 /\ Index("prebuild") = 3
  /\ Index("bench_check") = 4 /\ Index("suite") = 5 /\ Index("soak") = 6
<1>1. DOMAIN Steps = 1 .. 6
  BY StepsAre
<1>2. /\ Steps[1] = "self_update" /\ Steps[2] = "firmware_update" /\ Steps[3] = "prebuild"
      /\ Steps[4] = "bench_check" /\ Steps[5] = "suite" /\ Steps[6] = "soak"
  BY DEF Steps
<1>3. ASSUME NEW x, NEW i \in 1 .. 6, Steps[i] = x, \A k \in 1 .. 6 : Steps[k] = x => k = i
      PROVE  Index(x) = i
  BY <1>1, <1>3 DEF Index
<1>4. 1 .. 6 = {1, 2, 3, 4, 5, 6}
  OBVIOUS
<1> QED
  BY <1>2, <1>3, <1>4

\* The step after another.
LEMMA NextStep ==
  /\ Steps[Index("self_update") + 1] = "firmware_update"
  /\ Steps[Index("firmware_update") + 1] = "prebuild"
  /\ Steps[Index("prebuild") + 1] = "bench_check"
  /\ Steps[Index("bench_check") + 1] = "suite"
  /\ Steps[Index("suite") + 1] = "soak"
BY IndexIs DEF Steps

-----------------------------------------------------------------------------
(* The writes of the database.                                             *)

LEMMA RowWritten ==
  ASSUME nights \in Seq(NightRow), NEW n \in DOMAIN nights, NEW row \in NightRow, Write(n, row)
  PROVE  /\ nights' \in Seq(NightRow) /\ Len(nights') = Len(nights) /\ DOMAIN nights' = DOMAIN nights
         /\ nights'[n] = row
         /\ \A m \in DOMAIN nights : m # n => nights'[m] = nights[m]
BY DEF Write

LEMMA RowAdded ==
  ASSUME nights \in Seq(NightRow), NEW row \in NightRow, nights' = Append(nights, row)
  PROVE  /\ nights' \in Seq(NightRow) /\ Len(nights') = Len(nights) + 1
         /\ DOMAIN nights \subseteq DOMAIN nights' /\ DOMAIN nights' = DOMAIN nights \cup {Len(nights) + 1}
         /\ nights'[Len(nights) + 1] = row
         /\ Len(nights) + 1 \notin DOMAIN nights
         /\ \A m \in DOMAIN nights : nights'[m] = nights[m]
OBVIOUS

\* The end of a run gives its exit code to the run of the pipeline, if that is the
\* one, and to the night linked to it.
LEMMA RunEnded ==
  ASSUME nights \in Seq(NightRow), suite \in SuiteRun, NEW code \in {"ok", "bad"}, EndRun(code)
  PROVE  /\ nights' \in Seq(NightRow) /\ Len(nights') = Len(nights) /\ DOMAIN nights' = DOMAIN nights
         /\ \A n \in DOMAIN nights :
              nights'[n] = IF bench = "nightly" /\ n = suite.night
                           THEN [nights[n] EXCEPT !.run = code] ELSE nights[n]
         /\ suite' = IF bench = "nightly" THEN [suite EXCEPT !.run = code] ELSE suite
         /\ suite' \in SuiteRun /\ bench' = "free" /\ suite'.night = suite.night
<1>1. CASE bench = "nightly"
  <2>0. \A n \in DOMAIN nights : nights[n] \in NightRow
    OBVIOUS
  <2>1. \A n \in DOMAIN nights : [nights[n] EXCEPT !.run = code] \in NightRow
    BY <2>0 DEF NightRow
  <2>2. nights' = [n \in 1 .. Len(nights) |->
               IF n = suite.night THEN [nights[n] EXCEPT !.run = code] ELSE nights[n]]
    BY <1>1 DEF EndRun
  <2>3. \A n \in 1 .. Len(nights) : nights'[n] \in NightRow
    BY <2>1, <2>2
  <2>4. nights' \in [1 .. Len(nights) -> NightRow]
    BY <2>2, <2>3
  <2>5. nights' \in Seq(NightRow) /\ Len(nights') = Len(nights)
    BY <2>2, <2>4
  <2>6. suite' = [suite EXCEPT !.run = code] /\ suite' \in SuiteRun /\ suite'.night = suite.night
    BY <1>1 DEF EndRun, SuiteRun
  <2> QED
    BY <1>1, <2>2, <2>5, <2>6 DEF EndRun
<1>2. CASE bench # "nightly"
  BY <1>2 DEF EndRun, SuiteRun
<1> QED
  BY <1>1, <1>2

\* The rows a night is created with.
LEMMA NewNightTyped ==
  ASSUME NEW s \in 0 .. MaxSlots
  PROVE  NewNight(s) \in NightRow
BY BoundsAssumption DEF NewNight, NightRow, Unfinished

-----------------------------------------------------------------------------
(* Types are kept.                                                         *)

LEMMA NightTypeInit == NightInit => NightTypeInv
<1> SUFFICES ASSUME NightInit PROVE NightTypeInv
  OBVIOUS
<1>1. Idle \in Call /\ NoPipe \in Pipeline /\ NoSuite \in SuiteRun
  BY DEF Idle, NoPipe, NoSuite, Call, Pipeline, SuiteRun, TickPlaces, PipePlaces, Finished
<1>a. nights = <<>> /\ <<>> \in Seq(NightRow) /\ Len(<<>>) = 0
  BY DEF NightInit, Fresh
<1>b. nights \in Seq(NightRow) /\ Len(nights) <= MaxNights
  BY <1>a, BoundsAssumption
<1>c. /\ up \in BOOLEAN /\ resumed \in BOOLEAN /\ cancel \in BOOLEAN /\ pending \in BOOLEAN
      /\ lock = "free" /\ bench = "free"
  BY DEF NightInit, Fresh
<1>d. tick \in Call /\ runNow \in Call /\ pipe \in Pipeline /\ suite \in SuiteRun
  BY <1>1 DEF NightInit, Fresh
<1>e. slot \in 0 .. MaxSlots /\ deaths \in 0 .. MaxDeaths
  BY BoundsAssumption DEF NightInit, Fresh
<1>2. NightTypes
  BY <1>b, <1>c, <1>d, <1>e DEF NightTypes
<1>3. Whereabouts
  BY DEF NightInit, Fresh, Whereabouts, Idle, NoPipe, NoSuite, OnItsWay
<1> QED
  BY <1>2, <1>3 DEF NightTypeInv

\* What Begin and Launch make of a typed call.
LEMMA LaunchTyped ==
  ASSUME NightTypes, Whereabouts, NEW n \in 1 .. Len(nights),
         NEW r \in MainSteps \cup {"none", "finalize"}, Launch(n, r)
  PROVE  /\ pipe' \in Pipeline /\ cancel' \in BOOLEAN
         /\ pipe'.night \in {n, pipe.night}
         /\ pipe'.at = "none" <=> pipe'.night = 0
         /\ \/ pipe' = pipe /\ Active
            \/ pipe'.at \in {"gate", "recover"} /\ ~Active /\ pipe'.night = n
<1>1. CASE Active
  BY <1>1 DEF Launch, NightTypes, Whereabouts
<1>2. CASE ~Active /\ r = "finalize"
  <2>1. PICK o \in {"passed", "failed"} :
          pipe' = [NoPipe EXCEPT !.at = "recover", !.night = n, !.outcome = o]
    BY <1>2 DEF Launch, Begin
  <2>2. pipe' = [at |-> "recover", night |-> n, step |-> "none", ran |-> FALSE, ok |-> TRUE,
                 outcome |-> o]
    BY <2>1 DEF NoPipe
  <2>3. pipe' \in Pipeline
    BY <2>2 DEF Pipeline, PipePlaces, Finished
  <2>4. cancel' = FALSE /\ n # 0
    BY <1>2 DEF Launch, Begin
  <2>5. pipe'.at = "recover" /\ pipe'.night = n
    BY <2>2
  <2> QED
    BY <1>2, <2>3, <2>4, <2>5
<1>3. CASE ~Active /\ r # "finalize"
  <2>1. pipe' = [at |-> "gate", night |-> n, step |-> r, ran |-> FALSE, ok |-> TRUE,
                 outcome |-> "error"]
    BY <1>3 DEF Launch, Begin, NoPipe
  <2>2. pipe' \in Pipeline
    BY <1>3, <2>1 DEF Pipeline, PipePlaces, Finished
  <2>4. cancel' = FALSE /\ n # 0
    BY <1>3 DEF Launch, Begin
  <2>5. pipe'.at = "gate" /\ pipe'.night = n
    BY <2>1
  <2> QED
    BY <1>3, <2>2, <2>4, <2>5
<1> QED
  BY <1>1, <1>2, <1>3

LEMMA TickTypes == NightTypeInv /\ Tick => NightTypeInv'
<1> USE BoundsAssumption DEF World, Whereabouts, OnItsWay
<1> SUFFICES ASSUME NightTypes, Whereabouts, Tick PROVE NightTypes' /\ Whereabouts'
  BY DEF NightTypeInv
<1>0. /\ nights \in Seq(NightRow) /\ Len(nights) \in Nat /\ DOMAIN nights = 1 .. Len(nights)
      /\ tick \in Call /\ \A n \in DOMAIN nights : nights[n] \in NightRow
  BY DEF NightTypes
<1>1. CASE TickReadsUnfinished
  <2>1. CASE UNCHANGED tick
    BY <1>1, <2>1 DEF TickReadsUnfinished, NightTypes
  <2>2. CASE \E n \in UnfinishedNights :
          /\ LatestUnfinished(n)
          /\ tick' = IF nights[n].status = "awaiting_restart"
                     THEN [at |-> "reviving", night |-> n, resume |-> "firmware_update"]
                     ELSE IF nights[n].step = "suite"
                     THEN [at |-> "closing", night |-> n, resume |-> "suite"]
                     ELSE [at |-> "launching", night |-> n, resume |-> ResumeAt(nights[n].step)]
    <3>1. PICK n \in DOMAIN nights, a \in {"reviving", "closing", "launching"},
               r \in MainSteps \cup {"none", "finalize"} :
            /\ tick' = [at |-> a, night |-> n, resume |-> r]
            /\ a = "reviving" => r = "firmware_update"
            /\ a = "closing" => r = "suite"
      BY <2>2, StepsAre DEF UnfinishedNights, ResumeAt
    <3>2. tick' \in Call
      BY <1>0, <3>1 DEF Call, TickPlaces
    <3> QED
      BY <1>0, <1>1, <3>1, <3>2 DEF TickReadsUnfinished, NightTypes
  <2> QED
    BY <1>1, <2>1, <2>2 DEF TickReadsUnfinished
<1>2. ASSUME NEW row \in NightRow, NEW a \in {"launching", "bumping"},
             NEW r \in MainSteps \cup {"none", "finalize"},
             tick.at \in OnItsWay, Write(tick.night, row),
             tick' = [tick EXCEPT !.at = a, !.resume = r],
             a = "bumping" => r = "suite" /\ resumed,
             UNCHANGED <<up, runNow, lock, pipe, cancel, World, resumed>>
      PROVE  NightTypes' /\ Whereabouts'
  <2>1. tick.night \in DOMAIN nights
    BY <1>0, <1>2
  <2>2. nights' \in Seq(NightRow) /\ Len(nights') = Len(nights)
    BY <1>0, <1>2, <2>1, RowWritten
  <2>3. tick' \in Call /\ tick'.at = a /\ tick'.resume = r /\ tick'.night = tick.night
    BY <1>0, <1>2 DEF Call, TickPlaces
  <2> QED
    BY <1>2, <2>1, <2>2, <2>3 DEF NightTypes
<1>3. CASE TickRevives
  <2>1. tick.night \in DOMAIN nights /\ tick.resume \in MainSteps
    BY <1>0, <1>3, StepsAre DEF TickRevives
  <2>2. [nights[tick.night] EXCEPT !.status = "running"] \in NightRow
    BY <1>0, <2>1 DEF NightRow, Unfinished
  <2>3. tick' = [tick EXCEPT !.at = "launching", !.resume = tick.resume]
    BY <1>0, <1>3 DEF TickRevives, Call
  <2> QED
    BY <1>2, <1>3, <2>1, <2>2, <2>3 DEF TickRevives
<1>4. CASE TickClosesRun
  <2>1. tick.night \in DOMAIN nights /\ tick.resume = "suite" /\ resumed
    BY <1>0, <1>4 DEF TickClosesRun
  <2>2. [nights[tick.night] EXCEPT !.run = IF @ = "open" THEN "bad" ELSE @] \in NightRow
    BY <1>0, <2>1 DEF NightRow
  <2>3. tick' = [tick EXCEPT !.at = "bumping", !.resume = "suite"]
    BY <1>0, <1>4, <2>1 DEF TickClosesRun, Call
  <2> QED
    BY <1>2, <1>4, <2>1, <2>2, <2>3, StepsAre DEF TickClosesRun
<1>5. CASE TickBumps
  <2>1. tick.night \in DOMAIN nights
    BY <1>0, <1>5 DEF TickBumps
  <2>2. [nights[tick.night] EXCEPT !.attempts = @ + 1] \in NightRow
    <3>1. nights[tick.night] \in NightRow
      BY <1>0, <2>1
    <3>2. nights[tick.night].attempts + 1 \in Nat
      BY <3>1 DEF NightRow
    <3> QED
      BY <3>1, <3>2 DEF NightRow
  <2>3. PICK r \in {"finalize", "suite"} : tick' = [tick EXCEPT !.at = "launching", !.resume = r]
    BY <1>5 DEF TickBumps
  <2> QED
    BY <1>2, <1>5, <2>1, <2>2, <2>3, StepsAre DEF TickBumps
<1>6. CASE TickLaunches
  <2>1. tick.night \in 1 .. Len(nights) /\ tick.resume \in MainSteps \cup {"none", "finalize"}
    BY <1>0, <1>6 DEF TickLaunches, Call
  <2>2. /\ pipe' \in Pipeline /\ cancel' \in BOOLEAN
        /\ pipe'.night \in {tick.night, pipe.night}
        /\ pipe'.at = "none" <=> pipe'.night = 0
        /\ pipe' = pipe \/ pipe'.at \in {"gate", "recover"}
    BY <1>6, <2>1, LaunchTyped DEF TickLaunches
  <2>3. Idle \in Call
    BY DEF Idle, Call, TickPlaces
  <2> QED
    BY <1>0, <1>6, <2>1, <2>2, <2>3 DEF TickLaunches, NightTypes, Idle
<1>7. CASE TickLocks
  <2>1. tick' \in Call /\ tick'.at = "deciding" /\ tick'.night = 0
    BY <1>7 DEF TickLocks, Idle, Call, TickPlaces
  <2> QED
    BY <1>0, <1>7, <2>1 DEF TickLocks, NightTypes
<1>8. CASE TickCreates
  <2>1. CASE Due /\ Len(nights) < MaxNights /\ nights' = Append(nights, NewNight(slot))
             /\ tick' = [at |-> "launching", night |-> Len(nights) + 1, resume |-> "none"]
             /\ UNCHANGED lock
    <3>1. NewNight(slot) \in NightRow
      BY NewNightTyped DEF NightTypes
    <3>2. nights' \in Seq(NightRow) /\ Len(nights') = Len(nights) + 1
      BY <1>0, <2>1, <3>1, RowAdded
    <3>3. tick' \in Call
      BY <1>0, <2>1 DEF Call, TickPlaces
    <3>4. /\ tick'.night = Len(nights) + 1 /\ tick'.at = "launching" /\ tick'.resume = "none"
          /\ tick'.night # 0 /\ tick'.night \in 0 .. Len(nights')
      BY <1>0, <2>1, <3>2
    <3>5. UNCHANGED <<up, resumed, runNow, pipe, cancel, World, lock>>
      BY <1>8, <2>1 DEF TickCreates
    <3>6. \A i \in 0 .. Len(nights) : i \in 0 .. Len(nights')
      BY <1>0, <3>2
    <3>7. NightTypes'
      BY <1>0, <2>1, <3>2, <3>3, <3>5 DEF NightTypes
    <3>8. Whereabouts'
      BY <3>4, <3>5, <3>6
    <3> QED
      BY <3>7, <3>8
  <2>2. CASE tick' = Idle /\ lock' = "free" /\ UNCHANGED nights
    <3>1. tick' \in Call /\ tick'.at = "idle" /\ tick'.night = 0
      BY <2>2 DEF Idle, Call, TickPlaces
    <3>2. UNCHANGED <<up, resumed, runNow, pipe, cancel, World>>
      BY <1>8 DEF TickCreates
    <3> QED
      BY <1>0, <2>2, <3>1, <3>2 DEF NightTypes
  <2> QED
    BY <1>8, <2>1, <2>2 DEF TickCreates
<1> QED
  BY <1>1, <1>3, <1>4, <1>5, <1>6, <1>7, <1>8 DEF Tick

LEMMA CallTypes ==
  NightTypeInv /\ (RunNowCreates \/ RunNowLaunches \/ CancelNight \/ ManualRunAsks \/ ManualRunStarts
                   \/ RunEnds \/ SlotComes \/ Dies \/ Boots) => NightTypeInv'
<1> USE BoundsAssumption DEF World, Whereabouts, OnItsWay, Orchestrator
<1> SUFFICES ASSUME NightTypes, Whereabouts,
                    RunNowCreates \/ RunNowLaunches \/ CancelNight \/ ManualRunAsks
                    \/ ManualRunStarts \/ RunEnds \/ SlotComes \/ Dies \/ Boots
             PROVE  NightTypes' /\ Whereabouts'
  BY DEF NightTypeInv
<1>0. /\ nights \in Seq(NightRow) /\ Len(nights) \in Nat /\ DOMAIN nights = 1 .. Len(nights)
      /\ tick \in Call /\ \A n \in DOMAIN nights : nights[n] \in NightRow
  BY DEF NightTypes
<1>1. CASE RunNowCreates
  <2>1. NewNight(0) \in NightRow
    BY NewNightTyped
  <2>2. nights' \in Seq(NightRow) /\ Len(nights') = Len(nights) + 1
    BY <1>0, <1>1, <2>1, RowAdded DEF RunNowCreates
  <2>3. runNow' \in Call /\ runNow'.at = "launching" /\ runNow'.night = Len(nights) + 1 /\ runNow'.resume = "none"
    BY <1>0, <1>1 DEF RunNowCreates, Call, TickPlaces
  <2>4. /\ UNCHANGED <<up, resumed, tick, pipe, cancel, World>> /\ lock' = "runNow"
        /\ Len(nights) < MaxNights
    BY <1>1 DEF RunNowCreates
  <2>5. \A i \in 0 .. Len(nights) : i \in 0 .. Len(nights')
    BY <1>0, <2>2
  <2>6. NightTypes'
    BY <1>0, <2>2, <2>3, <2>4 DEF NightTypes
  <2>7. Len(nights) + 1 # 0 /\ Len(nights) + 1 \in 0 .. Len(nights')
    BY <1>0, <2>2
  <2>8. Whereabouts'
    BY <2>3, <2>4, <2>5, <2>7
  <2> QED
    BY <2>6, <2>8
<1>2. CASE RunNowLaunches
  <2>1. runNow.night \in 1 .. Len(nights) /\ runNow.resume \in MainSteps \cup {"none", "finalize"}
    BY <1>0, <1>2 DEF RunNowLaunches
  <2>2. /\ pipe' \in Pipeline /\ cancel' \in BOOLEAN
        /\ pipe'.night \in {runNow.night, pipe.night}
        /\ pipe'.at = "none" <=> pipe'.night = 0
        /\ pipe' = pipe \/ pipe'.at \in {"gate", "recover"}
    BY <1>2, <2>1, LaunchTyped DEF RunNowLaunches
  <2>3. Idle \in Call /\ Idle.at = "idle" /\ Idle.night = 0
    BY DEF Idle, Call, TickPlaces
  <2> QED
    BY <1>0, <1>2, <2>1, <2>2, <2>3 DEF RunNowLaunches, NightTypes
<1>3. CASE CancelNight
  BY <1>3 DEF CancelNight, NightTypes
<1>4. CASE ManualRunAsks
  BY <1>4 DEF ManualRunAsks, NightTypes
<1>5. CASE ManualRunStarts
  BY <1>5, ZenonT(60) DEF ManualRunStarts, NightTypes
<1>6. CASE RunEnds
  <2>1. PICK code \in {"ok", "bad"} : EndRun(code)
    BY <1>6 DEF RunEnds
  <2>2. /\ nights' \in Seq(NightRow) /\ Len(nights') = Len(nights)
        /\ suite' \in SuiteRun /\ bench' = "free" /\ suite'.night = suite.night
    BY <2>1, RunEnded DEF NightTypes
  <2> QED
    BY <1>6, <2>2 DEF RunEnds, NightTypes
<1>7. CASE SlotComes
  BY <1>7 DEF SlotComes, memory, NightTypes
<1>8. CASE Dies
  <2>1. /\ Idle \in Call /\ NoPipe \in Pipeline /\ NoSuite \in SuiteRun
        /\ Idle.at = "idle" /\ Idle.night = 0 /\ NoPipe.at = "none" /\ NoPipe.night = 0
        /\ NoSuite.night = 0
    BY DEF Idle, NoPipe, NoSuite, Call, Pipeline, SuiteRun, TickPlaces, PipePlaces, Finished
  <2>2. deaths + 1 \in 0 .. MaxDeaths
    BY <1>8 DEF Dies, NightTypes
  <2>3. /\ deaths' = deaths + 1 /\ up' = FALSE /\ resumed' = FALSE
        /\ tick' = Idle /\ runNow' = Idle /\ lock' = "free" /\ pipe' = NoPipe /\ cancel' = FALSE
        /\ bench' = "free" /\ pending' = FALSE /\ suite' = NoSuite
        /\ nights' = nights /\ slot' = slot
    BY <1>8 DEF Dies
  <2>4. NightTypes'
    BY <1>0, <2>1, <2>2, <2>3 DEF NightTypes
  <2>5. Whereabouts'
    BY <1>0, <2>1, <2>3
  <2> QED
    BY <2>4, <2>5
<1>9. CASE Boots
  BY <1>9 DEF Boots, NightTypes
<1> QED
  BY <1>1, <1>2, <1>3, <1>4, <1>5, <1>6, <1>7, <1>8, <1>9

\* The pipeline in a step: only itself, and the row of its night, change.
PipeStep == MainStep \/ StepsAbort \/ Finalize

\* Going on to the next step, and to the epilogue.
LEMMA PipeMoves ==
  ASSUME NEW p \in Pipeline
  PROVE  /\ \A o \in Finished : EndSteps(p, o) => pipe' = [p EXCEPT !.at = "recover", !.outcome = o]
                                                 /\ pipe' \in Pipeline
         /\ p.step \in MainSteps \ {"soak"} /\ Advance(p) =>
              /\ pipe' = [p EXCEPT !.at = "enter", !.step = Steps[Index(p.step) + 1]]
              /\ pipe' \in Pipeline /\ pipe'.step \in MainSteps
<1>1. ASSUME p.step \in MainSteps \ {"soak"} PROVE Steps[Index(p.step) + 1] \in MainSteps
  BY <1>1, NextStep, StepsAre
<1> QED
  BY <1>1 DEF EndSteps, Advance, Pipeline, PipePlaces

LEMMA PipeTypes == NightTypeInv /\ PipeStep => NightTypeInv'
<1> USE DEF World, Own
<1> SUFFICES ASSUME NightTypes, Whereabouts, PipeStep PROVE NightTypes' /\ Whereabouts'
  BY DEF NightTypeInv
<1>0. /\ nights \in Seq(NightRow) /\ Len(nights) \in Nat /\ DOMAIN nights = 1 .. Len(nights)
      /\ pipe \in Pipeline /\ suite \in SuiteRun /\ \A n \in DOMAIN nights : nights[n] \in NightRow
  BY DEF NightTypes
<1>a. pipe.at # "none" => pipe.night \in DOMAIN nights /\ Night \in NightRow
  BY <1>0 DEF Whereabouts, Night
\* What has to be shown of a step of the pipeline.
<1>1. ASSUME nights' \in Seq(NightRow), Len(nights') = Len(nights), pipe' \in Pipeline,
             pipe'.night = pipe.night \/ pipe' = NoPipe, pipe'.at = "none" => pipe' = NoPipe,
             pipe.at # "none",
             pipe'.at \in {"enter", "work", "restarting", "linking", "waiting"} => pipe'.step \in MainSteps,
             pipe'.at = "restarting" => pipe'.step = "self_update",
             pipe'.at \in {"linking", "waiting"} => pipe'.step = "suite",
             suite' \in SuiteRun, suite'.night \in 0 .. Len(nights),
             bench' \in {"free", "manual", "nightly"},
             UNCHANGED <<Own, pending, slot, deaths>>
      PROVE  NightTypes' /\ Whereabouts'
  <2>1. NoPipe.night = 0 /\ NoPipe.at = "none"
    BY DEF NoPipe
  <2>2. NightTypes'
    BY <1>1 DEF NightTypes
  <2>3. pipe'.night \in 0 .. Len(nights) /\ (pipe'.at = "none" <=> pipe'.night = 0)
    BY <1>0, <1>1, <2>1 DEF Whereabouts
  <2>4. Whereabouts'
    BY <1>1, <2>3 DEF Whereabouts
  <2> QED
    BY <2>2, <2>4
<1>2. ASSUME NEW row \in NightRow, WriteNight(row), pipe.at # "none"
      PROVE  nights' \in Seq(NightRow) /\ Len(nights') = Len(nights)
  BY <1>0, <1>a, <1>2, RowWritten DEF WriteNight
<1>b. suite.night \in 0 .. Len(nights) /\ bench \in {"free", "manual", "nightly"}
  BY DEF Whereabouts, NightTypes
<1>3. ASSUME NEW o \in Finished, EndSteps(pipe, o), pipe.at # "none",
             UNCHANGED <<nights, World, Own>>
      PROVE  NightTypes' /\ Whereabouts'
  <2>1. pipe' = [pipe EXCEPT !.at = "recover", !.outcome = o] /\ pipe' \in Pipeline
    BY <1>0, <1>3, PipeMoves
  <2>2. pipe'.at = "recover" /\ pipe'.night = pipe.night
    BY <1>0, <2>1 DEF Pipeline
  <2> QED
    BY <1>0, <1>1, <1>3, <1>b, <2>1, <2>2
<1>4. ASSUME NEW p \in Pipeline, p.night = pipe.night, p.step \in MainSteps \ {"soak"}, Advance(p),
             pipe.at # "none", nights' \in Seq(NightRow), Len(nights') = Len(nights),
             UNCHANGED <<World, Own>>
      PROVE  NightTypes' /\ Whereabouts'
  <2>1. /\ pipe' = [p EXCEPT !.at = "enter", !.step = Steps[Index(p.step) + 1]]
        /\ pipe' \in Pipeline /\ pipe'.step \in MainSteps
    BY <1>4, PipeMoves
  <2>2. pipe'.at = "enter" /\ pipe'.night = pipe.night
    BY <1>4, <2>1 DEF Pipeline
  <2> QED
    BY <1>0, <1>1, <1>4, <1>b, <2>1, <2>2
<1>5. ASSUME NEW a \in PipePlaces \ {"none", "enter"}, pipe' = [pipe EXCEPT !.at = a], pipe.at # "none",
             a \in {"work", "restarting", "linking", "waiting"} => pipe.step \in MainSteps,
             a = "restarting" => pipe.step = "self_update",
             a \in {"linking", "waiting"} => pipe.step = "suite",
             nights' \in Seq(NightRow), Len(nights') = Len(nights),
             suite' \in SuiteRun, suite'.night \in 0 .. Len(nights),
             UNCHANGED <<bench, pending, slot, deaths, Own>>
      PROVE  NightTypes' /\ Whereabouts'
  <2>1. pipe' \in Pipeline /\ pipe'.at = a /\ pipe'.night = pipe.night /\ pipe'.step = pipe.step
    BY <1>0, <1>5 DEF Pipeline
  <2> QED
    BY <1>0, <1>1, <1>5, <1>b, <2>1
<1>6. CASE GatePasses
  <2>1. /\ nights' \in Seq(NightRow) /\ Len(nights') = Len(nights)
        /\ suite' \in SuiteRun /\ bench' = "free" /\ suite'.night = suite.night
    BY <1>0, <1>6, RunEnded DEF GatePasses
  <2>2. PICK x \in MainSteps : pipe' = [pipe EXCEPT !.at = "enter", !.step = x]
    <3>1. pipe.step \in MainSteps \cup {"none"} /\ Steps[1] \in MainSteps
      BY <1>0, StepsAre DEF Pipeline, Steps
    <3> QED
      BY <1>6, <3>1 DEF GatePasses
  <2>3. pipe' \in Pipeline /\ pipe'.at = "enter" /\ pipe'.night = pipe.night /\ pipe'.step = x
    BY <1>0, <2>2 DEF Pipeline, PipePlaces
  <2>4. pipe.at # "none" /\ UNCHANGED <<pending, slot, deaths, Own>>
    BY <1>6 DEF GatePasses
  <2> QED
    BY <1>1, <1>b, <2>1, <2>3, <2>4
<1>7. CASE GateRefuses \/ Canceled \/ CloneFailed \/ StepsAbort
  <2>1. "error" \in Finished /\ "canceled" \in Finished
    BY DEF Finished
  <2> QED
    BY <1>3, <1>7, <2>1 DEF GateRefuses, Canceled, CancelSeen, CloneFailed, StepsAbort
<1>8. CASE EnterStep
  <2>1. pipe.at = "enter" /\ pipe.step \in MainSteps
    BY <1>8 DEF EnterStep, Whereabouts
  <2>2. [Night EXCEPT !.step = pipe.step] \in NightRow
    BY <1>a, <2>1 DEF NightRow
  <2>3. nights' \in Seq(NightRow) /\ Len(nights') = Len(nights)
    BY <1>2, <1>8, <2>1, <2>2 DEF EnterStep
  <2> QED
    BY <1>0, <1>5, <1>8, <1>b, <2>1, <2>3 DEF EnterStep, PipePlaces
<1>9. CASE WorkDone
  <2>1. pipe.at = "work" /\ pipe.step \in MainSteps \ {"soak"}
    BY <1>9 DEF WorkDone, Whereabouts
  <2> QED
    BY <1>0, <1>4, <1>9, <2>1 DEF WorkDone
<1>10. CASE SelfUpdated
  <2>1. pipe.at = "work" /\ pipe.step = "self_update" /\ pipe.step \in MainSteps
    BY <1>10 DEF SelfUpdated, Whereabouts
  <2>2. [Night EXCEPT !.status = "awaiting_restart"] \in NightRow
    BY <1>a, <2>1 DEF NightRow, Unfinished
  <2>3. nights' \in Seq(NightRow) /\ Len(nights') = Len(nights)
    BY <1>2, <1>10, <2>1, <2>2 DEF SelfUpdated
  <2> QED
    BY <1>0, <1>5, <1>10, <1>b, <2>1, <2>3 DEF SelfUpdated, PipePlaces
<1>11. CASE RestartSurvived
  <2>1. pipe.at = "restarting" /\ pipe.step \in MainSteps \ {"soak"}
    BY <1>11 DEF RestartSurvived, Whereabouts
  <2>2. [Night EXCEPT !.status = "running"] \in NightRow
    BY <1>a, <2>1 DEF NightRow, Unfinished
  <2>3. nights' \in Seq(NightRow) /\ Len(nights') = Len(nights)
    BY <1>2, <1>11, <2>1, <2>2 DEF RestartSurvived
  <2> QED
    BY <1>0, <1>4, <1>11, <2>1, <2>3 DEF RestartSurvived
<1>12. CASE SuiteStarts
  <2>1. pipe.at = "work" /\ pipe.step = "suite" /\ pipe.step \in MainSteps \ {"soak"}
    BY <1>12 DEF SuiteStarts, Whereabouts
  <2>2. CASE EndSteps(pipe, "canceled") /\ UNCHANGED <<nights, bench, suite>>
    <3>1. "canceled" \in Finished
      BY DEF Finished
    <3> QED
      BY <1>3, <1>12, <2>1, <2>2, <3>1 DEF SuiteStarts
  <2>3. CASE Advance([pipe EXCEPT !.ran = TRUE, !.ok = FALSE]) /\ UNCHANGED <<nights, bench, suite>>
    <3>1. PICK p : p = [pipe EXCEPT !.ran = TRUE, !.ok = FALSE] /\ Advance(p)
      BY <2>3
    <3>2. p \in Pipeline /\ p.night = pipe.night /\ p.step = pipe.step
      BY <1>0, <3>1 DEF Pipeline
    <3>3. UNCHANGED <<World, Own>> /\ nights' = nights
      BY <1>12, <2>3 DEF SuiteStarts
    <3> QED
      BY <1>0, <1>4, <2>1, <3>1, <3>2, <3>3
  <2>4. CASE /\ bench' = "nightly" /\ suite' = [run |-> "open", night |-> 0]
             /\ pipe' = [pipe EXCEPT !.at = "linking", !.ran = TRUE]
             /\ WriteNight([Night EXCEPT !.launches = @ + 1])
    <3>1. Night.launches + 1 \in Nat
      BY <1>a, <2>1 DEF NightRow
    <3>2. [Night EXCEPT !.launches = @ + 1] \in NightRow
      BY <1>a, <2>1, <3>1 DEF NightRow
    <3>3. nights' \in Seq(NightRow) /\ Len(nights') = Len(nights)
      BY <1>2, <2>1, <2>4, <3>2
    <3>4. pipe' \in Pipeline /\ pipe'.at = "linking" /\ pipe'.night = pipe.night /\ pipe'.step = "suite"
      BY <1>0, <2>1, <2>4 DEF Pipeline, PipePlaces
    <3>5. suite' \in SuiteRun /\ suite'.night \in 0 .. Len(nights)
      BY <1>0, <2>4 DEF SuiteRun
    <3>6. UNCHANGED <<pending, slot, deaths, Own>>
      BY <1>12 DEF SuiteStarts
    <3> QED
      BY <1>1, <2>1, <2>4, <3>3, <3>4, <3>5, <3>6
  <2> QED
    BY <1>12, <2>2, <2>3, <2>4 DEF SuiteStarts
<1>13. CASE SuiteLinks
  <2>1. pipe.at = "linking" /\ pipe.step = "suite" /\ pipe.night \in 1 .. Len(nights) /\ pipe.step \in MainSteps
    BY <1>0, <1>a, <1>13, StepsAre DEF SuiteLinks, Whereabouts
  <2>2. [Night EXCEPT !.run = suite.run] \in NightRow
    BY <1>0, <1>a, <2>1 DEF NightRow, SuiteRun
  <2>3. nights' \in Seq(NightRow) /\ Len(nights') = Len(nights)
    BY <1>2, <1>13, <2>1, <2>2 DEF SuiteLinks
  <2>4. suite' \in SuiteRun /\ suite'.night = pipe.night
    BY <1>0, <1>13, <2>1 DEF SuiteLinks, SuiteRun
  <2>5. suite'.night \in 0 .. Len(nights)
    BY <1>0, <2>1, <2>4
  <2> QED
    BY <1>0, <1>5, <1>13, <2>1, <2>3, <2>4, <2>5 DEF SuiteLinks, PipePlaces
<1>14. ASSUME NEW v \in BOOLEAN, pipe.at = "waiting", Advance([pipe EXCEPT !.ok = v]),
              UNCHANGED <<nights, World, Own>>
       PROVE  NightTypes' /\ Whereabouts'
  <2>1. PICK p : p = [pipe EXCEPT !.ok = v] /\ Advance(p)
    BY <1>14
  <2>2. p \in Pipeline /\ p.night = pipe.night /\ p.step = pipe.step
    BY <1>0, <2>1 DEF Pipeline
  <2>3. pipe.step \in MainSteps \ {"soak"}
    BY <1>14 DEF Whereabouts
  <2> QED
    BY <1>0, <1>4, <1>14, <2>1, <2>2, <2>3
<1>15. CASE SuiteOver \/ SuiteAbandoned
  <2>1. (suite.run = "ok") \in BOOLEAN /\ FALSE \in BOOLEAN
    OBVIOUS
  <2> QED
    BY <1>14, <1>15, <2>1 DEF SuiteOver, SuiteAbandoned
<1>16. CASE SoakDone
  <2>1. PICK o \in Finished : EndSteps(pipe, o)
    BY <1>16 DEF SoakDone, Finished
  <2> QED
    BY <1>3, <1>16, <2>1 DEF SoakDone
<1>17. CASE Recovers
  <2>1. pipe.at = "recover"
    BY <1>17 DEF Recovers
  <2>2. [Night EXCEPT !.step = "bench_recover"] \in NightRow
    BY <1>a, <2>1 DEF NightRow
  <2>3. nights' \in Seq(NightRow) /\ Len(nights') = Len(nights)
    BY <1>2, <1>17, <2>1, <2>2 DEF Recovers
  <2> QED
    BY <1>0, <1>5, <1>17, <1>b, <2>1, <2>3 DEF Recovers, PipePlaces
<1>18. CASE HandsOff
  <2>1. pipe.at = "handoff"
    BY <1>18 DEF HandsOff
  <2>2. [Night EXCEPT !.step = "handoff"] \in NightRow
    BY <1>a, <2>1 DEF NightRow
  <2>3. nights' \in Seq(NightRow) /\ Len(nights') = Len(nights)
    BY <1>2, <1>18, <2>1, <2>2 DEF HandsOff
  <2>4. pipe' \in Pipeline /\ pipe'.at = "finish" /\ pipe'.night = pipe.night
    BY <1>0, <1>18 DEF HandsOff, Pipeline, PipePlaces, Finished
  <2> QED
    BY <1>0, <1>1, <1>18, <1>b, <2>1, <2>3, <2>4 DEF HandsOff
<1>19. CASE Finishes
  <2>1. pipe.at = "finish" /\ pipe.outcome \in Finished
    BY <1>0, <1>19 DEF Finishes, Pipeline
  <2>2. [Night EXCEPT !.status = pipe.outcome] \in NightRow
    BY <1>a, <2>1 DEF NightRow
  <2>3. nights' \in Seq(NightRow) /\ Len(nights') = Len(nights)
    BY <1>2, <1>19, <2>1, <2>2 DEF Finishes
  <2> QED
    BY <1>0, <1>5, <1>19, <1>b, <2>1, <2>3 DEF Finishes, PipePlaces
<1>20. CASE Reports
  <2>1. pipe.at = "report"
    BY <1>20 DEF Reports
  <2>2. [Night EXCEPT !.report = TRUE] \in NightRow
    BY <1>a, <2>1 DEF NightRow
  <2>3. nights' \in Seq(NightRow) /\ Len(nights') = Len(nights)
    BY <1>2, <1>20, <2>1, <2>2 DEF Reports
  <2> QED
    BY <1>0, <1>5, <1>20, <1>b, <2>1, <2>3 DEF Reports, PipePlaces
<1>21. CASE PipelineEnds
  <2>1. pipe.at = "done" /\ pipe' = NoPipe
    BY <1>21 DEF PipelineEnds
  <2>2. [Night EXCEPT !.step = "done"] \in NightRow
    BY <1>a, <2>1 DEF NightRow
  <2>3. nights' \in Seq(NightRow) /\ Len(nights') = Len(nights)
    BY <1>2, <1>21, <2>1, <2>2 DEF PipelineEnds
  <2>4. NoPipe \in Pipeline /\ NoPipe.at = "none"
    BY DEF NoPipe, Pipeline, PipePlaces, Finished
  <2> QED
    BY <1>0, <1>1, <1>21, <1>b, <2>1, <2>3, <2>4 DEF PipelineEnds
<1> QED
  BY <1>6, <1>7, <1>8, <1>9, <1>10, <1>11, <1>12, <1>13, <1>15, <1>16, <1>17, <1>18, <1>19, <1>20,
     <1>21 DEF PipeStep, MainStep, Finalize

\* Every step keeps the types and the whereabouts.
LEMMA NightTypeNext == NightTypeInv /\ [NightNext]_nightVars => NightTypeInv'
<1>1. NightTypeInv /\ UNCHANGED nightVars => NightTypeInv'
  BY DEF NightTypeInv, NightTypes, Whereabouts, nightVars, memory
<1> QED
  BY <1>1, TickTypes, CallTypes, PipeTypes DEF NightNext, PipeStep

\* The types, over every behaviour.
THEOREM NightTyped == NightSpec => []NightTypeInv
<1>1. NightInit => NightTypeInv
  BY NightTypeInit
<1>2. NightTypeInv /\ [NightNext]_nightVars => NightTypeInv'
  BY NightTypeNext
<1> QED
  BY <1>1, <1>2, PTL DEF NightSpec

-----------------------------------------------------------------------------
(* Slots and attempts.                                                     *)

\* A row that is rewritten keeps its slot, and its attempts unless they are bumped.
SameNight(n) == nights'[n].slot = nights[n].slot /\ nights'[n].attempts = nights[n].attempts

LEMMA RowsNext ==
  ASSUME NightTypeInv, [NightNext]_nightVars
  PROVE  \/ DOMAIN nights' = DOMAIN nights /\ \A n \in DOMAIN nights : SameNight(n)
         \/ /\ TickBumps /\ DOMAIN nights' = DOMAIN nights /\ tick.night \in DOMAIN nights
            /\ \A n \in DOMAIN nights : n # tick.night => SameNight(n)
            /\ nights'[tick.night].slot = nights[tick.night].slot
            /\ nights'[tick.night].attempts = nights[tick.night].attempts + 1
         \/ /\ DOMAIN nights' = DOMAIN nights \cup {Len(nights) + 1}
            /\ Len(nights) + 1 \notin DOMAIN nights /\ \A n \in DOMAIN nights : SameNight(n)
            /\ \/ nights'[Len(nights) + 1] = NewNight(0) /\ RunNowCreates
               \/ nights'[Len(nights) + 1] = NewNight(slot) /\ Due /\ TickCreates
<1> DEFINE Kept == DOMAIN nights' = DOMAIN nights /\ \A n \in DOMAIN nights : SameNight(n)
<1>0. /\ nights \in Seq(NightRow) /\ DOMAIN nights = 1 .. Len(nights) /\ suite \in SuiteRun
      /\ \A n \in DOMAIN nights : nights[n] \in NightRow
      /\ pipe.at # "none" => pipe.night \in DOMAIN nights
      /\ tick.at \in OnItsWay => tick.night \in DOMAIN nights
  BY DEF NightTypeInv, NightTypes, Whereabouts
<1>1. ASSUME UNCHANGED nights PROVE Kept
  BY <1>1 DEF SameNight
<1>2. ASSUME NEW n \in DOMAIN nights, NEW row, Write(n, row),
             row.slot = nights[n].slot, row.attempts = nights[n].attempts
      PROVE  Kept
  BY <1>0, <1>2 DEF Write, SameNight
<1>3. ASSUME NEW code \in {"ok", "bad"}, EndRun(code) PROVE Kept
  <2>1. DOMAIN nights' = DOMAIN nights
        /\ \A n \in DOMAIN nights :
              nights'[n] = IF bench = "nightly" /\ n = suite.night
                           THEN [nights[n] EXCEPT !.run = code] ELSE nights[n]
    BY <1>0, <1>3, RunEnded
  <2>2. \A n \in DOMAIN nights : SameNight(n)
    BY <1>0, <2>1 DEF SameNight, NightRow
  <2> QED
    BY <2>1, <2>2
<1>4. CASE TickRevives \/ TickClosesRun
  <2>1. tick.night \in DOMAIN nights /\ nights[tick.night] \in NightRow
    BY <1>0, <1>4 DEF TickRevives, TickClosesRun, OnItsWay
  <2>2. PICK row : Write(tick.night, row) /\ row.slot = nights[tick.night].slot
                   /\ row.attempts = nights[tick.night].attempts
    BY <1>4, <2>1 DEF TickRevives, TickClosesRun, NightRow
  <2> QED
    BY <1>2, <2>1, <2>2
<1>5. CASE TickBumps
  <2>1. tick.night \in DOMAIN nights /\ nights[tick.night] \in NightRow
    BY <1>0, <1>5 DEF TickBumps, OnItsWay
  <2> QED
    BY <1>0, <1>5, <2>1 DEF TickBumps, Write, SameNight, NightRow
<1>6. CASE EnterStep \/ SelfUpdated \/ RestartSurvived \/ SuiteLinks \/ Recovers \/ HandsOff
           \/ Finishes \/ Reports \/ PipelineEnds
  <2>1. pipe.night \in DOMAIN nights /\ Night \in NightRow /\ Night = nights[pipe.night]
    BY <1>0, <1>6 DEF EnterStep, SelfUpdated, RestartSurvived, SuiteLinks, Recovers, HandsOff,
       Finishes, Reports, PipelineEnds, Night
  <2>2. PICK row : WriteNight(row) /\ row.slot = Night.slot /\ row.attempts = Night.attempts
    BY <1>6, <2>1 DEF EnterStep, SelfUpdated, RestartSurvived, SuiteLinks, Recovers, HandsOff,
       Finishes, Reports, PipelineEnds, NightRow
  <2> QED
    BY <1>2, <2>1, <2>2 DEF WriteNight
<1>7. CASE SuiteStarts
  <2>1. pipe.night \in DOMAIN nights /\ Night \in NightRow /\ Night = nights[pipe.night]
    BY <1>0, <1>7 DEF SuiteStarts, Night
  <2>2. CASE WriteNight([Night EXCEPT !.launches = @ + 1])
    <3>1. PICK row : WriteNight(row) /\ row.slot = Night.slot /\ row.attempts = Night.attempts
      BY <2>1, <2>2 DEF NightRow
    <3> QED
      BY <1>2, <2>1, <3>1 DEF WriteNight
  <2> QED
    BY <1>1, <1>7, <2>2 DEF SuiteStarts
<1>8. CASE GatePasses \/ RunEnds
  BY <1>3, <1>8 DEF GatePasses, RunEnds
<1>9. CASE TickCreates
  <2>1. CASE UNCHANGED nights
    BY <1>1, <2>1
  <2>2. CASE Due /\ nights' = Append(nights, NewNight(slot))
    <3>1. NewNight(slot) \in NightRow
      BY NewNightTyped DEF NightTypeInv, NightTypes
    <3> QED
      BY <1>0, <1>9, <2>2, <3>1, RowAdded DEF SameNight
  <2> QED
    BY <1>9, <2>1, <2>2 DEF TickCreates
<1>10. CASE RunNowCreates
  <2>1. NewNight(0) \in NightRow
    BY BoundsAssumption, NewNightTyped
  <2> QED
    BY <1>0, <1>10, <2>1, RowAdded DEF RunNowCreates, SameNight
<1>11. CASE TickReadsUnfinished \/ TickLaunches \/ TickLocks \/ RunNowLaunches \/ GateRefuses
            \/ Canceled \/ WorkDone \/ CloneFailed \/ SuiteOver \/ SuiteAbandoned \/ SoakDone
            \/ StepsAbort \/ CancelNight \/ ManualRunAsks \/ ManualRunStarts \/ SlotComes \/ Dies
            \/ Boots \/ UNCHANGED nightVars
  <2>1. UNCHANGED nights
    BY <1>11 DEF TickReadsUnfinished, TickLaunches, TickLocks, RunNowLaunches, GateRefuses,
       Canceled, WorkDone, CloneFailed, SuiteOver, SuiteAbandoned, SoakDone, StepsAbort,
       CancelNight, ManualRunAsks, ManualRunStarts, SlotComes, Dies, Boots, nightVars
  <2> QED
    BY <1>1, <2>1
<1> QED
  BY <1>4, <1>5, <1>6, <1>7, <1>8, <1>9, <1>10, <1>11 DEF NightNext, Tick, MainStep, Finalize

\* No scheduled slot is run twice: a row is only made for a slot later than every
\* other (nightly.py:203-214).
THEOREM SlotOnceAlways == NightSpec => []SlotOnce
<1>1. NightInit => SlotOnce
  BY DEF NightInit, Fresh, SlotOnce
<1>2. NightTypeInv /\ SlotOnce /\ [NightNext]_nightVars => SlotOnce'
  <2> SUFFICES ASSUME NightTypeInv, SlotOnce, [NightNext]_nightVars PROVE SlotOnce'
    OBVIOUS
  <2>1. CASE DOMAIN nights' = DOMAIN nights /\ \A n \in DOMAIN nights : nights'[n].slot = nights[n].slot
    BY <2>1 DEF SlotOnce
  <2>2. CASE /\ DOMAIN nights' = DOMAIN nights \cup {Len(nights) + 1}
             /\ Len(nights) + 1 \notin DOMAIN nights
             /\ \A n \in DOMAIN nights : nights'[n].slot = nights[n].slot
             /\ \/ nights'[Len(nights) + 1] = NewNight(0)
                \/ nights'[Len(nights) + 1] = NewNight(slot) /\ Due
    <3>1. CASE nights'[Len(nights) + 1] = NewNight(0)
      <4>1. nights'[Len(nights) + 1].slot = 0
        BY <3>1 DEF NewNight
      <4> QED
        BY <2>2, <4>1 DEF SlotOnce
    <3>2. CASE nights'[Len(nights) + 1] = NewNight(slot) /\ Due
      <4>1. nights'[Len(nights) + 1].slot = slot
        BY <3>2 DEF NewNight
      <4>2. \A n \in DOMAIN nights : nights[n].slot # slot
        <5>1. \A n \in DOMAIN nights : nights[n] \in NightRow
          BY DEF NightTypeInv, NightTypes
        <5>2. slot \in Nat /\ \A n \in DOMAIN nights : nights[n].slot \in Nat
          BY <5>1, BoundsAssumption DEF NightTypeInv, NightTypes, NightRow
        <5> QED
          BY <3>2, <5>2 DEF Due, LastScheduledBefore
      <4> QED
        BY <2>2, <4>1, <4>2 DEF SlotOnce
    <3> QED
      BY <2>2, <3>1, <3>2
  <2>3. \/ DOMAIN nights' = DOMAIN nights /\ \A n \in DOMAIN nights : nights'[n].slot = nights[n].slot
        \/ /\ DOMAIN nights' = DOMAIN nights \cup {Len(nights) + 1}
           /\ Len(nights) + 1 \notin DOMAIN nights
           /\ \A n \in DOMAIN nights : nights'[n].slot = nights[n].slot
           /\ \/ nights'[Len(nights) + 1] = NewNight(0)
              \/ nights'[Len(nights) + 1] = NewNight(slot) /\ Due
    BY RowsNext DEF SameNight
  <2> QED
    BY <2>1, <2>2, <2>3
<1> QED
  BY <1>1, <1>2, NightTyped, PTL DEF NightSpec

\* One boot, one resume: what the bound of the attempts rests on.
LEMMA AttemptsNext ==
  NightTypeInv /\ AttemptsCounted /\ [NightNext]_nightVars => AttemptsCounted'
<1> SUFFICES ASSUME NightTypeInv, AttemptsCounted, [NightNext]_nightVars,
                    NEW n \in DOMAIN nights'
             PROVE  /\ nights'[n].attempts <= deaths' + 1
                    /\ ~resumed' \/ tick'.at \in {"closing", "bumping"} => nights'[n].attempts <= deaths'
  BY DEF AttemptsCounted
<1>0. deaths \in Nat /\ tick \in Call /\ \A m \in DOMAIN nights : nights[m].attempts \in Nat
  <2>1. \A m \in DOMAIN nights : nights[m] \in NightRow
    BY DEF NightTypeInv, NightTypes
  <2> QED
    BY <2>1, BoundsAssumption DEF NightTypeInv, NightTypes, NightRow
\* Only the resume comes to closing or bumping, only a boot forgets the resume.
<1>1. \/ deaths' = deaths /\ (~resumed' \/ tick'.at \in {"closing", "bumping"}
                              => ~resumed \/ tick.at \in {"closing", "bumping"})
      \/ deaths' = deaths + 1 /\ nights' = nights
  <2>1. CASE TickReadsUnfinished
    BY <2>1 DEF TickReadsUnfinished, World
  <2>2. CASE TickRevives \/ TickClosesRun \/ TickBumps
    BY <1>0, <2>2 DEF TickRevives, TickClosesRun, TickBumps, World, Call
  <2>3. CASE TickLaunches \/ TickLocks \/ TickCreates
    BY <2>3 DEF TickLaunches, TickLocks, TickCreates, Idle, World
  <2>4. CASE Dies
    BY <2>4 DEF Dies
  <2>5. CASE UNCHANGED <<deaths, resumed, tick>>
    BY <2>5
  <2>6. CASE GatePasses \/ GateRefuses \/ Canceled \/ EnterStep \/ WorkDone \/ SelfUpdated
             \/ RestartSurvived \/ CloneFailed \/ SuiteStarts \/ SuiteLinks \/ SuiteOver
             \/ SuiteAbandoned \/ SoakDone
    BY <2>5, <2>6 DEF GatePasses, GateRefuses, Canceled, EnterStep, WorkDone, SelfUpdated,
       RestartSurvived, CloneFailed, SuiteStarts, SuiteLinks, SuiteOver, SuiteAbandoned, SoakDone,
       Own, World
  <2>7. CASE StepsAbort \/ Finalize \/ RunNowCreates \/ RunNowLaunches
    BY <2>5, <2>7 DEF StepsAbort, Finalize, Recovers, HandsOff, Finishes, Reports, PipelineEnds,
       RunNowCreates, RunNowLaunches, Own, World
  <2>8. CASE CancelNight \/ ManualRunAsks \/ ManualRunStarts \/ RunEnds \/ SlotComes \/ Boots
             \/ UNCHANGED nightVars
    BY <2>5, <2>8 DEF CancelNight, ManualRunAsks, ManualRunStarts, RunEnds, SlotComes, Boots,
       nightVars, memory, Orchestrator, World
  <2> QED
    BY <2>1, <2>2, <2>3, <2>4, <2>6, <2>7, <2>8 DEF NightNext, Tick, MainStep
<1>2. CASE n \in DOMAIN nights /\ nights'[n].attempts = nights[n].attempts
  BY <1>0, <1>1, <1>2 DEF AttemptsCounted
<1>3. CASE TickBumps /\ n = tick.night /\ n \in DOMAIN nights /\ nights'[n].attempts = nights[n].attempts + 1
  <2>1. tick.at = "bumping" /\ deaths' = deaths /\ resumed' = resumed /\ tick'.at = "launching"
    BY <1>0, <1>3 DEF TickBumps, World, Call
  <2>2. nights[n].attempts <= deaths
    BY <1>3, <2>1 DEF AttemptsCounted
  <2>3. resumed
    BY <2>1 DEF NightTypeInv, Whereabouts
  <2> QED
    BY <1>0, <1>3, <2>1, <2>2, <2>3
<1>4. CASE n = Len(nights) + 1 /\ nights'[n] \in {NewNight(0), NewNight(slot)}
           /\ (RunNowCreates \/ TickCreates)
  <2>1. nights'[n].attempts = 0
    BY <1>4 DEF NewNight
  <2>2. deaths' = deaths
    BY <1>4 DEF RunNowCreates, TickCreates, World
  <2> QED
    BY <1>0, <2>1, <2>2
<1> QED
  BY <1>2, <1>3, <1>4, RowsNext DEF SameNight

\* Type correctness, with the bound of the attempts.
THEOREM NightTypeOKAlways == NightSpec => []NightTypeOK
<1>1. NightInit => NightTypeInv /\ AttemptsCounted
  BY NightTypeInit DEF NightInit, Fresh, AttemptsCounted
<1>2. NightTypeInv /\ AttemptsCounted /\ [NightNext]_nightVars => NightTypeInv' /\ AttemptsCounted'
  BY NightTypeNext, AttemptsNext
<1>3. NightTypeInv /\ AttemptsCounted => NightTypeOK
  <2> SUFFICES ASSUME NightTypeInv, AttemptsCounted PROVE NightTypeOK
    OBVIOUS
  <2>1. nights \in Seq(NightRow) /\ DOMAIN nights = 1 .. Len(nights)
    BY DEF NightTypeInv, NightTypes
  <2>2. \A n \in DOMAIN nights : nights[n] \in NightType
    <3> TAKE n \in DOMAIN nights
    <3>1. nights[n] \in NightRow
      BY <2>1
    <3>2. nights[n].attempts \in Nat /\ nights[n].attempts <= deaths + 1 /\ deaths \in 0 .. MaxDeaths
      BY <3>1 DEF NightRow, AttemptsCounted, NightTypeInv, NightTypes
    <3>3. nights[n].attempts \in 0 .. MaxDeaths + 1
      BY <3>2, BoundsAssumption
    <3> QED
      BY <3>1, <3>3 DEF NightRow, NightType
  <2>3. nights \in Seq(NightType)
    BY <2>1, <2>2
  <2>4. tick.at \in TickPlaces /\ suite.night \in 0 .. Len(nights)
    BY DEF NightTypeInv, NightTypes, Whereabouts, Call
  <2> QED
    BY <2>3, <2>4 DEF NightTypeInv, NightTypes, Whereabouts, NightTypeOK, TickPlaces
<1> QED
  BY <1>1, <1>2, <1>3, PTL DEF NightSpec

\* A running pipeline is never replaced by another (nightly.py:776-783).
THEOREM NightNotReplacedAlways == NightSpec => NightNotReplaced
<1>1. NightTypeInv /\ [NightNext]_nightVars => (pipe.night # 0 => pipe'.night \in {0, pipe.night})
  <2> SUFFICES ASSUME NightTypeInv, [NightNext]_nightVars, pipe.night # 0
               PROVE  pipe'.night \in {0, pipe.night}
    OBVIOUS
  <2>0. Active /\ pipe \in Pipeline
    BY DEF NightTypeInv, NightTypes, Whereabouts, Active
  <2>1. CASE TickLaunches \/ RunNowLaunches
    BY <2>0, <2>1 DEF TickLaunches, RunNowLaunches, Launch
  <2>2. ASSUME NEW p \in Pipeline, p.night = pipe.night, Advance(p) PROVE pipe'.night = pipe.night
    BY <2>2 DEF Advance, Pipeline
  <2>3. ASSUME NEW o, EndSteps(pipe, o) PROVE pipe'.night = pipe.night
    BY <2>0, <2>3 DEF EndSteps, Pipeline
  <2>4. CASE PipelineEnds \/ Dies
    <3>1. pipe' = NoPipe
      BY <2>4 DEF PipelineEnds, Dies
    <3> QED
      BY <3>1 DEF NoPipe
  <2>5. CASE GateRefuses \/ Canceled \/ CloneFailed \/ SoakDone \/ StepsAbort
    BY <2>3, <2>5 DEF GateRefuses, Canceled, CloneFailed, SoakDone, StepsAbort
  <2>6. CASE WorkDone \/ RestartSurvived
    BY <2>0, <2>2, <2>6 DEF WorkDone, RestartSurvived
  <2>7. CASE SuiteOver \/ SuiteAbandoned
    <3>1. PICK v \in BOOLEAN : Advance([pipe EXCEPT !.ok = v])
      BY <2>7 DEF SuiteOver, SuiteAbandoned
    <3>2. [pipe EXCEPT !.ok = v] \in Pipeline /\ [pipe EXCEPT !.ok = v].night = pipe.night
      BY <2>0 DEF Pipeline
    <3> QED
      BY <2>2, <3>1, <3>2
  <2>8. CASE SuiteStarts
    <3>1. [pipe EXCEPT !.ran = TRUE, !.ok = FALSE] \in Pipeline
          /\ [pipe EXCEPT !.ran = TRUE, !.ok = FALSE].night = pipe.night
      BY <2>0 DEF Pipeline
    <3>2. CASE pipe' = [pipe EXCEPT !.at = "linking", !.ran = TRUE]
      BY <2>0, <3>2 DEF Pipeline
    <3>3. CASE EndSteps(pipe, "canceled")
      BY <2>3, <3>3
    <3>4. CASE Advance([pipe EXCEPT !.ran = TRUE, !.ok = FALSE])
      BY <2>2, <3>1, <3>4
    <3> QED
      BY <2>8, <3>2, <3>3, <3>4 DEF SuiteStarts
  <2>9. CASE GatePasses \/ EnterStep \/ SelfUpdated \/ SuiteLinks \/ Recovers \/ HandsOff \/ Finishes
             \/ Reports
    BY <2>0, <2>9 DEF GatePasses, EnterStep, SelfUpdated, SuiteLinks, Recovers, HandsOff, Finishes,
       Reports, Pipeline
  <2>10. CASE TickReadsUnfinished \/ TickRevives \/ TickClosesRun \/ TickBumps \/ TickLocks
              \/ TickCreates \/ RunNowCreates \/ CancelNight \/ ManualRunAsks \/ ManualRunStarts
              \/ RunEnds \/ SlotComes \/ Boots \/ UNCHANGED nightVars
    BY <2>10 DEF TickReadsUnfinished, TickRevives, TickClosesRun, TickBumps, TickLocks, TickCreates,
       RunNowCreates, CancelNight, ManualRunAsks, ManualRunStarts, RunEnds, SlotComes, Boots,
       nightVars, memory, Orchestrator
  <2> QED
    BY <2>1, <2>4, <2>5, <2>6, <2>7, <2>8, <2>9, <2>10 DEF NightNext, Tick, MainStep, Finalize
<1> QED
  BY <1>1, NightTyped, PTL DEF NightSpec, NightNotReplaced

-----------------------------------------------------------------------------
(* What a night has behind it.                                             *)
(*                                                                         *)
(* A row says how far its night came and what its suite did; the pipeline  *)
(* that works on it, the calls that are about to launch one and the suite  *)
(* that is linked to it must agree with the row.                           *)

Before == {"none", "self_update", "firmware_update", "prebuild", "bench_check"}
Upto == {"gate", "enter", "work", "restarting"}
Main == Upto \cup {"linking", "waiting"}
Leaving == {"handoff", "finish", "report", "done"}
Good == {"none", "ok"}

\* The suite was started at most once more than its crashes were counted.
RowStands(row) ==
  /\ row.launches <= 2 /\ row.launches <= row.attempts + 1
  /\ row.step \in Before => row.launches = 0
  /\ row.status = "awaiting_restart" => row.step \in Before
  /\ row.status = "passed" => row.run \in Good

\* A pipeline agrees with the row of its night.
PipeStands(p, row) ==
  /\ p.at \in Main => row.status \in Unfinished /\ row.step \notin Epilogue
  /\ row.status = "awaiting_restart" => p.at = "restarting"
  /\ p.at \in Upto /\ p.step \in Before => row.step \in Before
  /\ p.at \in Upto /\ p.step = "suite" => row.launches <= 1 /\ row.launches <= row.attempts
  /\ p.at \in {"work", "restarting"} => row.step = p.step
  /\ p.at = "handoff" => row.step = "bench_recover"
  /\ p.at \in {"finish", "report", "done"} => row.step = "handoff"
  /\ p.at \in {"report", "done"} => row.status \in Finished
  /\ p.at \in {"recover", "handoff", "finish"} /\ p.outcome = "passed" => row.run \in Good
  /\ p.at \in Upto /\ p.ran /\ p.ok => row.run = "ok"

\* A night may be launched so.
ReadyFor(at, r, row) ==
  /\ row.step \notin Epilogue
  /\ r \in Before => row.step \in Before
  /\ at = "reviving" => row.status = "awaiting_restart"
  /\ at # "reviving" => row.status = "running"
  /\ at = "launching" /\ r = "suite" => row.launches <= 1 /\ row.launches <= row.attempts

\* A call on its way to a launch: unless it only finishes the night, the night is
\* ready, or its own pipeline is under way and has not begun to leave.
CallStands(c) ==
  /\ c.at \in OnItsWay /\ c.resume # "finalize" =>
       /\ ~(pipe.night = c.night /\ pipe.at \in Leaving)
       /\ pipe.night = c.night \/ ReadyFor(c.at, c.resume, nights[c.night])
  /\ c.at \in OnItsWay /\ (c.resume = "finalize" \/ c.at \in {"closing", "bumping"}) =>
       nights[c.night].step \notin Before

\* The run of the suite and the night it is linked to.
LinkStands ==
  /\ suite.run = "open" <=> bench = "nightly"
  /\ bench = "nightly" => \A n \in DOMAIN nights : n = suite.night => nights[n].run \in {"open", "bad"}
  /\ pipe.at = "waiting" =>
       suite.night = pipe.night /\ (bench = "nightly" \/ nights[pipe.night].run = suite.run)

RowsStand == \A n \in DOMAIN nights : RowStands(nights[n])
OwnStands == pipe.at # "none" => PipeStands(pipe, nights[pipe.night])
CallsStand == CallStands(tick) /\ CallStands(runNow)

NightStands == RowsStand /\ OwnStands /\ CallsStand /\ LinkStands

LEMMA NightStandsInit == NightInit => NightStands
BY DEF NightInit, Fresh, NightStands, RowsStand, OwnStands, CallsStand, CallStands, LinkStands,
   Idle, NoPipe, NoSuite, OnItsWay

\* A step of the pipeline that touches no row but its own, and does not begin to
\* leave under a call that is on its way, keeps everything if the row does.
LEMMA OwnRowKept ==
  ASSUME NightTypeInv, NightStands, NEW n \in DOMAIN nights, n = pipe.night, pipe.at # "none",
         NEW row \in NightRow, nights' = [nights EXCEPT ![n] = row],
         RowStands(row), pipe'.night = n, pipe'.at # "none", PipeStands(pipe', row),
         row.step \in Before => nights[n].step \in Before,
         pipe'.at \in Leaving => pipe.at \in Leaving \/ ~Launching,
         UNCHANGED <<tick, runNow>>, LinkStands'
  PROVE  NightStands'
<1>1. /\ DOMAIN nights' = DOMAIN nights /\ nights'[n] = row
      /\ \A m \in DOMAIN nights : m # n => nights'[m] = nights[m]
  BY DEF NightTypeInv, NightTypes
<1>2. RowsStand'
  BY <1>1 DEF NightStands, RowsStand
<1>3. OwnStands'
  BY <1>1 DEF OwnStands
<1>4. ASSUME NEW c, CallStands(c), c.at \in OnItsWay => c.night \in DOMAIN nights,
             c.at \in OnItsWay => Launching
      PROVE  /\ c.at \in OnItsWay /\ c.resume # "finalize" =>
                  /\ ~(pipe'.night = c.night /\ pipe'.at \in Leaving)
                  /\ pipe'.night = c.night \/ ReadyFor(c.at, c.resume, nights'[c.night])
             /\ c.at \in OnItsWay /\ (c.resume = "finalize" \/ c.at \in {"closing", "bumping"}) =>
                  nights'[c.night].step \notin Before
  <2>1. CASE c.night = n
    BY <1>1, <1>4, <2>1 DEF CallStands
  <2>2. CASE c.night # n
    BY <1>1, <1>4, <2>2 DEF CallStands
  <2> QED
    BY <2>1, <2>2
<1>5. CallStands(tick)'
  <2>1. tick.at \in OnItsWay => tick.night \in DOMAIN nights
    BY DEF NightTypeInv, NightTypes, Whereabouts
  <2>2. tick.at \in OnItsWay => Launching
    BY DEF OnItsWay, Launching
  <2>3. CallStands(tick)
    BY DEF NightStands, CallsStand
  <2> QED
    BY <1>4, <2>1, <2>2, <2>3 DEF CallStands
<1>6. CallStands(runNow)'
  <2>1. runNow.at \in OnItsWay => runNow.night \in DOMAIN nights
    BY DEF NightTypeInv, NightTypes, Whereabouts, OnItsWay
  <2>2. runNow.at \in OnItsWay => Launching
    BY DEF OnItsWay, Launching
  <2>3. CallStands(runNow)
    BY DEF NightStands, CallsStand
  <2> QED
    BY <1>4, <2>1, <2>2, <2>3 DEF CallStands
<1> QED
  BY <1>2, <1>3, <1>5, <1>6 DEF NightStands, CallsStand

\* Most steps of the pipeline leave the runs of the suites alone.
LEMMA OwnStepKept ==
  ASSUME NightTypeInv, NightStands, NEW n \in DOMAIN nights, n = pipe.night, pipe.at # "none",
         NEW row \in NightRow, nights' = [nights EXCEPT ![n] = row],
         RowStands(row), pipe'.night = n, pipe'.at # "none", PipeStands(pipe', row),
         row.step \in Before => nights[n].step \in Before,
         pipe'.at \in Leaving => pipe.at \in Leaving \/ ~Launching,
         UNCHANGED <<tick, runNow, bench, suite>>,
         row.run = nights[n].run, pipe'.at # "waiting"
  PROVE  NightStands'
<1>1. DOMAIN nights' = DOMAIN nights /\ \A m \in DOMAIN nights : nights'[m].run = nights[m].run
  BY DEF NightTypeInv, NightTypes
<1>2. LinkStands'
  BY <1>1 DEF NightStands, LinkStands
<1> QED
  BY <1>2, OwnRowKept

\* Where the pipeline is, and the row of its night.
LEMMA PipeIsAt ==
  ASSUME NightTypeInv, NightStands, pipe.at # "none"
  PROVE  /\ pipe.night \in DOMAIN nights /\ Night \in NightRow
         /\ RowStands(Night) /\ PipeStands(pipe, Night)
         /\ nights = [nights EXCEPT ![pipe.night] = Night]
BY DEF NightTypeInv, NightTypes, Whereabouts, NightStands, RowsStand, OwnStands, Night

\* The end of the steps, whatever ended them.
LEMMA StepsEnd ==
  ASSUME NightTypeInv, NightStands, pipe.at \in Main,
         NEW p \in Pipeline, p.night = pipe.night, p.at \in Main, NEW o \in Finished, EndSteps(p, o),
         o = "passed" => Night.run \in Good, pipe.at # "restarting",
         UNCHANGED <<nights, tick, runNow, bench, suite>>
  PROVE  NightStands'
<1>1. /\ pipe.night \in DOMAIN nights /\ Night \in NightRow
      /\ RowStands(Night) /\ PipeStands(pipe, Night)
      /\ nights = [nights EXCEPT ![pipe.night] = Night] /\ pipe.at # "none"
  BY PipeIsAt DEF Main, Upto
<1>2. pipe' = [p EXCEPT !.at = "recover", !.outcome = o]
  BY DEF EndSteps
<1>3. pipe'.at = "recover" /\ pipe'.night = pipe.night /\ pipe'.outcome = o
  BY <1>2 DEF Pipeline
<1>4. PipeStands(pipe', Night)
  BY <1>1, <1>3 DEF PipeStands, Main, Upto, Leaving
<1>5. nights' = [nights EXCEPT ![pipe.night] = Night]
  BY <1>1
<1>6. RowStands(Night)
  BY <1>1
<1> HIDE DEF PipeStands, RowStands
<1> QED
  BY <1>1, <1>3, <1>4, <1>5, <1>6, OwnStepKept DEF Leaving, Night

\* The next step begins once this one is through.
LEMMA StepsAdvance ==
  ASSUME NightTypeInv, NightStands, pipe.at \in {"work", "restarting", "waiting"},
         NEW p \in Pipeline, p.night = pipe.night, p.step = pipe.step, Advance(p),
         pipe.step # "soak", p.ran /\ p.ok => Night.run = "ok",
         NEW row \in NightRow, nights' = [nights EXCEPT ![pipe.night] = row],
         row = Night \/ row = [Night EXCEPT !.status = "running"],
         row.status # "awaiting_restart",
         UNCHANGED <<tick, runNow, bench, suite>>
  PROVE  NightStands'
<1>1. /\ pipe.night \in DOMAIN nights /\ Night \in NightRow
      /\ RowStands(Night) /\ PipeStands(pipe, Night) /\ pipe.at # "none"
  BY PipeIsAt
<1>2. /\ row.step = Night.step /\ row.launches = Night.launches /\ row.attempts = Night.attempts
      /\ row.run = Night.run /\ row.status \in {Night.status, "running"}
  BY <1>1 DEF NightRow
<1>3. pipe.step \in MainSteps
  BY DEF NightTypeInv, Whereabouts
<1>4. PICK s : s = Steps[Index(p.step) + 1]
  OBVIOUS
<1>5. pipe' = [p EXCEPT !.at = "enter", !.step = s]
  BY <1>4 DEF Advance
<1>6. /\ pipe'.at = "enter" /\ pipe'.night = pipe.night /\ pipe'.step = s
      /\ pipe'.ran = p.ran /\ pipe'.ok = p.ok
  BY <1>5 DEF Pipeline
<1>7. /\ s \in Before => pipe.step \in Before \ {"bench_check"}
      /\ s = "suite" => pipe.step = "bench_check"
  BY <1>3, <1>4, NextStep, StepsAre DEF Before
<1>8. pipe.at # "waiting" => Night.step = pipe.step
  BY <1>1 DEF PipeStands
<1>9. pipe.at = "waiting" => pipe.step = "suite"
  BY DEF NightTypeInv, Whereabouts
<1>10. RowStands(row)
  BY <1>1, <1>2 DEF RowStands
<1>11. row.status \in Unfinished /\ row.step \notin Epilogue
  BY <1>1, <1>2 DEF PipeStands, Main, Upto, Unfinished
<1>12. s \in Before => row.step \in Before
  BY <1>2, <1>7, <1>8, <1>9 DEF Before
<1>13. s = "suite" => row.launches <= 1 /\ row.launches <= row.attempts
  <2>1. s = "suite" => Night.step = "bench_check"
    BY <1>7, <1>8, <1>9
  <2>2. s = "suite" => Night.launches = 0
    BY <1>1, <2>1 DEF RowStands, Before
  <2>3. row.attempts \in Nat
    BY DEF NightRow
  <2> QED
    BY <1>2, <2>2, <2>3
<1>14. PipeStands(pipe', row)
  BY <1>2, <1>6, <1>11, <1>12, <1>13 DEF PipeStands, Main, Upto
<1> HIDE DEF PipeStands, RowStands
<1> QED
  BY <1>1, <1>2, <1>6, <1>10, <1>14, OwnStepKept DEF Leaving, Night

\* The steps that end the run of the steps.
LEMMA EndingsKeep ==
  ASSUME NightTypeInv, NightStands,
         GateRefuses \/ Canceled \/ CloneFailed \/ StepsAbort \/ SoakDone
  PROVE  NightStands'
<1>1. pipe \in Pipeline /\ pipe.at # "restarting" /\ pipe.at \in Main
  BY DEF NightTypeInv, NightTypes, GateRefuses, Canceled, CancelSeen, CloneFailed, StepsAbort,
     SoakDone, Main, Upto
<1>2. UNCHANGED <<nights, tick, runNow, bench, suite>>
  BY DEF GateRefuses, Canceled, CloneFailed, StepsAbort, SoakDone, World, Own
<1>3. PICK o \in Finished : EndSteps(pipe, o) /\ (o = "passed" => Night.run \in Good)
  <2>1. CASE SoakDone
    <3>1. pipe.at = "work" /\ PipeStands(pipe, Night)
      BY <2>1, PipeIsAt DEF SoakDone
    <3>2. pipe.ran /\ pipe.ok => Night.run = "ok"
      BY <3>1 DEF PipeStands, Upto
    <3> QED
      BY <2>1, <3>2 DEF SoakDone, PersistedOk, Finished, Good, Night
  <2>2. CASE GateRefuses \/ Canceled \/ CloneFailed \/ StepsAbort
    BY <2>2 DEF GateRefuses, Canceled, CloneFailed, StepsAbort, Finished
  <2> QED
    BY <2>1, <2>2
<1> QED
  BY <1>1, <1>2, <1>3, StepsEnd

\* The steps that go on to the next.
LEMMA AdvancesKeep ==
  ASSUME NightTypeInv, NightStands,
         WorkDone \/ RestartSurvived \/ SuiteOver \/ SuiteAbandoned
  PROVE  NightStands'
<1>1. pipe \in Pipeline /\ pipe.at \in {"work", "restarting", "waiting"}
  BY DEF NightTypeInv, NightTypes, WorkDone, RestartSurvived, SuiteOver, SuiteAbandoned
<1>2. /\ pipe.night \in DOMAIN nights /\ Night \in NightRow /\ PipeStands(pipe, Night)
      /\ nights = [nights EXCEPT ![pipe.night] = Night]
  BY <1>1, PipeIsAt
<1>3. UNCHANGED <<tick, runNow, bench, suite>>
  BY DEF WorkDone, RestartSurvived, SuiteOver, SuiteAbandoned, World, Own
<1>4. pipe.step # "soak"
  BY DEF NightTypeInv, Whereabouts, WorkDone, RestartSurvived, SuiteOver, SuiteAbandoned
<1>5. CASE WorkDone
  <2>1. Advance(pipe) /\ UNCHANGED nights /\ pipe.at = "work"
    BY <1>5 DEF WorkDone
  <2>2. (pipe.ran /\ pipe.ok => Night.run = "ok") /\ Night.status # "awaiting_restart"
    BY <1>2, <2>1 DEF PipeStands, Upto
  <2> QED
    BY <1>1, <1>2, <1>3, <1>4, <2>1, <2>2, StepsAdvance
<1>6. CASE RestartSurvived
  <2>1. Advance(pipe) /\ pipe.at = "restarting"
        /\ nights' = [nights EXCEPT ![pipe.night] = [Night EXCEPT !.status = "running"]]
    BY <1>6 DEF RestartSurvived, WriteNight, Write
  <2>2. pipe.ran /\ pipe.ok => Night.run = "ok"
    BY <1>2, <2>1 DEF PipeStands, Upto
  <2>3. /\ [Night EXCEPT !.status = "running"] \in NightRow
        /\ [Night EXCEPT !.status = "running"].status = "running"
    BY <1>2 DEF NightRow, Unfinished
  <2> QED
    BY <1>1, <1>2, <1>3, <1>4, <2>1, <2>2, <2>3, StepsAdvance
<1>7. CASE SuiteOver \/ SuiteAbandoned
  <2>1. pipe.at = "waiting" /\ UNCHANGED nights
    BY <1>7 DEF SuiteOver, SuiteAbandoned
  <2>2. PICK ok \in BOOLEAN :
          Advance([pipe EXCEPT !.ok = ok]) /\ (ok => suite.run = "ok" /\ bench = "free")
    BY <1>7 DEF SuiteOver, SuiteAbandoned
  <2>3. ok => Night.run = "ok"
    BY <2>1, <2>2 DEF NightStands, LinkStands, Night
  <2>4. /\ [pipe EXCEPT !.ok = ok] \in Pipeline /\ [pipe EXCEPT !.ok = ok].ok = ok
        /\ [pipe EXCEPT !.ok = ok].night = pipe.night /\ [pipe EXCEPT !.ok = ok].step = pipe.step
    BY <1>1 DEF Pipeline
  <2>5. Night.status # "awaiting_restart"
    BY <1>2, <2>1 DEF PipeStands
  <2> QED
    BY <1>1, <1>2, <1>3, <1>4, <2>1, <2>2, <2>3, <2>4, <2>5, StepsAdvance
<1> QED
  BY <1>5, <1>6, <1>7

\* The writes of the pipeline on its own row, the suite's apart.
LEMMA WritesKeep ==
  ASSUME NightTypeInv, NightStands,
         EnterStep \/ SelfUpdated \/ Recovers \/ HandsOff \/ Finishes \/ Reports
  PROVE  NightStands'
<1>0. pipe \in Pipeline /\ pipe.at # "none"
  BY DEF NightTypeInv, NightTypes, EnterStep, SelfUpdated, Recovers, HandsOff, Finishes, Reports
<1>1. /\ pipe.night \in DOMAIN nights /\ Night \in NightRow
      /\ RowStands(Night) /\ PipeStands(pipe, Night) /\ Night = nights[pipe.night]
  BY <1>0, PipeIsAt DEF Night
<1>2. UNCHANGED <<tick, runNow, bench, suite>>
  BY DEF EnterStep, SelfUpdated, Recovers, HandsOff, Finishes, Reports, World, Own
<1>3. ASSUME NEW row \in NightRow, WriteNight(row), RowStands(row), pipe'.night = pipe.night,
             pipe'.at \notin {"none", "waiting"}, PipeStands(pipe', row), row.run = Night.run,
             row.step \in Before => Night.step \in Before,
             pipe'.at \in Leaving => pipe.at \in Leaving \/ ~Launching
      PROVE  NightStands'
  <2>1. nights' = [nights EXCEPT ![pipe.night] = row]
    BY <1>3 DEF WriteNight, Write
  <2> QED
    BY <1>0, <1>1, <1>2, <1>3, <2>1, OwnStepKept
<1>4. CASE EnterStep
  <2> DEFINE row == [Night EXCEPT !.step = pipe.step]
  <2>1. pipe.at = "enter" /\ WriteNight(row) /\ pipe' = [pipe EXCEPT !.at = "work"]
    BY <1>4 DEF EnterStep
  <2>2. /\ pipe'.at = "work" /\ pipe'.night = pipe.night /\ pipe'.step = pipe.step
        /\ pipe'.ran = pipe.ran /\ pipe'.ok = pipe.ok
    BY <1>0, <2>1 DEF Pipeline
  <2>3. pipe.step \in MainSteps
    BY <2>1 DEF NightTypeInv, Whereabouts
  <2>4. /\ row \in NightRow /\ row.step = pipe.step /\ row.status = Night.status
        /\ row.run = Night.run /\ row.launches = Night.launches /\ row.attempts = Night.attempts
    BY <1>1, <2>3 DEF NightRow
  <2>5. pipe.step \in Before => Night.step \in Before
    BY <1>1, <2>1 DEF PipeStands, Upto
  <2>6. RowStands(row)
    BY <1>1, <2>1, <2>4, <2>5 DEF RowStands, PipeStands
  <2>7. PipeStands(pipe', row)
    BY <1>1, <2>1, <2>2, <2>3, <2>4, StepsAre DEF PipeStands, Main, Upto, Epilogue
  <2> QED
    BY <1>3, <2>1, <2>2, <2>4, <2>5, <2>6, <2>7 DEF Leaving
<1>5. CASE SelfUpdated
  <2> DEFINE row == [Night EXCEPT !.status = "awaiting_restart"]
  <2>1. /\ pipe.at = "work" /\ pipe.step = "self_update" /\ WriteNight(row)
        /\ pipe' = [pipe EXCEPT !.at = "restarting"]
    BY <1>5 DEF SelfUpdated
  <2>2. /\ pipe'.at = "restarting" /\ pipe'.night = pipe.night /\ pipe'.step = pipe.step
        /\ pipe'.ran = pipe.ran /\ pipe'.ok = pipe.ok
    BY <1>0, <2>1 DEF Pipeline
  <2>4. /\ row \in NightRow /\ row.step = Night.step /\ row.status = "awaiting_restart"
        /\ row.run = Night.run /\ row.launches = Night.launches /\ row.attempts = Night.attempts
    BY <1>1 DEF NightRow, Unfinished
  <2>5. Night.step = "self_update"
    BY <1>1, <2>1 DEF PipeStands
  <2>6. RowStands(row)
    BY <1>1, <2>4, <2>5 DEF RowStands, Before
  <2>7. PipeStands(pipe', row)
    BY <1>1, <2>1, <2>2, <2>4, <2>5 DEF PipeStands, Main, Upto, Epilogue, Unfinished, Before
  <2> QED
    BY <1>3, <2>1, <2>2, <2>4, <2>6, <2>7 DEF Leaving
<1>6. CASE Recovers
  <2> DEFINE row == [Night EXCEPT !.step = "bench_recover"]
  <2>1. pipe.at = "recover" /\ WriteNight(row) /\ pipe' = [pipe EXCEPT !.at = "handoff"] /\ ~Launching
    BY <1>6 DEF Recovers
  <2>2. pipe'.at = "handoff" /\ pipe'.night = pipe.night /\ pipe'.outcome = pipe.outcome
    BY <1>0, <2>1 DEF Pipeline
  <2>4. /\ row \in NightRow /\ row.step = "bench_recover" /\ row.status = Night.status
        /\ row.run = Night.run /\ row.launches = Night.launches /\ row.attempts = Night.attempts
    BY <1>1 DEF NightRow
  <2>5. Night.status # "awaiting_restart"
    BY <1>1, <2>1 DEF PipeStands
  <2>6. RowStands(row) /\ row.step \notin Before
    BY <1>1, <2>4, <2>5 DEF RowStands, Before
  <2>7. PipeStands(pipe', row)
    BY <1>1, <2>1, <2>2, <2>4, <2>5 DEF PipeStands, Main, Upto
  <2> QED
    BY <1>3, <2>1, <2>2, <2>4, <2>6, <2>7
<1>7. CASE HandsOff
  <2> DEFINE row == [Night EXCEPT !.step = "handoff"]
  <2>1. /\ pipe.at = "handoff" /\ WriteNight(row)
        /\ pipe' = [pipe EXCEPT !.at = "finish", !.outcome = IF cancel THEN "canceled" ELSE @]
    BY <1>7 DEF HandsOff
  <2>2. pipe'.at = "finish" /\ pipe'.night = pipe.night /\ pipe'.outcome \in {pipe.outcome, "canceled"}
    BY <1>0, <2>1 DEF Pipeline
  <2>4. /\ row \in NightRow /\ row.step = "handoff" /\ row.status = Night.status
        /\ row.run = Night.run /\ row.launches = Night.launches /\ row.attempts = Night.attempts
    BY <1>1 DEF NightRow
  <2>5. Night.status # "awaiting_restart"
    BY <1>1, <2>1 DEF PipeStands
  <2>6. RowStands(row) /\ row.step \notin Before
    BY <1>1, <2>4, <2>5 DEF RowStands, Before
  <2>7. PipeStands(pipe', row)
    BY <1>1, <2>1, <2>2, <2>4, <2>5 DEF PipeStands, Main, Upto
  <2> QED
    BY <1>3, <2>1, <2>2, <2>4, <2>6, <2>7 DEF Leaving
<1>8. CASE Finishes
  <2> DEFINE row == [Night EXCEPT !.status = pipe.outcome]
  <2>1. pipe.at = "finish" /\ WriteNight(row) /\ pipe' = [pipe EXCEPT !.at = "report"]
    BY <1>8 DEF Finishes
  <2>2. pipe'.at = "report" /\ pipe'.night = pipe.night /\ pipe.outcome \in Finished
    BY <1>0, <2>1 DEF Pipeline
  <2>4. /\ row \in NightRow /\ row.step = Night.step /\ row.status = pipe.outcome
        /\ row.run = Night.run /\ row.launches = Night.launches /\ row.attempts = Night.attempts
    BY <1>1, <2>2 DEF NightRow
  <2>5. Night.step = "handoff" /\ (pipe.outcome = "passed" => Night.run \in Good)
    BY <1>1, <2>1 DEF PipeStands
  <2>6. RowStands(row)
    BY <1>1, <2>2, <2>4, <2>5 DEF RowStands, Before, Finished
  <2>7. PipeStands(pipe', row)
    BY <2>2, <2>4, <2>5 DEF PipeStands, Main, Upto, Finished
  <2> QED
    BY <1>3, <2>1, <2>2, <2>4, <2>6, <2>7 DEF Leaving
<1>9. CASE Reports
  <2> DEFINE row == [Night EXCEPT !.report = TRUE]
  <2>1. pipe.at = "report" /\ WriteNight(row) /\ pipe' = [pipe EXCEPT !.at = "done"]
    BY <1>9 DEF Reports
  <2>2. pipe'.at = "done" /\ pipe'.night = pipe.night
    BY <1>0, <2>1 DEF Pipeline
  <2>4. /\ row \in NightRow /\ row.step = Night.step /\ row.status = Night.status
        /\ row.run = Night.run /\ row.launches = Night.launches /\ row.attempts = Night.attempts
    BY <1>1 DEF NightRow
  <2>5. Night.step = "handoff" /\ Night.status \in Finished
    BY <1>1, <2>1 DEF PipeStands
  <2>6. RowStands(row)
    BY <1>1, <2>4 DEF RowStands
  <2>7. PipeStands(pipe', row)
    BY <2>2, <2>4, <2>5 DEF PipeStands, Main, Upto, Finished
  <2> QED
    BY <1>3, <2>1, <2>2, <2>4, <2>6, <2>7 DEF Leaving
<1> QED
  BY <1>4, <1>5, <1>6, <1>7, <1>8, <1>9

\* The suite is started, and its run is linked to the night.
LEMMA SuiteKeeps ==
  ASSUME NightTypeInv, NightStands, SuiteStarts \/ SuiteLinks
  PROVE  NightStands'
<1>0. pipe \in Pipeline /\ pipe.at \in {"work", "linking"} /\ pipe.step = "suite"
  BY DEF NightTypeInv, NightTypes, Whereabouts, SuiteStarts, SuiteLinks
<1>1. /\ pipe.night \in DOMAIN nights /\ Night \in NightRow
      /\ RowStands(Night) /\ PipeStands(pipe, Night) /\ Night = nights[pipe.night]
      /\ nights = [nights EXCEPT ![pipe.night] = Night]
      /\ nights \in Seq(NightRow) /\ suite \in SuiteRun
  BY <1>0, PipeIsAt DEF Night, NightTypeInv, NightTypes
<1>2. UNCHANGED <<tick, runNow>>
  BY DEF SuiteStarts, SuiteLinks, Own
<1>3. /\ Night.status \in Unfinished /\ Night.step \notin Epilogue
      /\ Night.status \notin {"awaiting_restart", "passed"}
  BY <1>0, <1>1 DEF PipeStands, Main, Upto, Unfinished
<1>4. CASE SuiteStarts /\ cancel
  <2>1. EndSteps(pipe, "canceled") /\ UNCHANGED <<nights, bench, suite>>
    BY <1>4 DEF SuiteStarts
  <2> QED
    BY <1>0, <1>2, <2>1, StepsEnd DEF Main, Upto, Finished
<1>5. CASE SuiteStarts /\ ~cancel /\ bench # "free"
  <2>1. Advance([pipe EXCEPT !.ran = TRUE, !.ok = FALSE]) /\ UNCHANGED <<nights, bench, suite>>
        /\ pipe.at = "work"
    BY <1>5 DEF SuiteStarts
  <2>2. PICK p : p = [pipe EXCEPT !.ran = TRUE, !.ok = FALSE]
    OBVIOUS
  <2>3. p \in Pipeline /\ p.night = pipe.night /\ p.step = pipe.step /\ ~p.ok
    BY <1>0, <2>2 DEF Pipeline
  <2>4. Advance(p)
    BY <2>1, <2>2
  <2> QED
    BY <1>0, <1>1, <1>2, <1>3, <2>1, <2>3, <2>4, StepsAdvance
<1>6. CASE SuiteStarts /\ ~cancel /\ bench = "free"
  <2> DEFINE row == [Night EXCEPT !.launches = @ + 1]
  <2>1. /\ bench' = "nightly" /\ suite' = [run |-> "open", night |-> 0]
        /\ pipe' = [pipe EXCEPT !.at = "linking", !.ran = TRUE] /\ WriteNight(row)
        /\ pipe.at = "work"
    BY <1>6 DEF SuiteStarts
  <2>2. pipe'.at = "linking" /\ pipe'.night = pipe.night
    BY <1>0, <2>1 DEF Pipeline
  <2>3. Night.step = "suite" /\ Night.launches <= 1 /\ Night.launches <= Night.attempts
    BY <1>0, <1>1, <2>1 DEF PipeStands, Upto
  <2>4. /\ row \in NightRow /\ row.step = "suite" /\ row.status = Night.status
        /\ row.run = Night.run /\ row.attempts = Night.attempts /\ row.launches = Night.launches + 1
        /\ Night.launches \in Nat /\ Night.attempts \in Nat
    <3>1. Night.launches \in Nat /\ Night.attempts \in Nat /\ Night.launches + 1 \in Nat
      <4>1. Night.launches \in Nat /\ Night.attempts \in Nat
        BY <1>1 DEF NightRow
      <4> QED
        BY <4>1
    <3>2. PICK l \in Nat : l = Night.launches + 1
      BY <3>1
    <3>3. row = [Night EXCEPT !.launches = l]
      BY <3>2
    <3>4. Night \in NightRow
      BY <1>1
    <3> QED
      BY <2>3, <3>1, <3>2, <3>3, <3>4 DEF NightRow
  <2>5. RowStands(row) /\ row.step \notin Before
    <3> HIDE DEF row
    <3>1. row.launches <= 2 /\ row.launches <= row.attempts + 1
      BY <2>3, <2>4
    <3> QED
      BY <1>3, <2>4, <3>1 DEF RowStands, Before
  <2>6. PipeStands(pipe', row)
    BY <1>3, <2>2, <2>4 DEF PipeStands, Main, Upto
  <2>7. LinkStands'
    <3>1. DOMAIN nights' = DOMAIN nights /\ 0 \notin DOMAIN nights
      BY <1>1, <2>1 DEF WriteNight, Write
    <3> QED
      BY <2>1, <2>2, <3>1 DEF LinkStands
  <2>8. nights' = [nights EXCEPT ![pipe.night] = row]
    BY <2>1 DEF WriteNight, Write
  <2> QED
    BY <1>0, <1>1, <1>2, <2>2, <2>4, <2>5, <2>6, <2>7, <2>8, OwnRowKept DEF Leaving
<1>7. CASE SuiteLinks
  <2> DEFINE row == [Night EXCEPT !.run = suite.run]
  <2>1. /\ WriteNight(row) /\ suite' = [suite EXCEPT !.night = pipe.night]
        /\ pipe' = [pipe EXCEPT !.at = "waiting"] /\ bench' = bench
    BY <1>7 DEF SuiteLinks
  <2>2. pipe'.at = "waiting" /\ pipe'.night = pipe.night
        /\ suite'.run = suite.run /\ suite'.night = pipe.night
    BY <1>0, <1>1, <2>1 DEF Pipeline, SuiteRun
  <2>3. suite.run \in {"none", "open", "ok", "bad"}
    BY <1>1 DEF SuiteRun
  <2>4. /\ row \in NightRow /\ row.step = Night.step /\ row.status = Night.status
        /\ row.run = suite.run /\ row.attempts = Night.attempts /\ row.launches = Night.launches
    BY <1>1, <2>3 DEF NightRow
  <2>5. RowStands(row)
    BY <1>1, <1>3, <2>4 DEF RowStands
  <2>6. PipeStands(pipe', row)
    BY <1>3, <2>2, <2>4 DEF PipeStands, Main, Upto
  <2>7. LinkStands'
    <3>1. DOMAIN nights' = DOMAIN nights /\ nights'[pipe.night] = row
      BY <1>1, <2>1 DEF WriteNight, Write
    <3> QED
      BY <2>1, <2>2, <2>4, <3>1, ZenonT(60) DEF LinkStands, NightStands
  <2>8. nights' = [nights EXCEPT ![pipe.night] = row]
    BY <2>1 DEF WriteNight, Write
  <2> QED
    BY <1>0, <1>1, <1>2, <2>2, <2>4, <2>5, <2>6, <2>7, <2>8, OwnRowKept DEF Leaving
<1> QED
  BY <1>4, <1>5, <1>6, <1>7 DEF SuiteStarts

\* A pipeline still agrees with its row when a run that was not good is rewritten, and
\* when it passes the gate.
LEMMA RunRewritten ==
  ASSUME NEW p, NEW row, PipeStands(p, row), NEW q, NEW new,
         new.step = row.step, new.status = row.status,
         new.attempts = row.attempts, new.launches = row.launches,
         new.run = row.run \/ row.run \in {"open", "bad"},
         q.ran = p.ran, q.ok = p.ok, q.outcome = p.outcome,
         \/ q.at = p.at /\ q.step = p.step
         \/ p.at = "gate" /\ q.at = "enter" /\ q.step = p.step
         \/ p.at = "gate" /\ q.at = "enter" /\ p.step = "none" /\ q.step = "self_update"
  PROVE  PipeStands(q, new)
<1>a. q.at = p.at \/ (p.at = "gate" /\ q.at = "enter")
  OBVIOUS
<1>b. (q.at \in Upto) <=> (p.at \in Upto)
  BY <1>a DEF Upto
<1>c. (q.at \in Main) <=> (p.at \in Main)
  BY <1>a DEF Main, Upto
<1>1. /\ (q.at \in Main) <=> (p.at \in Main)
      /\ (q.at \in Upto) <=> (p.at \in Upto)
      /\ q.at = p.at \/ (p.at = "gate" /\ q.at = "enter")
  BY <1>a, <1>b, <1>c
<1>d. q.step = p.step \/ (p.step = "none" /\ q.step = "self_update")
  OBVIOUS
<1>e. q.at = p.at => q.step = p.step
  OBVIOUS
<1>f. p.step \in Before \/ q.step = p.step
  BY <1>d DEF Before
<1>2. /\ q.step = "suite" => p.step = "suite"
      /\ q.step \in Before => p.step \in Before
      /\ q.at = p.at => q.step = p.step
  BY <1>d, <1>e, <1>f
<1>3. /\ q.at \in Main => new.status \in Unfinished /\ new.step \notin Epilogue
      /\ new.status = "awaiting_restart" => q.at = "restarting"
      /\ q.at \in Upto /\ q.step \in Before => new.step \in Before
      /\ q.at \in Upto /\ q.step = "suite" => new.launches <= 1 /\ new.launches <= new.attempts
  BY <1>1, <1>2 DEF PipeStands
<1>4. /\ q.at \in {"work", "restarting"} => new.step = q.step
      /\ q.at = "handoff" => new.step = "bench_recover"
      /\ q.at \in {"finish", "report", "done"} => new.step = "handoff"
      /\ q.at \in {"report", "done"} => new.status \in Finished
  BY <1>1, <1>2 DEF PipeStands
<1>5. /\ q.at \in {"recover", "handoff", "finish"} /\ q.outcome = "passed" => new.run \in Good
      /\ q.at \in Upto /\ q.ran /\ q.ok => new.run = "ok"
  BY <1>1 DEF PipeStands, Good
<1> QED
  BY <1>3, <1>4, <1>5 DEF PipeStands

\* A run of tests ends, in the gate or on its own.
LEMMA RunEndsKeep ==
  ASSUME NightTypeInv, NightStands, GatePasses \/ RunEnds
  PROVE  NightStands'
<1>0. /\ nights \in Seq(NightRow) /\ suite \in SuiteRun /\ pipe \in Pipeline
      /\ \A n \in DOMAIN nights : nights[n] \in NightRow
  BY DEF NightTypeInv, NightTypes
<1>1. UNCHANGED <<tick, runNow>>
  BY DEF GatePasses, RunEnds, Own, Orchestrator
<1>2. PICK code \in {"ok", "bad"} : EndRun(code)
  BY DEF GatePasses, RunEnds
<1>3. /\ DOMAIN nights' = DOMAIN nights
      /\ \A n \in DOMAIN nights :
           nights'[n] = IF bench = "nightly" /\ n = suite.night
                        THEN [nights[n] EXCEPT !.run = code] ELSE nights[n]
      /\ suite' = IF bench = "nightly" THEN [suite EXCEPT !.run = code] ELSE suite
      /\ bench' = "free" /\ suite'.night = suite.night
  BY <1>0, <1>2, RunEnded
\* Only a run that was open or closed is rewritten.
<1>4. \A n \in DOMAIN nights :
        /\ nights'[n].step = nights[n].step /\ nights'[n].status = nights[n].status
        /\ nights'[n].attempts = nights[n].attempts /\ nights'[n].launches = nights[n].launches
        /\ nights'[n].run = nights[n].run \/ nights[n].run \in {"open", "bad"}
  <2>1. bench = "nightly" => \A n \in DOMAIN nights : n = suite.night => nights[n].run \in {"open", "bad"}
    BY DEF NightStands, LinkStands
  <2> QED
    BY <1>0, <1>3, <2>1 DEF NightRow
<1>5. RowsStand'
  BY <1>3, <1>4 DEF NightStands, RowsStand, RowStands, Good
<1>6. /\ pipe'.night = pipe.night /\ pipe'.ran = pipe.ran /\ pipe'.ok = pipe.ok
      /\ pipe'.outcome = pipe.outcome
      /\ \/ pipe' = pipe
         \/ pipe.at = "gate" /\ pipe'.at = "enter" /\ pipe'.step = pipe.step
         \/ pipe.at = "gate" /\ pipe'.at = "enter" /\ pipe.step = "none" /\ pipe'.step = "self_update"
  <2>1. CASE GatePasses
    <3>1. Steps[1] = "self_update"
      BY DEF Steps
    <3> QED
      BY <1>0, <2>1, <3>1 DEF GatePasses, Pipeline
  <2>2. CASE RunEnds
    BY <2>2 DEF RunEnds, Orchestrator
  <2> QED
    BY <2>1, <2>2
<1>7. OwnStands'
  <2> SUFFICES ASSUME pipe'.at # "none" PROVE PipeStands(pipe', nights'[pipe'.night])
    BY DEF OwnStands
  <2>1. pipe.at # "none"
    BY <1>6
  <2>2. pipe.night \in DOMAIN nights /\ PipeStands(pipe, nights[pipe.night])
    BY <2>1, PipeIsAt DEF Night
  <2>3. PICK row : row = nights'[pipe.night]
    OBVIOUS
  <2>4. /\ row.step = nights[pipe.night].step /\ row.status = nights[pipe.night].status
        /\ row.attempts = nights[pipe.night].attempts /\ row.launches = nights[pipe.night].launches
        /\ row.run = nights[pipe.night].run \/ nights[pipe.night].run \in {"open", "bad"}
    BY <1>4, <2>2, <2>3
  <2>7. PipeStands(pipe', row)
    BY <1>6, <2>2, <2>4, RunRewritten
  <2> QED
    BY <1>6, <2>3, <2>7
<1>8. ASSUME NEW c, c.at \in OnItsWay => c.night \in DOMAIN nights, CallStands(c)
      PROVE  /\ c.at \in OnItsWay /\ c.resume # "finalize" =>
                  /\ ~(pipe'.night = c.night /\ pipe'.at \in Leaving)
                  /\ pipe'.night = c.night \/ ReadyFor(c.at, c.resume, nights'[c.night])
             /\ c.at \in OnItsWay /\ (c.resume = "finalize" \/ c.at \in {"closing", "bumping"}) =>
                  nights'[c.night].step \notin Before
  BY <1>4, <1>6, <1>8 DEF CallStands, ReadyFor, Leaving
<1>9. CallsStand'
  <2>1. /\ tick.at \in OnItsWay => tick.night \in DOMAIN nights
        /\ runNow.at \in OnItsWay => runNow.night \in DOMAIN nights
    BY DEF NightTypeInv, NightTypes, Whereabouts, OnItsWay
  <2>2. CallStands(tick) /\ CallStands(runNow)
    BY DEF NightStands, CallsStand
  <2>3. CallStands(tick)'
    BY <1>1, <1>8, <2>1, <2>2 DEF CallStands
  <2>4. CallStands(runNow)'
    BY <1>1, <1>8, <2>1, <2>2 DEF CallStands
  <2> QED
    BY <2>3, <2>4 DEF CallsStand
<1>10. LinkStands'
  <2>1. suite'.run # "open"
    BY <1>0, <1>3 DEF NightStands, LinkStands, SuiteRun
  <2>2. ASSUME pipe'.at = "waiting"
        PROVE  suite'.night = pipe'.night /\ nights'[pipe'.night].run = suite'.run
    <3>1. pipe' = pipe /\ pipe.at = "waiting"
      BY <1>6, <2>2
    <3>2. pipe.night \in DOMAIN nights /\ nights[pipe.night] \in NightRow
      BY <1>0, <3>1, PipeIsAt
    <3>3. suite.night = pipe.night /\ (bench = "nightly" \/ nights[pipe.night].run = suite.run)
      BY <3>1 DEF NightStands, LinkStands
    <3> QED
      BY <1>0, <1>3, <3>1, <3>2, <3>3 DEF NightRow, SuiteRun
  <2> QED
    BY <1>3, <2>1, <2>2 DEF LinkStands
<1> QED
  BY <1>5, <1>7, <1>9, <1>10 DEF NightStands

\* The pipeline is over.
LEMMA PipelineEndKeeps ==
  ASSUME NightTypeInv, NightStands, PipelineEnds
  PROVE  NightStands'
<1>0. pipe \in Pipeline /\ pipe.at = "done"
  BY DEF NightTypeInv, NightTypes, PipelineEnds
<1>1. /\ pipe.night \in DOMAIN nights /\ Night \in NightRow
      /\ RowStands(Night) /\ PipeStands(pipe, Night) /\ Night = nights[pipe.night]
  BY <1>0, PipeIsAt DEF Night
<1>2. UNCHANGED <<tick, runNow, bench, suite>> /\ pipe' = NoPipe
      /\ nights' = [nights EXCEPT ![pipe.night] = [Night EXCEPT !.step = "done"]]
  BY DEF PipelineEnds, World, Own, WriteNight, Write
<1>3. PICK row : row = [Night EXCEPT !.step = "done"]
  OBVIOUS
<1>4. /\ row.step = "done" /\ row.status = Night.status /\ row.run = Night.run
      /\ row.launches = Night.launches /\ row.attempts = Night.attempts
  BY <1>1, <1>3 DEF NightRow
<1>5. /\ DOMAIN nights' = DOMAIN nights /\ nights'[pipe.night] = row
      /\ \A m \in DOMAIN nights : m # pipe.night => nights'[m] = nights[m]
  BY <1>1, <1>2, <1>3 DEF NightTypeInv, NightTypes
<1>6. pipe'.at = "none" /\ pipe'.night = 0
  BY <1>2 DEF NoPipe
<1>7. RowStands(row)
  BY <1>0, <1>1, <1>4 DEF RowStands, Before, PipeStands
<1>8. RowsStand' /\ OwnStands'
  BY <1>5, <1>6, <1>7 DEF RowsStand, OwnStands, NightStands
<1>9. ASSUME NEW c, c.at \in OnItsWay => c.night \in DOMAIN nights /\ c.night # 0, CallStands(c)
      PROVE  /\ c.at \in OnItsWay /\ c.resume # "finalize" =>
                  /\ ~(pipe'.night = c.night /\ pipe'.at \in Leaving)
                  /\ pipe'.night = c.night \/ ReadyFor(c.at, c.resume, nights'[c.night])
             /\ c.at \in OnItsWay /\ (c.resume = "finalize" \/ c.at \in {"closing", "bumping"}) =>
                  nights'[c.night].step \notin Before
  <2>1. c.at \in OnItsWay /\ c.resume # "finalize" => c.night # pipe.night
    BY <1>0, <1>9 DEF CallStands, Leaving
  <2>2. row.step \notin Before
    BY <1>4 DEF Before
  <2> QED
    BY <1>5, <1>6, <1>9, <2>1, <2>2 DEF CallStands, Leaving
<1>u. tick' = tick /\ runNow' = runNow
  BY <1>2
<1>10. CallsStand'
  <2>1. /\ tick.at \in OnItsWay => tick.night \in DOMAIN nights /\ tick.night # 0
        /\ runNow.at \in OnItsWay => runNow.night \in DOMAIN nights /\ runNow.night # 0
    BY DEF NightTypeInv, NightTypes, Whereabouts, OnItsWay
  <2>2. CallStands(tick) /\ CallStands(runNow)
    BY DEF NightStands, CallsStand
  <2>3. CallStands(tick)'
    BY <1>u, <1>9, <2>1, <2>2 DEF CallStands
  <2>4. CallStands(runNow)'
    BY <1>u, <1>9, <2>1, <2>2 DEF CallStands
  <2> QED
    BY <2>3, <2>4 DEF CallsStand
<1>11. LinkStands'
  <2>1. \A n \in DOMAIN nights : nights'[n].run = nights[n].run
    BY <1>1, <1>4, <1>5
  <2> QED
    BY <1>2, <1>5, <1>6, <2>1 DEF LinkStands, NightStands
<1> QED
  BY <1>8, <1>10, <1>11 DEF NightStands

\* The newest unfinished night is read: what the call to come finds there.
LEMMA ResumeKeeps ==
  ASSUME NightTypeInv, NightStands, TickReadsUnfinished
  PROVE  NightStands'
<1>1. UNCHANGED <<nights, runNow, pipe, bench, suite>>
  BY DEF TickReadsUnfinished, World
<1>2. RowsStand' /\ OwnStands' /\ LinkStands' /\ CallStands(runNow)'
  BY <1>1 DEF NightStands, RowsStand, OwnStands, LinkStands, CallsStand, CallStands
<1>3. CASE UNCHANGED tick
  BY <1>1, <1>2, <1>3 DEF NightStands, CallsStand, CallStands
<1>4. CASE ~UNCHANGED tick
  <2>1. PICK n \in UnfinishedNights :
          tick' = IF nights[n].status = "awaiting_restart"
                  THEN [at |-> "reviving", night |-> n, resume |-> "firmware_update"]
                  ELSE IF nights[n].step = "suite"
                  THEN [at |-> "closing", night |-> n, resume |-> "suite"]
                  ELSE [at |-> "launching", night |-> n, resume |-> ResumeAt(nights[n].step)]
    BY <1>4 DEF TickReadsUnfinished
  <2>2. /\ n \in DOMAIN nights /\ nights[n] \in NightRow /\ RowStands(nights[n])
        /\ nights[n].status \in {"running", "awaiting_restart"}
    BY DEF UnfinishedNights, Unfinished, NightTypeInv, NightTypes, NightStands, RowsStand
  <2>3. pipe.night = n => pipe.at # "none" /\ PipeStands(pipe, nights[n])
    BY <2>2 DEF NightTypeInv, NightTypes, Whereabouts, NightStands, OwnStands
  <2>4. nights[n].status = "awaiting_restart" => nights[n].step \in Before
    BY <2>2 DEF RowStands
  <2>5. pipe.night = n /\ pipe.at \in Leaving =>
          nights[n].step \in Epilogue /\ nights[n].status # "awaiting_restart"
    BY <2>3 DEF PipeStands, Leaving, Epilogue
  <2>6. PICK a, r : /\ tick' = [at |-> a, night |-> n, resume |-> r]
                    /\ \/ /\ nights[n].status = "awaiting_restart"
                          /\ a = "reviving" /\ r = "firmware_update"
                       \/ /\ nights[n].status = "running" /\ nights[n].step = "suite"
                          /\ a = "closing" /\ r = "suite"
                       \/ /\ nights[n].status = "running" /\ nights[n].step # "suite"
                          /\ a = "launching" /\ r = ResumeAt(nights[n].step)
    BY <2>1, <2>2
  <2>7. tick'.at = a /\ tick'.night = n /\ tick'.resume = r
    BY <2>6
  <2>8. nights[n].step \in MainSteps \cup {"none", "bench_recover", "handoff", "done"}
    BY <2>2 DEF NightRow
  <2>9. r # "finalize" =>
          /\ ~(pipe.night = n /\ pipe.at \in Leaving)
          /\ ReadyFor(a, r, nights[n])
    <3>1. CASE nights[n].status = "awaiting_restart" /\ a = "reviving" /\ r = "firmware_update"
      BY <2>4, <2>5, <3>1 DEF ReadyFor, Before, Epilogue
    <3>2. CASE nights[n].status = "running" /\ nights[n].step = "suite" /\ a = "closing" /\ r = "suite"
      BY <2>5, <3>2 DEF ReadyFor, Before, Epilogue
    <3>3. CASE nights[n].status = "running" /\ nights[n].step # "suite"
               /\ a = "launching" /\ r = ResumeAt(nights[n].step) /\ r # "finalize"
      <4>1. nights[n].step \notin Epilogue
        BY <3>3 DEF ResumeAt, Epilogue
      <4>2. r # "suite" /\ (r \in Before => nights[n].step \in Before)
        BY <2>8, <3>3, <4>1, StepsAre DEF ResumeAt, Before, Epilogue
      <4> QED
        BY <2>5, <3>3, <4>1, <4>2 DEF ReadyFor
    <3> QED
      BY <2>6, <3>1, <3>2, <3>3
  <2>10. r = "finalize" \/ a \in {"closing", "bumping"} => nights[n].step \notin Before
    <3>1. CASE r = "finalize"
      <4>1. nights[n].status = "running" /\ nights[n].step # "suite" /\ r = ResumeAt(nights[n].step)
        BY <2>6, <3>1
      <4>2. nights[n].step \in Epilogue
        BY <3>1, <4>1, StepsAre DEF ResumeAt, Epilogue
      <4> QED
        BY <4>2 DEF Epilogue, Before
    <3>2. CASE a \in {"closing", "bumping"}
      BY <2>6, <3>2 DEF Before
    <3> QED
      BY <3>1, <3>2
  <2>11. CallStands(tick)'
    BY <1>1, <2>7, <2>9, <2>10 DEF CallStands
  <2> QED
    BY <1>2, <2>11 DEF NightStands, CallsStand
<1> QED
  BY <1>3, <1>4

\* A write of the tick on the row of its night, before it launches.
LEMMA TickRowKept ==
  ASSUME NightTypeInv, NightStands, NEW n \in DOMAIN nights, NEW row \in NightRow,
         nights' = [nights EXCEPT ![n] = row], RowStands(row),
         pipe.night = n => PipeStands(pipe, row),
         row.step = nights[n].step, row.launches = nights[n].launches,
         row.attempts >= nights[n].attempts, row.status \in {"running", nights[n].status},
         row.run = nights[n].run \/ (nights[n].run = "open" /\ row.run = "bad"),
         UNCHANGED <<runNow, pipe, bench, suite>>, CallStands(tick)'
  PROVE  NightStands'
<1>1. /\ DOMAIN nights' = DOMAIN nights /\ nights'[n] = row
      /\ \A m \in DOMAIN nights : m # n => nights'[m] = nights[m]
  BY DEF NightTypeInv, NightTypes
<1>2. RowsStand'
  BY <1>1 DEF NightStands, RowsStand
<1>3. OwnStands'
  <2>1. pipe.at # "none" => pipe.night \in DOMAIN nights
    BY DEF NightTypeInv, NightTypes, Whereabouts
  <2> QED
    BY <1>1, <2>1 DEF NightStands, OwnStands
<1>4. CallStands(runNow)'
  <2>1. runNow.at \in OnItsWay => /\ runNow.night \in DOMAIN nights
                                  /\ runNow.at = "launching" /\ runNow.resume = "none"
    BY DEF NightTypeInv, NightTypes, Whereabouts, OnItsWay
  <2>2. CallStands(runNow)
    BY DEF NightStands, CallsStand
  <2>3. runNow.at \in OnItsWay /\ ReadyFor(runNow.at, runNow.resume, nights[runNow.night])
          => ReadyFor(runNow.at, runNow.resume, nights'[runNow.night])
    BY <1>1, <2>1 DEF ReadyFor
  <2>4. runNow.at \in OnItsWay => ~(runNow.resume = "finalize" \/ runNow.at \in {"closing", "bumping"})
    BY <2>1
  <2> QED
    BY <2>2, <2>3, <2>4 DEF CallStands
<1>5. LinkStands'
  <2>1. \A m \in DOMAIN nights :
          nights'[m].run = nights[m].run \/ (nights[m].run = "open" /\ nights'[m].run = "bad")
    BY <1>1
  <2>2. pipe.at = "waiting" => pipe.night \in DOMAIN nights
    BY DEF NightTypeInv, NightTypes, Whereabouts
  <2> QED
    BY <1>1, <2>1, <2>2 DEF NightStands, LinkStands
<1> QED
  BY <1>2, <1>3, <1>4, <1>5 DEF NightStands, CallsStand

\* The writes of the resume.
LEMMA TickWritesKeep ==
  ASSUME NightTypeInv, NightStands, TickRevives \/ TickClosesRun \/ TickBumps
  PROVE  NightStands'
<1> DEFINE n == tick.night
           old == nights[n]
<1>1. /\ tick.at \in {"reviving", "closing", "bumping"} /\ tick.at \in OnItsWay
      /\ tick \in Call /\ n \in DOMAIN nights /\ old \in NightRow /\ nights \in Seq(NightRow)
  BY DEF TickRevives, TickClosesRun, TickBumps, NightTypeInv, NightTypes, Whereabouts, OnItsWay
<1>2. UNCHANGED <<runNow, pipe, bench, suite>>
  BY DEF TickRevives, TickClosesRun, TickBumps, World
<1>3. RowStands(old) /\ (pipe.night = n => pipe.at # "none" /\ PipeStands(pipe, old))
  BY <1>1 DEF NightTypeInv, NightTypes, Whereabouts, NightStands, RowsStand, OwnStands
<1>4. /\ ~(pipe.night = n /\ pipe.at \in Leaving)
      /\ pipe.night = n \/ ReadyFor(tick.at, tick.resume, old)
      /\ tick.at \in {"closing", "bumping"} => old.step \notin Before
      /\ tick.at = "reviving" => tick.resume = "firmware_update"
      /\ tick.at \in {"closing", "bumping"} => tick.resume = "suite"
  <2>1. /\ tick.at = "reviving" => tick.resume = "firmware_update"
        /\ tick.at \in {"closing", "bumping"} => tick.resume = "suite"
    BY DEF NightTypeInv, Whereabouts
  <2> QED
    BY <1>1, <2>1 DEF NightStands, CallsStand, CallStands
<1>5. ASSUME NEW row \in NightRow, nights' = [nights EXCEPT ![n] = row], NEW a, NEW r,
             tick' = [tick EXCEPT !.at = a, !.resume = r]
      PROVE  /\ nights'[n] = row
             /\ tick'.at = a /\ tick'.night = n /\ tick'.resume = r
  BY <1>1, <1>5 DEF Call
<1>6. CASE TickRevives
  <2>1. PICK row : row = [old EXCEPT !.status = "running"]
    OBVIOUS
  <2>2. /\ tick.at = "reviving" /\ nights' = [nights EXCEPT ![n] = row]
        /\ tick' = [tick EXCEPT !.at = "launching", !.resume = tick.resume]
    BY <1>1, <1>6, <2>1 DEF TickRevives, Write, Call
  <2>3. /\ row \in NightRow /\ row.status = "running" /\ row.step = old.step /\ row.run = old.run
        /\ row.launches = old.launches /\ row.attempts = old.attempts /\ row.attempts \in Nat
    BY <1>1, <2>1 DEF NightRow, Unfinished
  <2>4. RowStands(row)
    BY <1>3, <2>3 DEF RowStands
  <2>5. pipe.night = n => PipeStands(pipe, row)
    BY <1>3, <1>4, <2>3 DEF PipeStands, Leaving, Unfinished
  <2>6. nights'[n] = row /\ tick'.at = "launching" /\ tick'.night = n /\ tick'.resume = "firmware_update"
    BY <1>4, <1>5, <2>2, <2>3
  <2>7. pipe.night = n \/ ReadyFor("launching", "firmware_update", row)
    BY <1>4, <2>2, <2>3 DEF ReadyFor
  <2>8. CallStands(tick)'
    BY <1>2, <1>4, <2>6, <2>7 DEF CallStands
  <2>9. row.attempts >= old.attempts
    BY <2>3
  <2> QED
    BY <1>1, <1>2, <2>2, <2>3, <2>4, <2>5, <2>8, <2>9, TickRowKept
<1>7. CASE TickClosesRun
  <2>1. PICK row : row = [old EXCEPT !.run = IF @ = "open" THEN "bad" ELSE @]
    OBVIOUS
  <2>2. /\ tick.at = "closing" /\ nights' = [nights EXCEPT ![n] = row]
        /\ tick' = [tick EXCEPT !.at = "bumping", !.resume = tick.resume]
    BY <1>1, <1>7, <2>1 DEF TickClosesRun, Write, Call
  <2>3. /\ row \in NightRow /\ row.status = old.status /\ row.step = old.step
        /\ row.run = old.run \/ (old.run = "open" /\ row.run = "bad")
        /\ row.launches = old.launches /\ row.attempts = old.attempts /\ row.attempts \in Nat
    BY <1>1, <2>1 DEF NightRow
  <2>4. RowStands(row)
    BY <1>3, <2>3 DEF RowStands, Good
  <2>5. pipe.night = n => PipeStands(pipe, row)
    BY <1>3, <2>3 DEF PipeStands, Good
  <2>6. nights'[n] = row /\ tick'.at = "bumping" /\ tick'.night = n /\ tick'.resume = "suite"
    BY <1>4, <1>5, <2>2, <2>3
  <2>7. pipe.night = n \/ ReadyFor("bumping", "suite", row)
    BY <1>4, <2>2, <2>3 DEF ReadyFor
  <2>8. CallStands(tick)'
    BY <1>2, <1>4, <2>2, <2>3, <2>6, <2>7 DEF CallStands
  <2>9. row.attempts >= old.attempts
    BY <2>3
  <2> QED
    BY <1>1, <1>2, <2>2, <2>3, <2>4, <2>5, <2>8, <2>9, TickRowKept
<1>8. CASE TickBumps
  <2>0. old.attempts \in Nat /\ old.launches \in Nat
    BY <1>1 DEF NightRow
  <2>a. PICK k \in Nat : k = old.attempts + 1
    BY <2>0
  <2>1. PICK row : row = [old EXCEPT !.attempts = k]
    OBVIOUS
  <2>2. tick.at = "bumping" /\ nights' = [nights EXCEPT ![n] = row]
    BY <1>1, <1>8, <2>a, <2>1 DEF TickBumps, Write
  <2>3. /\ row \in NightRow /\ row.status = old.status /\ row.step = old.step /\ row.run = old.run
        /\ row.launches = old.launches /\ row.attempts = k
    BY <1>1, <2>1 DEF NightRow
  <2>b. nights'[n] = row
    BY <1>1, <2>2
  <2>c. PICK r : /\ tick' = [tick EXCEPT !.at = "launching", !.resume = r]
                 /\ r = IF k >= 2 THEN "finalize" ELSE "suite"
    BY <1>8, <2>3, <2>b DEF TickBumps
  <2>d. old.launches <= 2 /\ old.launches <= k
    BY <1>3, <2>0, <2>a DEF RowStands
  <2>e. k <= k + 1 /\ old.launches <= k + 1 /\ k >= old.attempts /\ (old.launches <= old.attempts => old.launches <= k)
    BY <2>0, <2>a, <2>d
  <2>4. RowStands(row)
    BY <1>3, <2>3, <2>d, <2>e DEF RowStands
  <2>5. pipe.night = n => PipeStands(pipe, row)
    BY <1>3, <2>3, <2>e DEF PipeStands
  <2>6. tick'.at = "launching" /\ tick'.night = n /\ tick'.resume = r
    BY <1>5, <2>2, <2>3, <2>c, ZenonT(60)
  <2>f. r # "finalize" => r = "suite" /\ row.launches <= 1 /\ row.launches <= row.attempts
    BY <2>0, <2>a, <2>3, <2>c, <2>d
  <2>7. r # "finalize" => pipe.night = n \/ ReadyFor("launching", r, row)
    BY <1>4, <2>2, <2>3, <2>f DEF ReadyFor, Before
  <2>8. CallStands(tick)'
    BY <1>2, <1>4, <2>2, <2>3, <2>b, <2>6, <2>7 DEF CallStands
  <2> QED
    BY <1>1, <1>2, <2>2, <2>3, <2>4, <2>5, <2>8, <2>e, TickRowKept
<1> QED
  BY <1>6, <1>7, <1>8

\* A launch, of a call that stands: the new pipeline agrees with the row.
LEMMA LaunchKept ==
  ASSUME NightTypeInv, NightStands, NEW n \in DOMAIN nights, NEW r, Launch(n, r), UNCHANGED nights,
         ~Active, n # 0,
         r # "finalize" => ReadyFor("launching", r, nights[n]),
         r = "finalize" => nights[n].step \notin Before
  PROVE  pipe'.night = n /\ pipe'.at \in {"gate", "recover"} /\ PipeStands(pipe', nights[n])
<1>0. RowStands(nights[n])
  BY DEF NightStands, RowsStand
<1>1. CASE r = "finalize"
  <2>1. PICK o \in {"passed", "failed"} :
          /\ pipe' = [NoPipe EXCEPT !.at = "recover", !.night = n, !.outcome = o]
          /\ o = "passed" => PersistedOk(n)
    BY <1>1 DEF Launch, Begin
  <2>2. pipe'.at = "recover" /\ pipe'.night = n /\ pipe'.outcome = o
    BY <2>1 DEF NoPipe
  <2>3. nights[n].status # "awaiting_restart"
    BY <1>0, <1>1 DEF RowStands
  <2> QED
    BY <2>1, <2>2, <2>3 DEF PipeStands, Main, Upto, PersistedOk, Good
<1>2. CASE r # "finalize"
  <2>1. pipe' = [NoPipe EXCEPT !.at = "gate", !.night = n, !.step = r]
    BY <1>2 DEF Launch, Begin
  <2>2. pipe'.at = "gate" /\ pipe'.night = n /\ pipe'.step = r /\ pipe'.ran = FALSE
    BY <2>1 DEF NoPipe
  <2> QED
    BY <1>2, <2>2 DEF PipeStands, Main, Upto, ReadyFor, Unfinished
<1> QED
  BY <1>1, <1>2

\* A call launches its night, or finds a pipeline at work.
LEMMA LaunchesKeep ==
  ASSUME NightTypeInv, NightStands, TickLaunches \/ RunNowLaunches
  PROVE  NightStands'
<1>1. UNCHANGED <<nights, bench, suite>>
  BY DEF TickLaunches, RunNowLaunches, World
<1>2. PICK c : /\ c.at = "launching" /\ Launch(c.night, c.resume) /\ CallStands(c)
               /\ c.night \in DOMAIN nights /\ c.night # 0
  <2>1. CASE TickLaunches
    BY <2>1 DEF TickLaunches, NightTypeInv, NightTypes, Whereabouts, OnItsWay, NightStands, CallsStand
  <2>2. CASE RunNowLaunches
    BY <2>2 DEF RunNowLaunches, NightTypeInv, NightTypes, Whereabouts, OnItsWay, NightStands, CallsStand
  <2> QED
    BY <2>1, <2>2
<1>3. (tick' = tick \/ tick' = Idle) /\ (runNow' = runNow \/ runNow' = Idle)
  BY DEF TickLaunches, RunNowLaunches
<1>4. /\ tick.at \in OnItsWay => tick.night \in DOMAIN nights /\ tick.night # 0
      /\ runNow.at \in OnItsWay => runNow.night \in DOMAIN nights /\ runNow.night # 0
      /\ CallStands(tick) /\ CallStands(runNow)
  BY DEF NightTypeInv, NightTypes, Whereabouts, OnItsWay, NightStands, CallsStand
<1>5. RowsStand'
  BY <1>1 DEF NightStands, RowsStand
<1>6. CASE Active
  <2>1. pipe' = pipe
    BY <1>2, <1>6 DEF Launch
  <2>2. OwnStands' /\ LinkStands'
    BY <1>1, <2>1 DEF NightStands, OwnStands, LinkStands
  <2>3. CallStands(tick)'
    BY <1>1, <1>3, <1>4, <2>1 DEF CallStands, Idle, OnItsWay
  <2>4. CallStands(runNow)'
    BY <1>1, <1>3, <1>4, <2>1 DEF CallStands, Idle, OnItsWay
  <2> QED
    BY <1>5, <2>2, <2>3, <2>4 DEF NightStands, CallsStand
<1>7. CASE ~Active
  <2>1. pipe.at = "none" /\ pipe.night = 0
    BY <1>7 DEF Active, NightTypeInv, Whereabouts
  <2>2. /\ c.resume # "finalize" => ReadyFor("launching", c.resume, nights[c.night])
        /\ c.resume = "finalize" => nights[c.night].step \notin Before
    BY <1>2, <2>1 DEF CallStands, OnItsWay
  <2>3. /\ pipe'.night = c.night /\ pipe'.at \in {"gate", "recover"}
        /\ PipeStands(pipe', nights[c.night])
    BY <1>1, <1>2, <1>7, <2>2, LaunchKept
  <2>4. OwnStands'
    BY <1>1, <2>3 DEF OwnStands
  <2>5. LinkStands'
    BY <1>1, <2>3 DEF NightStands, LinkStands
  <2>6. ASSUME NEW d, CallStands(d), d.at \in OnItsWay => d.night # 0
        PROVE  /\ d.at \in OnItsWay /\ d.resume # "finalize" =>
                    /\ ~(pipe'.night = d.night /\ pipe'.at \in Leaving)
                    /\ pipe'.night = d.night \/ ReadyFor(d.at, d.resume, nights'[d.night])
               /\ d.at \in OnItsWay /\ (d.resume = "finalize" \/ d.at \in {"closing", "bumping"}) =>
                    nights'[d.night].step \notin Before
    BY <1>1, <2>1, <2>3, <2>6 DEF CallStands, Leaving
  <2>7. Idle.at \notin OnItsWay
    BY DEF Idle, OnItsWay
  <2>8. CallStands(tick)'
    <3>1. CASE tick' = tick
      BY <1>4, <2>6, <3>1 DEF CallStands
    <3>2. CASE tick' = Idle
      BY <2>7, <3>2 DEF CallStands
    <3> QED
      BY <1>3, <3>1, <3>2
  <2>9. CallStands(runNow)'
    <3>1. CASE runNow' = runNow
      BY <1>4, <2>6, <3>1 DEF CallStands
    <3>2. CASE runNow' = Idle
      BY <2>7, <3>2 DEF CallStands
    <3> QED
      BY <1>3, <3>1, <3>2
  <2> QED
    BY <1>5, <2>4, <2>5, <2>8, <2>9 DEF NightStands, CallsStand
<1> QED
  BY <1>6, <1>7

\* A night is created, and a call for it is on its way.
LEMMA CreatesKeep ==
  ASSUME NightTypeInv, NightStands, TickCreates \/ RunNowCreates
  PROVE  NightStands'
<1>0. /\ nights \in Seq(NightRow) /\ DOMAIN nights = 1 .. Len(nights) /\ Len(nights) \in Nat
      /\ slot \in 0 .. MaxSlots /\ 0 \in 0 .. MaxSlots
  BY BoundsAssumption DEF NightTypeInv, NightTypes
<1>1. UNCHANGED <<pipe, bench, suite>>
  BY DEF TickCreates, RunNowCreates, World
<1>2. /\ CallStands(tick) /\ CallStands(runNow)
      /\ tick.at \in OnItsWay => tick.night \in DOMAIN nights
      /\ runNow.at \in OnItsWay => runNow.night \in DOMAIN nights
      /\ pipe.at # "none" => pipe.night \in DOMAIN nights
      /\ pipe.night # Len(nights) + 1 /\ suite.night # Len(nights) + 1
  BY <1>0 DEF NightTypeInv, NightTypes, Whereabouts, OnItsWay, NightStands, CallsStand
<1>3. CASE UNCHANGED nights
  <2>1. TickCreates /\ tick' = Idle /\ UNCHANGED runNow
    <3>1. ASSUME NEW s \in 0 .. MaxSlots, nights' = Append(nights, NewNight(s)) PROVE FALSE
      <4>1. Len(nights') = Len(nights) + 1
        BY <1>0, <3>1, NewNightTyped, RowAdded
      <4> QED
        BY <1>0, <1>3, <4>1
    <3> QED
      BY <1>0, <1>3, <3>1 DEF TickCreates, RunNowCreates
  <2>2. CallStands(tick)'
    BY <2>1 DEF CallStands, Idle, OnItsWay
  <2> QED
    BY <1>1, <1>2, <1>3, <2>1, <2>2 DEF NightStands, RowsStand, OwnStands, CallsStand, CallStands,
       LinkStands
<1>4. ASSUME NEW s \in 0 .. MaxSlots, nights' = Append(nights, NewNight(s)), NEW new,
             new = [at |-> "launching", night |-> Len(nights) + 1, resume |-> "none"],
             (tick' = new /\ runNow' = runNow) \/ (runNow' = new /\ tick' = tick)
      PROVE  NightStands'
  <2>1. /\ DOMAIN nights' = DOMAIN nights \cup {Len(nights) + 1}
        /\ nights'[Len(nights) + 1] = NewNight(s)
        /\ \A m \in DOMAIN nights : nights'[m] = nights[m]
    BY <1>0, <1>4, NewNightTyped, RowAdded
  <2>2. RowStands(NewNight(s)) /\ ReadyFor("launching", "none", NewNight(s))
    BY DEF NewNight, RowStands, ReadyFor, Before, Epilogue
  <2>3. RowsStand'
    BY <2>1, <2>2 DEF NightStands, RowsStand
  <2>4. OwnStands'
    BY <1>1, <1>2, <2>1 DEF NightStands, OwnStands
  <2>5. LinkStands'
    <3>1. pipe.at = "waiting" => pipe.night \in DOMAIN nights
      BY <1>2
    <3> QED
      BY <1>1, <1>2, <2>1, <3>1 DEF NightStands, LinkStands
  <2>6. ASSUME NEW d, CallStands(d), d.at \in OnItsWay => d.night \in DOMAIN nights
        PROVE  /\ d.at \in OnItsWay /\ d.resume # "finalize" =>
                    /\ ~(pipe'.night = d.night /\ pipe'.at \in Leaving)
                    /\ pipe'.night = d.night \/ ReadyFor(d.at, d.resume, nights'[d.night])
               /\ d.at \in OnItsWay /\ (d.resume = "finalize" \/ d.at \in {"closing", "bumping"}) =>
                    nights'[d.night].step \notin Before
    BY <1>1, <2>1, <2>6 DEF CallStands
  <2>7. /\ new.at = "launching" /\ new.night = Len(nights) + 1 /\ new.resume = "none"
    BY <1>4
  <2>8. CallStands(tick)'
    <3>1. CASE tick' = tick
      BY <1>2, <2>6, <3>1 DEF CallStands
    <3>2. CASE tick' = new
      <4>1. /\ tick'.at = "launching" /\ tick'.night = Len(nights) + 1 /\ tick'.resume = "none"
            /\ nights'[tick'.night] = NewNight(s) /\ pipe'.night # tick'.night
        BY <1>1, <1>2, <2>1, <2>7, <3>2
      <4> QED
        BY <2>2, <4>1 DEF CallStands
    <3> QED
      BY <1>4, <3>1, <3>2
  <2>9. CallStands(runNow)'
    <3>1. CASE runNow' = runNow
      BY <1>2, <2>6, <3>1 DEF CallStands
    <3>2. CASE runNow' = new
      <4>1. /\ runNow'.at = "launching" /\ runNow'.night = Len(nights) + 1 /\ runNow'.resume = "none"
            /\ nights'[runNow'.night] = NewNight(s) /\ pipe'.night # runNow'.night
        BY <1>1, <1>2, <2>1, <2>7, <3>2
      <4> QED
        BY <2>2, <4>1 DEF CallStands
    <3> QED
      BY <1>4, <3>1, <3>2
  <2> QED
    BY <2>3, <2>4, <2>5, <2>8, <2>9 DEF NightStands, CallsStand
<1>5. CASE TickCreates /\ ~UNCHANGED nights
  BY <1>0, <1>4, <1>5 DEF TickCreates
<1>6. CASE RunNowCreates
  BY <1>0, <1>4, <1>6 DEF RunNowCreates
<1> QED
  BY <1>3, <1>5, <1>6

\* The rest of the tick, and the world.
LEMMA WorldKeeps ==
  ASSUME NightTypeInv, NightStands,
         \/ TickLocks \/ CancelNight \/ ManualRunAsks \/ ManualRunStarts \/ SlotComes
         \/ Dies \/ Boots \/ UNCHANGED nightVars
  PROVE  NightStands'
<1>0. UNCHANGED nights
  BY DEF TickLocks, CancelNight, ManualRunAsks, ManualRunStarts, SlotComes, Dies, Boots, nightVars
<1>1. CASE UNCHANGED <<tick, runNow, pipe, bench, suite>>
  BY <1>0, <1>1 DEF NightStands, RowsStand, OwnStands, CallsStand, CallStands, LinkStands
<1>2. CASE TickLocks
  <2>1. tick'.at = "deciding" /\ UNCHANGED <<runNow, pipe, bench, suite>>
    BY <1>2 DEF TickLocks, Idle, World
  <2>2. CallStands(tick)'
    BY <2>1 DEF CallStands, OnItsWay
  <2> QED
    BY <1>0, <2>1, <2>2 DEF NightStands, RowsStand, OwnStands, CallsStand, CallStands, LinkStands
<1>3. CASE ManualRunStarts
  <2>1. UNCHANGED <<tick, runNow, pipe, suite>>
        /\ (bench' = bench \/ (bench = "free" /\ bench' = "manual"))
    BY <1>3 DEF ManualRunStarts, Orchestrator
  <2>2. LinkStands'
    BY <1>0, <2>1 DEF NightStands, LinkStands
  <2> QED
    BY <1>0, <2>1, <2>2 DEF NightStands, RowsStand, OwnStands, CallsStand, CallStands
<1>4. CASE Dies
  <2>1. /\ tick' = Idle /\ runNow' = Idle /\ pipe' = NoPipe /\ bench' = "free" /\ suite' = NoSuite
    BY <1>4 DEF Dies
  <2>2. /\ tick'.at = "idle" /\ runNow'.at = "idle" /\ pipe'.at = "none" /\ suite'.run = "none"
    BY <2>1 DEF Idle, NoPipe, NoSuite
  <2> QED
    BY <1>0, <2>1, <2>2 DEF NightStands, RowsStand, OwnStands, CallsStand, CallStands, LinkStands,
       OnItsWay
<1>5. CASE CancelNight \/ ManualRunAsks \/ SlotComes \/ Boots \/ UNCHANGED nightVars
  <2>1. UNCHANGED <<tick, runNow, pipe, bench, suite>>
    BY <1>5 DEF CancelNight, ManualRunAsks, SlotComes, Boots, nightVars, memory, Orchestrator, World
  <2> QED
    BY <1>1, <2>1
<1> QED
  BY <1>2, <1>3, <1>4, <1>5

\* Every step keeps what a night has behind it.
LEMMA NightStandsNext == NightTypeInv /\ NightStands /\ [NightNext]_nightVars => NightStands'
BY EndingsKeep, AdvancesKeep, WritesKeep, SuiteKeeps, RunEndsKeep, PipelineEndKeeps, ResumeKeeps,
   TickWritesKeep, LaunchesKeep, CreatesKeep, WorldKeeps DEF NightNext, Tick, MainStep, Finalize

\* What a night has behind it, over every behaviour.
THEOREM NightStandsAlways == NightSpec => []NightStands
<1>1. NightInit => NightStands
  BY NightStandsInit
<1>2. NightTypeInv /\ NightStands /\ [NightNext]_nightVars => NightStands'
  BY NightStandsNext
<1> QED
  BY <1>1, <1>2, NightTyped, PTL DEF NightSpec

\* A night whose linked suite did not exit 0 is never reported green, whoever finishes
\* it (nightly.py:900-908).
THEOREM FailedSuiteNeverGreenAlways == NightSpec => []FailedSuiteNeverGreen
<1>1. NightStands => FailedSuiteNeverGreen
  BY DEF NightStands, RowsStand, RowStands, FailedSuiteNeverGreen, Good
<1> QED
  BY <1>1, NightStandsAlways, PTL

\* However often the process dies, the suite of a night is started at most twice
\* (nightly.py:740-756).
THEOREM SuiteCapAlways == NightSpec => []SuiteCap
<1>1. NightStands => SuiteCap
  BY DEF NightStands, RowsStand, RowStands, SuiteCap
<1> QED
  BY <1>1, NightStandsAlways, PTL

\* Once the bench is being recovered, a night only moves on to its report, whatever
\* dies (nightly.py:759-763).
THEOREM NoRerunAfterSuiteAlways == NightSpec => NoRerunAfterSuite
<1>1. NightTypeInv /\ NightStands /\ [NightNext]_nightVars
        => \A n \in DOMAIN nights : nights[n].step \in Epilogue => nights'[n].step \in Epilogue
  <2> SUFFICES ASSUME NightTypeInv, NightStands, [NightNext]_nightVars,
                      NEW n \in DOMAIN nights, nights[n].step \in Epilogue
               PROVE  nights'[n].step \in Epilogue
    OBVIOUS
  <2>0. /\ nights \in Seq(NightRow) /\ nights[n] \in NightRow /\ suite \in SuiteRun
        /\ tick.at \in OnItsWay => tick.night \in DOMAIN nights
        /\ pipe.at # "none" => pipe.night \in DOMAIN nights
    BY DEF NightTypeInv, NightTypes, Whereabouts
  <2>1. ASSUME NEW m \in DOMAIN nights, NEW row, Write(m, row),
               row.step = nights[m].step \/ row.step \in Epilogue
        PROVE  nights'[n].step \in Epilogue
    <3>1. nights'[n] = IF n = m THEN row ELSE nights[n]
      BY <2>0, <2>1 DEF Write
    <3> QED
      BY <2>1, <3>1
  <2>2. CASE TickRevives \/ TickClosesRun \/ TickBumps
    <3>1. tick.night \in DOMAIN nights /\ nights[tick.night] \in NightRow
      BY <2>0, <2>2 DEF TickRevives, TickClosesRun, TickBumps, OnItsWay
    <3>2. PICK row : Write(tick.night, row) /\ row.step = nights[tick.night].step
      BY <2>2, <3>1 DEF TickRevives, TickClosesRun, TickBumps, NightRow
    <3> QED
      BY <2>1, <3>1, <3>2
  <2>3. CASE SelfUpdated \/ RestartSurvived \/ SuiteLinks \/ Recovers \/ HandsOff \/ Finishes
             \/ Reports \/ PipelineEnds
    <3>1. pipe.night \in DOMAIN nights /\ Night \in NightRow /\ Night = nights[pipe.night]
      BY <2>0, <2>3 DEF SelfUpdated, RestartSurvived, SuiteLinks, Recovers, HandsOff, Finishes,
         Reports, PipelineEnds, Night
    <3>2. PICK row : WriteNight(row) /\ (row.step = Night.step \/ row.step \in Epilogue)
      BY <2>3, <3>1 DEF SelfUpdated, RestartSurvived, SuiteLinks, Recovers, HandsOff, Finishes,
         Reports, PipelineEnds, NightRow, Epilogue
    <3> QED
      BY <2>1, <3>1, <3>2 DEF WriteNight
  <2>4. CASE EnterStep
    <3>1. pipe.at = "enter" /\ pipe.night \in DOMAIN nights /\ PipeStands(pipe, nights[pipe.night])
      BY <2>4, PipeIsAt DEF EnterStep, Night
    <3>2. n # pipe.night
      BY <3>1 DEF PipeStands, Main, Upto
    <3> QED
      BY <2>0, <2>4, <3>1, <3>2 DEF EnterStep, WriteNight, Write
  <2>5. CASE SuiteStarts
    <3>1. pipe.night \in DOMAIN nights /\ Night \in NightRow /\ Night = nights[pipe.night]
      BY <2>0, <2>5 DEF SuiteStarts, Night
    <3>2. CASE UNCHANGED nights
      BY <3>2
    <3>3. CASE WriteNight([Night EXCEPT !.launches = @ + 1])
      <4>1. [Night EXCEPT !.launches = @ + 1].step = Night.step
        BY <3>1 DEF NightRow
      <4>2. PICK row : WriteNight(row) /\ row.step = Night.step
        BY <3>3, <4>1
      <4> QED
        BY <2>1, <3>1, <4>2 DEF WriteNight
    <3> QED
      BY <2>5, <3>2, <3>3 DEF SuiteStarts
  <2>6. CASE GatePasses \/ RunEnds
    <3>1. PICK code \in {"ok", "bad"} : EndRun(code)
      BY <2>6 DEF GatePasses, RunEnds
    <3>2. nights'[n] = [nights[n] EXCEPT !.run = code] \/ nights'[n] = nights[n]
      BY <2>0, <3>1, RunEnded
    <3> QED
      BY <2>0, <3>2 DEF NightRow
  <2>7. CASE TickCreates \/ RunNowCreates
    <3>1. \A s \in 0 .. MaxSlots : NewNight(s) \in NightRow
      BY NewNightTyped
    <3>2. slot \in 0 .. MaxSlots /\ 0 \in 0 .. MaxSlots
      BY BoundsAssumption DEF NightTypeInv, NightTypes
    <3>3. UNCHANGED nights \/ \E s \in 0 .. MaxSlots : nights' = Append(nights, NewNight(s))
      BY <2>7, <3>2 DEF TickCreates, RunNowCreates
    <3> QED
      BY <2>0, <3>1, <3>3, RowAdded
  <2>8. CASE TickReadsUnfinished \/ TickLaunches \/ TickLocks \/ RunNowLaunches \/ GateRefuses
             \/ Canceled \/ WorkDone \/ CloneFailed \/ SuiteOver \/ SuiteAbandoned \/ SoakDone
             \/ StepsAbort \/ CancelNight \/ ManualRunAsks \/ ManualRunStarts \/ SlotComes \/ Dies
             \/ Boots \/ UNCHANGED nightVars
    <3>1. UNCHANGED nights
      BY <2>8 DEF TickReadsUnfinished, TickLaunches, TickLocks, RunNowLaunches, GateRefuses,
         Canceled, WorkDone, CloneFailed, SuiteOver, SuiteAbandoned, SoakDone, StepsAbort,
         CancelNight, ManualRunAsks, ManualRunStarts, SlotComes, Dies, Boots, nightVars
    <3> QED
      BY <3>1
  <2> QED
    BY <2>2, <2>3, <2>4, <2>5, <2>6, <2>7, <2>8 DEF NightNext, Tick, MainStep, Finalize
<1> QED
  BY <1>1, NightTyped, NightStandsAlways, PTL DEF NightSpec, NoRerunAfterSuite

\* Nothing that was begun or done is undone: no pipeline is replaced, no night that came
\* to its epilogue is run again (nightly.py:759-763, 776-783).
THEOREM NothingUndoneAlways == NightSpec => NothingUndone
BY NightNotReplacedAlways, NoRerunAfterSuiteAlways DEF NothingUndone

===============================================================================
