----------------------- MODULE BuildOrchestrator_proofs -----------------------
(***************************************************************************)
(* Proofs about what the server builds and runs on its host.               *)
(*                                                                         *)
(* BuildOrchestrator, for any number of callers, keys, images, calls and   *)
(* deaths: two builds of one key never run together, and an unsettled row  *)
(* always has someone who will settle it or is known to have lost it.      *)
(* PioJobs, for any number of jobs, edits and deaths of the server: what a *)
(* job may write back, what its firmware carries, and who holds the port.  *)
(* ToolJobs, for any captures, grinds and stops: who reads the sniffer,    *)
(* and what an end that is seen has left behind.                           *)
(***************************************************************************)
EXTENDS BuildOrchestrator, PioJobs, ToolJobs, SequenceTheorems, FiniteSetTheorems, TLAPS

Statuses == {"queued", "building", "success", "failed", "cached"}
Row == [key : Keys, status : Statuses]
Phases == {"none", "new", "compiling", "copying", "built", "broken", "settled", "done",
           "raised", "dead"}

\* What the links of a pio leave alone.
ledgerVars == <<lock, call, rows, phase, inflight, dir, orphans, torn, calls, deaths>>

\* A row and how far its task is are created together.
Ledger == rows \in Seq(Row) /\ phase \in Seq(Phases) /\ Len(phase) = Len(rows)

-----------------------------------------------------------------------------
(* What the writes of the ledger do to it.                                 *)

LEMMA BuildsAreIds == Ledger => Builds = 1..Len(rows) /\ DOMAIN phase = 1..Len(rows)
  BY DEF Ledger, Builds

LEMMA RowsAreRows ==
  ASSUME Ledger, NEW r \in Builds
  PROVE  /\ rows[r] \in Row /\ rows[r].key \in Keys /\ rows[r].status \in Statuses
         /\ phase[r] \in Phases /\ r \in 1..Len(rows) /\ r # 0
<1>1. r \in 1..Len(rows) /\ r \in 1..Len(phase)
  BY BuildsAreIds DEF Ledger
<1>2. rows[r] \in Row
  BY <1>1, ElementOfSeq DEF Ledger
<1>3. phase[r] \in Phases
  BY <1>1, ElementOfSeq DEF Ledger
<1> QED
  BY <1>1, <1>2, <1>3 DEF Row

LEMMA NewRowAppends ==
  ASSUME Ledger, NEW k \in Keys, NEW s \in Statuses, NewRow(k, s)
  PROVE  /\ Ledger' /\ Len(rows') = Len(rows) + 1
         /\ Builds' = Builds \cup {Len(rows) + 1} /\ Len(rows) + 1 \notin Builds
         /\ Len(rows) \in Nat
         /\ \A q \in Builds : rows'[q] = rows[q] /\ phase'[q] = phase[q]
         /\ rows'[Len(rows) + 1] = [key |-> k, status |-> s]
         /\ phase'[Len(rows) + 1] = "none"
<1>1. [key |-> k, status |-> s] \in Row /\ "none" \in Phases
  BY DEF Row, Phases
<1>2. /\ rows' \in Seq(Row) /\ Len(rows') = Len(rows) + 1 /\ Len(rows) \in Nat
      /\ \A q \in 1..Len(rows) : rows'[q] = rows[q]
      /\ rows'[Len(rows) + 1] = [key |-> k, status |-> s]
  BY <1>1, AppendProperties, LenProperties DEF NewRow, Ledger
<1>3. /\ phase' \in Seq(Phases) /\ Len(phase') = Len(phase) + 1
      /\ \A q \in 1..Len(phase) : phase'[q] = phase[q]
      /\ phase'[Len(phase) + 1] = "none"
  BY <1>1, AppendProperties DEF NewRow, Ledger
<1>4. Ledger'
  BY <1>2, <1>3 DEF Ledger
<1>5. Builds' = 1..Len(rows')
  BY <1>4 DEF Ledger, Builds
<1> QED
  BY <1>2, <1>3, <1>4, <1>5, BuildsAreIds DEF Ledger

LEMMA RowSaysWrites ==
  ASSUME Ledger, NEW r \in Builds, NEW s \in Statuses, RowSays(r, s)
  PROVE  /\ rows' \in Seq(Row) /\ Len(rows') = Len(rows) /\ Builds' = Builds
         /\ \A q \in Builds : rows'[q].key = rows[q].key
         /\ \A q \in Builds : q # r => rows'[q] = rows[q]
         /\ rows'[r].status = s
<1>1. r \in 1..Len(rows) /\ rows[r] \in Row
  BY RowsAreRows
<1>2. [rows[r] EXCEPT !.status = s] \in Row
  BY <1>1 DEF Row
<1>3. rows' = [rows EXCEPT ![r] = [rows[r] EXCEPT !.status = s]]
  BY DEF RowSays
<1>4. /\ rows' \in Seq(Row) /\ Len(rows') = Len(rows)
      /\ \A q \in 1..Len(rows) : rows'[q] = IF q = r THEN [rows[r] EXCEPT !.status = s] ELSE rows[q]
  BY <1>1, <1>2, <1>3, ExceptSeq DEF Ledger
<1>5. Builds' = 1..Len(rows')
  BY <1>4 DEF Builds
<1>6. [rows[r] EXCEPT !.status = s].key = rows[r].key /\ [rows[r] EXCEPT !.status = s].status = s
  BY <1>1 DEF Row
<1> QED
  BY <1>1, <1>4, <1>5, <1>6, BuildsAreIds

LEMMA PhaseWrites ==
  ASSUME Ledger, NEW r \in Builds, NEW p \in Phases, phase' = [phase EXCEPT ![r] = p]
  PROVE  /\ phase' \in Seq(Phases) /\ Len(phase') = Len(phase)
         /\ phase'[r] = p /\ \A q \in Builds : q # r => phase'[q] = phase[q]
<1>1. r \in 1..Len(phase)
  BY RowsAreRows DEF Ledger
<1>2. /\ phase' \in Seq(Phases) /\ Len(phase') = Len(phase)
      /\ \A q \in 1..Len(phase) : phase'[q] = IF q = r THEN p ELSE phase[q]
  BY <1>1, ExceptSeq DEF Ledger
<1> QED
  BY <1>1, <1>2, BuildsAreIds DEF Ledger

-----------------------------------------------------------------------------
(* Types.                                                                  *)

Calls ==
  /\ lock \in Callers \cup {None}
  /\ call \in [Callers -> [at : Steps, todo : SUBSET Keys, key : Keys \cup {None},
                           force : BOOLEAN, id : Nat]]
  /\ \A c \in Callers : call[c].at \in {"cached", "adopt", "inflight", "create", "created"}
                          => call[c].key \in Keys
  /\ \A c \in Callers : call[c].at = "created" =>
       call[c].id \in Builds /\ rows[call[c].id].key = call[c].key
  /\ \A c \in Callers : call[c].at \notin {"idle", "lock"} => lock = c

CallRec == [at : Steps, todo : SUBSET Keys, key : Keys \cup {None}, force : BOOLEAN, id : Nat]

LEMMA TakesUpTypes ==
  ASSUME call \in [Callers -> CallRec], NEW c \in Callers, NEW k \in Keys,
         NEW step \in Steps, TakesUp(c, k, step)
  PROVE  call' \in [Callers -> CallRec]
  BY ZenonT(60) DEF TakesUp, CallRec

Disk ==
  /\ inflight \in [Keys -> {0} \cup Builds]
  /\ dir \in [Keys -> [Images -> {0} \cup Builds]]
  /\ orphans \subseteq Builds /\ torn \subseteq Keys
  /\ calls \in 0..MaxCalls /\ deaths \in 0..MaxDeaths

\* What lies in the directories of pio, and what was copied from there.
PioTypes ==
  /\ image \in [Keys -> [Images -> {0} \cup Builds]]
  /\ made \in [Envs -> [Images -> {0} \cup Builds]]
  /\ linked \subseteq Builds \X Images /\ spoiled \subseteq Builds

Types == Ledger /\ Calls /\ Disk /\ PioTypes

LEMMA LinksLeaveLedger ==
  /\ UNCHANGED orchVars => UNCHANGED ledgerVars
  /\ \A r \in Builds, f \in Images : LinkImage(r, f) => UNCHANGED ledgerVars
  /\ \A e \in Envs, f \in Images : OthersLink(e, f) => UNCHANGED ledgerVars
  BY DEF orchVars, ledgerVars, LinkImage, OthersLink, othersOfBuild

LEMMA NextLedger == Types /\ [OrchNext]_orchVars => Ledger'
<1> SUFFICES ASSUME Types, [OrchNext]_orchVars PROVE Ledger'
  OBVIOUS
<1>0. Ledger /\ Calls /\ Disk
  BY DEF Types
<1> USE <1>0
<1>1. CASE UNCHANGED ledgerVars
  BY <1>1 DEF ledgerVars, Ledger
<1>2. ASSUME NEW c \in Callers, EnqueueCalled(c) PROVE Ledger'
  BY <1>2 DEF EnqueueCalled, Ledger
<1>3. ASSUME NEW c \in Callers, EnqueueLocked(c) PROVE Ledger'
  BY <1>3 DEF EnqueueLocked, Ledger
<1>4. ASSUME NEW c \in Callers, NEW k \in Keys, EnqueueDecides(c, k) PROVE Ledger'
  BY <1>4 DEF EnqueueDecides, Ledger
<1>5. ASSUME NEW c \in Callers, CachedRead(c) PROVE Ledger'
  BY <1>5 DEF CachedRead, Ledger
<1>6. ASSUME NEW c \in Callers, CachedAdopt(c) PROVE Ledger'
  <2>1. NewRow(call[c].key, "cached") /\ call[c].key \in Keys /\ "cached" \in Statuses
    BY <1>6 DEF CachedAdopt, Statuses, Calls
  <2> QED
    BY <1>6, <2>1, NewRowAppends DEF CachedAdopt
<1>7. ASSUME NEW c \in Callers, InFlightRead(c) PROVE Ledger'
  BY <1>7 DEF InFlightRead, Ledger
<1>8. ASSUME NEW c \in Callers, RowCreated(c) PROVE Ledger'
  <2>1. NewRow(call[c].key, "queued") /\ call[c].key \in Keys /\ "queued" \in Statuses
    BY <1>8 DEF RowCreated, Statuses, Calls
  <2> QED
    BY <1>8, <2>1, NewRowAppends DEF RowCreated
<1>9. ASSUME NEW c \in Callers, TaskCreated(c) PROVE Ledger'
  <2>1. call[c].id \in Builds /\ phase' = [phase EXCEPT ![call[c].id] = "new"] /\ "new" \in Phases /\ rows' = rows
    BY <1>9 DEF TaskCreated, Calls, Phases
  <2> QED
    BY <2>1, PhaseWrites DEF Ledger
<1>10. ASSUME NEW c \in Callers, EnqueueReturns(c) PROVE Ledger'
  BY <1>10 DEF EnqueueReturns, Ledger
<1>11. ASSUME NEW c \in Callers, EnqueueFails(c) PROVE Ledger'
  BY <1>11 DEF EnqueueFails, Ledger
<1>12. ASSUME NEW r \in Builds, BuildBegins(r) PROVE Ledger'
  <2> DEFINE said == "building"
  <2>1. said \in Statuses /\ RowSays(r, said) /\ phase' = [phase EXCEPT ![r] = "compiling"] /\ "compiling" \in Phases
    BY <1>12 DEF BuildBegins, Phase, Statuses, Phases
  <2> HIDE DEF said
  <2> QED
    BY <2>1, RowSaysWrites, PhaseWrites DEF Ledger
<1>13. ASSUME NEW r \in Builds, CompileFails(r) PROVE Ledger'
  <2>1. phase' = [phase EXCEPT ![r] = "broken"] /\ "broken" \in Phases /\ rows' = rows
    BY <1>13 DEF CompileFails, Phase, Phases, othersOfBuild
  <2> QED
    BY <2>1, PhaseWrites DEF Ledger
<1>14. ASSUME NEW r \in Builds, CompileSucceeds(r) PROVE Ledger'
  <2>1. phase' = [phase EXCEPT ![r] = "copying"] /\ "copying" \in Phases /\ rows' = rows
    BY <1>14 DEF CompileSucceeds, Phase, Phases, othersOfBuild
  <2> QED
    BY <2>1, PhaseWrites DEF Ledger
<1>15. ASSUME NEW r \in Builds, NEW f \in Images, CopyImage(r, f) PROVE Ledger'
  BY <1>15 DEF CopyImage, Ledger, othersOfBuild
<1>16. ASSUME NEW r \in Builds, CopyEnds(r) PROVE Ledger'
  <2>1. phase' = [phase EXCEPT ![r] = "built"] /\ "built" \in Phases /\ rows' = rows
    BY <1>16 DEF CopyEnds, Phase, Phases, othersOfBuild
  <2> QED
    BY <2>1, PhaseWrites DEF Ledger
<1>17. ASSUME NEW r \in Builds, RowSettled(r) PROVE Ledger'
  <2> DEFINE said == IF phase[r] = "built" THEN "success" ELSE "failed"
  <2>1. said \in Statuses /\ RowSays(r, said) /\ phase' = [phase EXCEPT ![r] = "settled"] /\ "settled" \in Phases
    BY <1>17 DEF RowSettled, Phase, Statuses, Phases
  <2> HIDE DEF said
  <2> QED
    BY <2>1, RowSaysWrites, PhaseWrites DEF Ledger
<1>18. ASSUME NEW r \in Builds, BuildEnds(r) PROVE Ledger'
  <2>1. phase' = [phase EXCEPT ![r] = "done"] /\ "done" \in Phases /\ rows' = rows
    BY <1>18 DEF BuildEnds, Phase, Phases, othersOfBuild
  <2> QED
    BY <2>1, PhaseWrites DEF Ledger
<1>19. ASSUME NEW r \in Builds, CopyFails(r) PROVE Ledger'
  <2>1. phase' = [phase EXCEPT ![r] = "broken"] /\ "broken" \in Phases /\ rows' = rows
    BY <1>19 DEF CopyFails, Phase, Phases, othersOfBuild
  <2> QED
    BY <2>1, PhaseWrites DEF Ledger
<1>20. ASSUME NEW r \in Builds, LedgerFails(r) PROVE Ledger'
  <2>1. phase' = [phase EXCEPT ![r] = "raised"] /\ "raised" \in Phases /\ rows' = rows
    BY <1>20 DEF LedgerFails, Phase, Phases, othersOfBuild
  <2> QED
    BY <2>1, PhaseWrites DEF Ledger
<1>21. CASE Dies
  <2>1. rows' = rows /\ phase' = [r \in 1..Len(rows) |-> IF Alive(r) THEN "dead" ELSE phase[r]]
    BY <1>21, BuildsAreIds DEF Dies
  <2>2. Len(rows) \in Nat /\ \A r \in 1..Len(rows) : (IF Alive(r) THEN "dead" ELSE phase[r]) \in Phases
    BY RowsAreRows, BuildsAreIds, LenProperties DEF Ledger, Phases
  <2>3. phase' \in Seq(Phases) /\ Len(phase') = Len(rows)
    BY <2>1, <2>2, SeqDef, LenProperties
  <2> QED
    BY <2>1, <2>3 DEF Ledger
<1> QED
  BY <1>1, <1>2, <1>3, <1>4, <1>5, <1>6, <1>7, <1>8, <1>9, <1>10, <1>11, <1>12, <1>13, <1>14, <1>15, <1>16, <1>17, <1>18, <1>19, <1>20, <1>21, LinksLeaveLedger
     DEF OrchNext, EnqueueNext, BuildNext

\* Rows are never deleted and keep their key.
LEMMA RowsStay == Types /\ [OrchNext]_orchVars =>
                    Builds \subseteq Builds' /\ \A q \in Builds : rows'[q].key = rows[q].key
<1> SUFFICES ASSUME Types, [OrchNext]_orchVars
             PROVE  Builds \subseteq Builds' /\ \A q \in Builds : rows'[q].key = rows[q].key
  OBVIOUS
<1>0. Ledger /\ Calls /\ Disk
  BY DEF Types
<1> USE <1>0
<1> DEFINE Stay == Builds \subseteq Builds' /\ \A q \in Builds : rows'[q].key = rows[q].key
<1>1. CASE UNCHANGED ledgerVars
  BY <1>1 DEF ledgerVars, Builds
<1>2. ASSUME NEW c \in Callers, EnqueueCalled(c) PROVE Stay
  BY <1>2 DEF EnqueueCalled, Builds
<1>3. ASSUME NEW c \in Callers, EnqueueLocked(c) PROVE Stay
  BY <1>3 DEF EnqueueLocked, Builds
<1>4. ASSUME NEW c \in Callers, NEW k \in Keys, EnqueueDecides(c, k) PROVE Stay
  BY <1>4 DEF EnqueueDecides, Builds
<1>5. ASSUME NEW c \in Callers, CachedRead(c) PROVE Stay
  BY <1>5 DEF CachedRead, Builds
<1>6. ASSUME NEW c \in Callers, CachedAdopt(c) PROVE Stay
  <2>1. NewRow(call[c].key, "cached") /\ call[c].key \in Keys /\ "cached" \in Statuses
    BY <1>6 DEF CachedAdopt, Calls, Statuses
  <2> QED
    BY <2>1, NewRowAppends
<1>7. ASSUME NEW c \in Callers, InFlightRead(c) PROVE Stay
  BY <1>7 DEF InFlightRead, Builds
<1>8. ASSUME NEW c \in Callers, RowCreated(c) PROVE Stay
  <2>1. NewRow(call[c].key, "queued") /\ call[c].key \in Keys /\ "queued" \in Statuses
    BY <1>8 DEF RowCreated, Calls, Statuses
  <2> QED
    BY <2>1, NewRowAppends
<1>9. ASSUME NEW c \in Callers, TaskCreated(c) PROVE Stay
  BY <1>9 DEF TaskCreated, Builds
<1>10. ASSUME NEW c \in Callers, EnqueueReturns(c) PROVE Stay
  BY <1>10 DEF EnqueueReturns, Builds
<1>11. ASSUME NEW c \in Callers, EnqueueFails(c) PROVE Stay
  BY <1>11 DEF EnqueueFails, Builds
<1>12. ASSUME NEW r \in Builds, BuildBegins(r) PROVE Stay
  <2> DEFINE said == "building"
  <2>1. said \in Statuses /\ RowSays(r, said)
    BY <1>12 DEF BuildBegins, Statuses
  <2> HIDE DEF said
  <2> QED
    BY <2>1, RowSaysWrites
<1>13. ASSUME NEW r \in Builds, CompileFails(r) PROVE Stay
  BY <1>13 DEF CompileFails, othersOfBuild, Builds
<1>14. ASSUME NEW r \in Builds, CompileSucceeds(r) PROVE Stay
  BY <1>14 DEF CompileSucceeds, othersOfBuild, Builds
<1>15. ASSUME NEW r \in Builds, NEW f \in Images, CopyImage(r, f) PROVE Stay
  BY <1>15 DEF CopyImage, othersOfBuild, Builds
<1>16. ASSUME NEW r \in Builds, CopyEnds(r) PROVE Stay
  BY <1>16 DEF CopyEnds, othersOfBuild, Builds
<1>17. ASSUME NEW r \in Builds, RowSettled(r) PROVE Stay
  <2> DEFINE said == IF phase[r] = "built" THEN "success" ELSE "failed"
  <2>1. said \in Statuses /\ RowSays(r, said)
    BY <1>17 DEF RowSettled, Statuses
  <2> HIDE DEF said
  <2> QED
    BY <2>1, RowSaysWrites
<1>18. ASSUME NEW r \in Builds, BuildEnds(r) PROVE Stay
  BY <1>18 DEF BuildEnds, othersOfBuild, Builds
<1>19. ASSUME NEW r \in Builds, CopyFails(r) PROVE Stay
  BY <1>19 DEF CopyFails, othersOfBuild, Builds
<1>20. ASSUME NEW r \in Builds, LedgerFails(r) PROVE Stay
  BY <1>20 DEF LedgerFails, othersOfBuild, Builds
<1>21. CASE Dies
  BY <1>21 DEF Dies, Builds
<1> QED
  BY <1>1, <1>2, <1>3, <1>4, <1>5, <1>6, <1>7, <1>8, <1>9, <1>10, <1>11, <1>12, <1>13, <1>14, <1>15, <1>16, <1>17, <1>18, <1>19, <1>20, <1>21, LinksLeaveLedger
     DEF OrchNext, EnqueueNext, BuildNext

LEMMA NextCalls == Types /\ [OrchNext]_orchVars => Calls'
<1> SUFFICES ASSUME Types, [OrchNext]_orchVars PROVE Calls'
  OBVIOUS
<1>0. Ledger /\ Calls /\ Disk
  BY DEF Types
<1> USE <1>0
<1>a. Builds \subseteq Builds' /\ \A q \in Builds : rows'[q].key = rows[q].key
  BY RowsStay
<1> USE <1>a, OrchestratorAssumption DEF Calls, NoCall, CallGoes, Steps
<1>1. CASE UNCHANGED ledgerVars
  BY <1>1 DEF ledgerVars, Builds
<1>2. ASSUME NEW c \in Callers, EnqueueCalled(c) PROVE Calls'
  <2>1. PICK todo \in SUBSET Keys, force \in BOOLEAN :
          call' = [call EXCEPT ![c] = [NoCall EXCEPT !.at = "lock", !.todo = todo, !.force = force]]
    BY <1>2 DEF EnqueueCalled
  <2>2. /\ call'[c] = [at |-> "lock", todo |-> todo, key |-> None, force |-> force, id |-> 0]
        /\ call'[c].at = "lock"
        /\ call'[c] \in [at : Steps, todo : SUBSET Keys, key : Keys \cup {None},
                          force : BOOLEAN, id : Nat]
    BY <2>1
  <2>3. \A d \in Callers \ {c} : call'[d] = call[d]
    BY <2>1
  <2>4. call' \in [Callers -> [at : Steps, todo : SUBSET Keys, key : Keys \cup {None},
                                force : BOOLEAN, id : Nat]]
    BY <2>1, <2>2
  <2> QED
    BY <1>2, <2>2, <2>3, <2>4 DEF EnqueueCalled
<1>3. ASSUME NEW c \in Callers, EnqueueLocked(c) PROVE Calls'
  BY <1>3 DEF EnqueueLocked
<1>4. ASSUME NEW c \in Callers, NEW k \in Keys, EnqueueDecides(c, k) PROVE Calls'
  <2>1. PICK step \in {"cached", "inflight", "create"} : TakesUp(c, k, step)
    BY <1>4 DEF EnqueueDecides
  <2>2. lock' = lock /\ lock = c /\ rows' = rows
    BY <1>4 DEF EnqueueDecides
  <2>3. call' \in [Callers -> [at : Steps, todo : SUBSET Keys, key : Keys \cup {None},
                                force : BOOLEAN, id : Nat]]
    <3>1. call \in [Callers -> CallRec] /\ step \in Steps
      BY DEF CallRec
    <3> QED
      BY <2>1, <3>1, TakesUpTypes DEF CallRec
  <2>4. call'[c].key = k /\ call'[c].at = step /\ \A d \in Callers \ {c} : call'[d] = call[d]
    BY <2>1 DEF TakesUp
  <2> QED
    BY <2>2, <2>3, <2>4
<1>5. ASSUME NEW c \in Callers, CachedRead(c) PROVE Calls'
  BY <1>5 DEF CachedRead
<1>6. ASSUME NEW c \in Callers, CachedAdopt(c) PROVE Calls'
  BY <1>6 DEF CachedAdopt
<1>7. ASSUME NEW c \in Callers, InFlightRead(c) PROVE Calls'
  BY <1>7 DEF InFlightRead
<1>8. ASSUME NEW c \in Callers, RowCreated(c) PROVE Calls'
  <2>1. NewRow(call[c].key, "queued") /\ call[c].key \in Keys /\ "queued" \in Statuses
    BY <1>8 DEF RowCreated, Statuses
  <2>a. /\ Len(rows) \in Nat /\ Builds' = Builds \cup {Len(rows) + 1}
        /\ rows'[Len(rows) + 1] = [key |-> call[c].key, status |-> "queued"]
    BY <2>1, NewRowAppends
  <2>2. /\ Len(rows) + 1 \in Builds' /\ rows'[Len(rows) + 1].key = call[c].key
        /\ Len(rows) + 1 \in Nat
    BY <2>a
  <2>3. /\ call' = [call EXCEPT ![c].at = "created", ![c].id = Len(rows) + 1]
        /\ lock' = lock /\ call[c].at = "create" /\ lock = c
    BY <1>8 DEF RowCreated
  <2> QED
    BY <2>2, <2>3, ZenonT(60)
<1>9. ASSUME NEW c \in Callers, TaskCreated(c) PROVE Calls'
  BY <1>9 DEF TaskCreated
<1>10. ASSUME NEW c \in Callers, EnqueueReturns(c) PROVE Calls'
  BY <1>10 DEF EnqueueReturns
<1>11. ASSUME NEW c \in Callers, EnqueueFails(c) PROVE Calls'
  BY <1>11 DEF EnqueueFails
<1>12. ASSUME NEW r \in Builds, BuildBegins(r) PROVE Calls'
  BY <1>12 DEF BuildBegins, othersOfBuild
<1>13. ASSUME NEW r \in Builds, CompileFails(r) PROVE Calls'
  BY <1>13 DEF CompileFails, othersOfBuild
<1>14. ASSUME NEW r \in Builds, CompileSucceeds(r) PROVE Calls'
  BY <1>14 DEF CompileSucceeds, othersOfBuild
<1>15. ASSUME NEW r \in Builds, NEW f \in Images, CopyImage(r, f) PROVE Calls'
  BY <1>15 DEF CopyImage, othersOfBuild
<1>16. ASSUME NEW r \in Builds, CopyEnds(r) PROVE Calls'
  BY <1>16 DEF CopyEnds, othersOfBuild
<1>17. ASSUME NEW r \in Builds, RowSettled(r) PROVE Calls'
  BY <1>17 DEF RowSettled, othersOfBuild
<1>18. ASSUME NEW r \in Builds, BuildEnds(r) PROVE Calls'
  BY <1>18 DEF BuildEnds, othersOfBuild
<1>19. ASSUME NEW r \in Builds, CopyFails(r) PROVE Calls'
  BY <1>19 DEF CopyFails, othersOfBuild
<1>20. ASSUME NEW r \in Builds, LedgerFails(r) PROVE Calls'
  BY <1>20 DEF LedgerFails, othersOfBuild
<1>21. CASE Dies
  BY <1>21 DEF Dies
<1> QED
  BY <1>1, <1>2, <1>3, <1>4, <1>5, <1>6, <1>7, <1>8, <1>9, <1>10, <1>11, <1>12, <1>13, <1>14, <1>15, <1>16, <1>17, <1>18, <1>19, <1>20, <1>21, LinksLeaveLedger
     DEF OrchNext, EnqueueNext, BuildNext

LEMMA NextDisk == Types /\ [OrchNext]_orchVars => Disk'
<1> SUFFICES ASSUME Types, [OrchNext]_orchVars PROVE Disk'
  OBVIOUS
<1>0. Ledger /\ Calls /\ Disk
  BY DEF Types
<1> USE <1>0
<1>a. Builds \subseteq Builds'
  BY RowsStay
<1> USE <1>a, OrchestratorAssumption DEF Disk
<1>1. CASE UNCHANGED ledgerVars
  BY <1>1 DEF ledgerVars, Builds
<1>2. ASSUME NEW c \in Callers, EnqueueCalled(c) PROVE Disk'
  BY <1>2 DEF EnqueueCalled
<1>3. ASSUME NEW c \in Callers, EnqueueLocked(c) PROVE Disk'
  BY <1>3 DEF EnqueueLocked
<1>4. ASSUME NEW c \in Callers, NEW k \in Keys, EnqueueDecides(c, k) PROVE Disk'
  BY <1>4 DEF EnqueueDecides
<1>5. ASSUME NEW c \in Callers, CachedRead(c) PROVE Disk'
  BY <1>5 DEF CachedRead
<1>6. ASSUME NEW c \in Callers, CachedAdopt(c) PROVE Disk'
  BY <1>6 DEF CachedAdopt
<1>7. ASSUME NEW c \in Callers, InFlightRead(c) PROVE Disk'
  BY <1>7 DEF InFlightRead
<1>8. ASSUME NEW c \in Callers, RowCreated(c) PROVE Disk'
  BY <1>8 DEF RowCreated
<1>9. ASSUME NEW c \in Callers, TaskCreated(c) PROVE Disk'
  <2>1. call[c].id \in Builds /\ call[c].key \in Keys
    BY <1>9 DEF TaskCreated, Calls
  <2> QED
    BY <1>9, <2>1 DEF TaskCreated, Register
<1>10. ASSUME NEW c \in Callers, EnqueueReturns(c) PROVE Disk'
  BY <1>10 DEF EnqueueReturns
<1>11. ASSUME NEW c \in Callers, EnqueueFails(c) PROVE Disk'
  <2>1. call[c].at = "created" => call[c].id \in Builds
    BY <1>11 DEF Calls
  <2> QED
    BY <1>11, <2>1 DEF EnqueueFails
<1>12. ASSUME NEW r \in Builds, BuildBegins(r) PROVE Disk'
  BY <1>12, RowsAreRows DEF BuildBegins, othersOfBuild, Register
<1>13. ASSUME NEW r \in Builds, CompileFails(r) PROVE Disk'
  BY <1>13, RowsAreRows DEF CompileFails, othersOfBuild, Register
<1>14. ASSUME NEW r \in Builds, CompileSucceeds(r) PROVE Disk'
  BY <1>14, RowsAreRows DEF CompileSucceeds, othersOfBuild, Register
<1>15. ASSUME NEW r \in Builds, NEW f \in Images, CopyImage(r, f) PROVE Disk'
  BY <1>15, RowsAreRows DEF CopyImage, othersOfBuild, Register
<1>16. ASSUME NEW r \in Builds, CopyEnds(r) PROVE Disk'
  BY <1>16, RowsAreRows DEF CopyEnds, othersOfBuild, Register
<1>17. ASSUME NEW r \in Builds, RowSettled(r) PROVE Disk'
  BY <1>17, RowsAreRows DEF RowSettled, othersOfBuild, Register
<1>18. ASSUME NEW r \in Builds, BuildEnds(r) PROVE Disk'
  BY <1>18, RowsAreRows DEF BuildEnds, othersOfBuild, Register
<1>19. ASSUME NEW r \in Builds, CopyFails(r) PROVE Disk'
  BY <1>19, RowsAreRows DEF CopyFails, othersOfBuild, Register
<1>20. ASSUME NEW r \in Builds, LedgerFails(r) PROVE Disk'
  BY <1>20, RowsAreRows DEF LedgerFails, othersOfBuild, Register
<1>21. CASE Dies
  <2>1. \A r \in Builds : rows[r].key \in Keys
    BY RowsAreRows
  <2> QED
    BY <1>21, <2>1 DEF Dies
<1> QED
  BY <1>1, <1>2, <1>3, <1>4, <1>5, <1>6, <1>7, <1>8, <1>9, <1>10, <1>11, <1>12, <1>13, <1>14, <1>15, <1>16, <1>17, <1>18, <1>19, <1>20, <1>21, LinksLeaveLedger
     DEF OrchNext, EnqueueNext, BuildNext

LEMMA MadeOverTypes ==
  ASSUME Types, NEW e \in Envs, NEW f \in Images, NEW r \in {0} \cup Builds, MadeOver(e, f, r)
  PROVE  made' \in [Envs -> [Images -> {0} \cup Builds]] /\ spoiled' \subseteq Builds
<1>1. made \in [Envs -> [Images -> {0} \cup Builds]] /\ spoiled \subseteq Builds
  BY DEF Types, PioTypes
<1> QED
  BY <1>1 DEF MadeOver

LEMMA NextPio == Types /\ [OrchNext]_orchVars => PioTypes'
<1> SUFFICES ASSUME Types, [OrchNext]_orchVars PROVE PioTypes'
  OBVIOUS
<1>0. Ledger /\ PioTypes
  BY DEF Types
<1>a. Builds \subseteq Builds' /\ \A r \in Builds : rows[r].key \in Keys /\ Env(rows[r].key) \in Envs
  BY <1>0, RowsStay, RowsAreRows DEF Envs
<1>1. CASE UNCHANGED pioVars
  BY <1>0, <1>a, <1>1 DEF PioTypes, pioVars
<1>2. ASSUME NEW c \in Callers, EnqueueCalled(c) \/ EnqueueNext(c) \/ EnqueueFails(c)
      PROVE  UNCHANGED pioVars
  BY <1>2 DEF EnqueueNext, EnqueueCalled, EnqueueLocked, EnqueueDecides, CachedRead, CachedAdopt,
     InFlightRead, RowCreated, TaskCreated, EnqueueReturns, EnqueueFails
<1>3. ASSUME NEW r \in Builds, BuildBegins(r) \/ CopyEnds(r) \/ RowSettled(r) \/ BuildEnds(r)
                                \/ CopyFails(r) \/ LedgerFails(r)
      PROVE  UNCHANGED pioVars
  BY <1>3 DEF BuildBegins, CopyEnds, RowSettled, BuildEnds, CopyFails, LedgerFails
<1>4. ASSUME NEW r \in Builds, CompileFails(r) \/ CompileSucceeds(r) PROVE PioTypes'
  <2>1. linked' \subseteq linked /\ UNCHANGED <<image, made, spoiled>>
    BY <1>4 DEF CompileFails, CompileSucceeds
  <2> QED
    BY <1>0, <1>a, <2>1 DEF PioTypes
<1>5. ASSUME NEW r \in Builds, NEW f \in Images, LinkImage(r, f) PROVE PioTypes'
  <2>1. MadeOver(Env(rows[r].key), f, r) /\ linked' = linked \cup {<<r, f>>} /\ image' = image
    BY <1>5 DEF LinkImage
  <2>2. made' \in [Envs -> [Images -> {0} \cup Builds]] /\ spoiled' \subseteq Builds
    BY <1>a, <2>1, MadeOverTypes
  <2> QED
    BY <1>0, <1>a, <2>1, <2>2 DEF PioTypes
<1>6. ASSUME NEW e \in Envs, NEW f \in Images, OthersLink(e, f) PROVE PioTypes'
  <2>1. MadeOver(e, f, 0) /\ linked' = linked /\ image' = image
    BY <1>6 DEF OthersLink
  <2>2. made' \in [Envs -> [Images -> {0} \cup Builds]] /\ spoiled' \subseteq Builds
    BY <2>1, MadeOverTypes
  <2> QED
    BY <1>0, <1>a, <2>1, <2>2 DEF PioTypes
<1>7. ASSUME NEW r \in Builds, NEW f \in Images, CopyImage(r, f) PROVE PioTypes'
  <2>1. /\ image' = [image EXCEPT ![rows[r].key][f] = made[Env(rows[r].key)][f]]
        /\ UNCHANGED <<made, linked, spoiled>>
    BY <1>7 DEF CopyImage
  <2>2. made[Env(rows[r].key)][f] \in {0} \cup Builds
    BY <1>0, <1>a DEF PioTypes
  <2> QED
    BY <1>0, <1>a, <2>1, <2>2 DEF PioTypes
<1>8. CASE Dies
  BY <1>0, <1>a, <1>8 DEF Dies, PioTypes
<1>9. UNCHANGED orchVars => UNCHANGED pioVars
  BY DEF orchVars, pioVars
<1> QED
  BY <1>1, <1>2, <1>3, <1>4, <1>5, <1>6, <1>7, <1>8, <1>9 DEF OrchNext, BuildNext

LEMMA InitTypes == OrchInit => Types
<1> SUFFICES ASSUME OrchInit PROVE Types
  OBVIOUS
<1> USE OrchestratorAssumption DEF OrchInit
<1>1. Ledger
  BY EmptySeq DEF Ledger
<1>2. Calls
  BY DEF Calls, NoCall, Steps
<1>3. Disk
  BY DEF Disk
<1>4. PioTypes
  BY DEF PioTypes
<1> QED
  BY <1>1, <1>2, <1>3, <1>4 DEF Types

LEMMA TypesAlways == OrchSpec => []Types
<1>1. Types /\ [OrchNext]_orchVars => Types'
  BY NextLedger, NextCalls, NextDisk, NextPio DEF Types
<1> QED
  BY InitTypes, <1>1, PTL DEF OrchSpec

\* Every variable of the orchestrator keeps its type, whoever is cancelled and
\* whatever dies.
THEOREM OrchestratorTypes == OrchSpec => []OrchTypeOK
<1>1. Types => OrchTypeOK
  <2> SUFFICES ASSUME Types PROVE OrchTypeOK
    OBVIOUS
  <2>1. phase \in [Builds -> Phases]
    BY LenProperties, BuildsAreIds DEF Types, Ledger
  <2> QED
    BY <2>1 DEF Types, Ledger, Calls, Disk, PioTypes, OrchTypeOK, Row, Statuses, Phases, Builds
<1> QED
  BY <1>1, TypesAlways, PTL

-----------------------------------------------------------------------------
(* One build of a key.                                                     *)

\* A task that runs is the one registered for its key, and a call that is about
\* to create one holds the lock and knows of none.
Registered ==
  /\ \A r \in Builds : Alive(r) => inflight[rows[r].key] = r
  /\ \A c \in Callers : call[c].at \in {"create", "created"} =>
       \A r \in Builds : Alive(r) => rows[r].key # call[c].key

\* What all steps do that neither create a task nor end one for good.
NoneBorn ==
  /\ inflight' = inflight
  /\ \A q \in Builds : Alive(q)' => Alive(q)
  /\ \A q \in Builds' \ Builds : ~Alive(q)'

Turns ==
  \/ \E c \in Callers : TaskCreated(c)
  \/ \E r \in Builds : BuildEnds(r)
  \/ Dies

LEMMA NextBorn == Types /\ [OrchNext]_orchVars => NoneBorn \/ Turns
<1> DEFINE Born == NoneBorn \/ Turns
<1> SUFFICES ASSUME Types, [OrchNext]_orchVars PROVE Born
  OBVIOUS
<1>0. Ledger /\ Calls /\ Disk
  BY DEF Types
<1> USE <1>0 DEF NoneBorn
<1>1. CASE UNCHANGED ledgerVars
  BY <1>1 DEF ledgerVars, Builds, Alive
<1>2. ASSUME NEW c \in Callers, EnqueueCalled(c) PROVE Born
  BY <1>2 DEF EnqueueCalled, Builds, Alive
<1>3. ASSUME NEW c \in Callers, EnqueueLocked(c) PROVE Born
  BY <1>3 DEF EnqueueLocked, Builds, Alive
<1>4. ASSUME NEW c \in Callers, NEW k \in Keys, EnqueueDecides(c, k) PROVE Born
  BY <1>4 DEF EnqueueDecides, Builds, Alive
<1>5. ASSUME NEW c \in Callers, CachedRead(c) PROVE Born
  BY <1>5 DEF CachedRead, Builds, Alive
<1>6. ASSUME NEW c \in Callers, CachedAdopt(c) PROVE Born
  <2>1. NewRow(call[c].key, "cached") /\ call[c].key \in Keys /\ "cached" \in Statuses
    BY <1>6 DEF CachedAdopt, Statuses, Calls
  <2>2. /\ Builds' = Builds \cup {Len(rows) + 1} /\ phase'[Len(rows) + 1] = "none"
        /\ \A q \in Builds : phase'[q] = phase[q]
    BY <2>1, NewRowAppends
  <2>3. inflight' = inflight
    BY <1>6 DEF CachedAdopt
  <2> QED
    BY <2>2, <2>3 DEF Alive
<1>7. ASSUME NEW c \in Callers, InFlightRead(c) PROVE Born
  BY <1>7 DEF InFlightRead, Builds, Alive
<1>8. ASSUME NEW c \in Callers, RowCreated(c) PROVE Born
  <2>1. NewRow(call[c].key, "queued") /\ call[c].key \in Keys /\ "queued" \in Statuses
    BY <1>8 DEF RowCreated, Statuses, Calls
  <2>2. /\ Builds' = Builds \cup {Len(rows) + 1} /\ phase'[Len(rows) + 1] = "none"
        /\ \A q \in Builds : phase'[q] = phase[q]
    BY <2>1, NewRowAppends
  <2>3. inflight' = inflight
    BY <1>8 DEF RowCreated
  <2> QED
    BY <2>2, <2>3 DEF Alive
<1>9. ASSUME NEW c \in Callers, TaskCreated(c) PROVE Born
  BY <1>9 DEF Turns
<1>10. ASSUME NEW c \in Callers, EnqueueReturns(c) PROVE Born
  BY <1>10 DEF EnqueueReturns, Builds, Alive
<1>11. ASSUME NEW c \in Callers, EnqueueFails(c) PROVE Born
  BY <1>11 DEF EnqueueFails, Builds, Alive
<1>12. ASSUME NEW r \in Builds, BuildBegins(r) PROVE Born
  <2>1. phase' = [phase EXCEPT ![r] = "compiling"] /\ "compiling" \in Phases /\ Alive(r) /\ inflight' = inflight
    BY <1>12 DEF BuildBegins, Phase, Phases, Alive, othersOfBuild
  <2> DEFINE said == "building"
  <2>2. said \in Statuses /\ RowSays(r, said)
    BY <1>12 DEF BuildBegins, Statuses
  <2>3. Builds' = Builds
    BY <2>2, RowSaysWrites
  <2> HIDE DEF said
  <2> QED
    BY <2>1, <2>3, PhaseWrites DEF Alive
<1>13. ASSUME NEW r \in Builds, CompileFails(r) PROVE Born
  <2>1. phase' = [phase EXCEPT ![r] = "broken"] /\ "broken" \in Phases /\ Alive(r) /\ inflight' = inflight
    BY <1>13 DEF CompileFails, Phase, Phases, Alive, othersOfBuild
  <2>2. Builds' = Builds
    BY <1>13 DEF CompileFails, othersOfBuild, Builds
  <2> QED
    BY <2>1, <2>2, PhaseWrites DEF Alive
<1>14. ASSUME NEW r \in Builds, CompileSucceeds(r) PROVE Born
  <2>1. phase' = [phase EXCEPT ![r] = "copying"] /\ "copying" \in Phases /\ Alive(r) /\ inflight' = inflight
    BY <1>14 DEF CompileSucceeds, Phase, Phases, Alive, othersOfBuild
  <2>2. Builds' = Builds
    BY <1>14 DEF CompileSucceeds, othersOfBuild, Builds
  <2> QED
    BY <2>1, <2>2, PhaseWrites DEF Alive
<1>15. ASSUME NEW r \in Builds, NEW f \in Images, CopyImage(r, f) PROVE Born
  BY <1>15 DEF CopyImage, othersOfBuild, Builds, Alive
<1>16. ASSUME NEW r \in Builds, CopyEnds(r) PROVE Born
  <2>1. phase' = [phase EXCEPT ![r] = "built"] /\ "built" \in Phases /\ Alive(r) /\ inflight' = inflight
    BY <1>16 DEF CopyEnds, Phase, Phases, Alive, othersOfBuild
  <2>2. Builds' = Builds
    BY <1>16 DEF CopyEnds, othersOfBuild, Builds
  <2> QED
    BY <2>1, <2>2, PhaseWrites DEF Alive
<1>17. ASSUME NEW r \in Builds, RowSettled(r) PROVE Born
  <2>1. phase' = [phase EXCEPT ![r] = "settled"] /\ "settled" \in Phases /\ Alive(r) /\ inflight' = inflight
    BY <1>17 DEF RowSettled, Phase, Phases, Alive, othersOfBuild
  <2> DEFINE said == IF phase[r] = "built" THEN "success" ELSE "failed"
  <2>2. said \in Statuses /\ RowSays(r, said)
    BY <1>17 DEF RowSettled, Statuses
  <2>3. Builds' = Builds
    BY <2>2, RowSaysWrites
  <2> HIDE DEF said
  <2> QED
    BY <2>1, <2>3, PhaseWrites DEF Alive
<1>18. ASSUME NEW r \in Builds, BuildEnds(r) PROVE Born
  BY <1>18 DEF Turns
<1>19. ASSUME NEW r \in Builds, CopyFails(r) PROVE Born
  <2>1. phase' = [phase EXCEPT ![r] = "broken"] /\ "broken" \in Phases /\ Alive(r) /\ inflight' = inflight
    BY <1>19 DEF CopyFails, Phase, Phases, Alive, othersOfBuild
  <2>2. Builds' = Builds
    BY <1>19 DEF CopyFails, othersOfBuild, Builds
  <2> QED
    BY <2>1, <2>2, PhaseWrites DEF Alive
<1>20. ASSUME NEW r \in Builds, LedgerFails(r) PROVE Born
  <2>1. phase' = [phase EXCEPT ![r] = "raised"] /\ "raised" \in Phases /\ Alive(r) /\ inflight' = inflight
    BY <1>20 DEF LedgerFails, Phase, Phases, Alive, othersOfBuild
  <2>2. Builds' = Builds
    BY <1>20 DEF LedgerFails, othersOfBuild, Builds
  <2> QED
    BY <2>1, <2>2, PhaseWrites DEF Alive
<1>21. CASE Dies
  BY <1>21 DEF Turns
<1> QED
  BY <1>1, <1>2, <1>3, <1>4, <1>5, <1>6, <1>7, <1>8, <1>9, <1>10, <1>11, <1>12, <1>13, <1>14, <1>15, <1>16, <1>17, <1>18, <1>19, <1>20, <1>21, LinksLeaveLedger
     DEF OrchNext, EnqueueNext, BuildNext

RunsRegistered == \A r \in Builds : Alive(r) => inflight[rows[r].key] = r

LEMMA NextRegistered == Types /\ Registered /\ [OrchNext]_orchVars => RunsRegistered'
<1> SUFFICES ASSUME Types, Registered, [OrchNext]_orchVars PROVE RunsRegistered'
  OBVIOUS
<1>0. Ledger /\ Calls /\ Disk
  BY DEF Types
<1> USE <1>0 DEF RunsRegistered
<1>1. CASE NoneBorn
  <2>1. \A r \in Builds' : Alive(r)' => r \in Builds /\ Alive(r) /\ rows'[r].key = rows[r].key
    BY <1>1, RowsStay DEF NoneBorn
  <2> QED
    BY <1>1, <2>1 DEF NoneBorn, Registered
<1>2. ASSUME NEW c \in Callers, TaskCreated(c) PROVE RunsRegistered'
  <2>1. /\ call[c].id \in Builds /\ rows[call[c].id].key = call[c].key /\ call[c].at = "created"
        /\ phase' = [phase EXCEPT ![call[c].id] = "new"] /\ rows' = rows
        /\ inflight' = [inflight EXCEPT ![call[c].key] = call[c].id] /\ "new" \in Phases
    BY <1>2 DEF TaskCreated, Calls, Register, Phases
  <2>2. \A q \in Builds : q # call[c].id => phase'[q] = phase[q]
    BY <2>1, PhaseWrites
  <2>3. call[c].key \in Keys /\ \A q \in Builds : rows[q].key \in Keys
    BY <2>1, RowsAreRows
  <2>4. Builds' = Builds
    BY <2>1 DEF Builds
  <2>5. \A q \in Builds : q # call[c].id /\ Alive(q)' => Alive(q)
    BY <2>2 DEF Alive
  <2> QED
    BY <2>1, <2>3, <2>4, <2>5 DEF Registered, Disk
<1>3. ASSUME NEW r \in Builds, BuildEnds(r) PROVE RunsRegistered'
  <2>1. /\ inflight' = [inflight EXCEPT ![rows[r].key] = 0] /\ rows' = rows
        /\ phase[r] = "settled" /\ phase' = [phase EXCEPT ![r] = "done"] /\ "done" \in Phases
    BY <1>3 DEF BuildEnds, Register, Phase, Phases, othersOfBuild
  <2>2. phase'[r] = "done" /\ \A q \in Builds : q # r => phase'[q] = phase[q]
    BY <2>1, PhaseWrites
  <2>3. Builds' = Builds /\ rows[r].key \in Keys /\ \A q \in Builds : rows[q].key \in Keys
    BY <2>1, RowsAreRows DEF Builds
  <2>4. \A q \in Builds : Alive(q)' => q # r /\ Alive(q)
    BY <2>2 DEF Alive
  <2>5. Alive(r)
    BY <2>1 DEF Alive
  <2> QED
    BY <2>1, <2>3, <2>4, <2>5 DEF Registered, Disk
<1>4. CASE Dies
  <2>1. Builds' = Builds /\ \A q \in Builds : phase'[q] = IF Alive(q) THEN "dead" ELSE phase[q]
    BY <1>4 DEF Dies, Builds
  <2>2. \A q \in Builds : ~Alive(q)'
    BY <2>1 DEF Alive
  <2> QED
    BY <2>1, <2>2 DEF Registered
<1> QED
  BY <1>1, <1>2, <1>3, <1>4, NextBorn DEF Turns

\* A call comes to "create" only where no build is in flight.
LEMMA NextCreates ==
  Types /\ [OrchNext]_orchVars =>
    \A d \in Callers : call'[d].at \in {"create", "created"} =>
      \/ call[d].at \in {"create", "created"} /\ call'[d].key = call[d].key
      \/ call'[d].key \in Keys /\ ~BuildInFlight(call'[d].key)
<1> DEFINE Creates ==
      \A d \in Callers : call'[d].at \in {"create", "created"} =>
        \/ call[d].at \in {"create", "created"} /\ call'[d].key = call[d].key
        \/ call'[d].key \in Keys /\ ~BuildInFlight(call'[d].key)
<1> SUFFICES ASSUME Types, [OrchNext]_orchVars PROVE Creates
  OBVIOUS
<1>0. call \in [Callers -> CallRec]
  BY DEF Types, Calls, CallRec
<1> USE <1>0 DEF NoCall, CallGoes, CallRec
<1>1. CASE UNCHANGED ledgerVars
  BY <1>1 DEF ledgerVars
<1>2. ASSUME NEW c \in Callers, EnqueueCalled(c) PROVE Creates
  <2>1. call'[c].at = "lock" /\ \A d \in Callers \ {c} : call'[d] = call[d]
    BY <1>2 DEF EnqueueCalled
  <2> QED
    BY <2>1
<1>3. ASSUME NEW c \in Callers, EnqueueLocked(c) PROVE Creates
  BY <1>3 DEF EnqueueLocked
<1>4. ASSUME NEW c \in Callers, NEW k \in Keys, EnqueueDecides(c, k) PROVE Creates
  <2>1. PICK step \in {"cached", "inflight", "create"} :
          TakesUp(c, k, step) /\ (step = "create" => ~BuildInFlight(k))
    BY <1>4 DEF EnqueueDecides
  <2>2. call'[c].key = k /\ call'[c].at = step /\ \A d \in Callers \ {c} : call'[d] = call[d]
    BY <2>1 DEF TakesUp
  <2> QED
    BY <2>1, <2>2
<1>5. ASSUME NEW c \in Callers, CachedRead(c) PROVE Creates
  BY <1>5 DEF CachedRead
<1>6. ASSUME NEW c \in Callers, CachedAdopt(c) PROVE Creates
  BY <1>6 DEF CachedAdopt
<1>7. ASSUME NEW c \in Callers, InFlightRead(c) PROVE Creates
  BY <1>7 DEF InFlightRead
<1>8. ASSUME NEW c \in Callers, RowCreated(c) PROVE Creates
  <2>1. call[c].at = "create" /\ call'[c].key = call[c].key /\ \A d \in Callers \ {c} : call'[d] = call[d]
    BY <1>8 DEF RowCreated
  <2> QED
    BY <2>1
<1>9. ASSUME NEW c \in Callers, TaskCreated(c) PROVE Creates
  BY <1>9 DEF TaskCreated
<1>10. ASSUME NEW c \in Callers, EnqueueReturns(c) PROVE Creates
  BY <1>10 DEF EnqueueReturns
<1>11. ASSUME NEW c \in Callers, EnqueueFails(c) PROVE Creates
  BY <1>11 DEF EnqueueFails
<1>12. ASSUME NEW r \in Builds, BuildBegins(r) PROVE Creates
  BY <1>12 DEF BuildBegins, othersOfBuild
<1>13. ASSUME NEW r \in Builds, CompileFails(r) PROVE Creates
  BY <1>13 DEF CompileFails, othersOfBuild
<1>14. ASSUME NEW r \in Builds, CompileSucceeds(r) PROVE Creates
  BY <1>14 DEF CompileSucceeds, othersOfBuild
<1>15. ASSUME NEW r \in Builds, NEW f \in Images, CopyImage(r, f) PROVE Creates
  BY <1>15 DEF CopyImage, othersOfBuild
<1>16. ASSUME NEW r \in Builds, CopyEnds(r) PROVE Creates
  BY <1>16 DEF CopyEnds, othersOfBuild
<1>17. ASSUME NEW r \in Builds, RowSettled(r) PROVE Creates
  BY <1>17 DEF RowSettled, othersOfBuild
<1>18. ASSUME NEW r \in Builds, BuildEnds(r) PROVE Creates
  BY <1>18 DEF BuildEnds, othersOfBuild
<1>19. ASSUME NEW r \in Builds, CopyFails(r) PROVE Creates
  BY <1>19 DEF CopyFails, othersOfBuild
<1>20. ASSUME NEW r \in Builds, LedgerFails(r) PROVE Creates
  BY <1>20 DEF LedgerFails, othersOfBuild
<1>21. CASE Dies
  BY <1>21 DEF Dies
<1> QED
  BY <1>1, <1>2, <1>3, <1>4, <1>5, <1>6, <1>7, <1>8, <1>9, <1>10, <1>11, <1>12, <1>13, <1>14, <1>15, <1>16, <1>17, <1>18, <1>19, <1>20, <1>21, LinksLeaveLedger
     DEF OrchNext, EnqueueNext, BuildNext

CallsRegistered ==
  \A c \in Callers : call[c].at \in {"create", "created"} =>
    \A r \in Builds : Alive(r) => rows[r].key # call[c].key

LEMMA NextCallsRegistered == Types /\ Registered /\ [OrchNext]_orchVars => CallsRegistered'
<1> SUFFICES ASSUME Types, Registered, [OrchNext]_orchVars, NEW d \in Callers,
                    call'[d].at \in {"create", "created"}, NEW r \in Builds', Alive(r)'
             PROVE  rows'[r].key # call'[d].key
  BY DEF CallsRegistered
<1>0. Ledger /\ Calls /\ Disk
  BY DEF Types
<1>1. CASE \E c \in Callers : TaskCreated(c)
  <2>1. PICK c \in Callers : TaskCreated(c)
    BY <1>1
  <2>2. /\ call[c].at = "created" /\ lock' = lock /\ call'[c].at = "next"
        /\ Calls'
    BY <1>0, <2>1, NextCalls DEF TaskCreated, CallGoes, Calls
  <2>3. lock = c /\ lock' = d /\ c # d
    BY <1>0, <2>2 DEF Calls
  <2> QED
    BY <2>2, <2>3
<1>2. CASE ~\E c \in Callers : TaskCreated(c)
  <2>1. r \in Builds /\ Alive(r) /\ rows'[r].key = rows[r].key
    <3>1. CASE NoneBorn
      BY <3>1, RowsStay DEF NoneBorn
    <3>2. ASSUME NEW q \in Builds, BuildEnds(q) PROVE r \in Builds /\ Alive(r)
      <4>1. /\ phase[q] = "settled" /\ phase' = [phase EXCEPT ![q] = "done"] /\ "done" \in Phases
            /\ Builds' = Builds
        BY <3>2 DEF BuildEnds, Phase, Phases, othersOfBuild, Builds
      <4>2. phase'[q] = "done" /\ \A p \in Builds : p # q => phase'[p] = phase[p]
        BY <1>0, <4>1, PhaseWrites
      <4> QED
        BY <4>1, <4>2 DEF Alive
    <3>3. CASE Dies
      <4>1. Builds' = Builds /\ \A q \in Builds : phase'[q] = IF Alive(q) THEN "dead" ELSE phase[q]
        BY <3>3 DEF Dies, Builds
      <4> QED
        BY <4>1 DEF Alive
    <3> QED
      BY <1>2, <3>1, <3>2, <3>3, NextBorn, RowsStay DEF Turns
  <2>2. CASE call[d].at \in {"create", "created"} /\ call'[d].key = call[d].key
    BY <2>1, <2>2 DEF Registered
  <2>3. CASE call'[d].key \in Keys /\ ~BuildInFlight(call'[d].key)
    <3>1. rows[r].key = call'[d].key => inflight[call'[d].key] = r /\ r # 0
      BY <1>0, <2>1, RowsAreRows DEF Registered
    <3> QED
      BY <2>1, <2>3, <3>1 DEF BuildInFlight
  <2> QED
    BY <2>2, <2>3, NextCreates
<1> QED
  BY <1>1, <1>2

LEMMA RegisteredAlways == OrchSpec => [](Types /\ Registered)
<1>1. OrchInit => Registered
  BY OrchestratorAssumption DEF OrchInit, Registered, Builds, NoCall
<1>2. Types /\ Registered /\ [OrchNext]_orchVars => Registered'
  BY NextRegistered, NextCallsRegistered DEF Registered, RunsRegistered, CallsRegistered
<1> QED
  BY <1>1, <1>2, TypesAlways, PTL DEF OrchSpec

\* Whatever calls, cancellations and deaths there are, two builds of one key
\* never run together.
THEOREM BuildsExclusive == OrchSpec => []OneBuilder
<1>1. Types /\ Registered => OneBuilder
  BY DEF Registered, OneBuilder
<1> QED
  BY <1>1, RegisteredAlways, PTL

-----------------------------------------------------------------------------
(* Rows and their builders.                                                *)

SettledFirst == \A r \in Builds : phase[r] = "settled" => ~Unsettled(r)

HasBuilder == RowHasBuilder /\ SettledFirst

LEMMA NextHasBuilder == Types /\ HasBuilder /\ [OrchNext]_orchVars => HasBuilder'
<1> SUFFICES ASSUME Types, HasBuilder, [OrchNext]_orchVars PROVE HasBuilder'
  OBVIOUS
<1>0. Ledger /\ Calls /\ Disk /\ call \in [Callers -> CallRec]
  BY DEF Types, Calls, CallRec
<1> USE <1>0 DEF HasBuilder, RowHasBuilder, SettledFirst
<1>1. CASE UNCHANGED ledgerVars
  BY <1>1 DEF ledgerVars, Builds, Alive, Unsettled
<1>2. ASSUME NEW c \in Callers, EnqueueCalled(c) PROVE HasBuilder'
  <2>1. rows' = rows /\ phase' = phase /\ Builds' = Builds /\ orphans' = orphans
    BY <1>2 DEF EnqueueCalled, Builds
  <2>2. call[c].at # "created" /\ \A d \in Callers \ {c} : call'[d] = call[d]
    BY <1>2 DEF EnqueueCalled, CallGoes
  <2>3. \A d \in Callers : call[d].at = "created" => call'[d] = call[d]
    BY <2>2
  <2> QED
    BY <2>1, <2>3 DEF Alive, Unsettled
<1>3. ASSUME NEW c \in Callers, EnqueueLocked(c) PROVE HasBuilder'
  <2>1. rows' = rows /\ phase' = phase /\ Builds' = Builds /\ orphans' = orphans
    BY <1>3 DEF EnqueueLocked, Builds
  <2>2. call[c].at # "created" /\ \A d \in Callers \ {c} : call'[d] = call[d]
    BY <1>3 DEF EnqueueLocked, CallGoes
  <2>3. \A d \in Callers : call[d].at = "created" => call'[d] = call[d]
    BY <2>2
  <2> QED
    BY <2>1, <2>3 DEF Alive, Unsettled
<1>4. ASSUME NEW c \in Callers, NEW k \in Keys, EnqueueDecides(c, k) PROVE HasBuilder'
  <2>1. rows' = rows /\ phase' = phase /\ Builds' = Builds /\ orphans' = orphans
    BY <1>4 DEF EnqueueDecides, Builds
  <2>2. call[c].at # "created" /\ \A d \in Callers \ {c} : call'[d] = call[d]
    BY <1>4 DEF EnqueueDecides, TakesUp
  <2>3. \A d \in Callers : call[d].at = "created" => call'[d] = call[d]
    BY <2>2
  <2> QED
    BY <2>1, <2>3 DEF Alive, Unsettled
<1>5. ASSUME NEW c \in Callers, CachedRead(c) PROVE HasBuilder'
  <2>1. rows' = rows /\ phase' = phase /\ Builds' = Builds /\ orphans' = orphans
    BY <1>5 DEF CachedRead, Builds
  <2>2. call[c].at # "created" /\ \A d \in Callers \ {c} : call'[d] = call[d]
    BY <1>5 DEF CachedRead, CallGoes
  <2>3. \A d \in Callers : call[d].at = "created" => call'[d] = call[d]
    BY <2>2
  <2> QED
    BY <2>1, <2>3 DEF Alive, Unsettled
<1>6. ASSUME NEW c \in Callers, CachedAdopt(c) PROVE HasBuilder'
  <2>0. PICK new : new = Len(rows) + 1
    OBVIOUS
  <2>1. NewRow(call[c].key, "cached") /\ call[c].key \in Keys /\ "cached" \in Statuses /\ orphans' = orphans
    BY <1>6 DEF CachedAdopt, Statuses, Calls
  <2>2. /\ Builds' = Builds \cup {new} /\ phase'[new] = "none"
        /\ \A q \in Builds : phase'[q] = phase[q] /\ rows'[q] = rows[q]
        /\ rows'[new] = [key |-> call[c].key, status |-> "cached"]
    BY <2>0, <2>1, NewRowAppends
  <2>3. rows'[new].status = "cached"
    BY <2>2
  <2>4. call[c].at # "created" /\ \A d \in Callers \ {c} : call'[d] = call[d]
    BY <1>6 DEF CachedAdopt, CallGoes
  <2>6. \A q \in Builds : Unsettled(q)' => Unsettled(q) /\ (Alive(q) => Alive(q)')
    BY <2>2 DEF Unsettled, Alive
  <2>7. \A d \in Callers : call[d].at = "created" => call'[d] = call[d]
    BY <2>4
  <2>8. \A q \in Builds : Unsettled(q)' =>
          \/ Alive(q)' \/ q \in orphans'
          \/ \E d \in Callers : call'[d].at = "created" /\ call'[d].id = q
    BY <2>1, <2>6, <2>7
  <2>9. Unsettled(new)' => \E d \in Callers : call'[d].at = "created" /\ call'[d].id = new
    BY <2>3 DEF Unsettled
  <2>10. \A q \in Builds' : phase'[q] = "settled" => ~Unsettled(q)'
    BY <2>2, <2>6
  <2> QED
    BY <2>2, <2>8, <2>9, <2>10
<1>7. ASSUME NEW c \in Callers, InFlightRead(c) PROVE HasBuilder'
  <2>1. rows' = rows /\ phase' = phase /\ Builds' = Builds /\ orphans' = orphans
    BY <1>7 DEF InFlightRead, Builds
  <2>2. call[c].at # "created" /\ \A d \in Callers \ {c} : call'[d] = call[d]
    BY <1>7 DEF InFlightRead, CallGoes
  <2>3. \A d \in Callers : call[d].at = "created" => call'[d] = call[d]
    BY <2>2
  <2> QED
    BY <2>1, <2>3 DEF Alive, Unsettled
<1>8. ASSUME NEW c \in Callers, RowCreated(c) PROVE HasBuilder'
  <2>0. PICK new : new = Len(rows) + 1
    OBVIOUS
  <2>1. NewRow(call[c].key, "queued") /\ call[c].key \in Keys /\ "queued" \in Statuses /\ orphans' = orphans
    BY <1>8 DEF RowCreated, Statuses, Calls
  <2>2. /\ Builds' = Builds \cup {new} /\ phase'[new] = "none"
        /\ \A q \in Builds : phase'[q] = phase[q] /\ rows'[q] = rows[q]
        /\ rows'[new] = [key |-> call[c].key, status |-> "queued"]
    BY <2>0, <2>1, NewRowAppends
  <2>3. rows'[new].status = "queued"
    BY <2>2
  <2>4. call[c].at # "created" /\ \A d \in Callers \ {c} : call'[d] = call[d]
    BY <1>8 DEF RowCreated, CallGoes
  <2>5. call'[c].at = "created" /\ call'[c].id = new
    BY <1>8, <2>0 DEF RowCreated, CallRec
  <2>6. \A q \in Builds : Unsettled(q)' => Unsettled(q) /\ (Alive(q) => Alive(q)')
    BY <2>2 DEF Unsettled, Alive
  <2>7. \A d \in Callers : call[d].at = "created" => call'[d] = call[d]
    BY <2>4
  <2>8. \A q \in Builds : Unsettled(q)' =>
          \/ Alive(q)' \/ q \in orphans'
          \/ \E d \in Callers : call'[d].at = "created" /\ call'[d].id = q
    BY <2>1, <2>6, <2>7
  <2>9. Unsettled(new)' => \E d \in Callers : call'[d].at = "created" /\ call'[d].id = new
    BY <2>3, <2>5 DEF Unsettled
  <2>10. \A q \in Builds' : phase'[q] = "settled" => ~Unsettled(q)'
    BY <2>2, <2>6
  <2> QED
    BY <2>2, <2>8, <2>9, <2>10
<1>9. ASSUME NEW c \in Callers, TaskCreated(c) PROVE HasBuilder'
  <2>1. /\ call[c].id \in Builds /\ call[c].at = "created" /\ orphans' = orphans /\ rows' = rows
        /\ phase' = [phase EXCEPT ![call[c].id] = "new"] /\ "new" \in Phases /\ Builds' = Builds
        /\ \A d \in Callers \ {c} : call'[d] = call[d]
    BY <1>9 DEF TaskCreated, Calls, Phases, Builds, CallGoes
  <2>2. phase'[call[c].id] = "new" /\ \A q \in Builds : q # call[c].id => phase'[q] = phase[q]
    BY <2>1, PhaseWrites
  <2> QED
    BY <2>1, <2>2 DEF Alive, Unsettled
<1>10. ASSUME NEW c \in Callers, EnqueueReturns(c) PROVE HasBuilder'
  <2>1. rows' = rows /\ phase' = phase /\ Builds' = Builds /\ orphans' = orphans
    BY <1>10 DEF EnqueueReturns, Builds
  <2>2. call[c].at # "created" /\ \A d \in Callers \ {c} : call'[d] = call[d]
    BY <1>10 DEF EnqueueReturns, CallGoes
  <2>3. \A d \in Callers : call[d].at = "created" => call'[d] = call[d]
    BY <2>2
  <2> QED
    BY <2>1, <2>3 DEF Alive, Unsettled
<1>11. ASSUME NEW c \in Callers, EnqueueFails(c) PROVE HasBuilder'
  <2>1. rows' = rows /\ phase' = phase /\ Builds' = Builds
    BY <1>11 DEF EnqueueFails, Builds
  <2>2. /\ orphans \subseteq orphans' /\ (call[c].at = "created" => call[c].id \in orphans')
        /\ \A d \in Callers \ {c} : call'[d] = call[d]
    BY <1>11 DEF EnqueueFails
  <2> QED
    BY <2>1, <2>2 DEF Alive, Unsettled
<1>12. ASSUME NEW r \in Builds, BuildBegins(r) PROVE HasBuilder'
  <2> DEFINE said == "building"
  <2>1. /\ said \in Statuses /\ RowSays(r, said) /\ call' = call /\ orphans' = orphans
        /\ phase' = [phase EXCEPT ![r] = "compiling"] /\ "compiling" \in Phases
    BY <1>12 DEF BuildBegins, Phase, Statuses, Phases, othersOfBuild
  <2>2. phase'[r] = "compiling" /\ \A q \in Builds : q # r => phase'[q] = phase[q]
    BY <2>1, PhaseWrites
  <2>3. Builds' = Builds /\ rows'[r].status = said /\ \A q \in Builds : q # r => rows'[q] = rows[q]
    BY <2>1, RowSaysWrites
  <2>4. said = "building"
    OBVIOUS
  <2> HIDE DEF said
  <2> QED
    BY <2>1, <2>2, <2>3, <2>4 DEF Alive, Unsettled
<1>13. ASSUME NEW r \in Builds, CompileFails(r) PROVE HasBuilder'
  <2>1. /\ phase' = [phase EXCEPT ![r] = "broken"] /\ "broken" \in Phases /\ rows' = rows
        /\ Builds' = Builds /\ call' = call /\ orphans' = orphans
    BY <1>13 DEF CompileFails, Phase, Phases, othersOfBuild, Builds
  <2>2. phase'[r] = "broken" /\ \A q \in Builds : q # r => phase'[q] = phase[q]
    BY <2>1, PhaseWrites
  <2> QED
    BY <2>1, <2>2 DEF Alive, Unsettled
<1>14. ASSUME NEW r \in Builds, CompileSucceeds(r) PROVE HasBuilder'
  <2>1. /\ phase' = [phase EXCEPT ![r] = "copying"] /\ "copying" \in Phases /\ rows' = rows
        /\ Builds' = Builds /\ call' = call /\ orphans' = orphans
    BY <1>14 DEF CompileSucceeds, Phase, Phases, othersOfBuild, Builds
  <2>2. phase'[r] = "copying" /\ \A q \in Builds : q # r => phase'[q] = phase[q]
    BY <2>1, PhaseWrites
  <2> QED
    BY <2>1, <2>2 DEF Alive, Unsettled
<1>15. ASSUME NEW r \in Builds, NEW f \in Images, CopyImage(r, f) PROVE HasBuilder'
  BY <1>15 DEF CopyImage, othersOfBuild, Builds, Alive, Unsettled
<1>16. ASSUME NEW r \in Builds, CopyEnds(r) PROVE HasBuilder'
  <2>1. /\ phase' = [phase EXCEPT ![r] = "built"] /\ "built" \in Phases /\ rows' = rows
        /\ Builds' = Builds /\ call' = call /\ orphans' = orphans
    BY <1>16 DEF CopyEnds, Phase, Phases, othersOfBuild, Builds
  <2>2. phase'[r] = "built" /\ \A q \in Builds : q # r => phase'[q] = phase[q]
    BY <2>1, PhaseWrites
  <2> QED
    BY <2>1, <2>2 DEF Alive, Unsettled
<1>17. ASSUME NEW r \in Builds, RowSettled(r) PROVE HasBuilder'
  <2> DEFINE said == IF phase[r] = "built" THEN "success" ELSE "failed"
  <2>1. /\ said \in Statuses /\ RowSays(r, said) /\ call' = call /\ orphans' = orphans
        /\ phase' = [phase EXCEPT ![r] = "settled"] /\ "settled" \in Phases
    BY <1>17 DEF RowSettled, Phase, Statuses, Phases, othersOfBuild
  <2>2. phase'[r] = "settled" /\ \A q \in Builds : q # r => phase'[q] = phase[q]
    BY <2>1, PhaseWrites
  <2>3. Builds' = Builds /\ rows'[r].status = said /\ \A q \in Builds : q # r => rows'[q] = rows[q]
    BY <2>1, RowSaysWrites
  <2>4. said \in {"success", "failed"}
    OBVIOUS
  <2> HIDE DEF said
  <2> QED
    BY <2>1, <2>2, <2>3, <2>4 DEF Alive, Unsettled
<1>18. ASSUME NEW r \in Builds, BuildEnds(r) PROVE HasBuilder'
  <2>1. /\ phase[r] = "settled" /\ phase' = [phase EXCEPT ![r] = "done"] /\ "done" \in Phases /\ rows' = rows
        /\ Builds' = Builds /\ call' = call /\ orphans' = orphans
    BY <1>18 DEF BuildEnds, Phase, Phases, othersOfBuild, Builds
  <2>2. phase'[r] = "done" /\ \A q \in Builds : q # r => phase'[q] = phase[q]
    BY <2>1, PhaseWrites
  <2> QED
    BY <2>1, <2>2 DEF Alive, Unsettled
<1>19. ASSUME NEW r \in Builds, CopyFails(r) PROVE HasBuilder'
  <2>1. /\ phase' = [phase EXCEPT ![r] = "broken"] /\ "broken" \in Phases /\ rows' = rows
        /\ Builds' = Builds /\ call' = call /\ orphans' = orphans
    BY <1>19 DEF CopyFails, Phase, Phases, othersOfBuild, Builds
  <2>2. phase'[r] = "broken" /\ \A q \in Builds : q # r => phase'[q] = phase[q]
    BY <2>1, PhaseWrites
  <2> QED
    BY <2>1, <2>2 DEF Alive, Unsettled
<1>20. ASSUME NEW r \in Builds, LedgerFails(r) PROVE HasBuilder'
  <2>1. /\ phase' = [phase EXCEPT ![r] = "raised"] /\ "raised" \in Phases /\ rows' = rows
        /\ Builds' = Builds /\ call' = call /\ orphans' = orphans \cup {r}
    BY <1>20 DEF LedgerFails, Phase, Phases, othersOfBuild, Builds
  <2>2. phase'[r] = "raised" /\ \A q \in Builds : q # r => phase'[q] = phase[q]
    BY <2>1, PhaseWrites
  <2> QED
    BY <2>1, <2>2 DEF Alive, Unsettled
<1>21. CASE Dies
  <2>1. /\ Builds' = Builds /\ rows' = rows /\ \A q \in Builds : Unsettled(q) => q \in orphans'
        /\ \A q \in Builds : phase'[q] = IF Alive(q) THEN "dead" ELSE phase[q]
    BY <1>21 DEF Dies, Builds
  <2>2. \A q \in Builds : phase'[q] # "settled"
    BY <2>1 DEF Alive
  <2> QED
    BY <2>1, <2>2 DEF Unsettled
<1> QED
  BY <1>1, <1>2, <1>3, <1>4, <1>5, <1>6, <1>7, <1>8, <1>9, <1>10, <1>11, <1>12, <1>13, <1>14, <1>15, <1>16, <1>17, <1>18, <1>19, <1>20, <1>21, LinksLeaveLedger
     DEF OrchNext, EnqueueNext, BuildNext

\* An unsettled row has a task, or a call about to create one, or is one of the
\* rows whose task a death, a cancellation or the ledger took away.
THEOREM RowsHaveBuilders == OrchSpec => []RowHasBuilder
<1>1. OrchInit => HasBuilder
  BY DEF OrchInit, HasBuilder, RowHasBuilder, SettledFirst, Builds
<1>2. Types /\ HasBuilder /\ [OrchNext]_orchVars => HasBuilder'
  BY NextHasBuilder
<1>3. HasBuilder => RowHasBuilder
  BY DEF HasBuilder
<1> QED
  BY <1>1, <1>2, <1>3, TypesAlways, PTL DEF OrchSpec

-----------------------------------------------------------------------------
(* What is in the directories.                                             *)

\* The steps of a build other than the copying of an image.
Moves(r) ==
  \/ BuildBegins(r) \/ CompileFails(r) \/ CompileSucceeds(r) \/ CopyEnds(r)
  \/ RowSettled(r) \/ BuildEnds(r) \/ CopyFails(r) \/ LedgerFails(r)

Copied(r) == \A f \in Images : dir[rows[r].key][f] = r

LEMMA BuildMoves ==
  ASSUME Ledger, NEW r \in Builds, Moves(r)
  PROVE  /\ Builds' = Builds /\ dir' = dir /\ torn \subseteq torn'
         /\ \A q \in Builds : rows'[q].key = rows[q].key
         /\ \A q \in Builds : q # r => phase'[q] = phase[q] /\ rows'[q] = rows[q]
         /\ phase[r] # "none" /\ phase'[r] # "none" /\ Alive(r)
         /\ HalfCopied(r) => Copied(r) \/ rows[r].key \in torn'
         /\ phase'[r] = "built" => Copied(r)
         /\ rows'[r].status = "success" => rows[r].status = "success" \/ phase[r] = "built"
<1>1. CASE BuildBegins(r)
  <2> DEFINE said == "building"
  <2>1. /\ said \in Statuses /\ RowSays(r, said) /\ dir' = dir /\ torn' = torn /\ phase[r] = "new"
        /\ phase' = [phase EXCEPT ![r] = "compiling"] /\ "compiling" \in Phases
    BY <1>1 DEF BuildBegins, Phase, Statuses, Phases, othersOfBuild
  <2>2. phase'[r] = "compiling" /\ \A q \in Builds : q # r => phase'[q] = phase[q]
    BY <2>1, PhaseWrites
  <2>3. /\ Builds' = Builds /\ rows'[r].status = said
        /\ \A q \in Builds : rows'[q].key = rows[q].key
        /\ \A q \in Builds : q # r => rows'[q] = rows[q]
    BY <2>1, RowSaysWrites
  <2>4. said = "building"
    OBVIOUS
  <2> HIDE DEF said
  <2> QED
    BY <2>1, <2>2, <2>3, <2>4 DEF Alive, HalfCopied
<1>2. CASE RowSettled(r)
  <2> DEFINE said == IF phase[r] = "built" THEN "success" ELSE "failed"
  <2>1. /\ said \in Statuses /\ RowSays(r, said) /\ dir' = dir /\ torn' = torn
        /\ phase[r] \in {"built", "broken"}
        /\ phase' = [phase EXCEPT ![r] = "settled"] /\ "settled" \in Phases
    BY <1>2 DEF RowSettled, Phase, Statuses, Phases, othersOfBuild
  <2>2. phase'[r] = "settled" /\ \A q \in Builds : q # r => phase'[q] = phase[q]
    BY <2>1, PhaseWrites
  <2>3. /\ Builds' = Builds /\ rows'[r].status = said
        /\ \A q \in Builds : rows'[q].key = rows[q].key
        /\ \A q \in Builds : q # r => rows'[q] = rows[q]
    BY <2>1, RowSaysWrites
  <2>4. said = "success" => phase[r] = "built"
    OBVIOUS
  <2> HIDE DEF said
  <2> QED
    BY <2>1, <2>2, <2>3, <2>4 DEF Alive, HalfCopied
<1>3. CASE CompileFails(r) \/ CompileSucceeds(r) \/ CopyEnds(r) \/ BuildEnds(r)
             \/ CopyFails(r) \/ LedgerFails(r)
  <2>1. PICK p \in Phases : phase' = [phase EXCEPT ![r] = p] /\ p # "none"
                            /\ (p = "built" => Copied(r))
    BY <1>3 DEF CompileFails, CompileSucceeds, CopyEnds, BuildEnds, CopyFails, LedgerFails,
       Phase, Phases, Copied
  <2>2. phase'[r] = p /\ \A q \in Builds : q # r => phase'[q] = phase[q]
    BY <2>1, PhaseWrites
  <2>3. /\ rows' = rows /\ Builds' = Builds /\ dir' = dir /\ torn \subseteq torn'
        /\ Alive(r) /\ phase[r] # "none"
    BY <1>3 DEF CompileFails, CompileSucceeds, CopyEnds, BuildEnds, CopyFails, LedgerFails,
       othersOfBuild, Builds, Alive
  <2>4. HalfCopied(r) => Copied(r) \/ rows[r].key \in torn'
    BY <1>3 DEF CompileFails, CompileSucceeds, CopyEnds, BuildEnds, CopyFails, LedgerFails,
       HalfCopied, Copied
  <2> QED
    BY <2>1, <2>2, <2>3, <2>4
<1> QED
  BY <1>1, <1>2, <1>3 DEF Moves

\* What a step does to the rows, the tasks and the directories.
NewRows ==
  \E k \in Keys, s \in {"queued", "cached"} : NewRow(k, s) /\ UNCHANGED <<dir, torn>>

LEMMA StepsOfImages ==
  ASSUME Types, [OrchNext]_orchVars
  PROVE  \/ UNCHANGED <<rows, phase, dir, torn>>
         \/ NewRows
         \/ \E c \in Callers : TaskCreated(c)
         \/ \E r \in Builds, f \in Images : CopyImage(r, f)
         \/ \E r \in Builds : Moves(r)
         \/ Dies
<1>1. ASSUME NEW c \in Callers,
             \/ EnqueueCalled(c) \/ EnqueueLocked(c) \/ (\E k \in Keys : EnqueueDecides(c, k))
             \/ CachedRead(c) \/ InFlightRead(c) \/ EnqueueReturns(c) \/ EnqueueFails(c)
      PROVE  UNCHANGED <<rows, phase, dir, torn>>
  BY <1>1 DEF EnqueueCalled, EnqueueLocked, EnqueueDecides, CachedRead, InFlightRead,
     EnqueueReturns, EnqueueFails
<1>2. ASSUME NEW c \in Callers, CachedAdopt(c) \/ RowCreated(c)
      PROVE  NewRows
  <2>1. call[c].key \in Keys
    BY <1>2 DEF CachedAdopt, RowCreated, Types, Calls
  <2> QED
    BY <1>2, <2>1 DEF CachedAdopt, RowCreated, NewRows
<1>3. CASE UNCHANGED ledgerVars
  BY <1>3 DEF ledgerVars
<1> QED
  BY <1>1, <1>2, <1>3, LinksLeaveLedger DEF OrchNext, EnqueueNext, BuildNext, Moves

\* A call comes to "created" by creating its row, and stays there as it is.
LEMMA CreatedSteps ==
  Types /\ [OrchNext]_orchVars =>
    \A d \in Callers : call'[d].at = "created" =>
      \/ call[d].at = "created" /\ call'[d].id = call[d].id /\ call'[d].key = call[d].key
      \/ RowCreated(d)
<1> DEFINE Goal ==
      \A d \in Callers : call'[d].at = "created" =>
        \/ call[d].at = "created" /\ call'[d].id = call[d].id /\ call'[d].key = call[d].key
        \/ RowCreated(d)
<1> SUFFICES ASSUME Types, [OrchNext]_orchVars PROVE Goal
  OBVIOUS
<1>0. call \in [Callers -> CallRec]
  BY DEF Types, Calls, CallRec
<1>1. CASE UNCHANGED ledgerVars
  BY <1>1 DEF ledgerVars
<1>2. ASSUME NEW c \in Callers, EnqueueCalled(c) PROVE Goal
  <2>1. call'[c].at = "lock" /\ \A d \in Callers \ {c} : call'[d] = call[d]
    BY <1>0, <1>2 DEF EnqueueCalled, NoCall
  <2> QED
    BY <2>1
<1>3. ASSUME NEW c \in Callers, EnqueueLocked(c) \/ CachedRead(c) \/ CachedAdopt(c)
                                  \/ InFlightRead(c) \/ TaskCreated(c)
      PROVE  Goal
  <2>1. \E step \in Steps \ {"created"} : CallGoes(c, step)
    BY <1>3 DEF EnqueueLocked, CachedRead, CachedAdopt, InFlightRead, TaskCreated, Steps
  <2>2. call'[c].at # "created" /\ \A d \in Callers \ {c} : call'[d] = call[d]
    BY <1>0, <2>1 DEF CallGoes, CallRec
  <2> QED
    BY <2>2
<1>4. ASSUME NEW c \in Callers, NEW k \in Keys, EnqueueDecides(c, k) PROVE Goal
  <2>1. \E step \in Steps \ {"created"} : TakesUp(c, k, step)
    BY <1>4 DEF EnqueueDecides, Steps
  <2>2. call'[c].at # "created" /\ \A d \in Callers \ {c} : call'[d] = call[d]
    BY <1>0, <2>1 DEF TakesUp, CallRec
  <2> QED
    BY <2>2
<1>5. ASSUME NEW c \in Callers, RowCreated(c) PROVE Goal
  <2>1. \A d \in Callers \ {c} : call'[d] = call[d]
    BY <1>0, <1>5 DEF RowCreated
  <2> QED
    BY <1>5, <2>1
<1>6. ASSUME NEW c \in Callers, EnqueueReturns(c) \/ EnqueueFails(c) PROVE Goal
  <2>1. call'[c].at # "created" /\ \A d \in Callers \ {c} : call'[d] = call[d]
    BY <1>0, <1>6 DEF EnqueueReturns, EnqueueFails, NoCall
  <2> QED
    BY <2>1
<1>7. ASSUME NEW r \in Builds, BuildNext(r) \/ CopyFails(r) \/ LedgerFails(r) PROVE Goal
  <2>1. call' = call
    BY <1>7 DEF BuildNext, BuildBegins, CompileFails, CompileSucceeds, LinkImage, CopyImage, CopyEnds,
       RowSettled, BuildEnds, CopyFails, LedgerFails, othersOfBuild
  <2> QED
    BY <2>1
<1>8. CASE Dies
  BY <1>8 DEF Dies, NoCall
<1> QED
  BY <1>1, <1>2, <1>3, <1>4, <1>5, <1>6, <1>7, <1>8, LinksLeaveLedger DEF OrchNext, EnqueueNext

\* Of the rows of a key that ever had a task, one that runs is the newest, and a call
\* that is about to create a task will create it for a newer one.
RunsNewest ==
  \A q, r \in Builds :
    Alive(q) /\ rows[r].key = rows[q].key /\ phase[r] # "none" => r <= q

CreatesNewest ==
  \A c \in Callers : call[c].at = "created" =>
    /\ phase[call[c].id] = "none"
    /\ \A r \in Builds : rows[r].key = call[c].key /\ phase[r] # "none" => r <= call[c].id

Newest == RunsNewest /\ CreatesNewest

\* Tasks end, and begin with TaskCreated only.
LEMMA TasksBegin ==
  ASSUME Types, [OrchNext]_orchVars
  PROVE  \/ \E c \in Callers : TaskCreated(c)
         \/ /\ \A q \in Builds : (Alive(q)' => Alive(q)) /\ (phase'[q] = "none" <=> phase[q] = "none")
            /\ \A q \in Builds' \ Builds : phase'[q] = "none" /\ ~Alive(q)'
<1> DEFINE Goal == /\ \A q \in Builds : (Alive(q)' => Alive(q)) /\ (phase'[q] = "none" <=> phase[q] = "none")
                   /\ \A q \in Builds' \ Builds : phase'[q] = "none" /\ ~Alive(q)'
<1>0. Ledger
  BY DEF Types
<1>1. CASE UNCHANGED <<rows, phase, dir, torn>>
  BY <1>1 DEF Builds, Alive
<1>2. CASE NewRows
  <2>1. PICK k \in Keys, s \in Statuses : NewRow(k, s)
    BY <1>2 DEF NewRows, Statuses
  <2>2. /\ Builds' = Builds \cup {Len(rows) + 1} /\ phase'[Len(rows) + 1] = "none"
        /\ \A q \in Builds : phase'[q] = phase[q]
    BY <1>0, <2>1, NewRowAppends
  <2> QED
    BY <2>2 DEF Alive
<1>3. ASSUME NEW r \in Builds, NEW f \in Images, CopyImage(r, f) PROVE Goal
  BY <1>3 DEF CopyImage, othersOfBuild, Builds, Alive
<1>4. ASSUME NEW r \in Builds, Moves(r) PROVE Goal
  <2>1. /\ Builds' = Builds /\ phase[r] # "none" /\ phase'[r] # "none" /\ Alive(r)
        /\ \A q \in Builds : q # r => phase'[q] = phase[q]
    BY <1>0, <1>4, BuildMoves
  <2> QED
    BY <2>1 DEF Alive
<1>5. CASE Dies
  <2>1. Builds' = Builds /\ \A q \in Builds : phase'[q] = IF Alive(q) THEN "dead" ELSE phase[q]
    BY <1>5 DEF Dies, Builds
  <2> QED
    BY <2>1 DEF Alive
<1> QED
  BY <1>1, <1>2, <1>3, <1>4, <1>5, StepsOfImages

LEMMA NewestNext == Types /\ Registered /\ Newest /\ [OrchNext]_orchVars => Newest'
<1> SUFFICES ASSUME Types, Registered, Newest, [OrchNext]_orchVars PROVE Newest'
  OBVIOUS
<1>0. Ledger /\ Calls /\ call \in [Callers -> CallRec]
  BY DEF Types, Calls, CallRec
<1>a. Builds \subseteq Builds' /\ \A q \in Builds : rows'[q].key = rows[q].key
  BY RowsStay
<1>1. ASSUME NEW c \in Callers, TaskCreated(c) PROVE Newest'
  <2>1. /\ call[c].at = "created" /\ call[c].id \in Builds /\ rows[call[c].id].key = call[c].key
        /\ phase' = [phase EXCEPT ![call[c].id] = "new"] /\ "new" \in Phases /\ rows' = rows
        /\ Builds' = Builds /\ lock = c
    BY <1>0, <1>1 DEF TaskCreated, Calls, Phases, Builds
  <2>2. phase'[call[c].id] = "new" /\ \A q \in Builds : q # call[c].id => phase'[q] = phase[q]
    BY <1>0, <2>1, PhaseWrites
  <2>3. \A q \in Builds : rows[q].key = call[c].key => ~Alive(q)
    BY <2>1 DEF Registered
  <2>4. \A q \in Builds : q \in Nat
    BY <1>0, BuildsAreIds
  <2>5. RunsNewest'
    BY <2>1, <2>2, <2>3, <2>4 DEF Newest, RunsNewest, CreatesNewest, Alive
  <2>6. \A d \in Callers : call'[d].at # "created"
    <3>1. call'[c].at = "next" /\ \A d \in Callers \ {c} : call'[d] = call[d]
      BY <1>0, <1>1 DEF TaskCreated, CallGoes, CallRec
    <3>2. \A d \in Callers \ {c} : call[d].at # "created"
      BY <1>0, <2>1 DEF Calls
    <3> QED
      BY <3>1, <3>2
  <2> QED
    BY <2>5, <2>6 DEF Newest, CreatesNewest
<1>2. CASE /\ \A q \in Builds : (Alive(q)' => Alive(q)) /\ (phase'[q] = "none" <=> phase[q] = "none")
           /\ \A q \in Builds' \ Builds : phase'[q] = "none" /\ ~Alive(q)'
  <2>1. RunsNewest'
    BY <1>2, <1>a DEF Newest, RunsNewest
  <2>2. ASSUME NEW d \in Callers, call'[d].at = "created"
        PROVE  /\ phase'[call'[d].id] = "none"
               /\ \A r \in Builds' : rows'[r].key = call'[d].key /\ phase'[r] # "none" => r <= call'[d].id
    <3>1. CASE call[d].at = "created" /\ call'[d].id = call[d].id /\ call'[d].key = call[d].key
      <4>1. call[d].id \in Builds
        BY <1>0, <3>1 DEF Calls
      <4> QED
        BY <1>2, <1>a, <3>1, <4>1 DEF Newest, CreatesNewest
    <3>2. CASE RowCreated(d)
      <4>1. NewRow(call[d].key, "queued") /\ call[d].key \in Keys /\ "queued" \in Statuses
        BY <1>0, <3>2 DEF RowCreated, Calls, Statuses
      <4>2. call'[d].id = Len(rows) + 1
        BY <1>0, <3>2 DEF RowCreated, CallRec
      <4>3. /\ Builds' = Builds \cup {Len(rows) + 1} /\ phase'[Len(rows) + 1] = "none"
            /\ Builds = 1..Len(rows) /\ Len(rows) \in Nat
        BY <1>0, <4>1, NewRowAppends, BuildsAreIds
      <4> QED
        BY <4>2, <4>3
    <3> QED
      BY <2>2, <3>1, <3>2, CreatedSteps
  <2> QED
    BY <2>1, <2>2 DEF Newest, CreatesNewest
<1> QED
  BY <1>1, <1>2, TasksBegin

\* A directory is empty or from one build, unless a build of its key copies into it
\* or was cut short at it.
Whole(k) == \E r \in {0} \cup Builds : \A f \in Images : dir[k][f] = r

DirsAccounted ==
  \A k \in Keys : \/ k \in torn \/ Whole(k)
                  \/ \E r \in Builds : rows[r].key = k /\ HalfCopied(r)

LEMMA DirsNext == Types /\ Newest /\ DirsAccounted /\ [OrchNext]_orchVars => DirsAccounted'
<1> SUFFICES ASSUME Types, Newest, DirsAccounted, [OrchNext]_orchVars, NEW k \in Keys
             PROVE  \/ k \in torn' \/ Whole(k)'
                    \/ \E r \in Builds' : rows'[r].key = k /\ HalfCopied(r)'
  BY DEF DirsAccounted
<1>0. Ledger /\ Disk
  BY DEF Types
<1>a. Builds \subseteq Builds' /\ \A q \in Builds : rows'[q].key = rows[q].key
  BY RowsStay
<1>b. dir' = dir /\ Whole(k) => Whole(k)'
  BY <1>a DEF Whole
<1>c. \A q \in Builds : dir' = dir /\ phase'[q] = phase[q] /\ HalfCopied(q) => HalfCopied(q)'
  BY <1>a DEF HalfCopied
<1>d. \/ k \in torn \/ Whole(k)
      \/ \E r \in Builds : rows[r].key = k /\ HalfCopied(r)
  BY DEF DirsAccounted
<1> DEFINE Goal == \/ k \in torn' \/ Whole(k)'
                   \/ \E r \in Builds' : rows'[r].key = k /\ HalfCopied(r)'
<1>1. CASE UNCHANGED <<rows, phase, dir, torn>>
  BY <1>1, <1>a, <1>b, <1>c, <1>d
<1>2. CASE NewRows
  <2>1. dir' = dir /\ torn' = torn
    BY <1>2 DEF NewRows
  <2>2. \A q \in Builds : phase'[q] = phase[q]
    <3>1. PICK j \in Keys, s \in {"queued", "cached"} : NewRow(j, s)
      BY <1>2 DEF NewRows
    <3>2. s \in Statuses
      BY DEF Statuses
    <3> QED
      BY <1>0, <3>1, <3>2, NewRowAppends
  <2> QED
    BY <1>a, <1>b, <1>c, <1>d, <2>1, <2>2
<1>3. ASSUME NEW c \in Callers, TaskCreated(c) PROVE Goal
  <2>1. /\ dir' = dir /\ torn' = torn /\ call[c].id \in Builds
        /\ phase' = [phase EXCEPT ![call[c].id] = "new"] /\ "new" \in Phases
    BY <1>3 DEF TaskCreated, Types, Calls, Phases
  <2>2. \A q \in Builds : q # call[c].id => phase'[q] = phase[q]
    BY <1>0, <2>1, PhaseWrites
  <2>3. phase[call[c].id] = "none"
    BY <1>3 DEF TaskCreated, Newest, CreatesNewest
  <2>4. \A q \in Builds : HalfCopied(q) => q # call[c].id
    BY <2>3 DEF HalfCopied
  <2> QED
    BY <1>a, <1>b, <1>c, <1>d, <2>1, <2>2, <2>4
<1>4. ASSUME NEW r \in Builds, NEW f \in Images, CopyImage(r, f) PROVE Goal
  <2>1. /\ phase[r] = "copying" /\ torn' = torn /\ rows' = rows /\ phase' = phase
        /\ dir' = [dir EXCEPT ![rows[r].key][f] = r] /\ rows[r].key \in Keys
    BY <1>0, <1>4, RowsAreRows DEF CopyImage, othersOfBuild
  <2>2. CASE rows[r].key = k
    <3>1. dir'[k][f] = r
      BY <1>0, <2>1, <2>2 DEF Disk
    <3> QED
      BY <1>a, <2>1, <2>2, <3>1 DEF HalfCopied
  <2>3. CASE rows[r].key # k
    <3>1. dir'[k] = dir[k]
      BY <1>0, <2>1, <2>3 DEF Disk
    <3>2. Whole(k) => Whole(k)'
      BY <1>a, <3>1 DEF Whole
    <3>3. \A q \in Builds : rows[q].key = k /\ HalfCopied(q) => HalfCopied(q)'
      BY <2>1, <3>1 DEF HalfCopied
    <3> QED
      BY <1>a, <1>d, <2>1, <3>2, <3>3
  <2> QED
    BY <2>2, <2>3
<1>5. ASSUME NEW r \in Builds, Moves(r) PROVE Goal
  <2>1. /\ dir' = dir /\ torn \subseteq torn'
        /\ \A q \in Builds : q # r => phase'[q] = phase[q]
        /\ HalfCopied(r) => Copied(r) \/ rows[r].key \in torn'
    BY <1>0, <1>5, BuildMoves
  <2>2. Copied(r) /\ rows[r].key = k => Whole(k)
    BY DEF Copied, Whole
  <2> QED
    BY <1>a, <1>b, <1>c, <1>d, <2>1, <2>2
<1>6. CASE Dies
  <2>1. /\ dir' = dir /\ torn \subseteq torn'
        /\ \A q \in Builds : HalfCopied(q) => rows[q].key \in torn'
    BY <1>6 DEF Dies
  <2> QED
    BY <1>b, <1>d, <2>1
<1> QED
  BY <1>1, <1>2, <1>3, <1>4, <1>5, <1>6, StepsOfImages

\* What was copied stays until a later build of the key copies over it.
CopiedStays ==
  \A r \in Builds : phase[r] = "built" \/ rows[r].status = "success" =>
    phase[r] # "none" /\ \A f \in Images : dir[rows[r].key][f] >= r

LEMMA CopiedNext == Types /\ Newest /\ CopiedStays /\ [OrchNext]_orchVars => CopiedStays'
<1> SUFFICES ASSUME Types, Newest, CopiedStays, [OrchNext]_orchVars, NEW r \in Builds',
                    phase'[r] = "built" \/ rows'[r].status = "success"
             PROVE  phase'[r] # "none" /\ \A f \in Images : dir'[rows'[r].key][f] >= r
  BY DEF CopiedStays
<1>0. Ledger /\ Disk /\ \A q \in Builds : q \in Nat /\ rows[q].key \in Keys
  BY BuildsAreIds, RowsAreRows DEF Types
<1>a. \A q \in Builds : rows'[q].key = rows[q].key
  BY RowsStay
<1>b. r \in Builds /\ (phase[r] = "built" \/ rows[r].status = "success") =>
        phase[r] # "none" /\ \A f \in Images : dir[rows[r].key][f] >= r
  BY DEF CopiedStays
<1> DEFINE Goal == phase'[r] # "none" /\ \A f \in Images : dir'[rows'[r].key][f] >= r
<1>1. CASE UNCHANGED <<rows, phase, dir, torn>>
  BY <1>1, <1>b DEF Builds
<1>2. CASE NewRows
  <2>1. PICK k \in Keys, s \in {"queued", "cached"} : NewRow(k, s) /\ UNCHANGED <<dir, torn>>
    BY <1>2 DEF NewRows
  <2>2. s \in Statuses /\ s # "success"
    BY DEF Statuses
  <2>3. PICK new : new = Len(rows) + 1
    OBVIOUS
  <2>4. /\ Builds' = Builds \cup {new} /\ phase'[new] = "none"
        /\ rows'[new] = [key |-> k, status |-> s]
        /\ \A q \in Builds : phase'[q] = phase[q] /\ rows'[q] = rows[q]
    BY <1>0, <2>1, <2>2, <2>3, NewRowAppends
  <2>5. rows'[new].status = s
    BY <2>4
  <2>6. r # new /\ r \in Builds
    BY <2>2, <2>4, <2>5
  <2> QED
    BY <1>b, <2>1, <2>4, <2>6
<1>3. ASSUME NEW c \in Callers, TaskCreated(c) PROVE Goal
  <2>1. /\ dir' = dir /\ rows' = rows /\ Builds' = Builds /\ call[c].id \in Builds
        /\ phase' = [phase EXCEPT ![call[c].id] = "new"] /\ "new" \in Phases
    BY <1>3 DEF TaskCreated, Types, Calls, Phases, Builds
  <2>2. phase'[call[c].id] = "new" /\ \A q \in Builds : q # call[c].id => phase'[q] = phase[q]
    BY <1>0, <2>1, PhaseWrites
  <2> QED
    BY <1>b, <2>1, <2>2
<1>4. ASSUME NEW q \in Builds, NEW g \in Images, CopyImage(q, g) PROVE Goal
  <2>1. /\ phase[q] = "copying" /\ rows' = rows /\ phase' = phase /\ Builds' = Builds
        /\ dir' = [dir EXCEPT ![rows[q].key][g] = q]
    BY <1>4 DEF CopyImage, othersOfBuild, Builds
  <2>2. phase[r] # "none" /\ \A f \in Images : dir[rows[r].key][f] >= r
    BY <1>b, <2>1
  <2>3. rows[r].key = rows[q].key => q >= r
    <3>1. Alive(q)
      BY <2>1 DEF Alive
    <3> QED
      BY <1>0, <2>1, <2>2, <3>1 DEF Newest, RunsNewest
  <2>4. \A f \in Images : dir'[rows[r].key][f] \in {dir[rows[r].key][f], q}
    BY <1>0, <2>1 DEF Disk
  <2>5. \A f \in Images : dir'[rows[r].key][f] # dir[rows[r].key][f] => rows[r].key = rows[q].key
    BY <1>0, <2>1 DEF Disk
  <2>6. \A f \in Images : dir'[rows[r].key][f] >= r
    BY <2>2, <2>3, <2>4, <2>5
  <2> QED
    BY <2>1, <2>2, <2>6
<1>5. ASSUME NEW q \in Builds, Moves(q) PROVE Goal
  <2>1. /\ Builds' = Builds /\ dir' = dir /\ phase[q] # "none" /\ phase'[q] # "none"
        /\ \A p \in Builds : p # q => phase'[p] = phase[p] /\ rows'[p] = rows[p]
        /\ phase'[q] = "built" => Copied(q)
        /\ rows'[q].status = "success" => rows[q].status = "success" \/ phase[q] = "built"
    BY <1>0, <1>5, BuildMoves
  <2>2. CASE r # q
    BY <1>b, <2>1, <2>2
  <2>3. CASE r = q
    <3>1. CASE phase'[q] = "built"
      BY <1>0, <1>a, <2>1, <2>3, <3>1 DEF Copied
    <3>2. CASE rows'[q].status = "success"
      BY <1>a, <1>b, <2>1, <2>3, <3>2
    <3> QED
      BY <2>3, <3>1, <3>2
  <2> QED
    BY <2>2, <2>3
<1>6. CASE Dies
  <2>1. /\ Builds' = Builds /\ dir' = dir /\ rows' = rows
        /\ \A q \in Builds : phase'[q] = IF Alive(q) THEN "dead" ELSE phase[q]
    BY <1>6 DEF Dies, Builds
  <2>2. phase'[r] # "built"
    BY <2>1 DEF Alive
  <2> QED
    BY <1>b, <2>1, <2>2
<1> QED
  BY <1>1, <1>2, <1>3, <1>4, <1>5, <1>6, StepsOfImages

\* A build whose images nobody made over has made those it linked or copies from, and
\* those under its key that it copied.
OwnImages ==
  /\ \A p \in linked : phase[p[1]] = "compiling"
  /\ \A r \in Builds \ spoiled, f \in Images :
       phase[r] = "copying" \/ <<r, f>> \in linked => made[Env(rows[r].key)][f] = r
  /\ \A k \in Keys, r \in Builds \ spoiled, f \in Images : dir[k][f] = r => image[k][f] = r

\* Most steps leave pio's directories alone, and who compiles and copies.
OffPio ==
  /\ UNCHANGED <<dir, pioVars>>
  /\ \A q \in Builds : /\ phase'[q] = "copying" => phase[q] = "copying"
                       /\ phase[q] = "compiling" => phase'[q] = "compiling"
  /\ \A q \in Builds' \ Builds : phase'[q] = "none"

LEMMA StepsOfPio ==
  ASSUME Types, Newest, [OrchNext]_orchVars
  PROVE  \/ OffPio
         \/ \E r \in Builds, f \in Images : LinkImage(r, f) \/ CopyImage(r, f)
         \/ \E e \in Envs, f \in Images : OthersLink(e, f)
         \/ \E r \in Builds : CompileFails(r) \/ CompileSucceeds(r)
         \/ Dies
<1>0. Ledger /\ Calls
  BY DEF Types
<1>1. ASSUME NEW c \in Callers,
             \/ EnqueueCalled(c) \/ EnqueueLocked(c) \/ (\E k \in Keys : EnqueueDecides(c, k))
             \/ CachedRead(c) \/ InFlightRead(c) \/ EnqueueReturns(c) \/ EnqueueFails(c)
      PROVE  OffPio
  <2>1. UNCHANGED <<rows, phase, dir, pioVars>>
    BY <1>1 DEF EnqueueCalled, EnqueueLocked, EnqueueDecides, CachedRead, InFlightRead,
       EnqueueReturns, EnqueueFails
  <2> QED
    BY <2>1 DEF OffPio, Builds
<1>2. ASSUME NEW c \in Callers, CachedAdopt(c) \/ RowCreated(c) PROVE OffPio
  <2>1. call[c].key \in Keys /\ UNCHANGED <<dir, pioVars>>
    BY <1>0, <1>2 DEF CachedAdopt, RowCreated, Calls
  <2>2. PICK s \in Statuses : NewRow(call[c].key, s)
    BY <1>2 DEF CachedAdopt, RowCreated, Statuses
  <2>3. /\ Builds' = Builds \cup {Len(rows) + 1} /\ phase'[Len(rows) + 1] = "none"
        /\ \A q \in Builds : phase'[q] = phase[q]
    BY <1>0, <2>1, <2>2, NewRowAppends
  <2> QED
    BY <2>1, <2>3 DEF OffPio
<1>3. ASSUME NEW c \in Callers, TaskCreated(c) PROVE OffPio
  <2>1. /\ call[c].id \in Builds /\ phase[call[c].id] = "none" /\ UNCHANGED <<rows, dir, pioVars>>
        /\ phase' = [phase EXCEPT ![call[c].id] = "new"] /\ "new" \in Phases
    BY <1>0, <1>3 DEF TaskCreated, Calls, Newest, CreatesNewest, Phases
  <2>2. phase'[call[c].id] = "new" /\ \A q \in Builds : q # call[c].id => phase'[q] = phase[q]
    BY <1>0, <2>1, PhaseWrites
  <2> QED
    BY <2>1, <2>2 DEF OffPio, Builds
<1>4. ASSUME NEW r \in Builds, BuildBegins(r) \/ CopyEnds(r) \/ RowSettled(r) \/ BuildEnds(r)
                                \/ CopyFails(r) \/ LedgerFails(r)
      PROVE  OffPio
  <2>1. Moves(r)
    BY <1>4 DEF Moves
  <2>2. Builds' = Builds /\ \A q \in Builds : q # r => phase'[q] = phase[q]
    BY <1>0, <2>1, BuildMoves
  <2>3. PICK p \in Phases : phase' = [phase EXCEPT ![r] = p] /\ p # "copying"
    BY <1>4 DEF BuildBegins, CopyEnds, RowSettled, BuildEnds, CopyFails, LedgerFails, Phase, Phases
  <2>4. phase'[r] = p
    BY <1>0, <2>3, PhaseWrites
  <2>5. UNCHANGED <<dir, pioVars>> /\ phase[r] # "compiling"
    BY <1>4 DEF BuildBegins, CopyEnds, RowSettled, BuildEnds, CopyFails, LedgerFails
  <2> QED
    BY <2>2, <2>3, <2>4, <2>5 DEF OffPio
<1>5. CASE UNCHANGED orchVars
  BY <1>5 DEF orchVars, pioVars, OffPio, Builds
<1> QED
  BY <1>1, <1>2, <1>3, <1>4, <1>5 DEF OrchNext, EnqueueNext, BuildNext

\* Whoever makes an image over spoils the build that needs it.
LEMMA MadeOverOwns ==
  ASSUME Types, OwnImages, NEW e \in Envs, NEW g \in Images, NEW m \in {0} \cup Builds,
         MadeOver(e, g, m), NEW r \in Builds, r # m, r \notin spoiled', NEW f \in Images,
         phase[r] = "copying" \/ <<r, f>> \in linked
  PROVE  made'[Env(rows[r].key)][f] = r
<1>0. Ledger /\ PioTypes
  BY DEF Types
<1>1. r \notin spoiled /\ ~(r = made[e][g] /\ phase[r] \in {"compiling", "copying"})
  BY DEF MadeOver, Needs
<1>2. phase[r] \in {"compiling", "copying"} /\ made[Env(rows[r].key)][f] = r
  BY <1>1 DEF OwnImages
<1>3. Env(rows[r].key) \in Envs
  BY <1>0, RowsAreRows DEF Envs
<1>4. made' = [made EXCEPT ![e][g] = m]
  BY DEF MadeOver
<1>5. ~(Env(rows[r].key) = e /\ f = g)
  BY <1>1, <1>2
<1> QED
  BY <1>0, <1>2, <1>3, <1>4, <1>5 DEF PioTypes

LEMMA OwnNext == Types /\ Newest /\ OwnImages /\ [OrchNext]_orchVars => OwnImages'
<1> SUFFICES ASSUME Types, Newest, OwnImages, [OrchNext]_orchVars PROVE OwnImages'
  OBVIOUS
<1>0. Ledger /\ Disk /\ PioTypes
  BY DEF Types
<1>a. \A q \in Builds : rows'[q].key = rows[q].key /\ rows[q].key \in Keys /\ Env(rows[q].key) \in Envs
  BY <1>0, RowsStay, RowsAreRows DEF Envs
<1>b. \A p \in linked : p[1] \in Builds /\ p[2] \in Images /\ p = <<p[1], p[2]>>
  BY <1>0 DEF PioTypes
<1>c. \A k \in Keys, f \in Images : dir[k][f] \in {0} \cup Builds
  BY <1>0 DEF Disk
<1>1. CASE OffPio
  <2>1. UNCHANGED <<dir, image, made, linked, spoiled>>
    BY <1>1 DEF OffPio, pioVars
  <2>2. \A p \in linked' : phase'[p[1]] = "compiling"
    BY <1>1, <1>b, <2>1 DEF OffPio, OwnImages
  <2>3. ASSUME NEW r \in Builds' \ spoiled', NEW f \in Images,
               phase'[r] = "copying" \/ <<r, f>> \in linked'
        PROVE  made'[Env(rows'[r].key)][f] = r
    <3>1. r \in Builds
      BY <1>1, <1>0, <2>1, <2>3 DEF OffPio, PioTypes
    <3>2. phase[r] = "copying" \/ <<r, f>> \in linked
      BY <1>1, <2>1, <2>3, <3>1 DEF OffPio
    <3> QED
      BY <1>a, <2>1, <2>3, <3>1, <3>2 DEF OwnImages
  <2>4. \A k \in Keys, r \in Builds' \ spoiled', f \in Images : dir'[k][f] = r => image'[k][f] = r
    <3>1. \A r \in Builds' : r # 0
      <4>1. Ledger'
        BY NextLedger
      <4>2. Builds' = 1..Len(rows')
        BY <4>1 DEF Ledger, Builds
      <4> QED
        BY <4>2
    <3> QED
      BY <1>c, <2>1, <3>1 DEF OwnImages
  <2> QED
    BY <2>2, <2>3, <2>4 DEF OwnImages
<1>2. ASSUME NEW r \in Builds, NEW f \in Images, LinkImage(r, f) PROVE OwnImages'
  <2>1. /\ phase[r] = "compiling" /\ MadeOver(Env(rows[r].key), f, r) /\ linked' = linked \cup {<<r, f>>}
        /\ UNCHANGED <<rows, phase, dir, image>> /\ Builds' = Builds
    BY <1>2 DEF LinkImage, Builds
  <2>2. spoiled \subseteq spoiled'
    BY <2>1 DEF MadeOver
  <2>3. \A p \in linked' : phase'[p[1]] = "compiling"
    BY <2>1 DEF OwnImages
  <2>4. ASSUME NEW q \in Builds' \ spoiled', NEW g \in Images,
               phase'[q] = "copying" \/ <<q, g>> \in linked'
        PROVE  made'[Env(rows'[q].key)][g] = q
    <3>1. CASE q # r
      <4>1. q \in Builds /\ q \notin spoiled' /\ (phase[q] = "copying" \/ <<q, g>> \in linked)
        BY <2>1, <2>4, <3>1
      <4> QED
        BY <1>a, <2>1, <3>1, <4>1, MadeOverOwns
    <3>2. CASE q = r
      <4>1. made' = [made EXCEPT ![Env(rows[r].key)][f] = r] /\ r \notin spoiled
        BY <2>1, <2>2, <2>4, <3>2 DEF MadeOver
      <4>2. g # f => <<r, g>> \in linked
        BY <2>1, <2>4, <3>2
      <4>3. g # f => made[Env(rows[r].key)][g] = r
        BY <4>1, <4>2 DEF OwnImages
      <4> QED
        BY <1>0, <1>a, <2>1, <3>2, <4>1, <4>3 DEF PioTypes
    <3> QED
      BY <3>1, <3>2
  <2>5. \A k \in Keys, q \in Builds' \ spoiled', g \in Images : dir'[k][g] = q => image'[k][g] = q
    BY <2>1, <2>2 DEF OwnImages
  <2> QED
    BY <2>3, <2>4, <2>5 DEF OwnImages
<1>3. ASSUME NEW e \in Envs, NEW f \in Images, OthersLink(e, f) PROVE OwnImages'
  <2>1. /\ MadeOver(e, f, 0) /\ UNCHANGED <<rows, phase, dir, image, linked>> /\ Builds' = Builds
    BY <1>3 DEF OthersLink, Builds
  <2>2. spoiled \subseteq spoiled' /\ \A q \in Builds : q # 0
    BY <1>0, <2>1, RowsAreRows DEF MadeOver
  <2>3. ASSUME NEW q \in Builds' \ spoiled', NEW g \in Images,
               phase'[q] = "copying" \/ <<q, g>> \in linked'
        PROVE  made'[Env(rows'[q].key)][g] = q
    <3>1. q \in Builds /\ q \notin spoiled' /\ (phase[q] = "copying" \/ <<q, g>> \in linked) /\ q # 0
      BY <2>1, <2>2, <2>3
    <3> QED
      BY <1>a, <2>1, <3>1, MadeOverOwns
  <2>4. \A k \in Keys, q \in Builds' \ spoiled', g \in Images : dir'[k][g] = q => image'[k][g] = q
    BY <2>1, <2>2 DEF OwnImages
  <2>5. \A p \in linked' : phase'[p[1]] = "compiling"
    BY <2>1 DEF OwnImages
  <2> QED
    BY <2>3, <2>4, <2>5 DEF OwnImages
<1>4. ASSUME NEW r \in Builds, NEW f \in Images, CopyImage(r, f) PROVE OwnImages'
  <2>1. /\ phase[r] = "copying" /\ UNCHANGED <<rows, phase, made, linked, spoiled>> /\ Builds' = Builds
        /\ dir' = [dir EXCEPT ![rows[r].key][f] = r]
        /\ image' = [image EXCEPT ![rows[r].key][f] = made[Env(rows[r].key)][f]]
    BY <1>4 DEF CopyImage, othersOfBuild, Builds
  <2>2. ASSUME NEW k \in Keys, NEW q \in Builds' \ spoiled', NEW g \in Images, dir'[k][g] = q
        PROVE  image'[k][g] = q
    <3>1. CASE k = rows[r].key /\ g = f
      <4>1. q = r
        BY <1>0, <2>1, <2>2, <3>1 DEF Disk
      <4>2. made[Env(rows[r].key)][f] = r
        BY <2>1, <4>1 DEF OwnImages
      <4> QED
        BY <1>0, <2>1, <3>1, <4>1, <4>2 DEF PioTypes
    <3>2. CASE ~(k = rows[r].key /\ g = f)
      <4>1. dir[k][g] = q /\ image'[k][g] = image[k][g]
        BY <1>0, <2>1, <2>2, <3>2 DEF Disk, PioTypes
      <4> QED
        BY <2>1, <4>1 DEF OwnImages
    <3> QED
      BY <3>1, <3>2
  <2>3. \A p \in linked' : phase'[p[1]] = "compiling"
    BY <2>1 DEF OwnImages
  <2>4. \A q \in Builds' \ spoiled', g \in Images :
          phase'[q] = "copying" \/ <<q, g>> \in linked' => made'[Env(rows'[q].key)][g] = q
    BY <2>1 DEF OwnImages
  <2> QED
    BY <2>2, <2>3, <2>4 DEF OwnImages
<1>5. ASSUME NEW r \in Builds, CompileFails(r) \/ CompileSucceeds(r) PROVE OwnImages'
  <2>1. /\ linked' = linked \ ({r} \X Images) /\ UNCHANGED <<rows, dir, image, made, spoiled>>
        /\ phase[r] = "compiling" /\ Builds' = Builds
    BY <1>5 DEF CompileFails, CompileSucceeds, othersOfBuild, Builds
  <2>2. PICK p \in {"broken", "copying"} : phase' = [phase EXCEPT ![r] = p]
                 /\ (p = "copying" => \A f \in Images : <<r, f>> \in linked)
    BY <1>5 DEF CompileFails, CompileSucceeds, Phase
  <2>3. p \in Phases
    BY DEF Phases
  <2>4. phase'[r] = p /\ \A q \in Builds : q # r => phase'[q] = phase[q]
    BY <1>0, <2>2, <2>3, PhaseWrites
  <2>5. \A q \in linked' : q \in linked /\ q[1] # r
    BY <1>b, <2>1
  <2>6. \A q \in linked' : phase'[q[1]] = "compiling"
    BY <1>b, <2>4, <2>5 DEF OwnImages
  <2>7. \A q \in Builds' \ spoiled', g \in Images :
          phase'[q] = "copying" \/ <<q, g>> \in linked' => made'[Env(rows'[q].key)][g] = q
    BY <2>1, <2>2, <2>4 DEF OwnImages
  <2>8. \A k \in Keys, q \in Builds' \ spoiled', g \in Images : dir'[k][g] = q => image'[k][g] = q
    BY <2>1 DEF OwnImages
  <2> QED
    BY <2>6, <2>7, <2>8 DEF OwnImages
<1>6. CASE Dies
  <2>1. /\ Builds' = Builds /\ linked' = {} /\ UNCHANGED <<rows, dir, image, made, spoiled>>
        /\ \A q \in Builds : phase'[q] = IF Alive(q) THEN "dead" ELSE phase[q]
    BY <1>6 DEF Dies, Builds
  <2>2. \A q \in Builds : phase'[q] # "copying"
    BY <2>1 DEF Alive
  <2> QED
    BY <2>1, <2>2 DEF OwnImages
<1> QED
  BY <1>1, <1>2, <1>3, <1>4, <1>5, <1>6, StepsOfPio

ImagesInv == Newest /\ DirsAccounted /\ CopiedStays /\ OwnImages

LEMMA ImagesInvAlways == OrchSpec => [](Types /\ Registered /\ ImagesInv)
<1>1. OrchInit => ImagesInv
  <2> SUFFICES ASSUME OrchInit PROVE ImagesInv
    OBVIOUS
  <2>1. Builds = {} /\ (\A c \in Callers : call[c].at = "idle")
        /\ \A k \in Keys, f \in Images : dir[k][f] = 0
    BY DEF OrchInit, Builds, NoCall
  <2>2. OwnImages
    BY <2>1 DEF OrchInit, OwnImages
  <2> QED
    BY <2>1, <2>2 DEF ImagesInv, Newest, RunsNewest, CreatesNewest, DirsAccounted, Whole, CopiedStays
<1>2. Types /\ Registered /\ ImagesInv /\ [OrchNext]_orchVars => ImagesInv'
  BY NewestNext, DirsNext, CopiedNext, OwnNext DEF ImagesInv
<1> QED
  BY <1>1, <1>2, RegisteredAlways, PTL DEF OrchSpec

\* What is served as a build is one, whatever is cancelled, fails or dies: images that
\* lie under a key no build of which was cut short at copying, and none of which
\* copies, were all copied by one build, and made by its own pio unless another pio,
\* of this server or not, made one over between its making and its copying; and a row
\* that says success has every image of its build or of a later one
\* (cached_artifact_dir, default_build_fn and _run_build).
THEOREM ImagesAreWholeAlways == OrchSpec => []ImagesAreWhole
<1>1. Types /\ ImagesInv => ImagesAreWhole
  <2> SUFFICES ASSUME Types, ImagesInv PROVE CachedIsWhole /\ SuccessIsWhole
    BY DEF ImagesAreWhole
  <2>1. ASSUME NEW k \in Keys, HasImage(k), k \notin torn,
               \A r \in Builds : rows[r].key = k => ~HalfCopied(r)
        PROVE  \E r \in Builds : \A f \in Images :
                 dir[k][f] = r /\ (r \notin spoiled => image[k][f] = r)
    <3>1. PICK r \in {0} \cup Builds : \A f \in Images : dir[k][f] = r
      BY <2>1 DEF ImagesInv, DirsAccounted, Whole
    <3>2. r \in Builds
      BY <2>1, <3>1 DEF HasImage
    <3> QED
      BY <2>1, <3>1, <3>2 DEF ImagesInv, OwnImages
  <2> QED
    BY <2>1 DEF CachedIsWhole, SuccessIsWhole, ImagesInv, CopiedStays
<1> QED
  BY <1>1, ImagesInvAlways, PTL

-----------------------------------------------------------------------------
(* Builds in flight.                                                       *)

\* An entry of the table is a build of its key.
EntriesMatch == \A k \in Keys : inflight[k] # 0 => rows[inflight[k]].key = k

LEMMA EntriesNext == Types /\ EntriesMatch /\ [OrchNext]_orchVars => EntriesMatch'
<1> SUFFICES ASSUME Types, EntriesMatch, [OrchNext]_orchVars PROVE EntriesMatch'
  OBVIOUS
<1>0. Ledger /\ Calls /\ inflight \in [Keys -> {0} \cup Builds]
  BY DEF Types, Disk
<1>a. Builds \subseteq Builds' /\ \A q \in Builds : rows'[q].key = rows[q].key
  BY RowsStay
<1>1. CASE NoneBorn
  BY <1>0, <1>1, <1>a DEF NoneBorn, EntriesMatch
<1>2. ASSUME NEW c \in Callers, TaskCreated(c) PROVE EntriesMatch'
  <2>1. /\ inflight' = [inflight EXCEPT ![call[c].key] = call[c].id]
        /\ call[c].id \in Builds /\ rows[call[c].id].key = call[c].key
    BY <1>0, <1>2 DEF TaskCreated, Register, Calls
  <2> QED
    BY <1>0, <1>a, <2>1 DEF EntriesMatch
<1>3. ASSUME NEW r \in Builds, BuildEnds(r) PROVE EntriesMatch'
  <2>1. inflight' = [inflight EXCEPT ![rows[r].key] = 0]
    BY <1>3 DEF BuildEnds, Register
  <2> QED
    BY <1>0, <1>a, <2>1 DEF EntriesMatch
<1>4. CASE Dies
  BY <1>4 DEF Dies, EntriesMatch
<1> QED
  BY <1>1, <1>2, <1>3, <1>4, NextBorn DEF Turns

\* A call comes to "inflight" from its decision, and only there.
LEMMA Defers ==
  ASSUME Types, EntriesMatch, [OrchNext]_orchVars, NEW d \in Callers,
         call[d].at # "inflight", call'[d].at = "inflight"
  PROVE  \E r \in Builds : rows[r].key = call'[d].key /\ Alive(r)
<1>0. call \in [Callers -> CallRec] /\ inflight \in [Keys -> {0} \cup Builds]
  BY DEF Types, Calls, CallRec, Disk
<1> DEFINE Same(c) == call'[c].at # "inflight" /\ \A e \in Callers \ {c} : call'[e] = call[e]
<1>1. CASE UNCHANGED ledgerVars
  BY <1>1 DEF ledgerVars
<1>2. ASSUME NEW c \in Callers, EnqueueCalled(c) PROVE Same(c)
  BY <1>0, <1>2 DEF EnqueueCalled, NoCall
<1>3. ASSUME NEW c \in Callers, EnqueueLocked(c) \/ CachedRead(c) \/ CachedAdopt(c)
                                  \/ InFlightRead(c) \/ TaskCreated(c)
      PROVE  Same(c)
  <2>1. \E step \in Steps \ {"inflight"} : CallGoes(c, step)
    BY <1>3 DEF EnqueueLocked, CachedRead, CachedAdopt, InFlightRead, TaskCreated, Steps
  <2> QED
    BY <1>0, <2>1 DEF CallGoes, CallRec
<1>4. ASSUME NEW c \in Callers, RowCreated(c) \/ EnqueueReturns(c) \/ EnqueueFails(c)
      PROVE  Same(c)
  BY <1>0, <1>4 DEF RowCreated, EnqueueReturns, EnqueueFails, NoCall, CallRec
<1>5. ASSUME NEW c \in Callers, NEW k \in Keys, EnqueueDecides(c, k)
      PROVE  \E r \in Builds : rows[r].key = call'[d].key /\ Alive(r)
  <2>1. PICK step \in {"cached", "inflight", "create"} :
          TakesUp(c, k, step) /\ (step = "inflight" => BuildInFlight(k))
    BY <1>5 DEF EnqueueDecides
  <2>2. call'[c].at = step /\ call'[c].key = k /\ \A e \in Callers \ {c} : call'[e] = call[e]
    BY <1>0, <2>1 DEF TakesUp, CallRec
  <2>3. d = c /\ BuildInFlight(k)
    BY <2>1, <2>2
  <2> QED
    BY <1>0, <2>2, <2>3 DEF BuildInFlight, EntriesMatch
<1>6. ASSUME NEW r \in Builds, BuildNext(r) \/ CopyFails(r) \/ LedgerFails(r) PROVE call' = call
  BY <1>6 DEF BuildNext, BuildBegins, CompileFails, CompileSucceeds, LinkImage, CopyImage, CopyEnds,
     RowSettled, BuildEnds, CopyFails, LedgerFails, othersOfBuild
<1>7. CASE Dies
  BY <1>7 DEF Dies, NoCall
<1> QED
  BY <1>1, <1>2, <1>3, <1>4, <1>5, <1>6, <1>7, LinksLeaveLedger DEF OrchNext, EnqueueNext

\* No call is told that a build is in flight unless a build of that very key runs: an
\* entry a failed task left in the table defers nobody (BuildOrchestrator.enqueue).
THEOREM OnlyLiveBuildsDeferAlways == OrchSpec => OnlyLiveBuildsDefer
<1>1. OrchInit => EntriesMatch
  BY DEF OrchInit, EntriesMatch
<1>2. Types /\ EntriesMatch /\ [OrchNext]_orchVars =>
        [\A c \in Callers : call[c].at # "inflight" /\ call'[c].at = "inflight" =>
           \E r \in Builds : rows[r].key = call'[c].key /\ Alive(r)]_orchVars
  BY Defers
<1> QED
  BY <1>1, <1>2, TypesAlways, EntriesNext, PTL DEF OrchSpec, OnlyLiveBuildsDefer

-----------------------------------------------------------------------------
(* The background builds and flashes.                                      *)

Files == [version : 0..MaxEdits, over : SUBSET JobIds]
Places == {"idle", "start", "begin", "write", "compile", "restore", "restoreRaised", "copy",
           "after", "raised", "log", "handler", "gone"}

JobFiles ==
  /\ prefs \in Files /\ prefs.version <= edits
  /\ original \in [JobIds -> Files] /\ \A j \in JobIds : original[j].version <= edits
  /\ edit \in [at : {"idle", "write"}, file : Files] /\ edit.file.version <= edits
  /\ edits \in 0..MaxEdits /\ (edit.at = "write" => edits < MaxEdits)

JobPlaces ==
  /\ kind \in [JobIds -> {"none", "build", "flash", "web"}]
  /\ overrides \in [JobIds -> BOOLEAN]
  /\ at \in [JobIds -> Places]
  /\ status \in [JobIds -> {"none", "running", "done", "failed"}]
  /\ portLock \in JobIds \cup {NoJob}

JobMarks ==
  /\ tree \subseteq JobIds /\ saw \in [JobIds -> SUBSET JobIds]
  /\ mixed \in BOOLEAN /\ disturbed \subseteq JobIds /\ unlogged \subseteq JobIds
  /\ jobDeaths \in 0..MaxJobDeaths

JobTypes == JobFiles /\ JobPlaces /\ JobMarks

\* What the place of a job says of its kind, and of the firmware it has not made.
KindStands(j) ==
  /\ at[j] = "idle" <=> kind[j] = "none"
  /\ at[j] = "start" => kind[j] = "flash"
  /\ at[j] = "copy" => kind[j] = "web"
  /\ kind[j] \in {"none", "web"} => ~overrides[j]
  /\ kind[j] = "web" => at[j] \notin {"log", "handler"}
  /\ at[j] \in {"write", "restore", "restoreRaised"} => overrides[j]
  /\ at[j] \in {"idle", "start", "begin", "write", "compile", "restoreRaised", "raised"} => saw[j] = {}

KindsStand == \A j \in JobIds : KindStands(j)

\* In an undisturbed window the original is the file without any job's overrides
\* but those of the jobs that carry theirs, and so is what an edit has read.
WindowStands(j) ==
  InWindow(j) => /\ original[j].version = edits
                 /\ original[j].over = {k \in JobIds \ {j} : Overridden(k)}

WindowsStand ==
  ~mixed => /\ \A j \in JobIds : WindowStands(j)
            /\ edit.at = "write" => edit.file.version = edits /\ edit.file.over = {}

\* The tree that the web application copies from is the one its build compiled.
CopiesStand == ~mixed => \A j \in JobIds \ disturbed : at[j] = "copy" => tree = {}

JobsStand ==
  /\ JobTypes /\ KindsStand /\ PortHeldByFlash /\ PrefsRestoredAlways /\ WindowsStand
  /\ CopiesStand /\ OwnOverrides

LEMMA JobsStandInit == JobsInit => JobsStand
<1> SUFFICES ASSUME JobsInit PROVE JobsStand
  OBVIOUS
<1>1. Plain \in Files /\ Plain.version = 0 /\ Plain.over = {}
  BY PioJobsAssumption DEF Plain, Files
<1>2. JobTypes
  <2>1. JobFiles
    <3>1. edits = 0 /\ prefs = Plain /\ original = [j \in JobIds |-> Plain]
      BY DEF JobsInit
    <3>2. edit \in [at : {"idle", "write"}, file : Files] /\ edit.file = Plain /\ edit.at = "idle"
      BY <1>1 DEF JobsInit
    <3> QED
      BY <1>1, <3>1, <3>2, PioJobsAssumption DEF JobFiles
  <2>2. JobPlaces
    BY DEF JobsInit, JobPlaces, Places
  <2>3. JobMarks
    <3>1. tree = {} /\ saw = [j \in JobIds |-> {}] /\ disturbed = {} /\ unlogged = {}
      BY DEF JobsInit
    <3>2. jobDeaths = 0 /\ 0 \in 0..MaxJobDeaths
      BY PioJobsAssumption DEF JobsInit
    <3>3. mixed \in BOOLEAN
      BY DEF JobsInit
    <3> QED
      BY <3>1, <3>2, <3>3 DEF JobMarks
  <2> QED
    BY <2>1, <2>2, <2>3 DEF JobTypes
<1>3. KindsStand /\ PortHeldByFlash /\ WindowsStand /\ CopiesStand /\ OwnOverrides
  BY PioJobsAssumption DEF JobsInit, KindsStand, KindStands, PortHeldByFlash, WindowsStand, WindowStands, InWindow,
     CopiesStand, OwnOverrides
<1>4. PrefsRestoredAlways
  BY <1>1 DEF JobsInit, PrefsRestoredAlways, Overridden
<1> QED
  BY <1>2, <1>3, <1>4 DEF JobsStand

\* The step of a thread moves that thread.
LEMMA JobGoesOn ==
  ASSUME JobTypes, NEW j \in JobIds, NEW step \in Places, JobGoes(j, step)
  PROVE  /\ at' \in [JobIds -> Places] /\ at'[j] = step
         /\ \A k \in JobIds \ {j} : at'[k] = at[k]
BY DEF JobTypes, JobPlaces, JobGoes

\* Every thread is somewhere.
LEMMA NextPlaces == JobTypes /\ [JobsNext]_jobVars => JobPlaces'
<1> SUFFICES ASSUME JobTypes, [JobsNext]_jobVars PROVE JobPlaces'
  OBVIOUS
<1>1. CASE UNCHANGED jobVars
  BY <1>1 DEF jobVars, JobTypes, JobPlaces
<1>2. ASSUME NEW j \in JobIds, BuildStart(j) PROVE JobPlaces'
  BY <1>2, JobGoesOn DEF BuildStart, Begins, files, judgements, JobTypes, JobPlaces, Places
<1>3. ASSUME NEW j \in JobIds, WebBuild(j) PROVE JobPlaces'
  BY <1>3, JobGoesOn DEF WebBuild, Begins, files, judgements, JobTypes, JobPlaces, Places
<1>4. ASSUME NEW j \in JobIds, FlashStart(j) PROVE JobPlaces'
  BY <1>4, JobGoesOn DEF FlashStart, Begins, files, judgements, JobTypes, JobPlaces, Places
<1>5. ASSUME NEW j \in JobIds, FlashStarted(j) PROVE JobPlaces'
  BY <1>5, JobGoesOn DEF FlashStarted, files, judgements, JobTypes, JobPlaces, Places
<1>6. ASSUME NEW j \in JobIds, FlashNotStarted(j) PROVE JobPlaces'
  BY <1>6, JobGoesOn DEF FlashNotStarted, files, judgements, JobTypes, JobPlaces, Places
<1>7. ASSUME NEW j \in JobIds, PrefsRead(j) PROVE JobPlaces'
  BY <1>7, JobGoesOn DEF PrefsRead, Unworked, files, JobTypes, JobPlaces, Places
<1>8. ASSUME NEW j \in JobIds, PrefsRefused(j) PROVE JobPlaces'
  BY <1>8, JobGoesOn DEF PrefsRefused, Unworked, files, JobTypes, JobPlaces, Places
<1>9. ASSUME NEW j \in JobIds, PrefsWritten(j) PROVE JobPlaces'
  BY <1>9, JobGoesOn DEF PrefsWritten, Unworked, files, JobTypes, JobPlaces, Places
<1>10. ASSUME NEW j \in JobIds, PioRuns(j) PROVE JobPlaces'
  BY <1>10, JobGoesOn DEF PioRuns, Unworked, files, JobTypes, JobPlaces, Places
<1>11. ASSUME NEW j \in JobIds, PioTimesOut(j) PROVE JobPlaces'
  BY <1>11, JobGoesOn DEF PioTimesOut, Unworked, files, JobTypes, JobPlaces, Places
<1>12. ASSUME NEW j \in JobIds, PrefsRestored(j) PROVE JobPlaces'
  BY <1>12, JobGoesOn DEF PrefsRestored, Unworked, files, JobTypes, JobPlaces, Places
<1>13. ASSUME NEW j \in JobIds, WebCopies(j) PROVE JobPlaces'
  BY <1>13, JobGoesOn DEF WebCopies, Unworked, files, JobTypes, JobPlaces, Places
<1>14. ASSUME NEW j \in JobIds, PioLeft(j) PROVE JobPlaces'
  BY <1>14, JobGoesOn DEF PioLeft, Ending, files, judgements, JobTypes, JobPlaces, Places
<1>15. ASSUME NEW j \in JobIds, JobSettles(j) PROVE JobPlaces'
  BY <1>15, JobGoesOn DEF JobSettles, Ending, files, judgements, Settles, JobTypes, JobPlaces, Places
<1>16. ASSUME NEW j \in JobIds, LogFails(j) PROVE JobPlaces'
  BY <1>16, JobGoesOn DEF LogFails, Ending, files, judgements, JobTypes, JobPlaces, Places
<1>17. ASSUME NEW j \in JobIds, HandlerFails(j) PROVE JobPlaces'
  BY <1>17, JobGoesOn DEF HandlerFails, Ending, files, judgements, JobTypes, JobPlaces, Places
<1>18. CASE EditReads
  BY <1>18 DEF EditReads, jobsIdle, JobTypes, JobPlaces, Places
<1>19. CASE EditWrites
  BY <1>19 DEF EditWrites, jobsIdle, JobTypes, JobPlaces, Places
<1>20. CASE ServerDies
  BY <1>20 DEF ServerDies, JobTypes, JobPlaces, Places
<1> QED
  BY <1>1, <1>2, <1>3, <1>4, <1>5, <1>6, <1>7, <1>8, <1>9, <1>10, <1>11, <1>12, <1>13, <1>14, <1>15, <1>16, <1>17, <1>18, <1>19, <1>20 DEF JobsNext, JobNext

\* The firmware and the marks are sets of jobs.
LEMMA NextMarks == JobTypes /\ [JobsNext]_jobVars => JobMarks'
<1> SUFFICES ASSUME JobTypes, [JobsNext]_jobVars PROVE JobMarks'
  OBVIOUS
<1>1. CASE UNCHANGED jobVars
  BY <1>1 DEF jobVars, JobTypes, JobMarks
<1>2. ASSUME NEW j \in JobIds, BuildStart(j) PROVE JobMarks'
  BY <1>2 DEF BuildStart, Begins, files, judgements, JobTypes, JobFiles, JobMarks, Files
<1>3. ASSUME NEW j \in JobIds, WebBuild(j) PROVE JobMarks'
  BY <1>3 DEF WebBuild, Begins, files, judgements, JobTypes, JobFiles, JobMarks, Files
<1>4. ASSUME NEW j \in JobIds, FlashStart(j) PROVE JobMarks'
  BY <1>4 DEF FlashStart, Begins, files, judgements, JobTypes, JobFiles, JobMarks, Files
<1>5. ASSUME NEW j \in JobIds, FlashStarted(j) PROVE JobMarks'
  BY <1>5 DEF FlashStarted, files, judgements, JobTypes, JobFiles, JobMarks, Files
<1>6. ASSUME NEW j \in JobIds, FlashNotStarted(j) PROVE JobMarks'
  BY <1>6 DEF FlashNotStarted, files, judgements, JobTypes, JobFiles, JobMarks, Files
<1>7. ASSUME NEW j \in JobIds, PrefsRead(j) PROVE JobMarks'
  BY <1>7 DEF PrefsRead, Unworked, files, JobTypes, JobFiles, JobMarks, Files
<1>8. ASSUME NEW j \in JobIds, PrefsRefused(j) PROVE JobMarks'
  BY <1>8 DEF PrefsRefused, Unworked, files, JobTypes, JobFiles, JobMarks, Files
<1>9. ASSUME NEW j \in JobIds, PrefsWritten(j) PROVE JobMarks'
  BY <1>9 DEF PrefsWritten, Unworked, files, JobTypes, JobFiles, JobMarks, Files
<1>10. ASSUME NEW j \in JobIds, PioRuns(j) PROVE JobMarks'
  BY <1>10 DEF PioRuns, Unworked, files, JobTypes, JobFiles, JobMarks, Files
<1>11. ASSUME NEW j \in JobIds, PioTimesOut(j) PROVE JobMarks'
  BY <1>11 DEF PioTimesOut, Unworked, files, JobTypes, JobFiles, JobMarks, Files
<1>12. ASSUME NEW j \in JobIds, PrefsRestored(j) PROVE JobMarks'
  BY <1>12 DEF PrefsRestored, Unworked, files, JobTypes, JobFiles, JobMarks, Files
<1>13. ASSUME NEW j \in JobIds, WebCopies(j) PROVE JobMarks'
  BY <1>13 DEF WebCopies, Unworked, files, JobTypes, JobFiles, JobMarks, Files
<1>14. ASSUME NEW j \in JobIds, PioLeft(j) PROVE JobMarks'
  BY <1>14 DEF PioLeft, Ending, files, judgements, JobTypes, JobFiles, JobMarks, Files
<1>15. ASSUME NEW j \in JobIds, JobSettles(j) PROVE JobMarks'
  BY <1>15 DEF JobSettles, Ending, files, judgements, Settles, JobTypes, JobFiles, JobMarks, Files
<1>16. ASSUME NEW j \in JobIds, LogFails(j) PROVE JobMarks'
  BY <1>16 DEF LogFails, Ending, files, judgements, JobTypes, JobFiles, JobMarks, Files
<1>17. ASSUME NEW j \in JobIds, HandlerFails(j) PROVE JobMarks'
  BY <1>17 DEF HandlerFails, Ending, files, judgements, JobTypes, JobFiles, JobMarks, Files
<1>18. CASE EditReads
  BY <1>18, PioJobsAssumption DEF EditReads, jobsIdle, JobTypes, JobMarks
<1>19. CASE EditWrites
  BY <1>19, PioJobsAssumption DEF EditWrites, jobsIdle, JobTypes, JobMarks
<1>20. CASE ServerDies
  BY <1>20, PioJobsAssumption DEF ServerDies, JobTypes, JobMarks
<1> QED
  BY <1>1, <1>2, <1>3, <1>4, <1>5, <1>6, <1>7, <1>8, <1>9, <1>10, <1>11, <1>12, <1>13, <1>14, <1>15, <1>16, <1>17, <1>18, <1>19, <1>20 DEF JobsNext, JobNext

\* No file, kept or read, is newer than the last edit.
LEMMA NextFiles == JobTypes /\ [JobsNext]_jobVars => JobFiles'
<1> SUFFICES ASSUME JobTypes, [JobsNext]_jobVars PROVE JobFiles'
  OBVIOUS
<1>1. CASE UNCHANGED jobVars
  BY <1>1 DEF jobVars, JobTypes, JobFiles
<1>2. ASSUME NEW j \in JobIds, BuildStart(j) PROVE JobFiles'
  BY <1>2 DEF BuildStart, Begins, files, judgements, JobTypes, JobFiles
<1>3. ASSUME NEW j \in JobIds, WebBuild(j) PROVE JobFiles'
  BY <1>3 DEF WebBuild, Begins, files, judgements, JobTypes, JobFiles
<1>4. ASSUME NEW j \in JobIds, FlashStart(j) PROVE JobFiles'
  BY <1>4 DEF FlashStart, Begins, files, judgements, JobTypes, JobFiles
<1>5. ASSUME NEW j \in JobIds, FlashStarted(j) PROVE JobFiles'
  BY <1>5 DEF FlashStarted, files, judgements, JobTypes, JobFiles
<1>6. ASSUME NEW j \in JobIds, FlashNotStarted(j) PROVE JobFiles'
  BY <1>6 DEF FlashNotStarted, files, judgements, JobTypes, JobFiles
<1>7. ASSUME NEW j \in JobIds, PrefsRead(j) PROVE JobFiles'
  BY <1>7 DEF PrefsRead, Unworked, files, JobTypes, JobFiles
<1>8. ASSUME NEW j \in JobIds, PrefsRefused(j) PROVE JobFiles'
  BY <1>8 DEF PrefsRefused, Unworked, files, JobTypes, JobFiles
<1>9. ASSUME NEW j \in JobIds, PrefsWritten(j) PROVE JobFiles'
  <2>1. prefs' = [version |-> original[j].version, over |-> original[j].over \cup {j}]
    BY <1>9 DEF PrefsWritten, JobTypes, JobFiles, Files
  <2>2. prefs' \in Files /\ prefs'.version <= edits
    BY <2>1 DEF JobTypes, JobFiles, Files
  <2>3. UNCHANGED <<original, edit, edits>>
    BY <1>9 DEF PrefsWritten, Unworked
  <2> QED
    BY <2>2, <2>3 DEF JobTypes, JobFiles
<1>10. ASSUME NEW j \in JobIds, PioRuns(j) PROVE JobFiles'
  BY <1>10 DEF PioRuns, Unworked, files, JobTypes, JobFiles
<1>11. ASSUME NEW j \in JobIds, PioTimesOut(j) PROVE JobFiles'
  BY <1>11 DEF PioTimesOut, Unworked, files, JobTypes, JobFiles
<1>12. ASSUME NEW j \in JobIds, PrefsRestored(j) PROVE JobFiles'
  <2>1. Plain \in Files /\ Plain.version = 0
    BY PioJobsAssumption DEF Plain, Files
  <2>2. edits \in Nat
    BY DEF JobTypes, JobFiles
  <2>3. prefs' = original[j] /\ original' = [original EXCEPT ![j] = Plain] /\ UNCHANGED <<edit, edits>>
    BY <1>12 DEF PrefsRestored, Unworked
  <2> QED
    BY <2>1, <2>2, <2>3 DEF JobTypes, JobFiles
<1>13. ASSUME NEW j \in JobIds, WebCopies(j) PROVE JobFiles'
  BY <1>13 DEF WebCopies, Unworked, files, JobTypes, JobFiles
<1>14. ASSUME NEW j \in JobIds, PioLeft(j) PROVE JobFiles'
  BY <1>14 DEF PioLeft, Ending, files, judgements, JobTypes, JobFiles
<1>15. ASSUME NEW j \in JobIds, JobSettles(j) PROVE JobFiles'
  BY <1>15 DEF JobSettles, Ending, files, judgements, Settles, JobTypes, JobFiles
<1>16. ASSUME NEW j \in JobIds, LogFails(j) PROVE JobFiles'
  BY <1>16 DEF LogFails, Ending, files, judgements, JobTypes, JobFiles
<1>17. ASSUME NEW j \in JobIds, HandlerFails(j) PROVE JobFiles'
  BY <1>17 DEF HandlerFails, Ending, files, judgements, JobTypes, JobFiles
<1>18. CASE EditReads
  <2>1. edit' \in [at : {"idle", "write"}, file : Files] /\ edit'.file = prefs /\ edit'.at = "write"
    BY <1>18 DEF EditReads, JobTypes, JobFiles
  <2> QED
    BY <1>18, <2>1 DEF EditReads, jobsIdle, JobTypes, JobFiles
<1>19. CASE EditWrites
  <2>1. /\ edit.file \in Files /\ edits + 1 \in 0..MaxEdits
        /\ edit.file.version + 1 <= edits + 1 /\ edit.file.version + 1 \in 0..MaxEdits
    BY <1>19, PioJobsAssumption DEF EditWrites, JobTypes, JobFiles, Files
  <2>2. prefs' = [version |-> edit.file.version + 1, over |-> edit.file.over]
    BY <1>19, <2>1 DEF EditWrites, Files
  <2>3. prefs' \in Files /\ prefs'.version <= edits'
    BY <1>19, <2>1, <2>2 DEF EditWrites, Files
  <2>4. Plain \in Files /\ Plain.version = 0
    BY PioJobsAssumption DEF Plain, Files
  <2>5. edit' \in [at : {"idle", "write"}, file : Files] /\ edit'.file.version = 0 /\ edit'.at = "idle"
    BY <1>19, <2>4 DEF EditWrites
  <2>6. edits' = edits + 1 /\ edits \in Nat /\ original' = original
    BY <1>19 DEF EditWrites, jobsIdle, JobTypes, JobFiles
  <2>7. ASSUME NEW j \in JobIds PROVE original[j].version <= edits + 1
    BY <2>6 DEF JobTypes, JobFiles, Files
  <2> QED
    BY <2>1, <2>3, <2>5, <2>6, <2>7 DEF JobTypes, JobFiles
<1>20. CASE ServerDies
  <2>1. Plain \in Files /\ Plain.version = 0
    BY PioJobsAssumption DEF Plain, Files
  <2>2. edits \in Nat
    BY DEF JobTypes, JobFiles
  <2>3. /\ original' = [j \in JobIds |-> Plain] /\ edit' = [at |-> "idle", file |-> Plain]
        /\ UNCHANGED <<prefs, edits>>
    BY <1>20 DEF ServerDies
  <2> QED
    BY <2>1, <2>2, <2>3 DEF JobTypes, JobFiles
<1> QED
  BY <1>1, <1>2, <1>3, <1>4, <1>5, <1>6, <1>7, <1>8, <1>9, <1>10, <1>11, <1>12, <1>13, <1>14, <1>15, <1>16, <1>17, <1>18, <1>19, <1>20 DEF JobsNext, JobNext

\* A job is what its place says.
LEMMA NextKinds == JobTypes /\ KindsStand /\ [JobsNext]_jobVars => KindsStand'
<1> SUFFICES ASSUME JobTypes, KindsStand, [JobsNext]_jobVars PROVE KindsStand'
  OBVIOUS
<1>1. CASE UNCHANGED jobVars
  BY <1>1 DEF jobVars, KindsStand, KindStands
<1>2. ASSUME NEW j \in JobIds, BuildStart(j) PROVE KindsStand'
  <2> SUFFICES ASSUME NEW k \in JobIds PROVE KindStands(k)'
    BY DEF KindsStand
  <2>1. KindStands(k) /\ KindStands(j)
    BY DEF KindsStand
  <2> QED
    BY <1>2, <2>1, JobGoesOn DEF BuildStart, Begins, files, judgements, JobTypes, JobPlaces, JobMarks, Places, KindStands
<1>3. ASSUME NEW j \in JobIds, WebBuild(j) PROVE KindsStand'
  <2> SUFFICES ASSUME NEW k \in JobIds PROVE KindStands(k)'
    BY DEF KindsStand
  <2>1. KindStands(k) /\ KindStands(j)
    BY DEF KindsStand
  <2> QED
    BY <1>3, <2>1, JobGoesOn DEF WebBuild, Begins, files, judgements, JobTypes, JobPlaces, JobMarks, Places, KindStands
<1>4. ASSUME NEW j \in JobIds, FlashStart(j) PROVE KindsStand'
  <2> SUFFICES ASSUME NEW k \in JobIds PROVE KindStands(k)'
    BY DEF KindsStand
  <2>1. KindStands(k) /\ KindStands(j)
    BY DEF KindsStand
  <2> QED
    BY <1>4, <2>1, JobGoesOn DEF FlashStart, Begins, files, judgements, JobTypes, JobPlaces, JobMarks, Places, KindStands
<1>5. ASSUME NEW j \in JobIds, FlashStarted(j) PROVE KindsStand'
  <2> SUFFICES ASSUME NEW k \in JobIds PROVE KindStands(k)'
    BY DEF KindsStand
  <2>1. KindStands(k) /\ KindStands(j)
    BY DEF KindsStand
  <2> QED
    BY <1>5, <2>1, JobGoesOn DEF FlashStarted, files, judgements, JobTypes, JobPlaces, JobMarks, Places, KindStands
<1>6. ASSUME NEW j \in JobIds, FlashNotStarted(j) PROVE KindsStand'
  <2> SUFFICES ASSUME NEW k \in JobIds PROVE KindStands(k)'
    BY DEF KindsStand
  <2>1. KindStands(k) /\ KindStands(j)
    BY DEF KindsStand
  <2> QED
    BY <1>6, <2>1, JobGoesOn DEF FlashNotStarted, files, judgements, JobTypes, JobPlaces, JobMarks, Places, KindStands
<1>7. ASSUME NEW j \in JobIds, PrefsRead(j) PROVE KindsStand'
  <2> SUFFICES ASSUME NEW k \in JobIds PROVE KindStands(k)'
    BY DEF KindsStand
  <2>1. KindStands(k) /\ KindStands(j)
    BY DEF KindsStand
  <2> QED
    BY <1>7, <2>1, JobGoesOn DEF PrefsRead, Unworked, files, JobTypes, JobPlaces, JobMarks, Places, KindStands
<1>8. ASSUME NEW j \in JobIds, PrefsRefused(j) PROVE KindsStand'
  <2> SUFFICES ASSUME NEW k \in JobIds PROVE KindStands(k)'
    BY DEF KindsStand
  <2>1. KindStands(k) /\ KindStands(j)
    BY DEF KindsStand
  <2> QED
    BY <1>8, <2>1, JobGoesOn DEF PrefsRefused, Unworked, files, JobTypes, JobPlaces, JobMarks, Places, KindStands
<1>9. ASSUME NEW j \in JobIds, PrefsWritten(j) PROVE KindsStand'
  <2> SUFFICES ASSUME NEW k \in JobIds PROVE KindStands(k)'
    BY DEF KindsStand
  <2>1. KindStands(k) /\ KindStands(j)
    BY DEF KindsStand
  <2> QED
    BY <1>9, <2>1, JobGoesOn DEF PrefsWritten, Unworked, files, JobTypes, JobPlaces, JobMarks, Places, KindStands
<1>10. ASSUME NEW j \in JobIds, PioRuns(j) PROVE KindsStand'
  <2> SUFFICES ASSUME NEW k \in JobIds PROVE KindStands(k)'
    BY DEF KindsStand
  <2>1. KindStands(k) /\ KindStands(j)
    BY DEF KindsStand
  <2> QED
    BY <1>10, <2>1, JobGoesOn DEF PioRuns, Unworked, files, JobTypes, JobPlaces, JobMarks, Places, KindStands
<1>11. ASSUME NEW j \in JobIds, PioTimesOut(j) PROVE KindsStand'
  <2> SUFFICES ASSUME NEW k \in JobIds PROVE KindStands(k)'
    BY DEF KindsStand
  <2>1. KindStands(k) /\ KindStands(j)
    BY DEF KindsStand
  <2> QED
    BY <1>11, <2>1, JobGoesOn DEF PioTimesOut, Unworked, files, JobTypes, JobPlaces, JobMarks, Places, KindStands
<1>12. ASSUME NEW j \in JobIds, PrefsRestored(j) PROVE KindsStand'
  <2> SUFFICES ASSUME NEW k \in JobIds PROVE KindStands(k)'
    BY DEF KindsStand
  <2>1. KindStands(k) /\ KindStands(j)
    BY DEF KindsStand
  <2> QED
    BY <1>12, <2>1, JobGoesOn DEF PrefsRestored, Unworked, files, JobTypes, JobPlaces, JobMarks, Places, KindStands
<1>13. ASSUME NEW j \in JobIds, WebCopies(j) PROVE KindsStand'
  <2> SUFFICES ASSUME NEW k \in JobIds PROVE KindStands(k)'
    BY DEF KindsStand
  <2>1. KindStands(k) /\ KindStands(j)
    BY DEF KindsStand
  <2> QED
    BY <1>13, <2>1, JobGoesOn DEF WebCopies, Unworked, files, JobTypes, JobPlaces, JobMarks, Places, KindStands
<1>14. ASSUME NEW j \in JobIds, PioLeft(j) PROVE KindsStand'
  <2> SUFFICES ASSUME NEW k \in JobIds PROVE KindStands(k)'
    BY DEF KindsStand
  <2>1. KindStands(k) /\ KindStands(j)
    BY DEF KindsStand
  <2> QED
    BY <1>14, <2>1, JobGoesOn DEF PioLeft, Ending, files, judgements, JobTypes, JobPlaces, JobMarks, Places, KindStands
<1>15. ASSUME NEW j \in JobIds, JobSettles(j) PROVE KindsStand'
  <2> SUFFICES ASSUME NEW k \in JobIds PROVE KindStands(k)'
    BY DEF KindsStand
  <2>1. KindStands(k) /\ KindStands(j)
    BY DEF KindsStand
  <2> QED
    BY <1>15, <2>1, JobGoesOn DEF JobSettles, Ending, files, judgements, Settles, JobTypes, JobPlaces, JobMarks, Places, KindStands
<1>16. ASSUME NEW j \in JobIds, LogFails(j) PROVE KindsStand'
  <2> SUFFICES ASSUME NEW k \in JobIds PROVE KindStands(k)'
    BY DEF KindsStand
  <2>1. KindStands(k) /\ KindStands(j)
    BY DEF KindsStand
  <2> QED
    BY <1>16, <2>1, JobGoesOn DEF LogFails, Ending, files, judgements, JobTypes, JobPlaces, JobMarks, Places, KindStands
<1>17. ASSUME NEW j \in JobIds, HandlerFails(j) PROVE KindsStand'
  <2> SUFFICES ASSUME NEW k \in JobIds PROVE KindStands(k)'
    BY DEF KindsStand
  <2>1. KindStands(k) /\ KindStands(j)
    BY DEF KindsStand
  <2> QED
    BY <1>17, <2>1, JobGoesOn DEF HandlerFails, Ending, files, judgements, JobTypes, JobPlaces, JobMarks, Places, KindStands
<1>18. CASE EditReads
  BY <1>18 DEF EditReads, jobsIdle, JobTypes, JobPlaces, KindsStand, KindStands
<1>19. CASE EditWrites
  BY <1>19 DEF EditWrites, jobsIdle, JobTypes, JobPlaces, KindsStand, KindStands
<1>20. CASE ServerDies
  BY <1>20 DEF ServerDies, JobTypes, JobPlaces, KindsStand, KindStands
<1> QED
  BY <1>1, <1>2, <1>3, <1>4, <1>5, <1>6, <1>7, <1>8, <1>9, <1>10, <1>11, <1>12, <1>13, <1>14, <1>15, <1>16, <1>17, <1>18, <1>19, <1>20 DEF JobsNext, JobNext

\* The port is with the flash that has not ended.
LEMMA NextPort == JobTypes /\ KindsStand /\ PortHeldByFlash /\ [JobsNext]_jobVars => PortHeldByFlash'
<1> SUFFICES ASSUME JobTypes, KindsStand, PortHeldByFlash, [JobsNext]_jobVars PROVE PortHeldByFlash'
  OBVIOUS
<1>1. CASE UNCHANGED jobVars
  BY <1>1 DEF jobVars, PortHeldByFlash
<1>2. ASSUME NEW j \in JobIds, BuildStart(j) PROVE PortHeldByFlash'
  <2> SUFFICES ASSUME NEW k \in JobIds
               PROVE  (portLock = k <=> kind[k] = "flash" /\ at[k] \notin {"idle", "log", "handler", "gone"})'
    BY DEF PortHeldByFlash
  <2>1. /\ portLock = k <=> kind[k] = "flash" /\ at[k] \notin {"idle", "log", "handler", "gone"}
        /\ portLock = j <=> kind[j] = "flash" /\ at[j] \notin {"idle", "log", "handler", "gone"}
        /\ KindStands(j) /\ k # NoJob /\ j # NoJob
    BY PioJobsAssumption DEF PortHeldByFlash, KindsStand
  <2> QED
    BY <1>2, <2>1, JobGoesOn DEF BuildStart, Begins, files, judgements, JobTypes, JobPlaces, Places, KindStands
<1>3. ASSUME NEW j \in JobIds, WebBuild(j) PROVE PortHeldByFlash'
  <2> SUFFICES ASSUME NEW k \in JobIds
               PROVE  (portLock = k <=> kind[k] = "flash" /\ at[k] \notin {"idle", "log", "handler", "gone"})'
    BY DEF PortHeldByFlash
  <2>1. /\ portLock = k <=> kind[k] = "flash" /\ at[k] \notin {"idle", "log", "handler", "gone"}
        /\ portLock = j <=> kind[j] = "flash" /\ at[j] \notin {"idle", "log", "handler", "gone"}
        /\ KindStands(j) /\ k # NoJob /\ j # NoJob
    BY PioJobsAssumption DEF PortHeldByFlash, KindsStand
  <2> QED
    BY <1>3, <2>1, JobGoesOn DEF WebBuild, Begins, files, judgements, JobTypes, JobPlaces, Places, KindStands
<1>4. ASSUME NEW j \in JobIds, FlashStart(j) PROVE PortHeldByFlash'
  <2> SUFFICES ASSUME NEW k \in JobIds
               PROVE  (portLock = k <=> kind[k] = "flash" /\ at[k] \notin {"idle", "log", "handler", "gone"})'
    BY DEF PortHeldByFlash
  <2>1. /\ portLock = k <=> kind[k] = "flash" /\ at[k] \notin {"idle", "log", "handler", "gone"}
        /\ portLock = j <=> kind[j] = "flash" /\ at[j] \notin {"idle", "log", "handler", "gone"}
        /\ KindStands(j) /\ k # NoJob /\ j # NoJob
    BY PioJobsAssumption DEF PortHeldByFlash, KindsStand
  <2> QED
    BY <1>4, <2>1, JobGoesOn DEF FlashStart, Begins, files, judgements, JobTypes, JobPlaces, Places, KindStands
<1>5. ASSUME NEW j \in JobIds, FlashStarted(j) PROVE PortHeldByFlash'
  <2> SUFFICES ASSUME NEW k \in JobIds
               PROVE  (portLock = k <=> kind[k] = "flash" /\ at[k] \notin {"idle", "log", "handler", "gone"})'
    BY DEF PortHeldByFlash
  <2>1. /\ portLock = k <=> kind[k] = "flash" /\ at[k] \notin {"idle", "log", "handler", "gone"}
        /\ portLock = j <=> kind[j] = "flash" /\ at[j] \notin {"idle", "log", "handler", "gone"}
        /\ KindStands(j) /\ k # NoJob /\ j # NoJob
    BY PioJobsAssumption DEF PortHeldByFlash, KindsStand
  <2> QED
    BY <1>5, <2>1, JobGoesOn DEF FlashStarted, files, judgements, JobTypes, JobPlaces, Places, KindStands
<1>6. ASSUME NEW j \in JobIds, FlashNotStarted(j) PROVE PortHeldByFlash'
  <2> SUFFICES ASSUME NEW k \in JobIds
               PROVE  (portLock = k <=> kind[k] = "flash" /\ at[k] \notin {"idle", "log", "handler", "gone"})'
    BY DEF PortHeldByFlash
  <2>1. /\ portLock = k <=> kind[k] = "flash" /\ at[k] \notin {"idle", "log", "handler", "gone"}
        /\ portLock = j <=> kind[j] = "flash" /\ at[j] \notin {"idle", "log", "handler", "gone"}
        /\ KindStands(j) /\ k # NoJob /\ j # NoJob
    BY PioJobsAssumption DEF PortHeldByFlash, KindsStand
  <2> QED
    BY <1>6, <2>1, JobGoesOn DEF FlashNotStarted, files, judgements, JobTypes, JobPlaces, Places, KindStands
<1>7. ASSUME NEW j \in JobIds, PrefsRead(j) PROVE PortHeldByFlash'
  <2> SUFFICES ASSUME NEW k \in JobIds
               PROVE  (portLock = k <=> kind[k] = "flash" /\ at[k] \notin {"idle", "log", "handler", "gone"})'
    BY DEF PortHeldByFlash
  <2>1. /\ portLock = k <=> kind[k] = "flash" /\ at[k] \notin {"idle", "log", "handler", "gone"}
        /\ portLock = j <=> kind[j] = "flash" /\ at[j] \notin {"idle", "log", "handler", "gone"}
        /\ KindStands(j) /\ k # NoJob /\ j # NoJob
    BY PioJobsAssumption DEF PortHeldByFlash, KindsStand
  <2> QED
    BY <1>7, <2>1, JobGoesOn DEF PrefsRead, Unworked, files, JobTypes, JobPlaces, Places, KindStands
<1>8. ASSUME NEW j \in JobIds, PrefsRefused(j) PROVE PortHeldByFlash'
  <2> SUFFICES ASSUME NEW k \in JobIds
               PROVE  (portLock = k <=> kind[k] = "flash" /\ at[k] \notin {"idle", "log", "handler", "gone"})'
    BY DEF PortHeldByFlash
  <2>1. /\ portLock = k <=> kind[k] = "flash" /\ at[k] \notin {"idle", "log", "handler", "gone"}
        /\ portLock = j <=> kind[j] = "flash" /\ at[j] \notin {"idle", "log", "handler", "gone"}
        /\ KindStands(j) /\ k # NoJob /\ j # NoJob
    BY PioJobsAssumption DEF PortHeldByFlash, KindsStand
  <2> QED
    BY <1>8, <2>1, JobGoesOn DEF PrefsRefused, Unworked, files, JobTypes, JobPlaces, Places, KindStands
<1>9. ASSUME NEW j \in JobIds, PrefsWritten(j) PROVE PortHeldByFlash'
  <2> SUFFICES ASSUME NEW k \in JobIds
               PROVE  (portLock = k <=> kind[k] = "flash" /\ at[k] \notin {"idle", "log", "handler", "gone"})'
    BY DEF PortHeldByFlash
  <2>1. /\ portLock = k <=> kind[k] = "flash" /\ at[k] \notin {"idle", "log", "handler", "gone"}
        /\ portLock = j <=> kind[j] = "flash" /\ at[j] \notin {"idle", "log", "handler", "gone"}
        /\ KindStands(j) /\ k # NoJob /\ j # NoJob
    BY PioJobsAssumption DEF PortHeldByFlash, KindsStand
  <2> QED
    BY <1>9, <2>1, JobGoesOn DEF PrefsWritten, Unworked, files, JobTypes, JobPlaces, Places, KindStands
<1>10. ASSUME NEW j \in JobIds, PioRuns(j) PROVE PortHeldByFlash'
  <2> SUFFICES ASSUME NEW k \in JobIds
               PROVE  (portLock = k <=> kind[k] = "flash" /\ at[k] \notin {"idle", "log", "handler", "gone"})'
    BY DEF PortHeldByFlash
  <2>1. /\ portLock = k <=> kind[k] = "flash" /\ at[k] \notin {"idle", "log", "handler", "gone"}
        /\ portLock = j <=> kind[j] = "flash" /\ at[j] \notin {"idle", "log", "handler", "gone"}
        /\ KindStands(j) /\ k # NoJob /\ j # NoJob
    BY PioJobsAssumption DEF PortHeldByFlash, KindsStand
  <2> QED
    BY <1>10, <2>1, JobGoesOn DEF PioRuns, Unworked, files, JobTypes, JobPlaces, Places, KindStands
<1>11. ASSUME NEW j \in JobIds, PioTimesOut(j) PROVE PortHeldByFlash'
  <2> SUFFICES ASSUME NEW k \in JobIds
               PROVE  (portLock = k <=> kind[k] = "flash" /\ at[k] \notin {"idle", "log", "handler", "gone"})'
    BY DEF PortHeldByFlash
  <2>1. /\ portLock = k <=> kind[k] = "flash" /\ at[k] \notin {"idle", "log", "handler", "gone"}
        /\ portLock = j <=> kind[j] = "flash" /\ at[j] \notin {"idle", "log", "handler", "gone"}
        /\ KindStands(j) /\ k # NoJob /\ j # NoJob
    BY PioJobsAssumption DEF PortHeldByFlash, KindsStand
  <2> QED
    BY <1>11, <2>1, JobGoesOn DEF PioTimesOut, Unworked, files, JobTypes, JobPlaces, Places, KindStands
<1>12. ASSUME NEW j \in JobIds, PrefsRestored(j) PROVE PortHeldByFlash'
  <2> SUFFICES ASSUME NEW k \in JobIds
               PROVE  (portLock = k <=> kind[k] = "flash" /\ at[k] \notin {"idle", "log", "handler", "gone"})'
    BY DEF PortHeldByFlash
  <2>1. /\ portLock = k <=> kind[k] = "flash" /\ at[k] \notin {"idle", "log", "handler", "gone"}
        /\ portLock = j <=> kind[j] = "flash" /\ at[j] \notin {"idle", "log", "handler", "gone"}
        /\ KindStands(j) /\ k # NoJob /\ j # NoJob
    BY PioJobsAssumption DEF PortHeldByFlash, KindsStand
  <2> QED
    BY <1>12, <2>1, JobGoesOn DEF PrefsRestored, Unworked, files, JobTypes, JobPlaces, Places, KindStands
<1>13. ASSUME NEW j \in JobIds, WebCopies(j) PROVE PortHeldByFlash'
  <2> SUFFICES ASSUME NEW k \in JobIds
               PROVE  (portLock = k <=> kind[k] = "flash" /\ at[k] \notin {"idle", "log", "handler", "gone"})'
    BY DEF PortHeldByFlash
  <2>1. /\ portLock = k <=> kind[k] = "flash" /\ at[k] \notin {"idle", "log", "handler", "gone"}
        /\ portLock = j <=> kind[j] = "flash" /\ at[j] \notin {"idle", "log", "handler", "gone"}
        /\ KindStands(j) /\ k # NoJob /\ j # NoJob
    BY PioJobsAssumption DEF PortHeldByFlash, KindsStand
  <2> QED
    BY <1>13, <2>1, JobGoesOn DEF WebCopies, Unworked, files, JobTypes, JobPlaces, Places, KindStands
<1>14. ASSUME NEW j \in JobIds, PioLeft(j) PROVE PortHeldByFlash'
  <2> SUFFICES ASSUME NEW k \in JobIds
               PROVE  (portLock = k <=> kind[k] = "flash" /\ at[k] \notin {"idle", "log", "handler", "gone"})'
    BY DEF PortHeldByFlash
  <2>1. /\ portLock = k <=> kind[k] = "flash" /\ at[k] \notin {"idle", "log", "handler", "gone"}
        /\ portLock = j <=> kind[j] = "flash" /\ at[j] \notin {"idle", "log", "handler", "gone"}
        /\ KindStands(j) /\ k # NoJob /\ j # NoJob
    BY PioJobsAssumption DEF PortHeldByFlash, KindsStand
  <2> QED
    BY <1>14, <2>1, JobGoesOn DEF PioLeft, Ending, files, judgements, JobTypes, JobPlaces, Places, KindStands
<1>15. ASSUME NEW j \in JobIds, JobSettles(j) PROVE PortHeldByFlash'
  <2> SUFFICES ASSUME NEW k \in JobIds
               PROVE  (portLock = k <=> kind[k] = "flash" /\ at[k] \notin {"idle", "log", "handler", "gone"})'
    BY DEF PortHeldByFlash
  <2>1. /\ portLock = k <=> kind[k] = "flash" /\ at[k] \notin {"idle", "log", "handler", "gone"}
        /\ portLock = j <=> kind[j] = "flash" /\ at[j] \notin {"idle", "log", "handler", "gone"}
        /\ KindStands(j) /\ k # NoJob /\ j # NoJob
    BY PioJobsAssumption DEF PortHeldByFlash, KindsStand
  <2> QED
    BY <1>15, <2>1, JobGoesOn DEF JobSettles, Ending, files, judgements, Settles, JobTypes, JobPlaces, Places, KindStands
<1>16. ASSUME NEW j \in JobIds, LogFails(j) PROVE PortHeldByFlash'
  <2> SUFFICES ASSUME NEW k \in JobIds
               PROVE  (portLock = k <=> kind[k] = "flash" /\ at[k] \notin {"idle", "log", "handler", "gone"})'
    BY DEF PortHeldByFlash
  <2>1. /\ portLock = k <=> kind[k] = "flash" /\ at[k] \notin {"idle", "log", "handler", "gone"}
        /\ portLock = j <=> kind[j] = "flash" /\ at[j] \notin {"idle", "log", "handler", "gone"}
        /\ KindStands(j) /\ k # NoJob /\ j # NoJob
    BY PioJobsAssumption DEF PortHeldByFlash, KindsStand
  <2> QED
    BY <1>16, <2>1, JobGoesOn DEF LogFails, Ending, files, judgements, JobTypes, JobPlaces, Places, KindStands
<1>17. ASSUME NEW j \in JobIds, HandlerFails(j) PROVE PortHeldByFlash'
  <2> SUFFICES ASSUME NEW k \in JobIds
               PROVE  (portLock = k <=> kind[k] = "flash" /\ at[k] \notin {"idle", "log", "handler", "gone"})'
    BY DEF PortHeldByFlash
  <2>1. /\ portLock = k <=> kind[k] = "flash" /\ at[k] \notin {"idle", "log", "handler", "gone"}
        /\ portLock = j <=> kind[j] = "flash" /\ at[j] \notin {"idle", "log", "handler", "gone"}
        /\ KindStands(j) /\ k # NoJob /\ j # NoJob
    BY PioJobsAssumption DEF PortHeldByFlash, KindsStand
  <2> QED
    BY <1>17, <2>1, JobGoesOn DEF HandlerFails, Ending, files, judgements, JobTypes, JobPlaces, Places, KindStands
<1>18. CASE EditReads
  BY <1>18, PioJobsAssumption DEF EditReads, jobsIdle, JobTypes, JobPlaces, PortHeldByFlash
<1>19. CASE EditWrites
  BY <1>19, PioJobsAssumption DEF EditWrites, jobsIdle, JobTypes, JobPlaces, PortHeldByFlash
<1>20. CASE ServerDies
  BY <1>20, PioJobsAssumption DEF ServerDies, JobTypes, JobPlaces, PortHeldByFlash
<1> QED
  BY <1>1, <1>2, <1>3, <1>4, <1>5, <1>6, <1>7, <1>8, <1>9, <1>10, <1>11, <1>12, <1>13, <1>14, <1>15, <1>16, <1>17, <1>18, <1>19, <1>20 DEF JobsNext, JobNext

\* The file carries exactly the overrides of the jobs that are between write and restoration.
LEMMA NextRestored == JobTypes /\ KindsStand /\ WindowsStand /\ PrefsRestoredAlways /\ [JobsNext]_jobVars => PrefsRestoredAlways'
<1> SUFFICES ASSUME JobTypes, KindsStand, WindowsStand, PrefsRestoredAlways, [JobsNext]_jobVars PROVE PrefsRestoredAlways'
  OBVIOUS
<1>1. CASE UNCHANGED jobVars
  BY <1>1 DEF jobVars, PrefsRestoredAlways, Overridden
<1>2. ASSUME NEW j \in JobIds, BuildStart(j) PROVE PrefsRestoredAlways'
  <2>1. UNCHANGED <<prefs, edits>> /\ (mixed => mixed')
    BY <1>2 DEF BuildStart, Begins, files, judgements
  <2>2. ASSUME NEW k \in JobIds PROVE Overridden(k)' <=> Overridden(k)
    BY <1>2, JobGoesOn DEF BuildStart, Begins, files, judgements, JobTypes, JobPlaces, Places, KindsStand, KindStands, Overridden
  <2> QED
    BY <2>1, <2>2 DEF PrefsRestoredAlways
<1>3. ASSUME NEW j \in JobIds, WebBuild(j) PROVE PrefsRestoredAlways'
  <2>1. UNCHANGED <<prefs, edits>> /\ (mixed => mixed')
    BY <1>3 DEF WebBuild, Begins, files, judgements
  <2>2. ASSUME NEW k \in JobIds PROVE Overridden(k)' <=> Overridden(k)
    BY <1>3, JobGoesOn DEF WebBuild, Begins, files, judgements, JobTypes, JobPlaces, Places, KindsStand, KindStands, Overridden
  <2> QED
    BY <2>1, <2>2 DEF PrefsRestoredAlways
<1>4. ASSUME NEW j \in JobIds, FlashStart(j) PROVE PrefsRestoredAlways'
  <2>1. UNCHANGED <<prefs, edits>> /\ (mixed => mixed')
    BY <1>4 DEF FlashStart, Begins, files, judgements
  <2>2. ASSUME NEW k \in JobIds PROVE Overridden(k)' <=> Overridden(k)
    BY <1>4, JobGoesOn DEF FlashStart, Begins, files, judgements, JobTypes, JobPlaces, Places, KindsStand, KindStands, Overridden
  <2> QED
    BY <2>1, <2>2 DEF PrefsRestoredAlways
<1>5. ASSUME NEW j \in JobIds, FlashStarted(j) PROVE PrefsRestoredAlways'
  <2>1. UNCHANGED <<prefs, edits>> /\ (mixed => mixed')
    BY <1>5 DEF FlashStarted, files, judgements
  <2>2. ASSUME NEW k \in JobIds PROVE Overridden(k)' <=> Overridden(k)
    BY <1>5, JobGoesOn DEF FlashStarted, files, judgements, JobTypes, JobPlaces, Places, KindsStand, KindStands, Overridden
  <2> QED
    BY <2>1, <2>2 DEF PrefsRestoredAlways
<1>6. ASSUME NEW j \in JobIds, FlashNotStarted(j) PROVE PrefsRestoredAlways'
  <2>1. UNCHANGED <<prefs, edits>> /\ (mixed => mixed')
    BY <1>6 DEF FlashNotStarted, files, judgements
  <2>2. ASSUME NEW k \in JobIds PROVE Overridden(k)' <=> Overridden(k)
    BY <1>6, JobGoesOn DEF FlashNotStarted, files, judgements, JobTypes, JobPlaces, Places, KindsStand, KindStands, Overridden
  <2> QED
    BY <2>1, <2>2 DEF PrefsRestoredAlways
<1>7. ASSUME NEW j \in JobIds, PrefsRead(j) PROVE PrefsRestoredAlways'
  <2>1. UNCHANGED <<prefs, edits>> /\ (mixed => mixed')
    BY <1>7 DEF PrefsRead, Unworked, files
  <2>2. ASSUME NEW k \in JobIds PROVE Overridden(k)' <=> Overridden(k)
    BY <1>7, JobGoesOn DEF PrefsRead, Unworked, files, JobTypes, JobPlaces, Places, KindsStand, KindStands, Overridden
  <2> QED
    BY <2>1, <2>2 DEF PrefsRestoredAlways
<1>8. ASSUME NEW j \in JobIds, PrefsRefused(j) PROVE PrefsRestoredAlways'
  <2>1. UNCHANGED <<prefs, edits>> /\ (mixed => mixed')
    BY <1>8 DEF PrefsRefused, Unworked, files
  <2>2. ASSUME NEW k \in JobIds PROVE Overridden(k)' <=> Overridden(k)
    BY <1>8, JobGoesOn DEF PrefsRefused, Unworked, files, JobTypes, JobPlaces, Places, KindsStand, KindStands, Overridden
  <2> QED
    BY <2>1, <2>2 DEF PrefsRestoredAlways
<1>9. ASSUME NEW j \in JobIds, PrefsWritten(j) PROVE PrefsRestoredAlways'
  <2> SUFFICES ASSUME ~mixed' PROVE PrefsRestoredAlways'
    BY DEF PrefsRestoredAlways
  <2>1. ~mixed /\ (\A k \in JobIds \ {j} : ~InWindow(k)) /\ prefs.over = {k \in JobIds : Overridden(k)}
    BY <1>9 DEF PrefsWritten, Elsewhere, PrefsRestoredAlways, JobTypes, JobMarks
  <2>2. InWindow(j) /\ KindStands(j)
    BY <1>9 DEF PrefsWritten, KindsStand, KindStands, InWindow
  <2>3. original[j].version = edits /\ original[j].over = {}
    <3>1. original[j].version = edits /\ original[j].over = {k \in JobIds \ {j} : Overridden(k)}
      BY <2>1, <2>2 DEF WindowsStand, WindowStands
    <3>2. \A k \in JobIds \ {j} : ~Overridden(k)
      BY <2>1 DEF InWindow, Overridden
    <3> QED
      BY <3>1, <3>2
  <2>4. prefs' = [version |-> original[j].version, over |-> original[j].over \cup {j}] /\ edits' = edits
    BY <1>9 DEF PrefsWritten, Unworked, JobTypes, JobFiles, Files
  <2>5. ASSUME NEW k \in JobIds PROVE Overridden(k)' <=> k = j
    <3>1. CASE k = j
      BY <1>9, <2>2, <3>1, JobGoesOn DEF PrefsWritten, Unworked, Places, KindStands, Overridden
    <3>2. CASE k # j
      BY <1>9, <2>1, <3>2, JobGoesOn DEF PrefsWritten, Unworked, Places, InWindow, Overridden
    <3> QED
      BY <3>1, <3>2
  <2> QED
    BY <2>3, <2>4, <2>5 DEF PrefsRestoredAlways
<1>10. ASSUME NEW j \in JobIds, PioRuns(j) PROVE PrefsRestoredAlways'
  <2>1. UNCHANGED <<prefs, edits>> /\ (mixed => mixed')
    BY <1>10 DEF PioRuns, Unworked, files
  <2>2. ASSUME NEW k \in JobIds PROVE Overridden(k)' <=> Overridden(k)
    BY <1>10, JobGoesOn DEF PioRuns, Unworked, files, JobTypes, JobPlaces, Places, KindsStand, KindStands, Overridden
  <2> QED
    BY <2>1, <2>2 DEF PrefsRestoredAlways
<1>11. ASSUME NEW j \in JobIds, PioTimesOut(j) PROVE PrefsRestoredAlways'
  <2>1. UNCHANGED <<prefs, edits>> /\ (mixed => mixed')
    BY <1>11 DEF PioTimesOut, Unworked, files
  <2>2. ASSUME NEW k \in JobIds PROVE Overridden(k)' <=> Overridden(k)
    BY <1>11, JobGoesOn DEF PioTimesOut, Unworked, files, JobTypes, JobPlaces, Places, KindsStand, KindStands, Overridden
  <2> QED
    BY <2>1, <2>2 DEF PrefsRestoredAlways
<1>12. ASSUME NEW j \in JobIds, PrefsRestored(j) PROVE PrefsRestoredAlways'
  <2> SUFFICES ASSUME ~mixed' PROVE PrefsRestoredAlways'
    BY DEF PrefsRestoredAlways
  <2>1. ~mixed /\ (\A k \in JobIds \ {j} : ~InWindow(k)) /\ prefs.over = {k \in JobIds : Overridden(k)}
    BY <1>12 DEF PrefsRestored, Elsewhere, PrefsRestoredAlways, JobTypes, JobMarks
  <2>2. InWindow(j) /\ KindStands(j)
    BY <1>12 DEF PrefsRestored, KindsStand, KindStands, InWindow
  <2>3. original[j].version = edits /\ original[j].over = {}
    <3>1. original[j].version = edits /\ original[j].over = {k \in JobIds \ {j} : Overridden(k)}
      BY <2>1, <2>2 DEF WindowsStand, WindowStands
    <3>2. \A k \in JobIds \ {j} : ~Overridden(k)
      BY <2>1 DEF InWindow, Overridden
    <3> QED
      BY <3>1, <3>2
  <2>4. prefs' = original[j] /\ edits' = edits
    BY <1>12 DEF PrefsRestored, Unworked
  <2>5. ASSUME NEW k \in JobIds PROVE ~Overridden(k)'
    <3>1. CASE k = j
      BY <1>12, <3>1, JobGoesOn DEF PrefsRestored, Unworked, Places, Overridden
    <3>2. CASE k # j
      BY <1>12, <2>1, <3>2, JobGoesOn DEF PrefsRestored, Unworked, Places, InWindow, Overridden
    <3> QED
      BY <3>1, <3>2
  <2> QED
    BY <2>3, <2>4, <2>5 DEF PrefsRestoredAlways
<1>13. ASSUME NEW j \in JobIds, WebCopies(j) PROVE PrefsRestoredAlways'
  <2>1. UNCHANGED <<prefs, edits>> /\ (mixed => mixed')
    BY <1>13 DEF WebCopies, Unworked, files
  <2>2. ASSUME NEW k \in JobIds PROVE Overridden(k)' <=> Overridden(k)
    BY <1>13, JobGoesOn DEF WebCopies, Unworked, files, JobTypes, JobPlaces, Places, KindsStand, KindStands, Overridden
  <2> QED
    BY <2>1, <2>2 DEF PrefsRestoredAlways
<1>14. ASSUME NEW j \in JobIds, PioLeft(j) PROVE PrefsRestoredAlways'
  <2>1. UNCHANGED <<prefs, edits>> /\ (mixed => mixed')
    BY <1>14 DEF PioLeft, Ending, files, judgements
  <2>2. ASSUME NEW k \in JobIds PROVE Overridden(k)' <=> Overridden(k)
    BY <1>14, JobGoesOn DEF PioLeft, Ending, files, judgements, JobTypes, JobPlaces, Places, KindsStand, KindStands, Overridden
  <2> QED
    BY <2>1, <2>2 DEF PrefsRestoredAlways
<1>15. ASSUME NEW j \in JobIds, JobSettles(j) PROVE PrefsRestoredAlways'
  <2>1. UNCHANGED <<prefs, edits>> /\ (mixed => mixed')
    BY <1>15 DEF JobSettles, Ending, files, judgements, Settles
  <2>2. ASSUME NEW k \in JobIds PROVE Overridden(k)' <=> Overridden(k)
    BY <1>15, JobGoesOn DEF JobSettles, Ending, files, judgements, Settles, JobTypes, JobPlaces, Places, KindsStand, KindStands, Overridden
  <2> QED
    BY <2>1, <2>2 DEF PrefsRestoredAlways
<1>16. ASSUME NEW j \in JobIds, LogFails(j) PROVE PrefsRestoredAlways'
  <2>1. UNCHANGED <<prefs, edits>> /\ (mixed => mixed')
    BY <1>16 DEF LogFails, Ending, files, judgements
  <2>2. ASSUME NEW k \in JobIds PROVE Overridden(k)' <=> Overridden(k)
    BY <1>16, JobGoesOn DEF LogFails, Ending, files, judgements, JobTypes, JobPlaces, Places, KindsStand, KindStands, Overridden
  <2> QED
    BY <2>1, <2>2 DEF PrefsRestoredAlways
<1>17. ASSUME NEW j \in JobIds, HandlerFails(j) PROVE PrefsRestoredAlways'
  <2>1. UNCHANGED <<prefs, edits>> /\ (mixed => mixed')
    BY <1>17 DEF HandlerFails, Ending, files, judgements
  <2>2. ASSUME NEW k \in JobIds PROVE Overridden(k)' <=> Overridden(k)
    BY <1>17, JobGoesOn DEF HandlerFails, Ending, files, judgements, JobTypes, JobPlaces, Places, KindsStand, KindStands, Overridden
  <2> QED
    BY <2>1, <2>2 DEF PrefsRestoredAlways
<1>18. CASE EditReads
  <2>1. UNCHANGED <<prefs, edits>> /\ (mixed => mixed')
    BY <1>18 DEF EditReads, jobsIdle
  <2>2. ASSUME NEW k \in JobIds PROVE Overridden(k)' <=> Overridden(k)
    BY <1>18 DEF EditReads, jobsIdle, Overridden
  <2> QED
    BY <2>1, <2>2 DEF PrefsRestoredAlways
<1>19. CASE EditWrites
  <2> SUFFICES ASSUME ~mixed' PROVE PrefsRestoredAlways'
    BY DEF PrefsRestoredAlways
  <2>1. ~mixed /\ (\A k \in JobIds : ~InWindow(k)) /\ edit.at = "write"
    BY <1>19 DEF EditWrites, JobTypes, JobMarks
  <2>2. edit.file.version = edits /\ edit.file.over = {} /\ edit.file \in Files
    BY <2>1 DEF WindowsStand, JobTypes, JobFiles
  <2>3. prefs' = [version |-> edit.file.version + 1, over |-> edit.file.over] /\ edits' = edits + 1
    BY <1>19, <2>2 DEF EditWrites, Files
  <2>4. ASSUME NEW k \in JobIds PROVE ~Overridden(k)'
    BY <1>19, <2>1 DEF EditWrites, jobsIdle, InWindow, Overridden
  <2> QED
    BY <2>2, <2>3, <2>4 DEF PrefsRestoredAlways
<1>20. CASE ServerDies
  <2> SUFFICES ASSUME ~mixed' PROVE PrefsRestoredAlways'
    BY DEF PrefsRestoredAlways
  <2>1. ~mixed /\ (\A k \in JobIds : ~Overridden(k)) /\ UNCHANGED <<prefs, edits>>
    BY <1>20 DEF ServerDies, JobTypes, JobMarks
  <2>2. ASSUME NEW k \in JobIds PROVE ~Overridden(k)'
    BY <1>20, <2>1 DEF ServerDies, JobTypes, JobPlaces, Overridden
  <2> QED
    BY <2>1, <2>2 DEF PrefsRestoredAlways
<1> QED
  BY <1>1, <1>2, <1>3, <1>4, <1>5, <1>6, <1>7, <1>8, <1>9, <1>10, <1>11, <1>12, <1>13, <1>14, <1>15, <1>16, <1>17, <1>18, <1>19, <1>20 DEF JobsNext, JobNext

\* Where no job enters its window and none carries other overrides, nothing changes.
LEMMA WindowsFrame ==
  ASSUME WindowsStand, UNCHANGED <<edits, edit>>, mixed' = mixed,
         \A k \in JobIds : Overridden(k)' <=> Overridden(k),
         \A k \in JobIds : InWindow(k)' => InWindow(k) /\ original'[k] = original[k]
  PROVE  WindowsStand'
<1>1. ASSUME NEW k \in JobIds, ~mixed, InWindow(k)' PROVE WindowStands(k)'
  BY <1>1 DEF WindowsStand, WindowStands
<1> QED
  BY <1>1 DEF WindowsStand, WindowStands

\* What a job or an edit has read of the file is what it may write back.
LEMMA NextWindows == JobTypes /\ KindsStand /\ WindowsStand /\ PrefsRestoredAlways /\ [JobsNext]_jobVars => WindowsStand'
<1> SUFFICES ASSUME JobTypes, KindsStand, WindowsStand, PrefsRestoredAlways, [JobsNext]_jobVars PROVE WindowsStand'
  OBVIOUS
<1>1. CASE UNCHANGED jobVars
  BY <1>1 DEF jobVars, WindowsStand, WindowStands, InWindow, Overridden
<1>2. ASSUME NEW j \in JobIds, BuildStart(j) PROVE WindowsStand'
  <2>1. UNCHANGED <<edits, edit>> /\ mixed' = mixed
    BY <1>2 DEF BuildStart, Begins, files, judgements
  <2>2. ASSUME NEW k \in JobIds PROVE Overridden(k)' <=> Overridden(k)
    BY <1>2, JobGoesOn DEF BuildStart, Begins, files, judgements, JobTypes, JobPlaces, Places, KindsStand, KindStands, Overridden
  <2>3. ASSUME NEW k \in JobIds, InWindow(k)' PROVE InWindow(k) /\ original'[k] = original[k]
    BY <1>2, <2>3, JobGoesOn DEF BuildStart, Begins, files, judgements, JobTypes, JobPlaces, Places, InWindow
  <2> QED
    BY <2>1, <2>2, <2>3, WindowsFrame
<1>3. ASSUME NEW j \in JobIds, WebBuild(j) PROVE WindowsStand'
  <2>1. UNCHANGED <<edits, edit>> /\ mixed' = mixed
    BY <1>3 DEF WebBuild, Begins, files, judgements
  <2>2. ASSUME NEW k \in JobIds PROVE Overridden(k)' <=> Overridden(k)
    BY <1>3, JobGoesOn DEF WebBuild, Begins, files, judgements, JobTypes, JobPlaces, Places, KindsStand, KindStands, Overridden
  <2>3. ASSUME NEW k \in JobIds, InWindow(k)' PROVE InWindow(k) /\ original'[k] = original[k]
    BY <1>3, <2>3, JobGoesOn DEF WebBuild, Begins, files, judgements, JobTypes, JobPlaces, Places, InWindow
  <2> QED
    BY <2>1, <2>2, <2>3, WindowsFrame
<1>4. ASSUME NEW j \in JobIds, FlashStart(j) PROVE WindowsStand'
  <2>1. UNCHANGED <<edits, edit>> /\ mixed' = mixed
    BY <1>4 DEF FlashStart, Begins, files, judgements
  <2>2. ASSUME NEW k \in JobIds PROVE Overridden(k)' <=> Overridden(k)
    BY <1>4, JobGoesOn DEF FlashStart, Begins, files, judgements, JobTypes, JobPlaces, Places, KindsStand, KindStands, Overridden
  <2>3. ASSUME NEW k \in JobIds, InWindow(k)' PROVE InWindow(k) /\ original'[k] = original[k]
    BY <1>4, <2>3, JobGoesOn DEF FlashStart, Begins, files, judgements, JobTypes, JobPlaces, Places, InWindow
  <2> QED
    BY <2>1, <2>2, <2>3, WindowsFrame
<1>5. ASSUME NEW j \in JobIds, FlashStarted(j) PROVE WindowsStand'
  <2>1. UNCHANGED <<edits, edit>> /\ mixed' = mixed
    BY <1>5 DEF FlashStarted, files, judgements
  <2>2. ASSUME NEW k \in JobIds PROVE Overridden(k)' <=> Overridden(k)
    BY <1>5, JobGoesOn DEF FlashStarted, files, judgements, JobTypes, JobPlaces, Places, KindsStand, KindStands, Overridden
  <2>3. ASSUME NEW k \in JobIds, InWindow(k)' PROVE InWindow(k) /\ original'[k] = original[k]
    BY <1>5, <2>3, JobGoesOn DEF FlashStarted, files, judgements, JobTypes, JobPlaces, Places, InWindow
  <2> QED
    BY <2>1, <2>2, <2>3, WindowsFrame
<1>6. ASSUME NEW j \in JobIds, FlashNotStarted(j) PROVE WindowsStand'
  <2>1. UNCHANGED <<edits, edit>> /\ mixed' = mixed
    BY <1>6 DEF FlashNotStarted, files, judgements
  <2>2. ASSUME NEW k \in JobIds PROVE Overridden(k)' <=> Overridden(k)
    BY <1>6, JobGoesOn DEF FlashNotStarted, files, judgements, JobTypes, JobPlaces, Places, KindsStand, KindStands, Overridden
  <2>3. ASSUME NEW k \in JobIds, InWindow(k)' PROVE InWindow(k) /\ original'[k] = original[k]
    BY <1>6, <2>3, JobGoesOn DEF FlashNotStarted, files, judgements, JobTypes, JobPlaces, Places, InWindow
  <2> QED
    BY <2>1, <2>2, <2>3, WindowsFrame
<1>7. ASSUME NEW j \in JobIds, PrefsRead(j) PROVE WindowsStand'
  <2> SUFFICES ASSUME ~mixed' PROVE WindowsStand'
    BY DEF WindowsStand
  <2>1. UNCHANGED <<edits, edit, overrides>> /\ ~mixed
    BY <1>7 DEF PrefsRead, Unworked
  <2>2. ASSUME NEW k \in JobIds PROVE Overridden(k)' <=> Overridden(k)
    <3>1. CASE k = j
      BY <1>7, <3>1, JobGoesOn DEF PrefsRead, Unworked, JobTypes, JobPlaces, Places, KindsStand, KindStands, Overridden
    <3>2. CASE k # j
      BY <1>7, <3>2, JobGoesOn DEF PrefsRead, Unworked, JobTypes, JobPlaces, Places, Overridden
    <3> QED
      BY <3>1, <3>2
  <2>3. ASSUME NEW k \in JobIds, InWindow(k)' PROVE WindowStands(k)'
    <3>1. CASE k = j
      <4>1. prefs.version = edits /\ prefs.over = {i \in JobIds : Overridden(i)}
        BY <2>1 DEF PrefsRestoredAlways
      <4>2. ~Overridden(j)
        BY <1>7 DEF PrefsRead, Overridden
      <4>3. original'[j] = prefs
        BY <1>7, <2>1, <2>3, <3>1, JobGoesOn DEF PrefsRead, JobTypes, JobFiles, InWindow
      <4> QED
        BY <2>1, <2>2, <3>1, <4>1, <4>2, <4>3 DEF WindowStands
    <3>2. CASE k # j
      <4>1. InWindow(k) /\ original'[k] = original[k]
        BY <1>7, <2>1, <2>3, <3>2, JobGoesOn DEF PrefsRead, JobTypes, JobFiles, JobPlaces, Places, InWindow
      <4> QED
        BY <2>1, <2>2, <4>1 DEF WindowsStand, WindowStands
    <3> QED
      BY <3>1, <3>2
  <2> QED
    BY <2>1, <2>3 DEF WindowsStand, WindowStands
<1>8. ASSUME NEW j \in JobIds, PrefsRefused(j) PROVE WindowsStand'
  <2>1. UNCHANGED <<edits, edit>> /\ mixed' = mixed
    BY <1>8 DEF PrefsRefused, Unworked, files
  <2>2. ASSUME NEW k \in JobIds PROVE Overridden(k)' <=> Overridden(k)
    BY <1>8, JobGoesOn DEF PrefsRefused, Unworked, files, JobTypes, JobPlaces, Places, KindsStand, KindStands, Overridden
  <2>3. ASSUME NEW k \in JobIds, InWindow(k)' PROVE InWindow(k) /\ original'[k] = original[k]
    BY <1>8, <2>3, JobGoesOn DEF PrefsRefused, Unworked, files, JobTypes, JobPlaces, Places, InWindow
  <2> QED
    BY <2>1, <2>2, <2>3, WindowsFrame
<1>9. ASSUME NEW j \in JobIds, PrefsWritten(j) PROVE WindowsStand'
  <2> SUFFICES ASSUME ~mixed' PROVE WindowsStand'
    BY DEF WindowsStand
  <2>1. /\ ~mixed /\ (\A k \in JobIds \ {j} : ~InWindow(k)) /\ UNCHANGED <<edit, edits, original, overrides>>
        /\ edit.at # "write" /\ at[j] = "write" /\ overrides[j]
    BY <1>9 DEF PrefsWritten, Unworked, Elsewhere, JobTypes, JobMarks, KindsStand, KindStands
  <2>2. ASSUME NEW k \in JobIds \ {j} PROVE ~InWindow(k)' /\ ~Overridden(k)' /\ ~Overridden(k)
    BY <1>9, <2>1, JobGoesOn DEF PrefsWritten, Places, InWindow, Overridden
  <2>3. WindowStands(j) /\ InWindow(j)
    BY <2>1 DEF WindowsStand, InWindow
  <2>4. WindowStands(j)'
    BY <2>1, <2>2, <2>3 DEF WindowStands
  <2> QED
    BY <2>1, <2>2, <2>4 DEF WindowsStand, WindowStands
<1>10. ASSUME NEW j \in JobIds, PioRuns(j) PROVE WindowsStand'
  <2>1. UNCHANGED <<edits, edit>> /\ mixed' = mixed
    BY <1>10 DEF PioRuns, Unworked, files
  <2>2. ASSUME NEW k \in JobIds PROVE Overridden(k)' <=> Overridden(k)
    BY <1>10, JobGoesOn DEF PioRuns, Unworked, files, JobTypes, JobPlaces, Places, KindsStand, KindStands, Overridden
  <2>3. ASSUME NEW k \in JobIds, InWindow(k)' PROVE InWindow(k) /\ original'[k] = original[k]
    BY <1>10, <2>3, JobGoesOn DEF PioRuns, Unworked, files, JobTypes, JobPlaces, Places, InWindow
  <2> QED
    BY <2>1, <2>2, <2>3, WindowsFrame
<1>11. ASSUME NEW j \in JobIds, PioTimesOut(j) PROVE WindowsStand'
  <2>1. UNCHANGED <<edits, edit>> /\ mixed' = mixed
    BY <1>11 DEF PioTimesOut, Unworked, files
  <2>2. ASSUME NEW k \in JobIds PROVE Overridden(k)' <=> Overridden(k)
    BY <1>11, JobGoesOn DEF PioTimesOut, Unworked, files, JobTypes, JobPlaces, Places, KindsStand, KindStands, Overridden
  <2>3. ASSUME NEW k \in JobIds, InWindow(k)' PROVE InWindow(k) /\ original'[k] = original[k]
    BY <1>11, <2>3, JobGoesOn DEF PioTimesOut, Unworked, files, JobTypes, JobPlaces, Places, InWindow
  <2> QED
    BY <2>1, <2>2, <2>3, WindowsFrame
<1>12. ASSUME NEW j \in JobIds, PrefsRestored(j) PROVE WindowsStand'
  <2> SUFFICES ASSUME ~mixed' PROVE WindowsStand'
    BY DEF WindowsStand
  <2>1. /\ ~mixed /\ (\A k \in JobIds \ {j} : ~InWindow(k)) /\ UNCHANGED <<edit, edits, overrides>>
        /\ edit.at # "write"
    BY <1>12 DEF PrefsRestored, Unworked, Elsewhere, JobTypes, JobMarks
  <2>2. ASSUME NEW k \in JobIds PROVE ~InWindow(k)'
    <3>1. CASE k = j
      BY <1>12, <2>1, <3>1, JobGoesOn DEF PrefsRestored, Places, InWindow
    <3>2. CASE k # j
      BY <1>12, <2>1, <3>2, JobGoesOn DEF PrefsRestored, Places, InWindow
    <3> QED
      BY <3>1, <3>2
  <2> QED
    BY <2>1, <2>2 DEF WindowsStand, WindowStands
<1>13. ASSUME NEW j \in JobIds, WebCopies(j) PROVE WindowsStand'
  <2>1. UNCHANGED <<edits, edit>> /\ mixed' = mixed
    BY <1>13 DEF WebCopies, Unworked, files
  <2>2. ASSUME NEW k \in JobIds PROVE Overridden(k)' <=> Overridden(k)
    BY <1>13, JobGoesOn DEF WebCopies, Unworked, files, JobTypes, JobPlaces, Places, KindsStand, KindStands, Overridden
  <2>3. ASSUME NEW k \in JobIds, InWindow(k)' PROVE InWindow(k) /\ original'[k] = original[k]
    BY <1>13, <2>3, JobGoesOn DEF WebCopies, Unworked, files, JobTypes, JobPlaces, Places, InWindow
  <2> QED
    BY <2>1, <2>2, <2>3, WindowsFrame
<1>14. ASSUME NEW j \in JobIds, PioLeft(j) PROVE WindowsStand'
  <2>1. UNCHANGED <<edits, edit>> /\ mixed' = mixed
    BY <1>14 DEF PioLeft, Ending, files, judgements
  <2>2. ASSUME NEW k \in JobIds PROVE Overridden(k)' <=> Overridden(k)
    BY <1>14, JobGoesOn DEF PioLeft, Ending, files, judgements, JobTypes, JobPlaces, Places, KindsStand, KindStands, Overridden
  <2>3. ASSUME NEW k \in JobIds, InWindow(k)' PROVE InWindow(k) /\ original'[k] = original[k]
    BY <1>14, <2>3, JobGoesOn DEF PioLeft, Ending, files, judgements, JobTypes, JobPlaces, Places, InWindow
  <2> QED
    BY <2>1, <2>2, <2>3, WindowsFrame
<1>15. ASSUME NEW j \in JobIds, JobSettles(j) PROVE WindowsStand'
  <2>1. UNCHANGED <<edits, edit>> /\ mixed' = mixed
    BY <1>15 DEF JobSettles, Ending, files, judgements, Settles
  <2>2. ASSUME NEW k \in JobIds PROVE Overridden(k)' <=> Overridden(k)
    BY <1>15, JobGoesOn DEF JobSettles, Ending, files, judgements, Settles, JobTypes, JobPlaces, Places, KindsStand, KindStands, Overridden
  <2>3. ASSUME NEW k \in JobIds, InWindow(k)' PROVE InWindow(k) /\ original'[k] = original[k]
    BY <1>15, <2>3, JobGoesOn DEF JobSettles, Ending, files, judgements, Settles, JobTypes, JobPlaces, Places, InWindow
  <2> QED
    BY <2>1, <2>2, <2>3, WindowsFrame
<1>16. ASSUME NEW j \in JobIds, LogFails(j) PROVE WindowsStand'
  <2>1. UNCHANGED <<edits, edit>> /\ mixed' = mixed
    BY <1>16 DEF LogFails, Ending, files, judgements
  <2>2. ASSUME NEW k \in JobIds PROVE Overridden(k)' <=> Overridden(k)
    BY <1>16, JobGoesOn DEF LogFails, Ending, files, judgements, JobTypes, JobPlaces, Places, KindsStand, KindStands, Overridden
  <2>3. ASSUME NEW k \in JobIds, InWindow(k)' PROVE InWindow(k) /\ original'[k] = original[k]
    BY <1>16, <2>3, JobGoesOn DEF LogFails, Ending, files, judgements, JobTypes, JobPlaces, Places, InWindow
  <2> QED
    BY <2>1, <2>2, <2>3, WindowsFrame
<1>17. ASSUME NEW j \in JobIds, HandlerFails(j) PROVE WindowsStand'
  <2>1. UNCHANGED <<edits, edit>> /\ mixed' = mixed
    BY <1>17 DEF HandlerFails, Ending, files, judgements
  <2>2. ASSUME NEW k \in JobIds PROVE Overridden(k)' <=> Overridden(k)
    BY <1>17, JobGoesOn DEF HandlerFails, Ending, files, judgements, JobTypes, JobPlaces, Places, KindsStand, KindStands, Overridden
  <2>3. ASSUME NEW k \in JobIds, InWindow(k)' PROVE InWindow(k) /\ original'[k] = original[k]
    BY <1>17, <2>3, JobGoesOn DEF HandlerFails, Ending, files, judgements, JobTypes, JobPlaces, Places, InWindow
  <2> QED
    BY <2>1, <2>2, <2>3, WindowsFrame
<1>18. CASE EditReads
  <2> SUFFICES ASSUME ~mixed' PROVE WindowsStand'
    BY DEF WindowsStand
  <2>1. ~mixed /\ (\A k \in JobIds : ~InWindow(k)) /\ UNCHANGED <<at, overrides, edits>>
    BY <1>18 DEF EditReads, jobsIdle, JobTypes, JobMarks
  <2>2. ASSUME NEW k \in JobIds PROVE ~InWindow(k)' /\ ~Overridden(k)
    BY <2>1 DEF InWindow, Overridden
  <2>3. edit'.file = prefs /\ prefs.version = edits /\ prefs.over = {}
    BY <1>18, <2>1, <2>2 DEF EditReads, PrefsRestoredAlways
  <2> QED
    BY <2>1, <2>2, <2>3 DEF WindowsStand, WindowStands
<1>19. CASE EditWrites
  <2> SUFFICES ASSUME ~mixed' PROVE WindowsStand'
    BY DEF WindowsStand
  <2>1. (\A k \in JobIds : ~InWindow(k)) /\ UNCHANGED <<at, overrides>> /\ edit'.at = "idle"
    BY <1>19 DEF EditWrites, jobsIdle, JobTypes, JobMarks
  <2>2. ASSUME NEW k \in JobIds PROVE ~InWindow(k)'
    BY <2>1 DEF InWindow
  <2> QED
    BY <2>1, <2>2 DEF WindowsStand, WindowStands
<1>20. CASE ServerDies
  <2>1. edit'.at = "idle"
    BY <1>20 DEF ServerDies
  <2>2. ASSUME NEW k \in JobIds PROVE ~InWindow(k)'
    BY <1>20 DEF ServerDies, JobTypes, JobPlaces, KindsStand, KindStands, InWindow
  <2> QED
    BY <2>1, <2>2 DEF WindowsStand, WindowStands
<1> QED
  BY <1>1, <1>2, <1>3, <1>4, <1>5, <1>6, <1>7, <1>8, <1>9, <1>10, <1>11, <1>12, <1>13, <1>14, <1>15, <1>16, <1>17, <1>18, <1>19, <1>20 DEF JobsNext, JobNext

\* Another compilation between that of a build and its copy is noticed.
LEMMA NextCopies == JobTypes /\ KindsStand /\ PrefsRestoredAlways /\ CopiesStand /\ [JobsNext]_jobVars => CopiesStand'
<1> SUFFICES ASSUME JobTypes, KindsStand, PrefsRestoredAlways, CopiesStand, [JobsNext]_jobVars PROVE CopiesStand'
  OBVIOUS
<1>1. CASE UNCHANGED jobVars
  BY <1>1 DEF jobVars, CopiesStand
<1>2. ASSUME NEW j \in JobIds, BuildStart(j) PROVE CopiesStand'
  <2> SUFFICES ASSUME ~mixed', NEW k \in JobIds, k \notin disturbed', at'[k] = "copy" PROVE tree' = {}
    BY DEF CopiesStand
  <2>1. UNCHANGED <<tree, disturbed>> /\ ~mixed
    BY <1>2 DEF BuildStart, Begins, files, judgements, JobTypes, JobMarks
  <2>2. at[k] = "copy"
    BY <1>2, JobGoesOn DEF BuildStart, Begins, files, judgements, Places
  <2> QED
    BY <2>1, <2>2 DEF CopiesStand
<1>3. ASSUME NEW j \in JobIds, WebBuild(j) PROVE CopiesStand'
  <2> SUFFICES ASSUME ~mixed', NEW k \in JobIds, k \notin disturbed', at'[k] = "copy" PROVE tree' = {}
    BY DEF CopiesStand
  <2>1. UNCHANGED <<tree, disturbed>> /\ ~mixed
    BY <1>3 DEF WebBuild, Begins, files, judgements, JobTypes, JobMarks
  <2>2. at[k] = "copy"
    BY <1>3, JobGoesOn DEF WebBuild, Begins, files, judgements, Places
  <2> QED
    BY <2>1, <2>2 DEF CopiesStand
<1>4. ASSUME NEW j \in JobIds, FlashStart(j) PROVE CopiesStand'
  <2> SUFFICES ASSUME ~mixed', NEW k \in JobIds, k \notin disturbed', at'[k] = "copy" PROVE tree' = {}
    BY DEF CopiesStand
  <2>1. UNCHANGED <<tree, disturbed>> /\ ~mixed
    BY <1>4 DEF FlashStart, Begins, files, judgements, JobTypes, JobMarks
  <2>2. at[k] = "copy"
    BY <1>4, JobGoesOn DEF FlashStart, Begins, files, judgements, Places
  <2> QED
    BY <2>1, <2>2 DEF CopiesStand
<1>5. ASSUME NEW j \in JobIds, FlashStarted(j) PROVE CopiesStand'
  <2> SUFFICES ASSUME ~mixed', NEW k \in JobIds, k \notin disturbed', at'[k] = "copy" PROVE tree' = {}
    BY DEF CopiesStand
  <2>1. UNCHANGED <<tree, disturbed>> /\ ~mixed
    BY <1>5 DEF FlashStarted, files, judgements, JobTypes, JobMarks
  <2>2. at[k] = "copy"
    BY <1>5, JobGoesOn DEF FlashStarted, files, judgements, Places
  <2> QED
    BY <2>1, <2>2 DEF CopiesStand
<1>6. ASSUME NEW j \in JobIds, FlashNotStarted(j) PROVE CopiesStand'
  <2> SUFFICES ASSUME ~mixed', NEW k \in JobIds, k \notin disturbed', at'[k] = "copy" PROVE tree' = {}
    BY DEF CopiesStand
  <2>1. UNCHANGED <<tree, disturbed>> /\ ~mixed
    BY <1>6 DEF FlashNotStarted, files, judgements, JobTypes, JobMarks
  <2>2. at[k] = "copy"
    BY <1>6, JobGoesOn DEF FlashNotStarted, files, judgements, Places
  <2> QED
    BY <2>1, <2>2 DEF CopiesStand
<1>7. ASSUME NEW j \in JobIds, PrefsRead(j) PROVE CopiesStand'
  <2> SUFFICES ASSUME ~mixed', NEW k \in JobIds, k \notin disturbed', at'[k] = "copy" PROVE tree' = {}
    BY DEF CopiesStand
  <2>1. UNCHANGED <<tree, disturbed>> /\ ~mixed
    BY <1>7 DEF PrefsRead, Unworked, files, JobTypes, JobMarks
  <2>2. at[k] = "copy"
    BY <1>7, JobGoesOn DEF PrefsRead, Unworked, files, Places
  <2> QED
    BY <2>1, <2>2 DEF CopiesStand
<1>8. ASSUME NEW j \in JobIds, PrefsRefused(j) PROVE CopiesStand'
  <2> SUFFICES ASSUME ~mixed', NEW k \in JobIds, k \notin disturbed', at'[k] = "copy" PROVE tree' = {}
    BY DEF CopiesStand
  <2>1. UNCHANGED <<tree, disturbed>> /\ ~mixed
    BY <1>8 DEF PrefsRefused, Unworked, files, JobTypes, JobMarks
  <2>2. at[k] = "copy"
    BY <1>8, JobGoesOn DEF PrefsRefused, Unworked, files, Places
  <2> QED
    BY <2>1, <2>2 DEF CopiesStand
<1>9. ASSUME NEW j \in JobIds, PrefsWritten(j) PROVE CopiesStand'
  <2> SUFFICES ASSUME ~mixed', NEW k \in JobIds, k \notin disturbed', at'[k] = "copy" PROVE tree' = {}
    BY DEF CopiesStand
  <2>1. UNCHANGED <<tree, disturbed>> /\ ~mixed
    BY <1>9 DEF PrefsWritten, Unworked, files, JobTypes, JobMarks
  <2>2. at[k] = "copy"
    BY <1>9, JobGoesOn DEF PrefsWritten, Unworked, files, Places
  <2> QED
    BY <2>1, <2>2 DEF CopiesStand
<1>10. ASSUME NEW j \in JobIds, PioRuns(j) PROVE CopiesStand'
  <2> SUFFICES ASSUME ~mixed', NEW k \in JobIds, k \notin disturbed', at'[k] = "copy" PROVE tree' = {}
    BY DEF CopiesStand
  <2>1. ~mixed /\ tree' = prefs.over
    BY <1>10 DEF PioRuns
  <2>2. k = j
    BY <1>10, JobGoesOn DEF PioRuns, Places, JobTypes, JobPlaces
  <2>3. ~overrides[j] /\ (\A i \in JobIds \ {j} : ~Overridden(i))
    BY <1>10, <2>2, JobGoesOn DEF PioRuns, Places, JobTypes, JobPlaces
  <2> QED
    BY <2>1, <2>3 DEF PrefsRestoredAlways, Overridden
<1>11. ASSUME NEW j \in JobIds, PioTimesOut(j) PROVE CopiesStand'
  <2> SUFFICES ASSUME ~mixed', NEW k \in JobIds, k \notin disturbed', at'[k] = "copy" PROVE tree' = {}
    BY DEF CopiesStand
  <2>1. UNCHANGED <<tree, disturbed>> /\ ~mixed
    BY <1>11 DEF PioTimesOut, Unworked, files, JobTypes, JobMarks
  <2>2. at[k] = "copy"
    BY <1>11, JobGoesOn DEF PioTimesOut, Unworked, files, Places
  <2> QED
    BY <2>1, <2>2 DEF CopiesStand
<1>12. ASSUME NEW j \in JobIds, PrefsRestored(j) PROVE CopiesStand'
  <2> SUFFICES ASSUME ~mixed', NEW k \in JobIds, k \notin disturbed', at'[k] = "copy" PROVE tree' = {}
    BY DEF CopiesStand
  <2>1. UNCHANGED <<tree, disturbed>> /\ ~mixed
    BY <1>12 DEF PrefsRestored, Unworked, files, JobTypes, JobMarks
  <2>2. at[k] = "copy"
    BY <1>12, JobGoesOn DEF PrefsRestored, Unworked, files, Places
  <2> QED
    BY <2>1, <2>2 DEF CopiesStand
<1>13. ASSUME NEW j \in JobIds, WebCopies(j) PROVE CopiesStand'
  <2> SUFFICES ASSUME ~mixed', NEW k \in JobIds, k \notin disturbed', at'[k] = "copy" PROVE tree' = {}
    BY DEF CopiesStand
  <2>1. UNCHANGED <<tree, disturbed>> /\ ~mixed
    BY <1>13 DEF WebCopies, Unworked, files, JobTypes, JobMarks
  <2>2. at[k] = "copy"
    BY <1>13, JobGoesOn DEF WebCopies, Unworked, files, Places
  <2> QED
    BY <2>1, <2>2 DEF CopiesStand
<1>14. ASSUME NEW j \in JobIds, PioLeft(j) PROVE CopiesStand'
  <2> SUFFICES ASSUME ~mixed', NEW k \in JobIds, k \notin disturbed', at'[k] = "copy" PROVE tree' = {}
    BY DEF CopiesStand
  <2>1. UNCHANGED <<tree, disturbed>> /\ ~mixed
    BY <1>14 DEF PioLeft, Ending, files, judgements, JobTypes, JobMarks
  <2>2. at[k] = "copy"
    BY <1>14, JobGoesOn DEF PioLeft, Ending, files, judgements, Places
  <2> QED
    BY <2>1, <2>2 DEF CopiesStand
<1>15. ASSUME NEW j \in JobIds, JobSettles(j) PROVE CopiesStand'
  <2> SUFFICES ASSUME ~mixed', NEW k \in JobIds, k \notin disturbed', at'[k] = "copy" PROVE tree' = {}
    BY DEF CopiesStand
  <2>1. UNCHANGED <<tree, disturbed>> /\ ~mixed
    BY <1>15 DEF JobSettles, Ending, files, judgements, Settles, JobTypes, JobMarks
  <2>2. at[k] = "copy"
    BY <1>15, JobGoesOn DEF JobSettles, Ending, files, judgements, Settles, Places
  <2> QED
    BY <2>1, <2>2 DEF CopiesStand
<1>16. ASSUME NEW j \in JobIds, LogFails(j) PROVE CopiesStand'
  <2> SUFFICES ASSUME ~mixed', NEW k \in JobIds, k \notin disturbed', at'[k] = "copy" PROVE tree' = {}
    BY DEF CopiesStand
  <2>1. UNCHANGED <<tree, disturbed>> /\ ~mixed
    BY <1>16 DEF LogFails, Ending, files, judgements, JobTypes, JobMarks
  <2>2. at[k] = "copy"
    BY <1>16, JobGoesOn DEF LogFails, Ending, files, judgements, Places
  <2> QED
    BY <2>1, <2>2 DEF CopiesStand
<1>17. ASSUME NEW j \in JobIds, HandlerFails(j) PROVE CopiesStand'
  <2> SUFFICES ASSUME ~mixed', NEW k \in JobIds, k \notin disturbed', at'[k] = "copy" PROVE tree' = {}
    BY DEF CopiesStand
  <2>1. UNCHANGED <<tree, disturbed>> /\ ~mixed
    BY <1>17 DEF HandlerFails, Ending, files, judgements, JobTypes, JobMarks
  <2>2. at[k] = "copy"
    BY <1>17, JobGoesOn DEF HandlerFails, Ending, files, judgements, Places
  <2> QED
    BY <2>1, <2>2 DEF CopiesStand
<1>18. CASE EditReads
  BY <1>18 DEF EditReads, jobsIdle, JobTypes, JobMarks, JobPlaces, CopiesStand
<1>19. CASE EditWrites
  BY <1>19 DEF EditWrites, jobsIdle, JobTypes, JobMarks, JobPlaces, CopiesStand
<1>20. CASE ServerDies
  BY <1>20 DEF ServerDies, JobTypes, JobMarks, JobPlaces, CopiesStand
<1> QED
  BY <1>1, <1>2, <1>3, <1>4, <1>5, <1>6, <1>7, <1>8, <1>9, <1>10, <1>11, <1>12, <1>13, <1>14, <1>15, <1>16, <1>17, <1>18, <1>19, <1>20 DEF JobsNext, JobNext

\* A firmware is made with what its job has in the file.
LEMMA NextOwn == JobTypes /\ KindsStand /\ PrefsRestoredAlways /\ CopiesStand /\ OwnOverrides /\ [JobsNext]_jobVars => OwnOverrides'
<1> SUFFICES ASSUME JobTypes, KindsStand, PrefsRestoredAlways, CopiesStand, OwnOverrides, [JobsNext]_jobVars PROVE OwnOverrides'
  OBVIOUS
<1>1. CASE UNCHANGED jobVars
  BY <1>1 DEF jobVars, OwnOverrides
<1>2. ASSUME NEW j \in JobIds, BuildStart(j) PROVE OwnOverrides'
  <2> SUFFICES ASSUME ~mixed', NEW k \in JobIds, k \notin disturbed',
                      at'[k] \in {"restore", "copy", "after", "log"} \/ (kind'[k] = "web" /\ at'[k] = "gone")
               PROVE  saw'[k] = IF overrides'[k] THEN {k} ELSE {}
    BY DEF OwnOverrides
  <2>1. ~mixed /\ k \notin disturbed /\ KindStands(j)
    BY <1>2 DEF BuildStart, Begins, files, judgements, JobTypes, JobMarks, KindsStand
  <2>2. \/ ~(at[k] \in {"restore", "copy", "after", "log"} \/ (kind[k] = "web" /\ at[k] = "gone"))
        \/ saw[k] = IF overrides[k] THEN {k} ELSE {}
    BY <2>1 DEF OwnOverrides
  <2> QED
    BY <1>2, <2>1, <2>2, JobGoesOn DEF BuildStart, Begins, files, judgements, KindStands, Places, JobTypes, JobPlaces, JobMarks
<1>3. ASSUME NEW j \in JobIds, WebBuild(j) PROVE OwnOverrides'
  <2> SUFFICES ASSUME ~mixed', NEW k \in JobIds, k \notin disturbed',
                      at'[k] \in {"restore", "copy", "after", "log"} \/ (kind'[k] = "web" /\ at'[k] = "gone")
               PROVE  saw'[k] = IF overrides'[k] THEN {k} ELSE {}
    BY DEF OwnOverrides
  <2>1. ~mixed /\ k \notin disturbed /\ KindStands(j)
    BY <1>3 DEF WebBuild, Begins, files, judgements, JobTypes, JobMarks, KindsStand
  <2>2. \/ ~(at[k] \in {"restore", "copy", "after", "log"} \/ (kind[k] = "web" /\ at[k] = "gone"))
        \/ saw[k] = IF overrides[k] THEN {k} ELSE {}
    BY <2>1 DEF OwnOverrides
  <2> QED
    BY <1>3, <2>1, <2>2, JobGoesOn DEF WebBuild, Begins, files, judgements, KindStands, Places, JobTypes, JobPlaces, JobMarks
<1>4. ASSUME NEW j \in JobIds, FlashStart(j) PROVE OwnOverrides'
  <2> SUFFICES ASSUME ~mixed', NEW k \in JobIds, k \notin disturbed',
                      at'[k] \in {"restore", "copy", "after", "log"} \/ (kind'[k] = "web" /\ at'[k] = "gone")
               PROVE  saw'[k] = IF overrides'[k] THEN {k} ELSE {}
    BY DEF OwnOverrides
  <2>1. ~mixed /\ k \notin disturbed /\ KindStands(j)
    BY <1>4 DEF FlashStart, Begins, files, judgements, JobTypes, JobMarks, KindsStand
  <2>2. \/ ~(at[k] \in {"restore", "copy", "after", "log"} \/ (kind[k] = "web" /\ at[k] = "gone"))
        \/ saw[k] = IF overrides[k] THEN {k} ELSE {}
    BY <2>1 DEF OwnOverrides
  <2> QED
    BY <1>4, <2>1, <2>2, JobGoesOn DEF FlashStart, Begins, files, judgements, KindStands, Places, JobTypes, JobPlaces, JobMarks
<1>5. ASSUME NEW j \in JobIds, FlashStarted(j) PROVE OwnOverrides'
  <2> SUFFICES ASSUME ~mixed', NEW k \in JobIds, k \notin disturbed',
                      at'[k] \in {"restore", "copy", "after", "log"} \/ (kind'[k] = "web" /\ at'[k] = "gone")
               PROVE  saw'[k] = IF overrides'[k] THEN {k} ELSE {}
    BY DEF OwnOverrides
  <2>1. ~mixed /\ k \notin disturbed /\ KindStands(j)
    BY <1>5 DEF FlashStarted, files, judgements, JobTypes, JobMarks, KindsStand
  <2>2. \/ ~(at[k] \in {"restore", "copy", "after", "log"} \/ (kind[k] = "web" /\ at[k] = "gone"))
        \/ saw[k] = IF overrides[k] THEN {k} ELSE {}
    BY <2>1 DEF OwnOverrides
  <2> QED
    BY <1>5, <2>1, <2>2, JobGoesOn DEF FlashStarted, files, judgements, KindStands, Places, JobTypes, JobPlaces, JobMarks
<1>6. ASSUME NEW j \in JobIds, FlashNotStarted(j) PROVE OwnOverrides'
  <2> SUFFICES ASSUME ~mixed', NEW k \in JobIds, k \notin disturbed',
                      at'[k] \in {"restore", "copy", "after", "log"} \/ (kind'[k] = "web" /\ at'[k] = "gone")
               PROVE  saw'[k] = IF overrides'[k] THEN {k} ELSE {}
    BY DEF OwnOverrides
  <2>1. ~mixed /\ k \notin disturbed /\ KindStands(j)
    BY <1>6 DEF FlashNotStarted, files, judgements, JobTypes, JobMarks, KindsStand
  <2>2. \/ ~(at[k] \in {"restore", "copy", "after", "log"} \/ (kind[k] = "web" /\ at[k] = "gone"))
        \/ saw[k] = IF overrides[k] THEN {k} ELSE {}
    BY <2>1 DEF OwnOverrides
  <2> QED
    BY <1>6, <2>1, <2>2, JobGoesOn DEF FlashNotStarted, files, judgements, KindStands, Places, JobTypes, JobPlaces, JobMarks
<1>7. ASSUME NEW j \in JobIds, PrefsRead(j) PROVE OwnOverrides'
  <2> SUFFICES ASSUME ~mixed', NEW k \in JobIds, k \notin disturbed',
                      at'[k] \in {"restore", "copy", "after", "log"} \/ (kind'[k] = "web" /\ at'[k] = "gone")
               PROVE  saw'[k] = IF overrides'[k] THEN {k} ELSE {}
    BY DEF OwnOverrides
  <2>1. ~mixed /\ k \notin disturbed /\ KindStands(j)
    BY <1>7 DEF PrefsRead, Unworked, files, JobTypes, JobMarks, KindsStand
  <2>2. \/ ~(at[k] \in {"restore", "copy", "after", "log"} \/ (kind[k] = "web" /\ at[k] = "gone"))
        \/ saw[k] = IF overrides[k] THEN {k} ELSE {}
    BY <2>1 DEF OwnOverrides
  <2> QED
    BY <1>7, <2>1, <2>2, JobGoesOn DEF PrefsRead, Unworked, files, KindStands, Places, JobTypes, JobPlaces, JobMarks
<1>8. ASSUME NEW j \in JobIds, PrefsRefused(j) PROVE OwnOverrides'
  <2> SUFFICES ASSUME ~mixed', NEW k \in JobIds, k \notin disturbed',
                      at'[k] \in {"restore", "copy", "after", "log"} \/ (kind'[k] = "web" /\ at'[k] = "gone")
               PROVE  saw'[k] = IF overrides'[k] THEN {k} ELSE {}
    BY DEF OwnOverrides
  <2>1. ~mixed /\ k \notin disturbed /\ KindStands(j)
    BY <1>8 DEF PrefsRefused, Unworked, files, JobTypes, JobMarks, KindsStand
  <2>2. \/ ~(at[k] \in {"restore", "copy", "after", "log"} \/ (kind[k] = "web" /\ at[k] = "gone"))
        \/ saw[k] = IF overrides[k] THEN {k} ELSE {}
    BY <2>1 DEF OwnOverrides
  <2> QED
    BY <1>8, <2>1, <2>2, JobGoesOn DEF PrefsRefused, Unworked, files, KindStands, Places, JobTypes, JobPlaces, JobMarks
<1>9. ASSUME NEW j \in JobIds, PrefsWritten(j) PROVE OwnOverrides'
  <2> SUFFICES ASSUME ~mixed', NEW k \in JobIds, k \notin disturbed',
                      at'[k] \in {"restore", "copy", "after", "log"} \/ (kind'[k] = "web" /\ at'[k] = "gone")
               PROVE  saw'[k] = IF overrides'[k] THEN {k} ELSE {}
    BY DEF OwnOverrides
  <2>1. ~mixed /\ k \notin disturbed /\ KindStands(j)
    BY <1>9 DEF PrefsWritten, Unworked, files, JobTypes, JobMarks, KindsStand
  <2>2. \/ ~(at[k] \in {"restore", "copy", "after", "log"} \/ (kind[k] = "web" /\ at[k] = "gone"))
        \/ saw[k] = IF overrides[k] THEN {k} ELSE {}
    BY <2>1 DEF OwnOverrides
  <2> QED
    BY <1>9, <2>1, <2>2, JobGoesOn DEF PrefsWritten, Unworked, files, KindStands, Places, JobTypes, JobPlaces, JobMarks
<1>10. ASSUME NEW j \in JobIds, PioRuns(j) PROVE OwnOverrides'
  <2> SUFFICES ASSUME ~mixed', NEW k \in JobIds, k \notin disturbed',
                      at'[k] \in {"restore", "copy", "after", "log"} \/ (kind'[k] = "web" /\ at'[k] = "gone")
               PROVE  saw'[k] = IF overrides'[k] THEN {k} ELSE {}
    BY DEF OwnOverrides
  <2>1. ~mixed /\ k \notin disturbed
    BY <1>10 DEF PioRuns, JobTypes, JobMarks
  <2>2. CASE k = j
    <3>1. saw'[j] = prefs.over /\ overrides'[j] = overrides[j] /\ overrides[j] \in BOOLEAN /\ at[j] = "compile"
      BY <1>10 DEF PioRuns, Unworked, JobTypes, JobMarks, JobPlaces
    <3>2. \A i \in JobIds \ {j} : ~Overridden(i)
      BY <1>10, <2>2 DEF PioRuns
    <3>3. prefs.over = {i \in JobIds : Overridden(i)} /\ (Overridden(j) <=> overrides[j])
      BY <2>1, <3>1 DEF PrefsRestoredAlways, Overridden
    <3>4. CASE overrides[j]
      BY <2>2, <3>1, <3>2, <3>3, <3>4
    <3>5. CASE ~overrides[j]
      BY <2>2, <3>1, <3>2, <3>3, <3>5
    <3> QED
      BY <3>1, <3>4, <3>5
  <2>3. CASE k # j
    BY <1>10, <2>1, <2>3, JobGoesOn DEF PioRuns, Unworked, Places, JobTypes, JobPlaces, JobMarks, OwnOverrides
  <2> QED
    BY <2>2, <2>3
<1>11. ASSUME NEW j \in JobIds, PioTimesOut(j) PROVE OwnOverrides'
  <2> SUFFICES ASSUME ~mixed', NEW k \in JobIds, k \notin disturbed',
                      at'[k] \in {"restore", "copy", "after", "log"} \/ (kind'[k] = "web" /\ at'[k] = "gone")
               PROVE  saw'[k] = IF overrides'[k] THEN {k} ELSE {}
    BY DEF OwnOverrides
  <2>1. ~mixed /\ k \notin disturbed /\ KindStands(j)
    BY <1>11 DEF PioTimesOut, Unworked, files, JobTypes, JobMarks, KindsStand
  <2>2. \/ ~(at[k] \in {"restore", "copy", "after", "log"} \/ (kind[k] = "web" /\ at[k] = "gone"))
        \/ saw[k] = IF overrides[k] THEN {k} ELSE {}
    BY <2>1 DEF OwnOverrides
  <2> QED
    BY <1>11, <2>1, <2>2, JobGoesOn DEF PioTimesOut, Unworked, files, KindStands, Places, JobTypes, JobPlaces, JobMarks
<1>12. ASSUME NEW j \in JobIds, PrefsRestored(j) PROVE OwnOverrides'
  <2> SUFFICES ASSUME ~mixed', NEW k \in JobIds, k \notin disturbed',
                      at'[k] \in {"restore", "copy", "after", "log"} \/ (kind'[k] = "web" /\ at'[k] = "gone")
               PROVE  saw'[k] = IF overrides'[k] THEN {k} ELSE {}
    BY DEF OwnOverrides
  <2>1. ~mixed /\ k \notin disturbed /\ KindStands(j)
    BY <1>12 DEF PrefsRestored, Unworked, files, JobTypes, JobMarks, KindsStand
  <2>2. \/ ~(at[k] \in {"restore", "copy", "after", "log"} \/ (kind[k] = "web" /\ at[k] = "gone"))
        \/ saw[k] = IF overrides[k] THEN {k} ELSE {}
    BY <2>1 DEF OwnOverrides
  <2> QED
    BY <1>12, <2>1, <2>2, JobGoesOn DEF PrefsRestored, Unworked, files, KindStands, Places, JobTypes, JobPlaces, JobMarks
<1>13. ASSUME NEW j \in JobIds, WebCopies(j) PROVE OwnOverrides'
  <2> SUFFICES ASSUME ~mixed', NEW k \in JobIds, k \notin disturbed',
                      at'[k] \in {"restore", "copy", "after", "log"} \/ (kind'[k] = "web" /\ at'[k] = "gone")
               PROVE  saw'[k] = IF overrides'[k] THEN {k} ELSE {}
    BY DEF OwnOverrides
  <2>1. ~mixed /\ k \notin disturbed /\ KindStands(j)
    BY <1>13 DEF WebCopies, Unworked, KindsStand
  <2>2. CASE k = j
    <3>1. tree = {} /\ ~overrides[j]
      BY <1>13, <2>1, <2>2 DEF WebCopies, CopiesStand, KindStands
    <3>2. saw'[j] = tree /\ overrides' = overrides
      BY <1>13 DEF WebCopies, Unworked, JobTypes, JobMarks
    <3> QED
      BY <2>2, <3>1, <3>2
  <2>3. CASE k # j
    BY <1>13, <2>1, <2>3, JobGoesOn DEF WebCopies, Unworked, Places, JobTypes, JobPlaces, JobMarks, OwnOverrides
  <2> QED
    BY <2>2, <2>3
<1>14. ASSUME NEW j \in JobIds, PioLeft(j) PROVE OwnOverrides'
  <2> SUFFICES ASSUME ~mixed', NEW k \in JobIds, k \notin disturbed',
                      at'[k] \in {"restore", "copy", "after", "log"} \/ (kind'[k] = "web" /\ at'[k] = "gone")
               PROVE  saw'[k] = IF overrides'[k] THEN {k} ELSE {}
    BY DEF OwnOverrides
  <2>1. ~mixed /\ k \notin disturbed /\ KindStands(j)
    BY <1>14 DEF PioLeft, Ending, files, judgements, JobTypes, JobMarks, KindsStand
  <2>2. \/ ~(at[k] \in {"restore", "copy", "after", "log"} \/ (kind[k] = "web" /\ at[k] = "gone"))
        \/ saw[k] = IF overrides[k] THEN {k} ELSE {}
    BY <2>1 DEF OwnOverrides
  <2> QED
    BY <1>14, <2>1, <2>2, JobGoesOn DEF PioLeft, Ending, files, judgements, KindStands, Places, JobTypes, JobPlaces, JobMarks
<1>15. ASSUME NEW j \in JobIds, JobSettles(j) PROVE OwnOverrides'
  <2> SUFFICES ASSUME ~mixed', NEW k \in JobIds, k \notin disturbed',
                      at'[k] \in {"restore", "copy", "after", "log"} \/ (kind'[k] = "web" /\ at'[k] = "gone")
               PROVE  saw'[k] = IF overrides'[k] THEN {k} ELSE {}
    BY DEF OwnOverrides
  <2>1. ~mixed /\ k \notin disturbed /\ KindStands(j)
    BY <1>15 DEF JobSettles, Ending, files, judgements, Settles, JobTypes, JobMarks, KindsStand
  <2>2. \/ ~(at[k] \in {"restore", "copy", "after", "log"} \/ (kind[k] = "web" /\ at[k] = "gone"))
        \/ saw[k] = IF overrides[k] THEN {k} ELSE {}
    BY <2>1 DEF OwnOverrides
  <2> QED
    BY <1>15, <2>1, <2>2, JobGoesOn DEF JobSettles, Ending, files, judgements, Settles, KindStands, Places, JobTypes, JobPlaces, JobMarks
<1>16. ASSUME NEW j \in JobIds, LogFails(j) PROVE OwnOverrides'
  <2> SUFFICES ASSUME ~mixed', NEW k \in JobIds, k \notin disturbed',
                      at'[k] \in {"restore", "copy", "after", "log"} \/ (kind'[k] = "web" /\ at'[k] = "gone")
               PROVE  saw'[k] = IF overrides'[k] THEN {k} ELSE {}
    BY DEF OwnOverrides
  <2>1. ~mixed /\ k \notin disturbed /\ KindStands(j)
    BY <1>16 DEF LogFails, Ending, files, judgements, JobTypes, JobMarks, KindsStand
  <2>2. \/ ~(at[k] \in {"restore", "copy", "after", "log"} \/ (kind[k] = "web" /\ at[k] = "gone"))
        \/ saw[k] = IF overrides[k] THEN {k} ELSE {}
    BY <2>1 DEF OwnOverrides
  <2> QED
    BY <1>16, <2>1, <2>2, JobGoesOn DEF LogFails, Ending, files, judgements, KindStands, Places, JobTypes, JobPlaces, JobMarks
<1>17. ASSUME NEW j \in JobIds, HandlerFails(j) PROVE OwnOverrides'
  <2> SUFFICES ASSUME ~mixed', NEW k \in JobIds, k \notin disturbed',
                      at'[k] \in {"restore", "copy", "after", "log"} \/ (kind'[k] = "web" /\ at'[k] = "gone")
               PROVE  saw'[k] = IF overrides'[k] THEN {k} ELSE {}
    BY DEF OwnOverrides
  <2>1. ~mixed /\ k \notin disturbed /\ KindStands(j)
    BY <1>17 DEF HandlerFails, Ending, files, judgements, JobTypes, JobMarks, KindsStand
  <2>2. \/ ~(at[k] \in {"restore", "copy", "after", "log"} \/ (kind[k] = "web" /\ at[k] = "gone"))
        \/ saw[k] = IF overrides[k] THEN {k} ELSE {}
    BY <2>1 DEF OwnOverrides
  <2> QED
    BY <1>17, <2>1, <2>2, JobGoesOn DEF HandlerFails, Ending, files, judgements, KindStands, Places, JobTypes, JobPlaces, JobMarks
<1>18. CASE EditReads
  BY <1>18 DEF EditReads, jobsIdle, JobTypes, JobMarks, JobPlaces, OwnOverrides
<1>19. CASE EditWrites
  BY <1>19 DEF EditWrites, jobsIdle, JobTypes, JobMarks, JobPlaces, OwnOverrides
<1>20. CASE ServerDies
  BY <1>20 DEF ServerDies, JobTypes, JobMarks, JobPlaces, OwnOverrides
<1> QED
  BY <1>1, <1>2, <1>3, <1>4, <1>5, <1>6, <1>7, <1>8, <1>9, <1>10, <1>11, <1>12, <1>13, <1>14, <1>15, <1>16, <1>17, <1>18, <1>19, <1>20 DEF JobsNext, JobNext

LEMMA JobsStandInductive == JobsStand /\ [JobsNext]_jobVars => JobsStand'
BY NextPlaces, NextMarks, NextFiles, NextKinds, NextPort, NextRestored, NextWindows, NextCopies, NextOwn
DEF JobsStand, JobTypes

LEMMA JobsStandImplies == JobsStand => JobsInv
<1> SUFFICES ASSUME JobsStand PROVE JobsInv
  OBVIOUS
<1>1. JobsTypeOK
  BY DEF JobsStand, JobTypes, JobFiles, JobPlaces, JobMarks, Files, Places, JobsTypeOK
<1> QED
  BY <1>1 DEF JobsStand, JobsInv

\* Whatever jobs, edits and deaths of the server in whatever order: where no window was
\* disturbed the preferences are what they were, each firmware carries its own overrides
\* and nobody else's, and the port is held by the flash that has not ended.
THEOREM JobsInvAlways == JobsSpec => []JobsInv
<1>1. JobsInit => JobsStand
  BY JobsStandInit
<1>2. JobsStand /\ [JobsNext]_jobVars => JobsStand'
  BY JobsStandInductive
<1>3. JobsStand => JobsInv
  BY JobsStandImplies
<1> QED
  BY <1>1, <1>2, <1>3, PTL DEF JobsSpec

-----------------------------------------------------------------------------
(* Captures and grinds.                                                    *)

Workers == {"idle", "refused", "begun", "locking", "launching", "launched",
            "waiting", "done", "stopped", "failed", "timeout", "raised", "over"}
ToolStates == [port : BOOLEAN, pid : BOOLEAN, stop : BOOLEAN,
               status : {"none", "running", "done", "stopped", "failed", "timeout"}]
StopRecords == [at : {"idle", "flagging", "flagged", "stopped", "not stopped"}, job : Tools \cup {NoTool}]

ToolTypes ==
  /\ worker \in [Tools -> Workers]
  /\ state \in [Tools -> ToolStates]
  /\ program \in [Tools -> {"none", "alive", "signalled"} \cup Ended]
  /\ snifferLock \in Captures \cup {NoTool}
  /\ stopper \in [Stoppers -> StopRecords]

\* What a job's worker has done to its state and its program, place by place.
WorkerStands(j) ==
  /\ (worker[j] \in {"idle", "refused"}) <=> state[j].status = "none"
  /\ worker[j] \in {"begun", "locking", "launching", "launched", "waiting", "done", "stopped",
                    "failed", "timeout", "raised"} <=> state[j].status = "running"
  /\ worker[j] \in {"idle", "refused", "begun", "locking", "launching", "raised"} => program[j] = "none"
  /\ worker[j] \in {"idle", "refused", "begun", "locking", "launching", "launched", "raised"} => ~state[j].pid
  /\ worker[j] \in {"done", "stopped", "failed", "timeout"} => program[j] \in Ended
  /\ worker[j] = "over" => program[j] \in Ended \cup {"none"}
  /\ worker[j] \in {"launched", "waiting"} /\ program[j] \in {"signalled", "killed"} => state[j].stop
  /\ worker[j] = "failed" => program[j] # "killed"
  /\ state[j].status = "failed" => program[j] # "killed"

\* The lock of the sniffer is with the capture that runs its program.
LockStands(j) ==
  /\ snifferLock = j =>
       j \in Captures /\ worker[j] \in {"launching", "launched", "waiting", "done", "stopped", "failed"}
  /\ j \in Captures /\ worker[j] \in {"launching", "launched", "waiting"} => snifferLock = j
  /\ worker[j] = "locking" => j \in Captures

\* What a stop has seen of its job, and done to it.
StopStands(c) ==
  /\ stopper[c].at \in {"flagging", "flagged", "stopped"} => stopper[c].job \in Tools /\ state[stopper[c].job].pid
  /\ stopper[c].at \in {"flagged", "stopped"} => state[stopper[c].job].stop
  /\ stopper[c].at = "stopped" => program[stopper[c].job] # "alive"

ToolsStand ==
  /\ ToolTypes
  /\ \A j \in Tools : WorkerStands(j) /\ LockStands(j)
  /\ \A c \in Stoppers : StopStands(c)

\* What a step of one job's worker or program leaves alone, and never undoes.
FeltBy(j) ==
  /\ \A k \in Tools \ {j} : worker'[k] = worker[k] /\ state'[k] = state[k] /\ program'[k] = program[k]
  /\ stopper' = stopper
  /\ state[j].pid => state'[j].pid
  /\ state[j].stop => state'[j].stop
  /\ state[j].pid /\ program[j] # "alive" => program'[j] # "alive"

LockFeltBy(j) ==
  \/ snifferLock' = snifferLock
  \/ snifferLock = NoTool /\ snifferLock' = j
  \/ snifferLock = j /\ snifferLock' = NoTool

\* A step of one job that keeps what is said of that job keeps it of them all.
LEMMA ToolFrame ==
  ASSUME ToolsStand, ToolTypes', NEW j \in Tools, FeltBy(j), LockFeltBy(j),
         WorkerStands(j)', LockStands(j)'
  PROVE  ToolsStand'
<1>1. ASSUME NEW k \in Tools PROVE WorkerStands(k)' /\ LockStands(k)'
  <2>1. CASE k = j
    BY <2>1
  <2>2. CASE k # j
    <3>1. worker'[k] = worker[k] /\ state'[k] = state[k] /\ program'[k] = program[k]
      BY <2>2 DEF FeltBy
    <3>2. WorkerStands(k)'
      BY <3>1 DEF ToolsStand, WorkerStands
    <3>3. snifferLock' = k <=> snifferLock = k
      BY <2>2, ToolsAssumption DEF LockFeltBy
    <3>4. LockStands(k)'
      BY <3>1, <3>3 DEF ToolsStand, LockStands
    <3> QED
      BY <3>2, <3>4
  <2> QED
    BY <2>1, <2>2
<1>2. ASSUME NEW c \in Stoppers PROVE StopStands(c)'
  <2>1. StopStands(c) /\ stopper'[c] = stopper[c]
    BY DEF ToolsStand, FeltBy
  <2>2. CASE stopper[c].at \notin {"flagging", "flagged", "stopped"}
    BY <2>1, <2>2 DEF StopStands
  <2>3. CASE stopper[c].at \in {"flagging", "flagged", "stopped"}
    <3>1. PICK k \in Tools : k = stopper[c].job
      BY <2>1, <2>3 DEF StopStands
    <3>2. /\ state[k].pid => state'[k].pid
          /\ state[k].stop => state'[k].stop
          /\ state[k].pid /\ program[k] # "alive" => program'[k] # "alive"
      <4>1. CASE k = j
        BY <4>1 DEF FeltBy
      <4>2. CASE k # j
        BY <4>2 DEF FeltBy
      <4> QED
        BY <4>1, <4>2
    <3> QED
      BY <2>1, <3>1, <3>2 DEF StopStands
  <2> QED
    BY <2>2, <2>3
<1> QED
  BY <1>1, <1>2 DEF ToolsStand

LEMMA ToolsStandInit == ToolsInit => ToolsStand
<1> SUFFICES ASSUME ToolsInit PROVE ToolsStand
  OBVIOUS
<1>1. NoState \in ToolStates /\ NoState.status = "none" /\ ~NoState.pid
  BY DEF NoState, ToolStates
<1>2. ToolTypes
  BY <1>1 DEF ToolsInit, ToolsFresh, ToolTypes, Workers, StopRecords
<1>3. ASSUME NEW j \in Tools PROVE WorkerStands(j) /\ LockStands(j)
  BY <1>1, ToolsAssumption DEF ToolsInit, ToolsFresh, WorkerStands, LockStands
<1>4. ASSUME NEW c \in Stoppers PROVE StopStands(c)
  BY DEF ToolsInit, ToolsFresh, StopStands
<1> QED
  BY <1>2, <1>3, <1>4 DEF ToolsStand

\* A worker goes from one place to the next.
LEMMA WorkerGoes ==
  ASSUME ToolTypes, NEW j \in Tools, NEW place \in Workers, Works(j, place)
  PROVE  /\ worker' \in [Tools -> Workers] /\ worker'[j] = place
         /\ \A k \in Tools \ {j} : worker'[k] = worker[k]
BY DEF ToolTypes, Works

\* A state dict is written key by key.
StateGoes(j, s) ==
  /\ state' \in [Tools -> ToolStates] /\ \A k \in Tools \ {j} : state'[k] = state[k]
  /\ state'[j].pid = s.pid /\ state'[j].stop = s.stop /\ state'[j].status = s.status

LEMMA StatusWritten ==
  ASSUME ToolTypes, NEW j \in Tools, NEW x \in {"none", "running", "done", "stopped", "failed", "timeout"},
         state' = [state EXCEPT ![j].status = x]
  PROVE  StateGoes(j, [pid |-> state[j].pid, stop |-> state[j].stop, status |-> x])
<1>1. state[j] \in ToolStates
  BY DEF ToolTypes
<1>2. state' = [state EXCEPT ![j] = [state[j] EXCEPT !.status = x]]
  BY DEF ToolTypes
<1>3. [state[j] EXCEPT !.status = x] \in ToolStates
  BY <1>1 DEF ToolStates
<1> QED
  BY <1>1, <1>2, <1>3 DEF StateGoes, ToolTypes, ToolStates

LEMMA PidWritten ==
  ASSUME ToolTypes, NEW j \in Tools, state' = [state EXCEPT ![j].pid = TRUE]
  PROVE  StateGoes(j, [pid |-> TRUE, stop |-> state[j].stop, status |-> state[j].status])
<1>1. state[j] \in ToolStates
  BY DEF ToolTypes
<1>2. state' = [state EXCEPT ![j] = [state[j] EXCEPT !.pid = TRUE]]
  BY DEF ToolTypes
<1>3. [state[j] EXCEPT !.pid = TRUE] \in ToolStates
  BY <1>1 DEF ToolStates
<1> QED
  BY <1>1, <1>2, <1>3 DEF StateGoes, ToolTypes, ToolStates

LEMMA PortWritten ==
  ASSUME ToolTypes, NEW j \in Tools, state' = [state EXCEPT ![j].port = j \in Captures]
  PROVE  StateGoes(j, [pid |-> state[j].pid, stop |-> state[j].stop, status |-> state[j].status])
<1> DEFINE b == j \in Captures
<1>1. state[j] \in ToolStates /\ b \in BOOLEAN
  BY DEF ToolTypes
<1>2. state' = [state EXCEPT ![j] = [state[j] EXCEPT !.port = b]]
  BY DEF ToolTypes
<1> HIDE DEF b
<1>3. [state[j] EXCEPT !.port = b] \in ToolStates
  BY <1>1 DEF ToolStates
<1> QED
  BY <1>1, <1>2, <1>3 DEF StateGoes, ToolTypes, ToolStates

LEMMA FlagWritten ==
  ASSUME ToolTypes, NEW j \in Tools, state' = [state EXCEPT ![j].stop = TRUE]
  PROVE  StateGoes(j, [pid |-> state[j].pid, stop |-> TRUE, status |-> state[j].status])
<1>1. state[j] \in ToolStates
  BY DEF ToolTypes
<1>2. state' = [state EXCEPT ![j] = [state[j] EXCEPT !.stop = TRUE]]
  BY DEF ToolTypes
<1>3. [state[j] EXCEPT !.stop = TRUE] \in ToolStates
  BY <1>1 DEF ToolStates
<1> QED
  BY <1>1, <1>2, <1>3 DEF StateGoes, ToolTypes, ToolStates

LEMMA StateStays ==
  ASSUME ToolTypes, NEW j \in Tools, state' = state
  PROVE  StateGoes(j, [pid |-> state[j].pid, stop |-> state[j].stop, status |-> state[j].status])
BY DEF StateGoes, ToolTypes, ToolStates

ProgramGoes(j, p) ==
  /\ program' \in [Tools -> {"none", "alive", "signalled"} \cup Ended] /\ program'[j] = p
  /\ \A k \in Tools \ {j} : program'[k] = program[k]

LEMMA ProgramWritten ==
  ASSUME ToolTypes, NEW j \in Tools, NEW p \in {"none", "alive", "signalled"} \cup Ended,
         program' = [program EXCEPT ![j] = p]
  PROVE  ProgramGoes(j, p)
BY DEF ToolTypes, ProgramGoes

LEMMA ProgramStays ==
  ASSUME ToolTypes, NEW j \in Tools, program' = program
  PROVE  ProgramGoes(j, program[j])
BY DEF ToolTypes, ProgramGoes

\* One job's step: where its worker, its state, its program and the lock go.
JobMoves(j, place, pid, stop, said, p) ==
  /\ worker' \in [Tools -> Workers] /\ worker'[j] = place
  /\ \A k \in Tools \ {j} : worker'[k] = worker[k]
  /\ StateGoes(j, [pid |-> pid, stop |-> stop, status |-> said])
  /\ ProgramGoes(j, p)
  /\ stopper' = stopper /\ snifferLock' \in Captures \cup {NoTool} /\ LockFeltBy(j)
  /\ state[j].pid => pid
  /\ state[j].stop => stop
  /\ state[j].pid /\ program[j] # "alive" => p # "alive"

LEMMA JobMovesKeeps ==
  ASSUME ToolsStand, NEW j \in Tools, NEW place, NEW pid, NEW stop, NEW said, NEW p,
         JobMoves(j, place, pid, stop, said, p), WorkerStands(j)', LockStands(j)'
  PROVE  ToolsStand'
<1>1. ToolTypes'
  BY DEF JobMoves, StateGoes, ProgramGoes, ToolsStand, ToolTypes
<1>2. FeltBy(j) /\ LockFeltBy(j)
  BY DEF JobMoves, StateGoes, ProgramGoes, FeltBy
<1> QED
  BY <1>1, <1>2, ToolFrame

\* A step's new places decide what is said of its job.
LEMMA JobMovesTo ==
  ASSUME ToolsStand, NEW j \in Tools, NEW place, NEW pid, NEW stop, NEW said, NEW p,
         JobMoves(j, place, pid, stop, said, p),
         place \in {"idle", "refused"} <=> said = "none",
         place \in {"begun", "locking", "launching", "launched", "waiting", "done", "stopped",
                 "failed", "timeout", "raised"} <=> said = "running",
         place \in {"idle", "refused", "begun", "locking", "launching", "raised"} => p = "none",
         place \in {"idle", "refused", "begun", "locking", "launching", "launched", "raised"} => ~pid,
         place \in {"done", "stopped", "failed", "timeout"} => p \in Ended,
         place = "over" => p \in Ended \cup {"none"},
         (place \in {"launched", "waiting"} /\ p \in {"signalled", "killed"}) => stop,
         place = "failed" => p # "killed",
         said = "failed" => p # "killed",
         LockStands(j)'
  PROVE  ToolsStand'
<1>1. /\ worker'[j] = place /\ state'[j].pid = pid /\ state'[j].stop = stop
      /\ state'[j].status = said /\ program'[j] = p
  BY DEF JobMoves, StateGoes, ProgramGoes
<1>2. WorkerStands(j)'
  BY <1>1 DEF WorkerStands
<1> QED
  BY <1>2, JobMovesKeeps

\* A job is started, or refused.
LEMMA ToolStartsKeeps ==
  ASSUME ToolsStand, NEW j \in Tools, ToolStarts(j)
  PROVE  ToolsStand'
<1>0. /\ ToolTypes /\ WorkerStands(j) /\ LockStands(j) /\ j # NoTool
      /\ worker[j] \in Workers /\ program[j] \in {"none", "alive", "signalled"} \cup Ended
  BY ToolsAssumption DEF ToolsStand, ToolTypes
<1>1. CASE Works(j, "refused") /\ UNCHANGED state
  <2>1. JobMoves(j, "refused", state[j].pid, state[j].stop, state[j].status, program[j])
    BY <1>0, <1>1, WorkerGoes, StateStays, ProgramStays DEF ToolStarts, JobMoves, Workers, ToolTypes, LockFeltBy
  <2>2. LockStands(j)'
    BY <1>0, <2>1 DEF ToolStarts, JobMoves, LockStands
  <2> QED
    BY <1>0, <2>1, <2>2, JobMovesTo DEF ToolStarts, WorkerStands
<1>2. CASE Works(j, "begun") /\ state' = [state EXCEPT ![j].status = "running"]
  <2>1. JobMoves(j, "begun", state[j].pid, state[j].stop, "running", program[j])
    BY <1>0, <1>2, WorkerGoes, StatusWritten, ProgramStays DEF ToolStarts, JobMoves, Workers, ToolTypes, LockFeltBy
  <2>2. LockStands(j)'
    BY <1>0, <2>1 DEF ToolStarts, JobMoves, LockStands
  <2> QED
    BY <1>0, <2>1, <2>2, JobMovesTo DEF ToolStarts, WorkerStands
<1> QED
  BY <1>1, <1>2 DEF ToolStarts

\* The worker lists its job.
LEMMA ListsKeeps ==
  ASSUME ToolsStand, NEW j \in Tools, Lists(j)
  PROVE  ToolsStand'
<1>0. /\ ToolTypes /\ WorkerStands(j) /\ LockStands(j) /\ j # NoTool
      /\ worker[j] \in Workers /\ program[j] \in {"none", "alive", "signalled"} \cup Ended
  BY ToolsAssumption DEF ToolsStand, ToolTypes
<1>1. PICK place \in {"locking", "launching"} : Works(j, place) /\ (place = "locking" <=> j \in Captures)
  BY DEF Lists
<1>2. JobMoves(j, place, state[j].pid, state[j].stop, state[j].status, program[j])
  BY <1>0, <1>1, WorkerGoes, PortWritten, ProgramStays DEF Lists, JobMoves, Workers, ToolTypes, LockFeltBy
<1>3. LockStands(j)'
  BY <1>0, <1>1, <1>2 DEF Lists, JobMoves, LockStands
<1> QED
  BY <1>0, <1>1, <1>2, <1>3, JobMovesTo DEF Lists, WorkerStands

\* It takes the lock of the sniffer, or raises.
LEMMA LocksSnifferKeeps ==
  ASSUME ToolsStand, NEW j \in Tools, LocksSniffer(j)
  PROVE  ToolsStand'
<1>0. /\ ToolTypes /\ WorkerStands(j) /\ LockStands(j) /\ j # NoTool
      /\ worker[j] \in Workers /\ program[j] \in {"none", "alive", "signalled"} \cup Ended
  BY ToolsAssumption DEF ToolsStand, ToolTypes
<1>1. j \in Captures
  BY <1>0 DEF LocksSniffer, LockStands
<1>2. CASE snifferLock = NoTool /\ Works(j, "launching") /\ snifferLock' = j
  <2>1. JobMoves(j, "launching", state[j].pid, state[j].stop, state[j].status, program[j])
    BY <1>0, <1>1, <1>2, WorkerGoes, StateStays, ProgramStays DEF LocksSniffer, JobMoves, Workers, ToolTypes, LockFeltBy
  <2>2. LockStands(j)'
    BY <1>0, <1>1, <1>2, <2>1 DEF JobMoves, LockStands
  <2> QED
    BY <1>0, <2>1, <2>2, JobMovesTo DEF LocksSniffer, WorkerStands
<1>3. CASE Works(j, "raised") /\ UNCHANGED snifferLock
  <2>1. JobMoves(j, "raised", state[j].pid, state[j].stop, state[j].status, program[j])
    BY <1>0, <1>3, WorkerGoes, StateStays, ProgramStays DEF LocksSniffer, JobMoves, Workers, ToolTypes, LockFeltBy
  <2>2. LockStands(j)'
    BY <1>0, <1>3, <2>1 DEF LocksSniffer, JobMoves, LockStands
  <2> QED
    BY <1>0, <2>1, <2>2, JobMovesTo DEF LocksSniffer, WorkerStands
<1> QED
  BY <1>2, <1>3 DEF LocksSniffer

\* It starts the program.
LEMMA LaunchToolKeeps ==
  ASSUME ToolsStand, NEW j \in Tools, LaunchTool(j)
  PROVE  ToolsStand'
<1>0. /\ ToolTypes /\ WorkerStands(j) /\ LockStands(j) /\ j # NoTool
      /\ worker[j] \in Workers /\ program[j] \in {"none", "alive", "signalled"} \cup Ended
  BY ToolsAssumption DEF ToolsStand, ToolTypes
<1>2. JobMoves(j, "launched", state[j].pid, state[j].stop, state[j].status, "alive")
  BY <1>0, WorkerGoes, StateStays, ProgramWritten DEF LaunchTool, JobMoves, Workers, ToolTypes, LockFeltBy, Ended, WorkerStands
<1>3. LockStands(j)'
  BY <1>0, <1>2 DEF LaunchTool, JobMoves, LockStands
<1> QED
  BY <1>0, <1>2, <1>3, JobMovesTo DEF LaunchTool, WorkerStands, Ended

\* It cannot, and raises.
LEMMA LaunchFailsKeeps ==
  ASSUME ToolsStand, NEW j \in Tools, LaunchFails(j)
  PROVE  ToolsStand'
<1>0. /\ ToolTypes /\ WorkerStands(j) /\ LockStands(j) /\ j # NoTool
      /\ worker[j] \in Workers /\ program[j] \in {"none", "alive", "signalled"} \cup Ended
  BY ToolsAssumption DEF ToolsStand, ToolTypes
<1>2. JobMoves(j, "raised", state[j].pid, state[j].stop, state[j].status, program[j])
  BY <1>0, WorkerGoes, StateStays, ProgramStays DEF LaunchFails, JobMoves, Workers, ToolTypes, LockFeltBy, Ended, WorkerStands
<1>3. LockStands(j)'
  BY <1>0, <1>2 DEF LaunchFails, JobMoves, LockStands
<1> QED
  BY <1>0, <1>2, <1>3, JobMovesTo DEF LaunchFails, WorkerStands, Ended

\* It keeps the pid.
LEMMA KnowsPidKeeps ==
  ASSUME ToolsStand, NEW j \in Tools, KnowsPid(j)
  PROVE  ToolsStand'
<1>0. /\ ToolTypes /\ WorkerStands(j) /\ LockStands(j) /\ j # NoTool
      /\ worker[j] \in Workers /\ program[j] \in {"none", "alive", "signalled"} \cup Ended
  BY ToolsAssumption DEF ToolsStand, ToolTypes
<1>2. JobMoves(j, "waiting", TRUE, state[j].stop, state[j].status, program[j])
  BY <1>0, WorkerGoes, PidWritten, ProgramStays DEF KnowsPid, JobMoves, Workers, ToolTypes, LockFeltBy, Ended, WorkerStands
<1>3. LockStands(j)'
  BY <1>0, <1>2 DEF KnowsPid, JobMoves, LockStands
<1> QED
  BY <1>0, <1>2, <1>3, JobMovesTo DEF KnowsPid, WorkerStands, Ended

\* The program ended.
LEMMA WaitReturnsKeeps ==
  ASSUME ToolsStand, NEW j \in Tools, WaitReturns(j)
  PROVE  ToolsStand'
<1>0. /\ ToolTypes /\ WorkerStands(j) /\ LockStands(j) /\ j # NoTool
      /\ worker[j] \in Workers /\ program[j] \in {"none", "alive", "signalled"} \cup Ended
  BY ToolsAssumption DEF ToolsStand, ToolTypes
<1>1. PICK place \in {"done", "stopped", "failed"} :
        Works(j, place) /\ (place = "failed" => program[j] # "ok" /\ ~state[j].stop)
  BY DEF WaitReturns
<1>2. JobMoves(j, place, state[j].pid, state[j].stop, state[j].status, program[j])
  BY <1>0, <1>1, WorkerGoes, StateStays, ProgramStays DEF WaitReturns, JobMoves, Workers, ToolTypes, LockFeltBy, Ended, WorkerStands
<1>3. LockStands(j)'
  BY <1>0, <1>1, <1>2 DEF WaitReturns, JobMoves, LockStands
<1> QED
  BY <1>0, <1>1, <1>2, <1>3, JobMovesTo DEF WaitReturns, WorkerStands, Ended

\* The time is up.
LEMMA TimeIsUpKeeps ==
  ASSUME ToolsStand, NEW j \in Tools, TimeIsUp(j)
  PROVE  ToolsStand'
<1>0. /\ ToolTypes /\ WorkerStands(j) /\ LockStands(j) /\ j # NoTool
      /\ worker[j] \in Workers /\ program[j] \in {"none", "alive", "signalled"} \cup Ended
  BY ToolsAssumption DEF ToolsStand, ToolTypes
<1>1. PICK place \in {"done", "timeout"} : Works(j, place) /\ (place = "timeout" => j \notin Captures)
  BY ToolsAssumption DEF TimeIsUp
<1>2. JobMoves(j, place, state[j].pid, state[j].stop, state[j].status, "killed")
  BY <1>0, <1>1, WorkerGoes, StateStays, ProgramWritten DEF TimeIsUp, JobMoves, Workers, ToolTypes, LockFeltBy, Ended, WorkerStands
<1>3. LockStands(j)'
  BY <1>0, <1>1, <1>2 DEF TimeIsUp, JobMoves, LockStands
<1> QED
  BY <1>0, <1>1, <1>2, <1>3, JobMovesTo DEF TimeIsUp, WorkerStands, Ended

\* The lock is given back.
LEMMA UnlocksKeeps ==
  ASSUME ToolsStand, NEW j \in Tools, Unlocks(j)
  PROVE  ToolsStand'
<1>0. /\ ToolTypes /\ WorkerStands(j) /\ LockStands(j) /\ j # NoTool
      /\ worker[j] \in Workers /\ program[j] \in {"none", "alive", "signalled"} \cup Ended
  BY ToolsAssumption DEF ToolsStand, ToolTypes
<1>2. JobMoves(j, worker[j], state[j].pid, state[j].stop, state[j].status, program[j])
  BY <1>0, WorkerGoes, StateStays, ProgramStays DEF Unlocks, JobMoves, Workers, ToolTypes, LockFeltBy, Ended, WorkerStands
<1>3. LockStands(j)'
  BY <1>0, <1>2 DEF Unlocks, JobMoves, LockStands
<1> QED
  BY <1>0, <1>2, <1>3, JobMovesTo DEF Unlocks, WorkerStands, Ended

\* The status says what the end was.
LEMMA ToolEndsKeeps ==
  ASSUME ToolsStand, NEW j \in Tools, ToolEnds(j)
  PROVE  ToolsStand'
<1>0. /\ ToolTypes /\ WorkerStands(j) /\ LockStands(j) /\ j # NoTool
      /\ worker[j] \in Workers /\ program[j] \in {"none", "alive", "signalled"} \cup Ended
  BY ToolsAssumption DEF ToolsStand, ToolTypes
<1>1. PICK s \in {"done", "stopped", "failed", "timeout"} :
        /\ state' = [state EXCEPT ![j].status = s]
        /\ s = "failed" => worker[j] \in {"raised", "failed"}
  BY <1>0 DEF ToolEnds
<1>2. JobMoves(j, "over", state[j].pid, state[j].stop, s, program[j])
  BY <1>0, <1>1, WorkerGoes, StatusWritten, ProgramStays DEF ToolEnds, JobMoves, Workers, ToolTypes, LockFeltBy, Ended, WorkerStands
<1>3. LockStands(j)'
  BY <1>0, <1>1, <1>2 DEF ToolEnds, JobMoves, LockStands
<1> QED
  BY <1>0, <1>1, <1>2, <1>3, JobMovesTo DEF ToolEnds, WorkerStands, Ended

\* The program ends by itself.
LEMMA ProgramEndsKeeps ==
  ASSUME ToolsStand, NEW j \in Tools, ProgramEnds(j)
  PROVE  ToolsStand'
<1>0. /\ ToolTypes /\ WorkerStands(j) /\ LockStands(j) /\ j # NoTool
      /\ worker[j] \in Workers /\ program[j] \in {"none", "alive", "signalled"} \cup Ended
  BY ToolsAssumption DEF ToolsStand, ToolTypes
<1>1. PICK p \in {"ok", "fault"} : program' = [program EXCEPT ![j] = p]
  BY DEF ProgramEnds
<1>2. worker[j] \in {"launched", "waiting"}
  BY <1>0 DEF ProgramEnds, WorkerStands, Workers, Ended
<1>3. JobMoves(j, worker[j], state[j].pid, state[j].stop, state[j].status, p)
  BY <1>0, <1>1, WorkerGoes, StateStays, ProgramWritten DEF ProgramEnds, JobMoves, Workers, ToolTypes, LockFeltBy, Ended, WorkerStands
<1>4. LockStands(j)'
  BY <1>0, <1>1, <1>3 DEF ProgramEnds, JobMoves, LockStands
<1> QED
  BY <1>0, <1>1, <1>2, <1>3, <1>4, JobMovesTo DEF ProgramEnds, WorkerStands, Ended

\* The program ends by the signal.
LEMMA ProgramObeysKeeps ==
  ASSUME ToolsStand, NEW j \in Tools, ProgramObeys(j)
  PROVE  ToolsStand'
<1>0. /\ ToolTypes /\ WorkerStands(j) /\ LockStands(j) /\ j # NoTool
      /\ worker[j] \in Workers /\ program[j] \in {"none", "alive", "signalled"} \cup Ended
  BY ToolsAssumption DEF ToolsStand, ToolTypes
<1>1. PICK p \in {"ok", "killed"} : program' = [program EXCEPT ![j] = p]
  BY DEF ProgramObeys
<1>2. worker[j] \in {"launched", "waiting"}
  BY <1>0 DEF ProgramObeys, WorkerStands, Workers, Ended
<1>3. JobMoves(j, worker[j], state[j].pid, state[j].stop, state[j].status, p)
  BY <1>0, <1>1, WorkerGoes, StateStays, ProgramWritten DEF ProgramObeys, JobMoves, Workers, ToolTypes, LockFeltBy, Ended, WorkerStands
<1>4. LockStands(j)'
  BY <1>0, <1>1, <1>3 DEF ProgramObeys, JobMoves, LockStands
<1> QED
  BY <1>0, <1>1, <1>2, <1>3, <1>4, JobMovesTo DEF ProgramObeys, WorkerStands, Ended

\* A stop is heeded by the job it asked for.
LEMMA StopsKeep ==
  ASSUME ToolsStand, NEW c \in Stoppers, StopStep(c) \/ \E j \in Tools : StopAsks(c, j)
  PROVE  ToolsStand'
<1>0. ToolTypes /\ StopStands(c) /\ stopper[c] \in StopRecords
  BY DEF ToolsStand, ToolTypes
<1>1. ASSUME NEW j \in Tools, StopAsks(c, j) PROVE ToolsStand'
  <2>1. PICK s \in StopRecords :
          /\ stopper' = [stopper EXCEPT ![c] = s] /\ s.job = j
          /\ s.at \in {"flagging", "flagged", "stopped"} => s.at = "flagging" /\ state[j].pid
    <3>1. PICK s : /\ s = [at |-> IF state[j].status = "running" /\ state[j].pid THEN "flagging" ELSE "not stopped",
                           job |-> j]
                   /\ stopper' = [stopper EXCEPT ![c] = s]
      BY <1>1, ZenonT(60) DEF StopAsks
    <3>2. s \in StopRecords /\ s.job = j
      BY <3>1, ZenonT(60) DEF StopRecords
    <3>3. s.at \in {"flagging", "flagged", "stopped"} => s.at = "flagging" /\ state[j].pid
      BY <3>1, ZenonT(60)
    <3> QED
      BY <3>1, <3>2, <3>3, ZenonT(60)
  <2>2. stopper' \in [Stoppers -> StopRecords] /\ UNCHANGED <<worker, state, program, snifferLock>>
    <3>1. UNCHANGED <<worker, state, program, snifferLock>>
      BY <1>1, ZenonT(60) DEF StopAsks
    <3>2. stopper' \in [Stoppers -> StopRecords]
      BY <1>0, <2>1 DEF ToolTypes
    <3> QED
      BY <3>1, <3>2
  <2>3. ToolTypes'
    BY <1>0, <2>2 DEF ToolTypes
  <2>4. ASSUME NEW k \in Tools PROVE WorkerStands(k)' /\ LockStands(k)'
    BY <2>2 DEF ToolsStand, WorkerStands, LockStands
  <2>5. ASSUME NEW d \in Stoppers PROVE StopStands(d)'
    <3>1. CASE d = c
      <4>1. stopper'[d] = s
        BY <1>0, <2>1, <3>1 DEF ToolTypes
      <4> QED
        BY <2>1, <2>2, <4>1 DEF StopStands
    <3>2. CASE d # c
      <4>1. stopper'[d] = stopper[d] /\ StopStands(d)
        BY <1>0, <2>1, <3>2 DEF ToolTypes, ToolsStand
      <4> QED
        BY <2>2, <4>1 DEF StopStands
    <3> QED
      BY <3>1, <3>2
  <2> QED
    BY <2>3, <2>4, <2>5 DEF ToolsStand
<1>2. CASE StopFlags(c)
  <2>1. PICK j \in Tools : j = stopper[c].job
    BY <1>0, <1>2 DEF StopFlags, StopStands
  <2>2. StateGoes(j, [pid |-> state[j].pid, stop |-> TRUE, status |-> state[j].status])
    BY <1>0, <1>2, <2>1, FlagWritten DEF StopFlags
  <2>3. state'[j].pid = state[j].pid /\ state'[j].stop /\ state'[j].status = state[j].status
    BY <2>2 DEF StateGoes
  <2>4. /\ stopper' \in [Stoppers -> StopRecords] /\ stopper'[c].at = "flagged" /\ stopper'[c].job = j
        /\ \A d \in Stoppers \ {c} : stopper'[d] = stopper[d]
    <3>1. stopper' = [stopper EXCEPT ![c] = [stopper[c] EXCEPT !.at = "flagged"]]
      BY <1>0, <1>2 DEF StopFlags, ToolTypes
    <3>2. [stopper[c] EXCEPT !.at = "flagged"] \in StopRecords
      BY <1>0 DEF StopRecords
    <3> QED
      BY <1>0, <2>1, <3>1, <3>2 DEF ToolTypes, StopRecords
  <2>5. ToolTypes'
    BY <1>0, <1>2, <2>2, <2>4 DEF StopFlags, StateGoes, ToolTypes
  <2>6. ASSUME NEW k \in Tools PROVE WorkerStands(k)' /\ LockStands(k)'
    <3>1. WorkerStands(k) /\ LockStands(k) /\ UNCHANGED <<worker, program, snifferLock>>
      BY <1>2 DEF StopFlags, ToolsStand
    <3>2. /\ state'[k].pid = state[k].pid /\ state'[k].status = state[k].status
          /\ state[k].stop => state'[k].stop
      <4>1. CASE k = j
        BY <2>3, <4>1
      <4>2. CASE k # j
        BY <2>2, <4>2 DEF StateGoes
      <4> QED
        BY <4>1, <4>2
    <3>3. WorkerStands(k)'
      BY <3>1, <3>2 DEF WorkerStands
    <3>4. LockStands(k)'
      BY <3>1 DEF LockStands
    <3> QED
      BY <3>3, <3>4
  <2>7. ASSUME NEW d \in Stoppers PROVE StopStands(d)'
    <3>1. CASE d = c
      BY <1>0, <1>2, <2>1, <2>3, <2>4, <3>1 DEF StopFlags, StopStands
    <3>2. CASE d # c /\ stopper[d].at \notin {"flagging", "flagged", "stopped"}
      BY <2>4, <3>2 DEF StopStands
    <3>3. CASE d # c /\ stopper[d].at \in {"flagging", "flagged", "stopped"}
      <4>1. PICK k \in Tools : k = stopper[d].job /\ StopStands(d)
        BY <3>3 DEF ToolsStand, StopStands
      <4>2. (state[k].pid => state'[k].pid) /\ (state[k].stop => state'[k].stop)
        <5>1. CASE k = j
          BY <2>3, <5>1
        <5>2. CASE k # j
          BY <2>2, <5>2 DEF StateGoes
        <5> QED
          BY <5>1, <5>2
      <4> QED
        BY <1>2, <2>4, <3>3, <4>1, <4>2 DEF StopFlags, StopStands
    <3> QED
      BY <3>1, <3>2, <3>3
  <2> QED
    BY <2>5, <2>6, <2>7 DEF ToolsStand
<1>3. CASE StopSignals(c)
  <2>1. PICK j \in Tools : j = stopper[c].job /\ state[j].pid /\ state[j].stop
    BY <1>0, <1>3 DEF StopSignals, StopStands
  <2>2. PICK p \in {"none", "alive", "signalled"} \cup Ended :
          /\ program' = [program EXCEPT ![j] = p]
          /\ p = IF program[j] = "alive" THEN "signalled" ELSE program[j]
    BY <1>0, <1>3, <2>1 DEF StopSignals, ToolTypes
  <2>3. ProgramGoes(j, p)
    BY <1>0, <2>2, ProgramWritten
  <2>4. /\ stopper' \in [Stoppers -> StopRecords] /\ stopper'[c].at = "stopped" /\ stopper'[c].job = j
        /\ \A d \in Stoppers \ {c} : stopper'[d] = stopper[d]
    <3>1. stopper' = [stopper EXCEPT ![c] = [stopper[c] EXCEPT !.at = "stopped"]]
      BY <1>0, <1>3 DEF StopSignals, ToolTypes
    <3>2. [stopper[c] EXCEPT !.at = "stopped"] \in StopRecords
      BY <1>0 DEF StopRecords
    <3> QED
      BY <1>0, <2>1, <3>1, <3>2 DEF ToolTypes, StopRecords
  <2>5. ToolTypes'
    BY <1>0, <1>3, <2>3, <2>4 DEF StopSignals, ProgramGoes, ToolTypes
  <2>6. ASSUME NEW k \in Tools PROVE WorkerStands(k)' /\ LockStands(k)'
    <3>1. WorkerStands(k) /\ LockStands(k) /\ UNCHANGED <<worker, state, snifferLock>>
      BY <1>3 DEF StopSignals, ToolsStand
    <3>2. CASE k = j
      BY <2>1, <2>2, <2>3, <3>1, <3>2 DEF ProgramGoes, WorkerStands, LockStands, Ended
    <3>3. CASE k # j
      BY <2>3, <3>1, <3>3 DEF ProgramGoes, WorkerStands, LockStands
    <3> QED
      BY <3>2, <3>3
  <2>7. ASSUME NEW d \in Stoppers PROVE StopStands(d)'
    <3>1. CASE d = c
      BY <1>3, <2>1, <2>2, <2>3, <2>4, <3>1 DEF StopSignals, ProgramGoes, StopStands
    <3>2. CASE d # c /\ stopper[d].at \notin {"flagging", "flagged", "stopped"}
      BY <2>4, <3>2 DEF StopStands
    <3>3. CASE d # c /\ stopper[d].at \in {"flagging", "flagged", "stopped"}
      <4>1. PICK k \in Tools : k = stopper[d].job /\ StopStands(d)
        BY <3>3 DEF ToolsStand, StopStands
      <4>2. program[k] # "alive" => program'[k] # "alive"
        <5>1. CASE k = j
          BY <2>2, <2>3, <5>1 DEF ProgramGoes
        <5>2. CASE k # j
          BY <2>3, <5>2 DEF ProgramGoes
        <5> QED
          BY <5>1, <5>2
      <4> QED
        BY <1>3, <2>4, <3>3, <4>1, <4>2 DEF StopSignals, StopStands
    <3> QED
      BY <3>1, <3>2, <3>3
  <2> QED
    BY <2>5, <2>6, <2>7 DEF ToolsStand
<1> QED
  BY <1>1, <1>2, <1>3 DEF StopStep

\* No action of ToolsNext breaks what is said of the jobs and the stops.
LEMMA ToolsStandInductive == ToolsStand /\ [ToolsNext]_toolVars => ToolsStand'
<1> SUFFICES ASSUME ToolsStand, [ToolsNext]_toolVars PROVE ToolsStand'
  OBVIOUS
<1>1. CASE UNCHANGED toolVars
  <2>1. ToolTypes'
    BY <1>1 DEF toolVars, ToolsStand, ToolTypes
  <2>2. ASSUME NEW j \in Tools PROVE WorkerStands(j)' /\ LockStands(j)'
    BY <1>1 DEF toolVars, ToolsStand, WorkerStands, LockStands
  <2>3. ASSUME NEW c \in Stoppers PROVE StopStands(c)'
    BY <1>1 DEF toolVars, ToolsStand, StopStands
  <2> QED
    BY <2>1, <2>2, <2>3 DEF ToolsStand
<1>2. ASSUME NEW j \in Tools, ToolStarts(j) \/ ToolStep(j) \/ TimeIsUp(j) \/ ProgramEnds(j)
      PROVE  ToolsStand'
  BY <1>2, ToolStartsKeeps, ListsKeeps, LocksSnifferKeeps, LaunchToolKeeps, LaunchFailsKeeps, KnowsPidKeeps,
     WaitReturnsKeeps, TimeIsUpKeeps, UnlocksKeeps, ToolEndsKeeps, ProgramEndsKeeps, ProgramObeysKeeps
  DEF ToolStep
<1>3. ASSUME NEW c \in Stoppers, StopStep(c) \/ \E j \in Tools : StopAsks(c, j)
      PROVE  ToolsStand'
  BY <1>3, StopsKeep
<1> QED
  BY <1>1, <1>2, <1>3 DEF ToolsNext

\* The invariant is strong enough for everything that is said of the jobs.
LEMMA ToolsStandImplies == ToolsStand => ToolsInv
<1> SUFFICES ASSUME ToolsStand PROVE ToolsInv
  OBVIOUS
<1>1. ToolsTypeOK
  BY DEF ToolsStand, ToolTypes, ToolsTypeOK, Workers, ToolStates, StopRecords
<1>2. OneSnifferOwner
  <2> DEFINE O == {j \in Captures : program[j] \in {"alive", "signalled"}}
  <2>1. ASSUME NEW j \in O PROVE j = snifferLock
    <3>1. j \in Tools /\ j \in Captures /\ program[j] \in {"alive", "signalled"} /\ worker[j] \in Workers
      BY DEF Tools, ToolsStand, ToolTypes
    <3>2. WorkerStands(j) /\ LockStands(j)
      BY <3>1 DEF ToolsStand
    <3>3. worker[j] \in {"launched", "waiting"}
      BY <3>1, <3>2 DEF WorkerStands, Workers, Ended
    <3> QED
      BY <3>1, <3>2, <3>3 DEF LockStands
  <2>2. O \subseteq {snifferLock}
    BY <2>1
  <2>3. IsFiniteSet({snifferLock}) /\ Cardinality({snifferLock}) = 1
    BY FS_Singleton
  <2>4. Cardinality(O) <= 1
    BY <2>2, <2>3, FS_Subset
  <2> QED
    BY <2>4 DEF OneSnifferOwner
<1>3. ASSUME NEW j \in Tools, state[j].status \notin {"none", "running"}
      PROVE  program[j] \notin {"alive", "signalled"} /\ snifferLock # j
  <2>1. worker[j] \in Workers /\ WorkerStands(j) /\ LockStands(j)
    BY DEF ToolsStand, ToolTypes
  <2>2. worker[j] = "over"
    BY <1>3, <2>1 DEF WorkerStands, Workers
  <2> QED
    BY <2>1, <2>2 DEF WorkerStands, LockStands, Ended
<1>4. StopIsNotFault
  BY DEF ToolsStand, WorkerStands, StopIsNotFault
<1>5. StopsAreHeeded
  BY DEF ToolsStand, StopStands, StopsAreHeeded
<1> QED
  BY <1>1, <1>2, <1>3, <1>4, <1>5 DEF EndedLeavesNothing, ToolsInv

\* Whatever jobs, stops and programs do in whatever order: one capture reads the sniffer
\* place a time, a job seen to have ended left neither its program nor the lock behind, a
\* program stop() killed is no fault, and a stop that says so reached its program.
THEOREM ToolsInvAlways == ToolsSpec => []ToolsInv
<1>1. ToolsInit => ToolsStand
  BY ToolsStandInit
<1>2. ToolsStand /\ [ToolsNext]_toolVars => ToolsStand'
  BY ToolsStandInductive
<1>3. ToolsStand => ToolsInv
  BY ToolsStandImplies
<1> QED
  BY <1>1, <1>2, <1>3, PTL DEF ToolsSpec

=============================================================================
