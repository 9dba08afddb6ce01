--------------------------- MODULE BuildOrchestrator ---------------------------
(***************************************************************************)
(* The firmware builds of the web application (services/builder.py over    *)
(* db/repo_builds.py): a ledger of builds, a table of the builds in        *)
(* flight, and the artifact directories whose content decides whether a    *)
(* build is needed at all.  Artifacts lie apart by environment and sha;    *)
(* pio makes them in one directory per environment, whatever the commit.   *)
(*                                                                         *)
(* A call of enqueue() holds a lock over its awaits; each build runs as a  *)
(* task whose compiler and copying run in a thread.  A call may be         *)
(* cancelled at an await, a database write of a build may fail, and the    *)
(* process may die, which leaves the ledger and the directories.  A key is *)
(* a pair of environment and sha; wait() only reads and is left out.       *)
(***************************************************************************)
EXTENDS Naturals, Sequences, FiniteSets

CONSTANTS
  None,
  Keys,        \* pairs <<env, sha>>
  Callers,     \* tasks that call enqueue()
  Images,      \* the flashable files of a build
  MaxCalls,    \* calls of enqueue()
  MaxDeaths    \* deaths of the process

ASSUME OrchestratorAssumption ==
  /\ MaxCalls \in Nat /\ MaxDeaths \in Nat
  /\ None \notin Callers

VARIABLES
  lock,        \* _enqueue_lock
  call,        \* the calls of enqueue()
  rows,        \* the builds table: row i has id i
  phase,       \* how far the task of each row is
  inflight,    \* _inflight: the row whose task is registered for a key, or 0
  dir,         \* the build that copied each image of a key's directory, or 0
  image,       \* the build that made it: whose pio had written what was copied
  made,        \* .pio/build/<env>: the build whose pio wrote each image, or 0
  linked,      \* pairs of a build that compiles and an image its pio has written
  spoiled,     \* history: builds an image of which was made over while they needed it
  orphans,     \* rows that lost their task before they were settled
  torn,        \* keys for which a build ended in the middle of its copying
  calls, deaths

orchVars == <<lock, call, rows, phase, inflight, dir, orphans, torn, calls, deaths,
             image, made, linked, spoiled>>
pioVars == <<image, made, linked, spoiled>>

Env(k) == k[1]
Sha(k) == k[2]
Envs == {Env(k) : k \in Keys}

NoCall == [at |-> "idle", todo |-> {}, key |-> None, force |-> FALSE, id |-> 0]

OrchInit ==
  /\ lock = None
  /\ call = [c \in Callers |-> NoCall]
  /\ rows = <<>> /\ phase = <<>>
  /\ inflight = [k \in Keys |-> 0]
  /\ dir = [k \in Keys |-> [f \in Images |-> 0]]
  /\ image = dir
  /\ made = [e \in Envs |-> [f \in Images |-> 0]]
  /\ linked = {} /\ spoiled = {}
  /\ orphans = {} /\ torn = {}
  /\ calls = 0 /\ deaths = 0

Builds == DOMAIN rows

Unsettled(r) == rows[r].status \in {"queued", "building"}

\* A task that is not done().
Alive(r) == phase[r] \in {"new", "compiling", "copying", "built", "broken", "settled"}

\* No more rows can be created than this.
MaxRows == MaxCalls * Cardinality(Keys)

Latest(k) ==
  LET mine == {r \in Builds : rows[r].key = k}
  IN  IF mine = {} THEN 0 ELSE CHOOSE r \in mine : \A q \in mine : q <= r

\* cached_artifact_dir: any flashable image will do.
HasImage(k) == \E f \in Images : dir[k][f] # 0

\* A build that stops now leaves a directory half written.
HalfCopied(r) == phase[r] = "copying" /\ \E f \in Images : dir[rows[r].key][f] = r

-----------------------------------------------------------------------------
(* enqueue().                                                              *)

CallGoes(c, step) == call' = [call EXCEPT ![c].at = step]

\* A call is for some environments of one commit.
EnqueueCalled(c) ==
  /\ call[c].at = "idle" /\ calls < MaxCalls
  /\ \E k \in Keys, force \in BOOLEAN : \E todo \in SUBSET {q \in Keys : Sha(q) = Sha(k)} :
       /\ todo # {}
       /\ call' = [call EXCEPT ![c] = [NoCall EXCEPT !.at = "lock", !.todo = todo, !.force = force]]
  /\ calls' = calls + 1
  /\ UNCHANGED <<lock, rows, phase, inflight, dir, orphans, torn, deaths, pioVars>>

\* Fault: the lock is left out.
EnqueueUnlocked(c) ==
  /\ call[c].at = "lock"
  /\ CallGoes(c, "next")
  /\ UNCHANGED <<lock, rows, phase, inflight, dir, orphans, torn, calls, deaths, pioVars>>

EnqueueLocked(c) ==
  /\ call[c].at = "lock" /\ lock = None
  /\ lock' = c
  /\ CallGoes(c, "next")
  /\ UNCHANGED <<rows, phase, inflight, dir, orphans, torn, calls, deaths, pioVars>>

Register(r, k) == inflight' = [inflight EXCEPT ![k] = r]

\* Fault: every registered build counts as being in flight.
BuildInFlightEver(k) == inflight[k] # 0

BuildInFlight(k) == inflight[k] # 0 /\ Alive(inflight[k])

IsCached(c, k) == ~call[c].force /\ HasImage(k)

TakesUp(c, k, step) ==
  call' = [call EXCEPT ![c].key = k, ![c].todo = @ \ {k}, ![c].at = step]

\* The next environment: cached, in flight, or to be built.  Everything up to
\* the first await of the branch is one step.
EnqueueDecides(c, k) ==
  /\ call[c].at = "next" /\ k \in call[c].todo
  /\ \/ IsCached(c, k) /\ TakesUp(c, k, "cached")
     \/ ~IsCached(c, k) /\ BuildInFlight(k) /\ TakesUp(c, k, "inflight")
     \/ ~IsCached(c, k) /\ ~BuildInFlight(k) /\ TakesUp(c, k, "create")
  /\ UNCHANGED <<lock, rows, phase, inflight, dir, orphans, torn, calls, deaths, pioVars>>

\* The row of a key that is cached: the latest one if it says so.
CachedRead(c) ==
  /\ call[c].at = "cached"
  /\ LET r == Latest(call[c].key)
     IN  CallGoes(c, IF r # 0 /\ rows[r].status \in {"success", "cached"} THEN "next" ELSE "adopt")
  /\ UNCHANGED <<lock, rows, phase, inflight, dir, orphans, torn, calls, deaths, pioVars>>

NewRow(k, status) ==
  /\ rows' = Append(rows, [key |-> k, status |-> status])
  /\ phase' = Append(phase, "none")

CachedAdopt(c) ==
  /\ call[c].at = "adopt"
  /\ NewRow(call[c].key, "cached")
  /\ CallGoes(c, "next")
  /\ UNCHANGED <<lock, inflight, dir, orphans, torn, calls, deaths, pioVars>>

\* Its row is read and returned.
InFlightRead(c) ==
  /\ call[c].at = "inflight"
  /\ CallGoes(c, "next")
  /\ UNCHANGED <<lock, rows, phase, inflight, dir, orphans, torn, calls, deaths, pioVars>>

RowCreated(c) ==
  /\ call[c].at = "create"
  /\ NewRow(call[c].key, "queued")
  /\ call' = [call EXCEPT ![c].at = "created", ![c].id = Len(rows) + 1]
  /\ UNCHANGED <<lock, inflight, dir, orphans, torn, calls, deaths, pioVars>>

\* Once the row was published, its task is created and registered at once.
TaskCreated(c) ==
  /\ call[c].at = "created"
  /\ phase' = [phase EXCEPT ![call[c].id] = "new"]
  /\ Register(call[c].id, call[c].key)
  /\ CallGoes(c, "next")
  /\ UNCHANGED <<lock, rows, dir, orphans, torn, calls, deaths, pioVars>>

EnqueueReturns(c) ==
  /\ call[c].at = "next" /\ call[c].todo = {}
  /\ lock' = IF lock = c THEN None ELSE lock
  /\ call' = [call EXCEPT ![c] = NoCall]
  /\ UNCHANGED <<rows, phase, inflight, dir, orphans, torn, calls, deaths, pioVars>>

\* Cancelled, or refused by the database: a row without a task stays queued.
EnqueueFails(c) ==
  /\ call[c].at \notin {"idle", "next"}
  /\ orphans' = orphans \cup (IF call[c].at = "created" THEN {call[c].id} ELSE {})
  /\ lock' = IF lock = c THEN None ELSE lock
  /\ call' = [call EXCEPT ![c] = NoCall]
  /\ UNCHANGED <<rows, phase, inflight, dir, torn, calls, deaths, pioVars>>

-----------------------------------------------------------------------------
(* _run_build() and default_build_fn().                                    *)

othersOfBuild == <<lock, call, calls, deaths>>

Phase(r, p) == phase' = [phase EXCEPT ![r] = p]
RowSays(r, s) == rows' = [rows EXCEPT ![r].status = s]

BuildBegins(r) ==
  /\ phase[r] = "new"
  /\ RowSays(r, "building")
  /\ Phase(r, "compiling")
  /\ UNCHANGED <<othersOfBuild, inflight, dir, orphans, torn, pioVars>>

\* pio fails, times out or finds no firmware: build_fn returns False.
CompileFails(r) ==
  /\ phase[r] = "compiling"
  /\ Phase(r, "broken")
  /\ linked' = linked \ ({r} \X Images)
  /\ UNCHANGED <<othersOfBuild, rows, inflight, dir, orphans, torn, image, made, spoiled>>

\* The build that made an image of an environment's directory and still needs it.
Needs(q, e, f) == q = made[e][f] /\ phase[q] \in {"compiling", "copying"}

MadeOver(e, f, r) ==
  /\ made' = [made EXCEPT ![e][f] = r]
  /\ spoiled' = spoiled \cup {q \in Builds : q # r /\ Needs(q, e, f)}

\* pio writes an image, or finds its own sources' one up to date, in the directory
\* that all commits of the environment share.
LinkImage(r, f) ==
  /\ phase[r] = "compiling" /\ <<r, f>> \notin linked
  /\ MadeOver(Env(rows[r].key), f, r)
  /\ linked' = linked \cup {<<r, f>>}
  /\ UNCHANGED <<othersOfBuild, rows, phase, inflight, dir, orphans, torn, image>>

\* So may any other pio: a job's, a bake's, one that a dead server left behind.  It
\* makes no difference unless the image is needed.
OthersLink(e, f) ==
  /\ \E q \in Builds : Needs(q, e, f)
  /\ MadeOver(e, f, 0)
  /\ UNCHANGED <<othersOfBuild, rows, phase, inflight, dir, orphans, torn, image, linked>>

CompileSucceeds(r) ==
  /\ phase[r] = "compiling" /\ \A f \in Images : <<r, f>> \in linked
  /\ Phase(r, "copying")
  /\ linked' = linked \ ({r} \X Images)
  /\ UNCHANGED <<othersOfBuild, rows, inflight, dir, orphans, torn, image, made, spoiled>>

\* The images are copied one by one over whatever an earlier build left, as they
\* lie in the directory of the environment now.
CopyImage(r, f) ==
  /\ phase[r] = "copying" /\ dir[rows[r].key][f] # r
  /\ dir' = [dir EXCEPT ![rows[r].key][f] = r]
  /\ image' = [image EXCEPT ![rows[r].key][f] = made[Env(rows[r].key)][f]]
  /\ UNCHANGED <<othersOfBuild, rows, phase, inflight, orphans, torn, made, linked, spoiled>>

\* Fault: an image that cannot be copied is skipped.
CopySkips(r) ==
  /\ HalfCopied(r)
  /\ Phase(r, "built")
  /\ UNCHANGED <<othersOfBuild, rows, inflight, dir, orphans, torn, pioVars>>

\* Fault: an exception of the copying is not caught.
CopyRaises(r) ==
  /\ phase[r] = "copying"
  /\ Phase(r, "raised")
  /\ torn' = IF HalfCopied(r) THEN torn \cup {rows[r].key} ELSE torn
  /\ UNCHANGED <<othersOfBuild, rows, inflight, dir, orphans, pioVars>>

CopyFails(r) ==
  /\ phase[r] = "copying"
  /\ Phase(r, "broken")
  /\ torn' = IF HalfCopied(r) THEN torn \cup {rows[r].key} ELSE torn
  /\ UNCHANGED <<othersOfBuild, rows, inflight, dir, orphans, pioVars>>

CopyEnds(r) ==
  /\ phase[r] = "copying" /\ \A f \in Images : dir[rows[r].key][f] = r
  /\ Phase(r, "built")
  /\ UNCHANGED <<othersOfBuild, rows, inflight, dir, orphans, torn, pioVars>>

RowSettled(r) ==
  /\ phase[r] \in {"built", "broken"}
  /\ RowSays(r, IF phase[r] = "built" THEN "success" ELSE "failed")
  /\ Phase(r, "settled")
  /\ UNCHANGED <<othersOfBuild, inflight, dir, orphans, torn, pioVars>>

\* After the last row was published the task takes its entry out.
BuildEnds(r) ==
  /\ phase[r] = "settled"
  /\ Phase(r, "done")
  /\ Register(0, rows[r].key)
  /\ UNCHANGED <<othersOfBuild, rows, dir, orphans, torn, pioVars>>

\* A write to the ledger fails: the task ends, its entry stays.
LedgerFails(r) ==
  /\ phase[r] \in {"new", "built", "broken"}
  /\ Phase(r, "raised")
  /\ orphans' = orphans \cup {r}
  /\ UNCHANGED <<othersOfBuild, rows, inflight, dir, torn, pioVars>>

-----------------------------------------------------------------------------
Dies ==
  /\ deaths < MaxDeaths
  /\ deaths' = deaths + 1
  /\ lock' = None
  /\ call' = [c \in Callers |-> NoCall]
  /\ inflight' = [k \in Keys |-> 0]
  /\ phase' = [r \in Builds |-> IF Alive(r) THEN "dead" ELSE phase[r]]
  /\ orphans' = orphans \cup {r \in Builds : Unsettled(r)}
  /\ torn' = torn \cup {rows[r].key : r \in {q \in Builds : HalfCopied(q)}}
  /\ linked' = {}
  /\ UNCHANGED <<rows, dir, calls, image, made, spoiled>>

EnqueueNext(c) ==
  \/ EnqueueLocked(c) \/ (\E k \in Keys : EnqueueDecides(c, k))
  \/ CachedRead(c) \/ CachedAdopt(c) \/ InFlightRead(c)
  \/ RowCreated(c) \/ TaskCreated(c) \/ EnqueueReturns(c)

BuildNext(r) ==
  \/ BuildBegins(r) \/ CompileFails(r) \/ CompileSucceeds(r)
  \/ (\E f \in Images : LinkImage(r, f) \/ CopyImage(r, f))
  \/ CopyEnds(r) \/ RowSettled(r) \/ BuildEnds(r)

OrchNext ==
  \/ \E c \in Callers : EnqueueCalled(c) \/ EnqueueNext(c) \/ EnqueueFails(c)
  \/ \E r \in Builds : BuildNext(r) \/ CopyFails(r) \/ LedgerFails(r)
  \/ \E e \in Envs, f \in Images : OthersLink(e, f)
  \/ Dies

Quiet ==
  /\ calls = MaxCalls
  /\ \A c \in Callers : call[c].at = "idle"
  /\ \A r \in Builds : ~Alive(r)

OrchSpec == OrchInit /\ [][OrchNext]_orchVars

\* Calls and builds go on; no call has to be made, cancelled or refused.
OrchFairness ==
  /\ \A c \in Callers : WF_orchVars(EnqueueNext(c))
  /\ \A r \in 1..MaxRows : WF_orchVars(r \in Builds /\ BuildNext(r))

-----------------------------------------------------------------------------
(* Properties.                                                             *)

Steps == {"idle", "lock", "next", "cached", "adopt", "inflight", "create", "created"}

OrchTypeOK ==
  /\ lock \in Callers \cup {None}
  /\ call \in [Callers -> [at : Steps, todo : SUBSET Keys, key : Keys \cup {None},
                           force : BOOLEAN, id : Nat]]
  /\ rows \in Seq([key : Keys, status : {"queued", "building", "success", "failed", "cached"}])
  /\ phase \in [DOMAIN rows -> {"none", "new", "compiling", "copying", "built", "broken",
                                "settled", "done", "raised", "dead"}]
  /\ inflight \in [Keys -> {0} \cup Builds]
  /\ dir \in [Keys -> [Images -> {0} \cup Builds]]
  /\ image \in [Keys -> [Images -> {0} \cup Builds]]
  /\ made \in [Envs -> [Images -> {0} \cup Builds]]
  /\ linked \subseteq Builds \X Images /\ spoiled \subseteq Builds
  /\ orphans \subseteq Builds /\ torn \subseteq Keys
  /\ calls \in 0..MaxCalls /\ deaths \in 0..MaxDeaths

\* Concurrent calls never have two builds of one key run into one directory
\* (builder.py:161-163), though the check and the registration lie awaits apart
\* and a build takes its entry out by itself.
OneBuilder ==
  \A r, q \in Builds : Alive(r) /\ Alive(q) /\ rows[r].key = rows[q].key => r = q

\* A row that is not settled has a task that will settle it, or a call about to
\* create one, unless a death, a cancelled call or the ledger itself took it away:
\* wait() polls such a row until its timeout.
RowHasBuilder ==
  \A r \in Builds : Unsettled(r) =>
    \/ Alive(r) \/ r \in orphans
    \/ \E c \in Callers : call[c].at = "created" /\ call[c].id = r

\* The images under a key were all copied by one build, and made by its own pio, so
\* long as no build of the key was interrupted while it copied, none copies now, and
\* no other pio made an image of the environment over between its making and its
\* copying.  An image alone is no proof of a successful build, as builder.py:57-60
\* has it: in the excepted cases it lies there and is served as cached.
CachedIsWhole ==
  \A k \in Keys :
    HasImage(k) /\ k \notin torn /\ (\A r \in Builds : rows[r].key = k => ~HalfCopied(r))
      => \E r \in Builds : \A f \in Images :
           dir[k][f] = r /\ (r \notin spoiled => image[k][f] = r)

\* A row says success only when every image was copied, and its images stay until
\* a later build of the key overwrites them.
SuccessIsWhole ==
  \A r \in Builds : rows[r].status = "success" =>
    \A f \in Images : dir[rows[r].key][f] >= r

\* What is served as a build is one, of all its images.
ImagesAreWhole == CachedIsWhole /\ SuccessIsWhole

\* An answer "in flight" is given only for a build that is on its way: one that
\* raised leaves its entry in the table, and must not keep its key from being built.
OnlyLiveBuildsDefer ==
  [][\A c \in Callers : call[c].at # "inflight" /\ call'[c].at = "inflight" =>
       \E r \in Builds : rows[r].key = call'[c].key /\ Alive(r)]_orchVars

=============================================================================
