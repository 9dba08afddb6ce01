------------------------------ MODULE LogForwarder ------------------------------
(***************************************************************************)
(* The Datadog forwarder (web/services/datadog.py): the reader threads of  *)
(* the serial monitors that submit records, the bounded queue, the flush   *)
(* loop that pops a batch, tags it and hands it to the one worker that     *)
(* posts it, the backoff after a failure, and the end of the server.       *)
(*                                                                         *)
(* A record is the number of its append.  A batch that was popped is never *)
(* put back: whatever stops it on its way, its records are lost, and       *)
(* Datadog gets none twice.  The API key can be set and never be taken     *)
(* away (web/app.py:862), so the queue is never cleared but empty.         *)
(***************************************************************************)
EXTENDS Naturals, Sequences, FiniteSets

CONSTANTS
  Submitters,   \* reader threads of the serial monitors
  QueueMax,     \* maxlen of the queue
  BatchMax,     \* _BATCH_MAX
  Debug,        \* the records that log_to_dd leaves out
  MaxRecs       \* records submitted

ASSUME ForwarderAssumption ==
  /\ IsFiniteSet(Submitters)
  /\ QueueMax \in Nat \ {0} /\ BatchMax \in Nat \ {0} /\ MaxRecs \in Nat
  /\ Debug \subseteq 1..MaxRecs

VARIABLES
  key,        \* cfg.api_key is set
  loop,       \* the flush loop: "off", "sleeps", "tags" or "posts"; "over" when stopped
  submit,     \* per thread: "idle", or between the look at the length and the append
  queue,
  appended,   \* records appended so far
  batch,      \* popped, being tagged
  worker,     \* the payloads being posted
  backoff,    \* _backoff_until lies ahead
  intake,     \* what Datadog has received
  dropped,    \* _dropped
  evicted,    \* records the queue has pushed out
  raced,      \* the queue changed between a thread's look and its append
  troubled    \* a record was evicted, or a batch did not get through

fwdVars == <<key, loop, submit, queue, appended, batch, worker, backoff, intake,
             dropped, evicted, raced, troubled>>

FwdInit ==
  /\ key \in BOOLEAN /\ loop = "off"
  /\ submit = [t \in Submitters |-> "idle"]
  /\ queue = <<>> /\ appended = 0
  /\ batch = <<>> /\ worker = <<>> /\ backoff = FALSE
  /\ intake = <<>>
  /\ dropped = 0 /\ evicted = 0 /\ raced = FALSE /\ troubled = FALSE

Pending(t) == submit[t] # "idle"
MayLook(t) ==
  /\ ~Pending(t) /\ key
  /\ appended + Cardinality({u \in Submitters : Pending(u)}) < MaxRecs

-----------------------------------------------------------------------------
(* submit.                                                                 *)

othersOfSubmit == <<key, loop, batch, worker, backoff, intake>>

\* Fault: an off-by-one in the test of the length.
SubmitLooksLate(t) ==
  /\ MayLook(t)
  /\ submit' = [submit EXCEPT ![t] = IF Len(queue) > QueueMax THEN "full" ELSE "room"]
  /\ dropped' = IF Len(queue) > QueueMax THEN dropped + 1 ELSE dropped
  /\ UNCHANGED <<othersOfSubmit, queue, appended, evicted, raced, troubled>>

SubmitLooks(t) ==
  /\ MayLook(t)
  /\ submit' = [submit EXCEPT ![t] = IF Len(queue) >= QueueMax THEN "full" ELSE "room"]
  /\ dropped' = IF Len(queue) >= QueueMax THEN dropped + 1 ELSE dropped
  /\ UNCHANGED <<othersOfSubmit, queue, appended, evicted, raced, troubled>>

\* The deque pushes its oldest record out, whatever the thread has counted.
SubmitAppends(t) ==
  /\ Pending(t)
  /\ submit' = [submit EXCEPT ![t] = "idle"]
  /\ appended' = appended + 1
  /\ LET full == Len(queue) >= QueueMax
     IN  /\ queue' = Append(IF full THEN Tail(queue) ELSE queue, appended + 1)
         /\ evicted' = IF full THEN evicted + 1 ELSE evicted
         /\ troubled' = (troubled \/ full)
  /\ raced' = (raced \/ \E u \in Submitters \ {t} : Pending(u))
  /\ UNCHANGED <<othersOfSubmit, dropped>>

-----------------------------------------------------------------------------
(* start, stop and reload.                                                 *)

queueVars == <<submit, queue, appended, dropped, evicted, raced>>

FwdStart ==
  /\ loop = "off"
  /\ loop' = "sleeps"
  /\ UNCHANGED <<key, queueVars, batch, worker, backoff, intake, troubled>>

Reload ==
  /\ key' = TRUE
  /\ UNCHANGED <<loop, queueVars, batch, worker, backoff, intake, troubled>>

\* The task is cancelled where it waits; the worker is left to itself.
FwdStop ==
  /\ loop \in {"sleeps", "tags", "posts"}
  /\ loop' = "over"
  /\ batch' = <<>>
  /\ troubled' = (troubled \/ batch # <<>>)
  /\ UNCHANGED <<key, queueVars, worker, backoff, intake>>

-----------------------------------------------------------------------------
(* _flush_once.                                                            *)

\* The records that are shipped, in their order.
Payloads(recs) ==
  LET kept[i \in 0..Len(recs)] ==
        IF i = 0 THEN <<>>
        ELSE IF recs[i] \in Debug THEN kept[i - 1] ELSE Append(kept[i - 1], recs[i])
  IN  kept[Len(recs)]

Least(a, b) == IF a <= b THEN a ELSE b

PopOldest ==
  LET n == Least(Len(queue), BatchMax)
  IN  /\ batch' = SubSeq(queue, 1, n)
      /\ queue' = SubSeq(queue, n + 1, Len(queue))

FlushPops ==
  /\ loop = "sleeps" /\ key /\ ~backoff /\ queue # <<>>
  /\ PopOldest
  /\ loop' = "tags"
  /\ raced' = (raced \/ \E t \in Submitters : Pending(t))
  /\ UNCHANGED <<key, submit, appended, worker, backoff, intake, dropped, evicted, troubled>>

\* Without a record to ship the cycle ends here.
FlushPosts ==
  /\ loop = "tags"
  /\ batch' = <<>>
  /\ worker' = Payloads(batch)
  /\ loop' = IF Payloads(batch) = <<>> THEN "sleeps" ELSE "posts"
  /\ UNCHANGED <<key, queueVars, backoff, intake, troubled>>

\* The registry cannot be read: the loop catches it and goes on to its next cycle.
TagsFail ==
  /\ loop = "tags"
  /\ batch' = <<>> /\ troubled' = TRUE
  /\ loop' = "sleeps"
  /\ UNCHANGED <<key, queueVars, worker, backoff, intake>>

-----------------------------------------------------------------------------
(* _post_logs, and what the loop makes of its answer if it still waits.    *)

LoopAfterPost == IF loop = "posts" THEN "sleeps" ELSE loop

PostDelivers ==
  /\ worker # <<>>
  /\ intake' = intake \o worker
  /\ worker' = <<>>
  /\ loop' = LoopAfterPost
  /\ UNCHANGED <<key, queueVars, batch, backoff, troubled>>

\* 400 or 413: the batch is dropped and counted as shipped.
PostRejected ==
  /\ worker # <<>>
  /\ worker' = <<>>
  /\ loop' = LoopAfterPost
  /\ troubled' = TRUE
  /\ UNCHANGED <<key, queueVars, batch, backoff, intake>>

\* An error or a timeout: Datadog may have received the batch all the same.
PostFails ==
  /\ worker # <<>>
  /\ intake' \in {intake, intake \o worker}
  /\ worker' = <<>>
  /\ loop' = LoopAfterPost
  /\ backoff' = (loop = "posts")
  /\ troubled' = TRUE
  /\ UNCHANGED <<key, queueVars, batch>>

BackoffEnds ==
  /\ backoff
  /\ backoff' = FALSE
  /\ UNCHANGED <<key, loop, queueVars, batch, worker, intake, troubled>>

-----------------------------------------------------------------------------
PostEnds == PostDelivers \/ PostRejected \/ PostFails

FwdNext ==
  \/ \E t \in Submitters : SubmitLooks(t) \/ SubmitAppends(t)
  \/ FwdStart \/ Reload \/ FwdStop
  \/ FlushPops \/ FlushPosts \/ TagsFail \/ BackoffEnds \/ PostEnds

\* The loop is scheduled, the registry's read and the post end (30 s timeout),
\* and time passes.
FwdFairness ==
  /\ WF_fwdVars(FlushPops)
  /\ WF_fwdVars(FlushPosts \/ TagsFail)
  /\ WF_fwdVars(PostEnds)
  /\ WF_fwdVars(BackoffEnds)

FwdSpec == FwdInit /\ [][FwdNext]_fwdVars /\ FwdFairness

-----------------------------------------------------------------------------
(* Properties.                                                             *)

FwdTypeOK ==
  LET Records == Seq(1..MaxRecs) IN
  /\ key \in BOOLEAN /\ backoff \in BOOLEAN
  /\ raced \in BOOLEAN /\ troubled \in BOOLEAN
  /\ loop \in {"off", "sleeps", "tags", "posts", "over"}
  /\ submit \in [Submitters -> {"idle", "room", "full"}]
  /\ queue \in Records /\ Len(queue) <= QueueMax
  /\ batch \in Records /\ (batch # <<>> <=> loop = "tags")
  /\ worker \in Records /\ (loop = "posts" => worker # <<>>)
  /\ intake \in Records
  /\ appended \in 0..MaxRecs /\ evicted \in 0..MaxRecs
  /\ dropped \in 0..MaxRecs + Cardinality(Submitters)

\* Datadog gets the records in the order in which they were captured, and none
\* twice, though a post that timed out may have gone through.
ShippedOnce == \A i, j \in DOMAIN intake : i < j => intake[i] < intake[j]

\* As long as no record was evicted, no batch failed or was cut off: what
\* Datadog has, what is on its way and what waits are together all the records.
NothingLostOnTheWay ==
  ~troubled =>
    Payloads(intake \o worker \o batch \o queue) = Payloads([i \in 1..appended |-> i])

\* The number of dropped records on the status page is that of the evicted ones,
\* unless the queue changed between a thread's look at it and its append.
DroppedIsEvicted ==
  ~raced => dropped = evicted + Cardinality({t \in Submitters : submit[t] = "full"})

\* Under failures of the intake and of the registry the queue keeps being emptied
\* until the server stops.
QueueDrains == (queue # <<>> /\ loop # "off") ~> (queue = <<>> \/ loop = "over")

=============================================================================
