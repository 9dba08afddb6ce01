---------------------------- MODULE ReplaySession ----------------------------
(***************************************************************************)
(* One replay session (replay/engine.py): a TCP listener that serves a     *)
(* capture to one client at a time, and the threads that write to it.      *)
(*                                                                         *)
(* The accept loop is also the reader of the client it serves.  For every  *)
(* connection it starts an injector, which drains the session's queue of   *)
(* injected packets, a thread for the local metrics and, once the client   *)
(* has asked for the node database, the stream.  These threads outlive     *)
(* their connection: they learn that it is gone when a send fails.  A call *)
(* of stop() runs beside them all.                                         *)
(*                                                                         *)
(* A step is what a thread does between two places where another one can   *)
(* be seen: a blocking call, or a field of the session that two threads    *)
(* use.  The two injection queues are alike and stand here as one; the     *)
(* packets of the stream itself, whose sending changes nothing that others *)
(* see unless it fails, are left out.                                      *)
(***************************************************************************)
EXTENDS Naturals, Sequences

CONSTANTS
  None,
  MaxConns,    \* clients that connect, one after the other
  MaxInject,   \* packets that inject() queues
  MaxStats     \* LocalStats messages

ASSUME ReplayAssumption ==
  /\ MaxConns \in Nat /\ MaxInject \in Nat /\ MaxStats \in Nat
  /\ None \notin Nat

Conns == 1..MaxConns
Packets == 1..MaxInject

Reader == 0                      \* the accept loop, as a sender of stats
Senders == Conns \cup {Reader}   \* the streams of the connections, and it

VARIABLES
  loop,      \* params.loop: another client is awaited when one has gone
  stop,      \* state.stop
  ended,     \* state.ended
  srv,       \* the listening socket
  client,    \* _client
  acc,       \* where the accept loop is
  n,         \* connections accepted so far; the last one is being served
  sock,      \* the socket of each connection, on this side
  peer,      \* whether the client being served is still at its end
  caller,    \* the call of stop()
  injected, queue,   \* packets handed to inject(), and those still queued
  injector, held,    \* the injectors, and the packet each has taken
  delivered, lost,   \* packets sent, and <<connection, packet>> of the lost
  stream, metrics,   \* the other threads of each connection
  statsLock, tx,     \* _stats_lock, and the number its holder will use
  statsSent, published   \* state.stats_sent, and the numbers sent

accVars == <<srv, client, acc, n, sock, peer>>
injVars == <<injected, queue, injector, held, delivered, lost>>
statsVars == <<statsLock, tx, statsSent, published>>
vars == <<loop, stop, ended, accVars, caller, injVars, stream, metrics, statsVars>>

Init ==
  /\ loop \in BOOLEAN
  /\ stop = FALSE /\ ended = FALSE
  /\ srv = "open" /\ client = None /\ acc = "test" /\ n = 0
  /\ sock = [c \in Conns |-> "none"]
  /\ peer = TRUE
  /\ caller = "idle"
  /\ injected = 0 /\ queue = <<>>
  /\ injector = [c \in Conns |-> "none"]
  /\ held = [c \in Conns |-> 0]
  /\ delivered = <<>> /\ lost = {}
  /\ stream = [c \in Conns |-> "none"]
  /\ metrics = [c \in Conns |-> "none"]
  /\ statsLock = None /\ tx = [t \in Senders |-> 0]
  /\ statsSent = 0 /\ published = <<>>

-----------------------------------------------------------------------------
(* Sockets.                                                                *)

\* Fault: a failed send severs the client that is connected now.
SeverCurrent(c) ==
  sock' = IF client # None /\ sock[client] = "open"
          THEN [sock EXCEPT ![client] = "shut"] ELSE sock

\* _sever: shutdown() of the connection whose send failed wakes its reader.
Sever(c) ==
  sock' = IF sock[c] = "open" THEN [sock EXCEPT ![c] = "shut"] ELSE sock

\* A stalled or vanished client may let a send fail at any time; on a socket
\* that is shut or closed every send fails.
Sendable(c) == sock[c] = "open"

-----------------------------------------------------------------------------
(* The LocalStats of the observer, sent by the reader and by streams.      *)

StatsBegin(t) ==
  /\ statsLock = None /\ statsSent < MaxStats
  /\ statsLock' = t
  /\ tx' = [tx EXCEPT ![t] = statsSent + 1]
  /\ UNCHANGED <<statsSent, published>>

StatsSend(t) ==
  /\ published' = Append(published, tx[t])
  /\ statsSent' = tx[t]
  /\ statsLock' = None
  /\ tx' = [tx EXCEPT ![t] = 0]

StatsFail(t) ==
  /\ statsLock' = None
  /\ tx' = [tx EXCEPT ![t] = 0]
  /\ UNCHANGED <<statsSent, published>>

-----------------------------------------------------------------------------
(* The accept loop, and the reader it becomes.                             *)

Acc(l) == acc' = l

othersOfAcc == <<loop, caller, injVars, stream, metrics>>

AcceptTest ==
  /\ acc = "test"
  /\ Acc(IF stop THEN "ending" ELSE "accept")
  /\ UNCHANGED <<stop, ended, srv, client, n, sock, peer, othersOfAcc, statsVars>>

\* settimeout(1.0), or an OSError: any of them ends the loop, that of a socket which
\* stop() has closed and that of a host out of descriptors alike.
AcceptReturns ==
  /\ acc = "accept"
  /\ \/ srv = "open" /\ Acc("test")
     \/ Acc(IF srv = "open" THEN "failing" ELSE "ending")
  /\ UNCHANGED <<stop, ended, srv, client, n, sock, peer, othersOfAcc, statsVars>>

Accept ==
  /\ acc = "accept" /\ srv = "open" /\ n < MaxConns
  /\ n' = n + 1
  /\ sock' = [sock EXCEPT ![n + 1] = "open"]
  /\ peer' = TRUE
  /\ Acc("accepted")
  /\ UNCHANGED <<stop, ended, srv, client, othersOfAcc, statsVars>>

\* The client vanished before its socket was configured.
ConfigureFails ==
  /\ acc = "accepted" /\ ~peer
  /\ sock' = [sock EXCEPT ![n] = "closed"]
  /\ Acc("test")
  /\ UNCHANGED <<stop, ended, srv, client, n, peer, othersOfAcc, statsVars>>

Connected ==
  /\ acc = "accepted"
  /\ client' = n
  /\ Acc("connected")
  /\ UNCHANGED <<stop, ended, srv, n, sock, peer, othersOfAcc, statsVars>>

SpawnThreads ==
  /\ acc = "connected"
  /\ injector' = [injector EXCEPT ![n] = "waiting"]
  /\ metrics' = [metrics EXCEPT ![n] = "waiting"]
  /\ Acc("reading")
  /\ UNCHANGED <<loop, stop, ended, srv, client, n, sock, peer, caller, stream,
                 injected, queue, held, delivered, lost, statsVars>>

ReaderTest ==
  /\ acc = "reading"
  /\ Acc(IF stop THEN "cleanup" ELSE "recv")
  /\ UNCHANGED <<stop, ended, srv, client, n, sock, peer, othersOfAcc, statsVars>>

\* recv() returns nothing, or raises: the socket was shut, or the peer left.
RecvEnds ==
  /\ acc = "recv" /\ (sock[n] = "shut" \/ ~peer)
  /\ Acc("cleanup")
  /\ UNCHANGED <<stop, ended, srv, client, n, sock, peer, othersOfAcc, statsVars>>

\* A request for the node database, or a message that is answered at once; an
\* answer may fail.
RecvMessage ==
  /\ acc = "recv" /\ sock[n] = "open" /\ peer
  /\ \E l \in {"database", "reading", "cleanup"} : Acc(l)
  /\ UNCHANGED <<stop, ended, srv, client, n, sock, peer, othersOfAcc, statsVars>>

DatabaseStats ==
  /\ acc = "database"
  /\ StatsBegin(Reader)
  /\ Acc("stats")
  /\ UNCHANGED <<stop, ended, srv, client, n, sock, peer, othersOfAcc>>

\* Nothing more is said of the stats than this many of them.
DatabaseBound ==
  /\ acc = "database" /\ statsSent = MaxStats
  /\ Acc("reading")
  /\ UNCHANGED <<stop, ended, srv, client, n, sock, peer, othersOfAcc, statsVars>>

\* The nodes follow, and the stream is started with the first request.
DatabaseSent ==
  /\ acc = "stats" /\ Sendable(n)
  /\ StatsSend(Reader)
  /\ stream' = IF stream[n] = "none" THEN [stream EXCEPT ![n] = "running"] ELSE stream
  /\ Acc("reading")
  /\ UNCHANGED <<loop, stop, ended, srv, client, n, sock, peer, caller, injVars, metrics>>

DatabaseFails ==
  /\ acc = "stats"
  /\ StatsFail(Reader)
  /\ Acc("cleanup")
  /\ UNCHANGED <<stop, ended, srv, client, n, sock, peer, othersOfAcc>>

Cleanup ==
  /\ acc = "cleanup"
  /\ sock' = [sock EXCEPT ![n] = "closed"]
  /\ client' = None
  /\ Acc(IF loop THEN "test" ELSE "ending")
  /\ UNCHANGED <<stop, ended, srv, n, peer, othersOfAcc, statsVars>>

\* The listener is closed, the last line logged, and `ended` is set.
AcceptLoopEnds ==
  /\ acc \in {"ending", "failing"}
  /\ srv' = "closed" /\ ended' = TRUE
  /\ Acc(IF acc = "ending" THEN "over" ELSE "failed")
  /\ UNCHANGED <<stop, client, n, sock, peer, othersOfAcc, statsVars>>

-----------------------------------------------------------------------------
(* stop().                                                                 *)

othersOfStop == <<loop, ended, client, acc, n, peer, injVars, stream, metrics, statsVars>>

StopRaisesFlag ==
  /\ caller = "idle"
  /\ stop' = TRUE
  /\ caller' = "flagged"
  /\ UNCHANGED <<srv, sock, othersOfStop>>

StopCloses ==
  /\ caller = "flagged"
  /\ srv' = "closed"
  /\ caller' = "closed"
  /\ UNCHANGED <<stop, sock, othersOfStop>>

\* Fault: the listener is closed, and the client left to notice.
StopClosesOnly ==
  /\ caller = "closed"
  /\ caller' = "done"
  /\ UNCHANGED <<stop, srv, sock, othersOfStop>>

StopLooks ==
  /\ caller = "closed"
  /\ caller' = IF client # None THEN "found" ELSE "done"
  /\ UNCHANGED <<stop, srv, sock, othersOfStop>>

\* _client is read a second time: where the accept loop has cleared it by
\* then, stop() raises AttributeError.
StopShuts ==
  /\ caller = "found"
  /\ IF client # None THEN Sever(client) /\ caller' = "done"
                      ELSE UNCHANGED sock /\ caller' = "raised"
  /\ UNCHANGED <<stop, srv, othersOfStop>>

-----------------------------------------------------------------------------
(* The threads of a connection.                                            *)

othersOfThread == <<loop, stop, srv, client, acc, n, peer, caller>>

Inject ==
  /\ injected < MaxInject
  /\ injected' = injected + 1
  /\ queue' = Append(queue, injected + 1)
  /\ UNCHANGED <<othersOfThread, ended, sock, injector, held, delivered, lost,
                 stream, metrics, statsVars>>

\* get(timeout=0.5): the flag was tested before, and may be up by now.
InjectorTakes(c) ==
  /\ injector[c] = "waiting" /\ queue # <<>>
  /\ held' = [held EXCEPT ![c] = Head(queue)]
  /\ queue' = Tail(queue)
  /\ injector' = [injector EXCEPT ![c] = "holding"]
  /\ UNCHANGED <<othersOfThread, ended, sock, injected, delivered, lost,
                 stream, metrics, statsVars>>

InjectorSends(c) ==
  /\ injector[c] = "holding" /\ Sendable(c)
  /\ delivered' = Append(delivered, held[c])
  /\ held' = [held EXCEPT ![c] = 0]
  /\ injector' = [injector EXCEPT ![c] = "waiting"]
  /\ UNCHANGED <<othersOfThread, ended, sock, injected, queue, lost,
                 stream, metrics, statsVars>>

\* Fault: the injector goes on after a send that failed.
InjectorGoesOn(c) ==
  /\ injector[c] = "holding"
  /\ lost' = lost \cup {<<c, held[c]>>}
  /\ held' = [held EXCEPT ![c] = 0]
  /\ injector' = [injector EXCEPT ![c] = "waiting"]
  /\ UNCHANGED <<othersOfThread, ended, sock, injected, queue, delivered,
                 stream, metrics, statsVars>>

\* The packet is not put back.
InjectorFails(c) ==
  /\ injector[c] = "holding"
  /\ lost' = lost \cup {<<c, held[c]>>}
  /\ held' = [held EXCEPT ![c] = 0]
  /\ injector' = [injector EXCEPT ![c] = "gone"]
  /\ UNCHANGED <<othersOfThread, ended, sock, injected, queue, delivered,
                 stream, metrics, statsVars>>

InjectorStops(c) ==
  /\ injector[c] = "waiting" /\ stop
  /\ injector' = [injector EXCEPT ![c] = "gone"]
  /\ UNCHANGED <<othersOfThread, ended, sock, injected, queue, held, delivered, lost,
                 stream, metrics, statsVars>>

StreamGoes(c, l) == stream' = [stream EXCEPT ![c] = l]

StreamFails(c) ==
  /\ stream[c] = "running"
  /\ Sever(c)
  /\ StreamGoes(c, "gone")
  /\ UNCHANGED <<othersOfThread, ended, injVars, metrics, statsVars>>

StreamStops(c) ==
  /\ stream[c] = "running" /\ stop
  /\ StreamGoes(c, "gone")
  /\ UNCHANGED <<othersOfThread, ended, sock, injVars, metrics, statsVars>>

\* Periodic stats, or the last ones at the end of a pass that is not repeated.
StreamStats(c) ==
  /\ stream[c] = "running"
  /\ StatsBegin(c)
  /\ \E l \in {"stats"} \cup (IF loop THEN {} ELSE {"last"}) : StreamGoes(c, l)
  /\ UNCHANGED <<othersOfThread, ended, sock, injVars, metrics>>

StreamStatsSent(c) ==
  /\ stream[c] \in {"stats", "last"} /\ Sendable(c)
  /\ StatsSend(c)
  /\ StreamGoes(c, IF stream[c] = "stats" THEN "running" ELSE "gone")
  /\ ended' = (ended \/ stream[c] = "last")
  /\ UNCHANGED <<othersOfThread, sock, injVars, metrics>>

StreamStatsFail(c) ==
  /\ stream[c] \in {"stats", "last"}
  /\ StatsFail(c)
  /\ Sever(c)
  /\ StreamGoes(c, "gone")
  /\ UNCHANGED <<othersOfThread, ended, injVars, metrics>>

MetricsFail(c) ==
  /\ metrics[c] = "waiting"
  /\ Sever(c)
  /\ metrics' = [metrics EXCEPT ![c] = "gone"]
  /\ UNCHANGED <<othersOfThread, ended, injVars, stream, statsVars>>

MetricsStop(c) ==
  /\ metrics[c] = "waiting" /\ stop
  /\ metrics' = [metrics EXCEPT ![c] = "gone"]
  /\ UNCHANGED <<othersOfThread, ended, sock, injVars, stream, statsVars>>

PeerLeaves ==
  /\ n > 0 /\ sock[n] = "open" /\ peer
  /\ peer' = FALSE
  /\ UNCHANGED <<loop, stop, ended, srv, client, acc, n, sock, caller, injVars,
                 stream, metrics, statsVars>>

-----------------------------------------------------------------------------
AcceptorNext ==
  \/ AcceptTest \/ AcceptReturns \/ ConfigureFails \/ Connected \/ SpawnThreads
  \/ ReaderTest \/ RecvEnds \/ DatabaseStats \/ DatabaseBound \/ DatabaseSent
  \/ DatabaseFails \/ Cleanup \/ AcceptLoopEnds

StopNext == StopCloses \/ StopLooks \/ StopShuts

InjectorNext(c) ==
  InjectorTakes(c) \/ InjectorSends(c) \/ InjectorFails(c) \/ InjectorStops(c)

StreamNext(c) ==
  \/ StreamFails(c) \/ StreamStops(c) \/ StreamStats(c)
  \/ StreamStatsSent(c) \/ StreamStatsFail(c)

MetricsNext(c) == MetricsFail(c) \/ MetricsStop(c)

\* The session is over and its threads are gone.
Finished ==
  /\ acc \in {"over", "failed"} /\ caller \in {"done", "raised"} /\ injected = MaxInject
  /\ UNCHANGED vars

Next ==
  \/ AcceptorNext \/ Accept \/ RecvMessage
  \/ StopRaisesFlag \/ StopNext
  \/ Inject \/ PeerLeaves
  \/ \E c \in Conns : InjectorNext(c) \/ StreamNext(c) \/ MetricsNext(c)
  \/ Finished

Spec == Init /\ [][Next]_vars

(***************************************************************************)
(* Threads run.  A thread whose connection is closed sends again and       *)
(* fails, one whose connection lives need not fail, and no client has to   *)
(* connect, ask or leave.                                                  *)
(***************************************************************************)
Fairness ==
  /\ WF_vars(AcceptorNext) /\ WF_vars(StopNext)
  /\ \A c \in Conns :
       /\ WF_vars(InjectorNext(c))
       /\ WF_vars(StreamStops(c) \/ (~Sendable(c) /\ StreamFails(c)))
       /\ WF_vars(StreamStatsSent(c) \/ StreamStatsFail(c))
       /\ WF_vars(MetricsStop(c))

FairSpec == Spec /\ Fairness

-----------------------------------------------------------------------------
(* Properties.                                                             *)

TypeOK ==
  /\ loop \in BOOLEAN /\ stop \in BOOLEAN /\ ended \in BOOLEAN
  /\ srv \in {"open", "closed"}
  /\ client \in Conns \cup {None}
  /\ acc \in {"test", "accept", "accepted", "connected", "reading", "recv",
              "database", "stats", "cleanup", "ending", "failing", "over", "failed"}
  /\ n \in 0..MaxConns
  /\ sock \in [Conns -> {"none", "open", "shut", "closed"}]
  /\ peer \in BOOLEAN
  /\ caller \in {"idle", "flagged", "closed", "found", "done", "raised"}
  /\ injected \in 0..MaxInject
  /\ queue \in Seq(Packets) /\ delivered \in Seq(Packets)
  /\ injector \in [Conns -> {"none", "waiting", "holding", "gone"}]
  /\ held \in [Conns -> 0..MaxInject]
  /\ lost \subseteq Conns \X Packets
  /\ stream \in [Conns -> {"none", "running", "stats", "last", "gone"}]
  /\ metrics \in [Conns -> {"none", "waiting", "gone"}]
  /\ statsLock \in Senders \cup {None}
  /\ tx \in [Senders -> 0..MaxStats]
  /\ statsSent \in 0..MaxStats
  /\ published \in Seq(1..MaxStats)

\* A connection that breaks costs at most one injected packet, the one its
\* injector had taken: the thread that sees its send fail takes no other, and
\* all the rest is left for the next client (engine.py:1001-1002, 1034-1055).
OneLossPerConnection ==
  \A x, y \in lost : x[1] = y[1] => x = y

\* Injected packets go out in the order in which they were queued, though an
\* injector of an earlier connection competes for them.
DeliveredInOrder ==
  \A i, j \in 1..Len(delivered) : i < j => delivered[i] < delivered[j]

\* The LocalStats the client gets are numbered without a gap or a repetition,
\* though a second request for the database lets the reader count beside the
\* stream (engine.py:350-353).
StatsNumberedOnce ==
  /\ statsSent = Len(published)
  /\ \A i \in 1..Len(published) : published[i] = i

\* Only stop(), or an accept() that fails, ends a session that loops: no client and no
\* failed send does (engine.py:480-481, 1061-1071).
LoopSurvives == loop /\ ended => caller # "idle" \/ acc = "failed"

\* What a session counts, sends and loses.
ReplayInv ==
  TypeOK /\ OneLossPerConnection /\ DeliveredInOrder /\ StatsNumberedOnce /\ LoopSurvives

\* A failed send severs the connection it was made on, never that of the client
\* that has connected since.
SeversItsOwn ==
  [][\A c \in Conns : sock[c] = "open" /\ sock'[c] = "shut" =>
       \/ caller = "found"
       \/ stream[c] # "gone" /\ stream'[c] = "gone"
       \/ metrics[c] # "gone" /\ metrics'[c] = "gone"]_vars

ThreadsGone ==
  \A c \in Conns : /\ injector[c] \in {"none", "gone"}
                   /\ stream[c] \in {"none", "gone"}
                   /\ metrics[c] \in {"none", "gone"}
                   /\ sock[c] \in {"none", "closed"}

\* Once stop() was called the session ends with all its threads, whatever the
\* client does: a client that is being accepted meanwhile is seen by stop(), or
\* sees the flag.
StopEnds == caller # "idle" ~> acc \in {"over", "failed"} /\ ThreadsGone

\* When the stream of a looping session dies, its connection is closed and the
\* listener free again, even if that client just sits there.
DeadStreamFreesListener ==
  \A c \in Conns : loop /\ stream[c] = "gone" ~> sock[c] = "closed"

\* A session that is stopped, or whose stream died, gives its sockets back.
ReplaySettles == StopEnds /\ DeadStreamFreesListener

=============================================================================
