------------------------------- MODULE MessageHub -------------------------------
(***************************************************************************)
(* The broadcast hub behind the /ws socket (web/ws/hub.py) and one device  *)
(* action that reports through it (web/services/activity.py): `started`    *)
(* before the body, a heartbeat and the lines of the worker thread while   *)
(* it runs, `done` after it.  Each publish walks over a copy of the set of *)
(* connections and waits in every send, so the walks of the action, of its *)
(* heartbeat and of its lines interleave, while connections come, go and   *)
(* break.                                                                  *)
(***************************************************************************)
EXTENDS Naturals, Sequences, FiniteSets

CONSTANTS
  NoPeer,
  Peers,      \* websocket connections
  Lines,      \* lines of the worker thread
  MaxBeats    \* heartbeats

ASSUME HubAssumption ==
  NoPeer \notin Peers /\ MaxBeats \in Nat /\ {"action", "heartbeat"} \cap Lines = {}

VARIABLES
  conns,      \* _conns
  topics,     \* the connections subscribed to action.update
  broken,     \* peers whose sends raise
  got,        \* per peer: the kinds of the frames it was sent, without the beats and
              \* lines between its first frame and `done`
  action,     \* "new", "starts", "body", "stops", "ends", "over"
  heartbeat,  \* "off", "sleeps", "publishes", "over"
  beats,      \* heartbeats begun
  lines,      \* lines begun
  pub,        \* per publish under way: the peers still to come, the one being
              \* sent to, the dead ones
  heard,      \* peers that were connected and subscribed when `done` began, and
              \* have been so since
  cut         \* the heartbeat was cancelled inside a publish

hubVars == <<conns, topics, broken, got, action, heartbeat, beats, lines, pub, heard, cut>>

Publishers == {"action", "heartbeat"} \cup Lines
Quiet == [busy |-> FALSE, todo |-> {}, to |-> NoPeer, dead |-> {}]

HubInit ==
  /\ conns = {} /\ topics = {} /\ broken = {}
  /\ got = [p \in Peers |-> <<>>]
  /\ action = "new" /\ heartbeat = "off"
  /\ beats = 0 /\ lines = {}
  /\ pub = [w \in Publishers |-> Quiet]
  /\ heard = {} /\ cut = FALSE

-----------------------------------------------------------------------------
(* Connections.                                                            *)

actionVars == <<action, heartbeat, beats, lines, cut>>

Connect(p) ==
  /\ p \notin conns /\ p \notin broken
  /\ conns' = conns \cup {p}
  /\ UNCHANGED <<topics, broken, got, actionVars, pub, heard>>

Subscribe(p) ==
  /\ p \in conns \ topics
  /\ topics' = topics \cup {p}
  /\ UNCHANGED <<conns, broken, got, actionVars, pub, heard>>

Unsubscribe(p) ==
  /\ p \in topics
  /\ topics' = topics \ {p} /\ heard' = heard \ {p}
  /\ UNCHANGED <<conns, broken, got, actionVars, pub>>

\* The peer is gone: its handler removes it some time later, unless a publish does.
Breaks(p) ==
  /\ p \in conns \ broken
  /\ broken' = broken \cup {p} /\ heard' = heard \ {p}
  /\ UNCHANGED <<conns, topics, got, actionVars, pub>>

HandlerRemoves(p) ==
  /\ p \in conns \cap broken
  /\ conns' = conns \ {p}
  /\ UNCHANGED <<topics, broken, got, actionVars, pub, heard>>

-----------------------------------------------------------------------------
(* publish.                                                                *)

Kind(w) == IF w = "action" THEN IF action = "starts" THEN "started" ELSE "done"
           ELSE IF w = "heartbeat" THEN "beat" ELSE "line"

\* Frames that the order is judged by.
Telling(frames, kind) ==
  kind \in {"started", "done"} \/ frames = <<>> \/ \E i \in DOMAIN frames : frames[i] = "done"

\* The walk of w begins over the connections of this moment.
Publishes(w) == pub' = [pub EXCEPT ![w] = [Quiet EXCEPT !.busy = TRUE, !.todo = conns]]

\* The topic is looked at when the connection's turn comes.
Sends(w, p) ==
  /\ pub[w].busy /\ pub[w].to = NoPeer /\ p \in pub[w].todo
  /\ IF p \in topics
     THEN /\ pub' = [pub EXCEPT ![w] = [pub[w] EXCEPT !.todo = @ \ {p}, !.to = p]]
          /\ got' = IF p \notin broken /\ Telling(got[p], Kind(w))
                    THEN [got EXCEPT ![p] = Append(@, Kind(w))] ELSE got
     ELSE /\ pub' = [pub EXCEPT ![w] = [pub[w] EXCEPT !.todo = @ \ {p}]]
          /\ UNCHANGED got
  /\ UNCHANGED <<conns, topics, broken, actionVars, heard>>

\* Fault: a send that raises ends the publish.
SendEndsUncaught(w) ==
  /\ pub[w].to # NoPeer
  /\ pub' = [pub EXCEPT ![w] =
               IF pub[w].to \in broken
               THEN [pub[w] EXCEPT !.to = NoPeer, !.dead = @ \cup {pub[w].to}, !.todo = {}]
               ELSE [pub[w] EXCEPT !.to = NoPeer]]
  /\ UNCHANGED <<conns, topics, broken, got, actionVars, heard>>

SendEnds(w) ==
  /\ pub[w].to # NoPeer
  /\ pub' = [pub EXCEPT ![w] =
               IF pub[w].to \in broken
               THEN [pub[w] EXCEPT !.to = NoPeer, !.dead = @ \cup {pub[w].to}]
               ELSE [pub[w] EXCEPT !.to = NoPeer]]
  /\ UNCHANGED <<conns, topics, broken, got, actionVars, heard>>

Walked(w) == pub[w].busy /\ pub[w].to = NoPeer /\ pub[w].todo = {}

\* The dead are removed when the walk is over.
PublishReturns(w) ==
  /\ Walked(w)
  /\ conns' = conns \ pub[w].dead
  /\ pub' = [pub EXCEPT ![w] = Quiet]

-----------------------------------------------------------------------------
(* Activity.                                                               *)

peerVars == <<topics, broken, got>>

Enter ==
  /\ action = "new"
  /\ action' = "starts"
  /\ Publishes("action")
  /\ UNCHANGED <<conns, peerVars, heartbeat, beats, lines, heard, cut>>

BodyBegins ==
  /\ action = "starts" /\ PublishReturns("action")
  /\ action' = "body" /\ heartbeat' = "sleeps"
  /\ UNCHANGED <<peerVars, beats, lines, heard, cut>>

\* line() and phase(), from the worker thread: a task of its own publishes.
WorkerLine(n) ==
  /\ action = "body" /\ n \notin lines
  /\ lines' = lines \cup {n}
  /\ Publishes(n)
  /\ UNCHANGED <<conns, peerVars, action, heartbeat, beats, heard, cut>>

LineReturns(n) ==
  /\ PublishReturns(n)
  /\ UNCHANGED <<peerVars, actionVars, heard>>

HeartbeatPublishes ==
  /\ heartbeat = "sleeps" /\ beats < MaxBeats
  /\ heartbeat' = "publishes" /\ beats' = beats + 1
  /\ Publishes("heartbeat")
  /\ UNCHANGED <<conns, peerVars, action, lines, heard, cut>>

HeartbeatReturns ==
  /\ heartbeat = "publishes" /\ PublishReturns("heartbeat")
  /\ heartbeat' = "sleeps"
  /\ UNCHANGED <<peerVars, action, beats, lines, heard, cut>>

\* The heartbeat is cancelled wherever it is, even in the middle of a publish,
\* whose dead connections then stay.
Exit ==
  /\ action = "body"
  /\ action' = "stops"
  /\ heartbeat' = "over"
  /\ pub' = [pub EXCEPT !["heartbeat"] = Quiet]
  /\ cut' = (cut \/ pub["heartbeat"].busy)
  /\ UNCHANGED <<conns, peerVars, beats, lines, heard>>

DonePublishes ==
  /\ action = "stops"
  /\ action' = "ends"
  /\ Publishes("action")
  /\ heard' = (conns \cap topics) \ broken
  /\ UNCHANGED <<conns, peerVars, heartbeat, beats, lines, cut>>

DoneReturns ==
  /\ action = "ends" /\ PublishReturns("action")
  /\ action' = "over" /\ heartbeat' = "over"
  /\ UNCHANGED <<peerVars, beats, lines, heard, cut>>

-----------------------------------------------------------------------------
HubNext ==
  \/ \E p \in Peers : Connect(p) \/ Subscribe(p) \/ Unsubscribe(p) \/ Breaks(p)
                      \/ HandlerRemoves(p)
  \/ \E w \in Publishers : (\E p \in Peers : Sends(w, p)) \/ SendEnds(w)
  \/ \E n \in Lines : WorkerLine(n) \/ LineReturns(n)
  \/ Enter \/ BodyBegins \/ HeartbeatPublishes \/ HeartbeatReturns
  \/ Exit \/ DonePublishes \/ DoneReturns

HubSpec == HubInit /\ [][HubNext]_hubVars

-----------------------------------------------------------------------------
(* Properties.                                                             *)

HubTypeOK ==
  /\ conns \subseteq Peers /\ topics \subseteq Peers /\ broken \subseteq Peers
  /\ heard \subseteq Peers
  /\ got \in [Peers -> Seq({"started", "beat", "line", "done"})]
  /\ action \in {"new", "starts", "body", "stops", "ends", "over"}
  /\ heartbeat \in {"off", "sleeps", "publishes", "over"}
  /\ (heartbeat = "publishes" <=> pub["heartbeat"].busy)
  /\ beats \in 0..MaxBeats /\ lines \subseteq Lines
  /\ pub \in [Publishers -> [busy : BOOLEAN, todo : SUBSET Peers,
                             to : Peers \cup {NoPeer}, dead : SUBSET Peers]]
  /\ cut \in BOOLEAN

\* Where a peer hears of the start, it hears of it first; a heartbeat never comes
\* after `done`, though a line that was still being published may.
ActionInOrder ==
  \A p \in Peers : \A i, j \in DOMAIN got[p] :
    /\ got[p][j] = "started" => j = 1
    /\ got[p][i] = "done" /\ i < j => got[p][j] = "line"

\* A peer that listens while `done` is published hears it once, whatever becomes
\* of the other peers and of the frames in between.
DoneIsHeard ==
  action = "over" =>
    \A p \in heard : Cardinality({i \in DOMAIN got[p] : got[p][i] = "done"}) = 1

\* A peer that a publish found dead is out of the hub when the publish is over,
\* unless it was cancelled: it does not slow down the next one.
DeadAreRemoved ==
  [][\A w \in Publishers :
       pub[w].busy /\ ~pub'[w].busy /\ ~(cut' /\ w = "heartbeat")
         => pub[w].dead \cap conns' = {}]_hubVars

\* What a listener is told of an action.
HubInv == HubTypeOK /\ ActionInOrder /\ DoneIsHeard

=============================================================================
