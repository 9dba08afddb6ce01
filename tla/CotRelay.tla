-------------------------------- MODULE CotRelay --------------------------------
(***************************************************************************)
(* The capture relay for TAK clients (replay/cot_relay.py): one thread per *)
(* connection saves each event (a number and a manifest line under the     *)
(* lock, its XML file outside of it) and sends it to the other peers, while *)
(* stop() closes the peers and joins the threads, the process may die, and *)
(* somebody may delete files of the capture directory.                     *)
(*                                                                         *)
(* An event is <<client, n>>: the n-th of that client.  The framing of     *)
(* events in the byte stream is left out, and so is a sendall that blocks  *)
(* or is cut in two by another: an event fits the socket's buffer.         *)
(***************************************************************************)
EXTENDS Integers, Sequences, FiniteSets, Functions

CONSTANTS
  Clients,
  MaxSent,      \* events the connected clients send
  MaxStarts,    \* calls of start()
  MaxDeletes,   \* capture files deleted by hand
  MaxDeaths     \* deaths of the process

ASSUME RelayAssumption ==
  MaxSent \in Nat /\ MaxStarts \in Nat /\ MaxDeletes \in Nat /\ MaxDeaths \in Nat

VARIABLES
  relay,       \* "off", "on", "shut", "joining", "joined"
  manifestOpen,\* _manifest_fp is not None
  seq,         \* seq
  peers,       \* _peers
  handler,     \* per client, its thread: "none", "accepted", "recv", "save",
               \* "write", "aim", "send"
  link,        \* per client, its socket: "none", "open", "hung" (by the client),
               \* "closed" (by stop)
  sent, taken, \* events the client sent, and the thread has read
  number,      \* the number _save gave the event in hand
  targets,     \* peers _broadcast still has to send it to
  inbox,       \* events a client was relayed on this connection
  files,       \* XML files on disk: number -> event
  manifest,    \* lines of manifest.jsonl
  starts, deletes, deaths

cotVars == <<relay, manifestOpen, seq, peers, handler, link, sent, taken, number, targets,
             inbox, files, manifest, starts, deletes, deaths>>
clientVars == <<handler, link, sent, taken, number, targets, inbox>>
threadVars == <<number, targets, taken>>
relayDisk == <<files, manifest>>
bounded == <<starts, deletes, deaths>>
relayVars == <<relay, manifestOpen, seq>>

Unconnected ==
  /\ peers = {}
  /\ handler = [c \in Clients |-> "none"] /\ link = [c \in Clients |-> "none"]
  /\ sent = [c \in Clients |-> 0] /\ taken = [c \in Clients |-> 0]
  /\ number = [c \in Clients |-> 0] /\ targets = [c \in Clients |-> {}]
  /\ inbox = [c \in Clients |-> <<>>]

CotInit ==
  /\ relay = "off" /\ manifestOpen = FALSE /\ seq = 0
  /\ Unconnected
  /\ files = <<>> /\ manifest = <<>>
  /\ starts = 0 /\ deletes = 0 /\ deaths = 0

-----------------------------------------------------------------------------
(* start.                                                                  *)

\* Fault: the files are counted.
FilesCounted(fs) == Cardinality(DOMAIN fs)

HighestSeq(fs) ==
  IF DOMAIN fs = {} THEN 0 ELSE CHOOSE n \in DOMAIN fs : \A k \in DOMAIN fs : k <= n

RelayStarts ==
  /\ relay = "off" /\ starts < MaxStarts
  /\ relay' = "on" /\ manifestOpen' = TRUE
  /\ seq' = HighestSeq(files)
  /\ starts' = starts + 1
  /\ UNCHANGED <<peers, clientVars, relayDisk, deletes, deaths>>

\* The port is taken: the manifest is closed again.
StartFails ==
  /\ relay = "off" /\ seq # HighestSeq(files)
  /\ seq' = HighestSeq(files)
  /\ UNCHANGED <<relay, manifestOpen, peers, clientVars, relayDisk, bounded>>

-----------------------------------------------------------------------------
(* The clients.                                                            *)

ClientConnects(c) ==
  /\ relay = "on" /\ link[c] = "none"
  /\ link' = [link EXCEPT ![c] = "open"]
  /\ handler' = [handler EXCEPT ![c] = "accepted"]
  /\ UNCHANGED <<relayVars, peers, sent, threadVars, inbox, relayDisk, bounded>>

ClientSends(c) ==
  /\ link[c] = "open" /\ FoldFunction(+, 0, sent) < MaxSent
  /\ sent' = [sent EXCEPT ![c] = @ + 1]
  /\ UNCHANGED <<relayVars, peers, handler, link, threadVars, inbox, relayDisk, bounded>>

ClientHangsUp(c) ==
  /\ link[c] = "open"
  /\ link' = [link EXCEPT ![c] = "hung"]
  /\ UNCHANGED <<relayVars, peers, handler, sent, threadVars, inbox, relayDisk, bounded>>

-----------------------------------------------------------------------------
(* A connection's thread: _handle, _save, _broadcast.                      *)

Register(c) ==
  /\ handler[c] = "accepted"
  /\ handler' = [handler EXCEPT ![c] = "recv"]
  /\ peers' = peers \cup {c}
  /\ UNCHANGED <<relayVars, link, sent, threadVars, inbox, relayDisk, bounded>>

TakeEvent(c) ==
  /\ handler[c] = "recv" /\ link[c] # "closed" /\ taken[c] < sent[c]
  /\ taken' = [taken EXCEPT ![c] = @ + 1]
  /\ handler' = [handler EXCEPT ![c] = "save"]
  /\ UNCHANGED <<relayVars, peers, link, sent, number, targets, inbox, relayDisk, bounded>>

\* The end of the stream, or a socket that stop() closed.
Leave(c) ==
  /\ handler[c] = "recv"
  /\ link[c] = "closed" \/ (link[c] = "hung" /\ taken[c] = sent[c])
  /\ handler' = [handler EXCEPT ![c] = "none"]
  /\ peers' = peers \ {c}
  /\ UNCHANGED <<relayVars, link, sent, threadVars, inbox, relayDisk, bounded>>

\* Under the lock: the number and the manifest line.
SaveRow(c) ==
  /\ handler[c] = "save"
  /\ seq' = seq + 1
  /\ number' = [number EXCEPT ![c] = seq + 1]
  /\ manifest' = IF manifestOpen THEN Append(manifest, <<seq + 1, c, taken[c]>>) ELSE manifest
  /\ handler' = [handler EXCEPT ![c] = "write"]
  /\ UNCHANGED <<relay, manifestOpen, peers, link, sent, taken, targets, inbox, files, bounded>>

WriteXml(c) ==
  /\ handler[c] = "write"
  /\ files' = [n \in DOMAIN files \cup {number[c]} |->
                 IF n = number[c] THEN <<c, taken[c]>> ELSE files[n]]
  /\ handler' = [handler EXCEPT ![c] = "aim"]
  /\ UNCHANGED <<relayVars, peers, link, sent, threadVars, inbox, manifest, bounded>>

Aim(c) ==
  /\ handler[c] = "aim"
  /\ targets' = [targets EXCEPT ![c] = peers \ {c}]
  /\ handler' = [handler EXCEPT ![c] = "send"]
  /\ UNCHANGED <<relayVars, peers, link, sent, taken, number, inbox, relayDisk, bounded>>

\* A send to a socket that is gone raises, at once or later, and drops the peer.
SendTo(c, d) ==
  /\ handler[c] = "send" /\ d \in targets[c]
  /\ targets' = [targets EXCEPT ![c] = @ \ {d}]
  /\ \/ /\ link[d] = "open"
        /\ inbox' = [inbox EXCEPT ![d] = Append(@, <<c, taken[c]>>)]
        /\ UNCHANGED peers
     \/ /\ link[d] # "open"
        /\ peers' = peers \ {d}
        /\ UNCHANGED inbox
     \/ /\ link[d] = "hung"
        /\ UNCHANGED <<peers, inbox>>
  /\ UNCHANGED <<relayVars, handler, link, sent, taken, number, relayDisk, bounded>>

Relayed(c) ==
  /\ handler[c] = "send" /\ targets[c] = {}
  /\ handler' = [handler EXCEPT ![c] = "recv"]
  /\ UNCHANGED <<relayVars, peers, link, sent, threadVars, inbox, relayDisk, bounded>>

-----------------------------------------------------------------------------
(* stop.                                                                   *)

\* Fault: the manifest is closed first.
ShutdownClosesManifest ==
  /\ relay = "on"
  /\ relay' = "shut" /\ manifestOpen' = FALSE
  /\ UNCHANGED <<seq, peers, clientVars, relayDisk, bounded>>

\* No connection is accepted any more.
Shutdown ==
  /\ relay = "on"
  /\ relay' = "shut"
  /\ UNCHANGED <<manifestOpen, seq, peers, clientVars, relayDisk, bounded>>

\* Under the lock: the sockets of the peers registered by now.
ClosesPeers ==
  /\ relay = "shut"
  /\ relay' = "joining"
  /\ link' = [c \in Clients |-> IF c \in peers THEN "closed" ELSE link[c]]
  /\ UNCHANGED <<manifestOpen, seq, peers, handler, sent, threadVars, inbox, relayDisk, bounded>>

\* server_close() joins every thread, also one that registered too late.
Joined ==
  /\ relay = "joining" /\ \A c \in Clients : handler[c] = "none"
  /\ relay' = "joined"
  /\ UNCHANGED <<manifestOpen, seq, peers, clientVars, relayDisk, bounded>>

\* What is left of the connections goes with the relay.
Forget ==
  /\ peers' = {}
  /\ handler' = [c \in Clients |-> "none"] /\ link' = [c \in Clients |-> "none"]
  /\ sent' = [c \in Clients |-> 0] /\ taken' = [c \in Clients |-> 0]
  /\ number' = [c \in Clients |-> 0] /\ targets' = [c \in Clients |-> {}]
  /\ inbox' = [c \in Clients |-> <<>>]

Stopped ==
  /\ relay = "joined"
  /\ relay' = "off" /\ manifestOpen' = FALSE
  /\ Forget
  /\ UNCHANGED <<seq, relayDisk, bounded>>

Dies ==
  /\ relay # "off" /\ deaths < MaxDeaths
  /\ deaths' = deaths + 1
  /\ relay' = "off" /\ manifestOpen' = FALSE /\ seq' = 0
  /\ Forget
  /\ UNCHANGED <<relayDisk, starts, deletes>>

DeleteFile(n) ==
  /\ n \in DOMAIN files /\ deletes < MaxDeletes
  /\ files' = [k \in DOMAIN files \ {n} |-> files[k]]
  /\ deletes' = deletes + 1
  /\ UNCHANGED <<relayVars, peers, clientVars, manifest, starts, deaths>>

-----------------------------------------------------------------------------
Thread(c) ==
  \/ Register(c) \/ TakeEvent(c) \/ Leave(c) \/ SaveRow(c) \/ WriteXml(c) \/ Aim(c)
  \/ (\E d \in Clients : SendTo(c, d)) \/ Relayed(c)

Stopping == ClosesPeers \/ Joined \/ Stopped

CotNext ==
  \/ RelayStarts \/ StartFails \/ Shutdown \/ Stopping \/ Dies
  \/ \E c \in Clients : ClientConnects(c) \/ ClientSends(c) \/ ClientHangsUp(c) \/ Thread(c)
  \/ \E n \in DOMAIN files : DeleteFile(n)

\* The threads run, and so does a stop(); a client may stay silent for ever.
CotFairness == (\A c \in Clients : WF_cotVars(Thread(c))) /\ WF_cotVars(Stopping)

CotSpec == CotInit /\ [][CotNext]_cotVars /\ CotFairness

-----------------------------------------------------------------------------
(* Properties.                                                             *)

Events == Clients \X (Nat \ {0})

CotTypeOK ==
  /\ relay \in {"off", "on", "shut", "joining", "joined"}
  /\ manifestOpen \in BOOLEAN /\ (relay # "off" => manifestOpen)
  /\ seq \in Nat
  /\ peers \subseteq Clients
  /\ handler \in [Clients -> {"none", "accepted", "recv", "save", "write", "aim", "send"}]
  /\ link \in [Clients -> {"none", "open", "hung", "closed"}]
  /\ sent \in [Clients -> Nat] /\ taken \in [Clients -> Nat]
  /\ number \in [Clients -> Nat] /\ targets \in [Clients -> SUBSET Clients]
  /\ inbox \in [Clients -> Seq(Events)]
  /\ \A n \in DOMAIN files : n \in Nat \ {0} /\ files[n] \in Events
  /\ manifest \in Seq(Nat \X Clients \X (Nat \ {0}))

\* Every capture on disk has its line in the manifest, whoever saved at the same
\* time, whenever the relay was stopped and wherever the process died.
CaptureIsListed ==
  \A n \in DOMAIN files : \E i \in DOMAIN manifest : manifest[i] = <<n>> \o files[n]

\* A capture is never overwritten, also not after files were deleted, the relay
\* was restarted or the process died (cot_relay.py:122-124).
NeverOverwritten ==
  [][\A n \in DOMAIN files \cap DOMAIN files' : files'[n] = files[n]]_cotVars

\* A client is relayed the events of each other one in their order, without a
\* repetition, and never its own.
RelayedInOrder ==
  \A c \in Clients : \A i, j \in DOMAIN inbox[c] :
    /\ inbox[c][i][1] # c
    /\ i < j /\ inbox[c][i][1] = inbox[c][j][1] => inbox[c][i][2] < inbox[c][j][2]

\* stop() waits for no client (cot_relay.py:155-157).  That a thread whose
\* connection was accepted has not registered its peer yet is the exception: its
\* socket is not closed, and the join lasts until its client hangs up.
StopReturns ==
  (relay = "shut" /\ \A c \in Clients : handler[c] # "accepted") ~> relay = "off"

\* What is captured is on record, and relayed as it came.
CotInv == CotTypeOK /\ CaptureIsListed /\ RelayedInOrder

=============================================================================
