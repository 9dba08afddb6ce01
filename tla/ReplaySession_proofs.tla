----------------------- MODULE ReplaySession_proofs ------------------------
(***************************************************************************)
(* Proofs about ReplaySession, for any number of connections, injected     *)
(* packets and stats messages.                                             *)
(***************************************************************************)
EXTENDS ReplaySession, SequenceTheorems, TLAPS

-----------------------------------------------------------------------------
(* Types, in three parts.                                                  *)

Serving ==
  {"accepted", "connected", "reading", "recv", "database", "stats", "cleanup"}

SessionTypes ==
  /\ loop \in BOOLEAN /\ stop \in BOOLEAN /\ ended \in BOOLEAN
  /\ srv \in {"open", "closed"}
  /\ client \in Conns \cup {None}
  /\ acc \in {"test", "accept", "accepted", "connected", "reading", "recv",
              "database", "stats", "cleanup", "ending", "failing", "over", "failed"}
  /\ n \in 0..MaxConns
  /\ sock \in [Conns -> {"none", "open", "shut", "closed"}]
  /\ acc \in Serving => n >= 1
  /\ peer \in BOOLEAN
  /\ caller \in {"idle", "flagged", "closed", "found", "done", "raised"}

InjectionTypes ==
  /\ injected \in 0..MaxInject
  /\ queue \in Seq(Packets) /\ delivered \in Seq(Packets)
  /\ injector \in [Conns -> {"none", "waiting", "holding", "gone"}]
  /\ held \in [Conns -> 0..MaxInject]
  /\ \A c \in Conns : injector[c] = "holding" => held[c] \in Packets
  /\ lost \subseteq Conns \X Packets

StatsTypes ==
  /\ stream \in [Conns -> {"none", "running", "stats", "last", "gone"}]
  /\ metrics \in [Conns -> {"none", "waiting", "gone"}]
  /\ statsLock \in Senders \cup {None}
  /\ tx \in [Senders -> 0..MaxStats]
  /\ \A t \in Senders : statsLock = t => tx[t] \in 1..MaxStats
  /\ statsSent \in 0..MaxStats
  /\ published \in Seq(1..MaxStats)

\* The lock on the counter is the reader's while it sends, and a stream's
\* while that stream does.
LockedBySender ==
  /\ acc = "stats" <=> statsLock = Reader
  /\ \A c \in Conns : stream[c] \in {"stats", "last"} <=> statsLock = c

LEMMA InitTypes == Init => SessionTypes /\ InjectionTypes /\ StatsTypes
<1> USE ReplayAssumption DEF Init, Conns, Senders, Reader
<1>1. 0 \in 0..MaxConns /\ 0 \in 0..MaxInject /\ 0 \in 0..MaxStats
  OBVIOUS
<1>2. Init => SessionTypes
  BY <1>1 DEF SessionTypes, Serving
<1>3. Init => InjectionTypes
  BY <1>1 DEF InjectionTypes
<1>4. None \notin Senders
  OBVIOUS
<1>5. ASSUME Init PROVE StatsTypes
  <2>1. statsLock = None /\ tx = [t \in Senders |-> 0] /\ published = <<>> /\ statsSent = 0
    BY <1>5
  <2>2. /\ stream \in [Conns -> {"none", "running", "stats", "last", "gone"}]
        /\ metrics \in [Conns -> {"none", "waiting", "gone"}]
    BY <1>5
  <2>3. \A t \in Senders : statsLock = t => tx[t] \in 1..MaxStats
    BY <1>4, <2>1
  <2>4. statsLock \in Senders \cup {None} /\ tx \in [Senders -> 0..MaxStats]
    BY <1>1, <2>1
  <2>5. statsSent \in 0..MaxStats /\ published \in Seq(1..MaxStats)
    BY <1>1, <2>1
  <2> QED
    BY <2>2, <2>3, <2>4, <2>5 DEF StatsTypes
<1> QED
  BY <1>2, <1>3, <1>5

LEMMA NextSessionTypes == SessionTypes /\ [Next]_vars => SessionTypes'
<1> SUFFICES ASSUME SessionTypes, [Next]_vars PROVE SessionTypes'
  OBVIOUS
<1> USE ReplayAssumption DEF Conns, Packets, Senders, Reader, SessionTypes, Serving, vars, accVars, injVars, statsVars, Acc, othersOfAcc, othersOfStop, othersOfThread
<1>1. CASE UNCHANGED vars
  BY <1>1
<1>2. CASE AcceptTest
  BY <1>2 DEF AcceptTest
<1>3. CASE AcceptReturns
  BY <1>3 DEF AcceptReturns
<1>4. CASE Accept
  BY <1>4 DEF Accept
<1>5. CASE ConfigureFails
  BY <1>5 DEF ConfigureFails
<1>6. CASE Connected
  BY <1>6 DEF Connected
<1>7. CASE SpawnThreads
  BY <1>7 DEF SpawnThreads
<1>8. CASE ReaderTest
  BY <1>8 DEF ReaderTest
<1>9. CASE RecvEnds
  BY <1>9 DEF RecvEnds
<1>10. CASE RecvMessage
  BY <1>10 DEF RecvMessage
<1>11. CASE DatabaseStats
  BY <1>11 DEF DatabaseStats, StatsBegin
<1>12. CASE DatabaseBound
  BY <1>12 DEF DatabaseBound
<1>13. CASE DatabaseSent
  BY <1>13 DEF DatabaseSent, StatsSend, Sendable
<1>14. CASE DatabaseFails
  BY <1>14 DEF DatabaseFails, StatsFail
<1>15. CASE Cleanup
  BY <1>15 DEF Cleanup
<1>16. CASE AcceptLoopEnds
  BY <1>16 DEF AcceptLoopEnds
<1>17. CASE StopRaisesFlag
  BY <1>17 DEF StopRaisesFlag
<1>18. CASE StopCloses
  BY <1>18 DEF StopCloses
<1>19. CASE StopLooks
  BY <1>19 DEF StopLooks
<1>20. CASE StopShuts
  BY <1>20 DEF StopShuts, Sever
<1>21. CASE Inject
  BY <1>21 DEF Inject
<1>22. CASE PeerLeaves
  BY <1>22, ZenonT(60) DEF PeerLeaves
<1>23. ASSUME NEW c \in Conns, InjectorTakes(c) PROVE SessionTypes'
  BY <1>23 DEF InjectorTakes
<1>24. ASSUME NEW c \in Conns, InjectorSends(c) PROVE SessionTypes'
  BY <1>24 DEF InjectorSends, Sendable
<1>25. ASSUME NEW c \in Conns, InjectorFails(c) PROVE SessionTypes'
  BY <1>25 DEF InjectorFails
<1>26. ASSUME NEW c \in Conns, InjectorStops(c) PROVE SessionTypes'
  BY <1>26 DEF InjectorStops
<1>27. ASSUME NEW c \in Conns, StreamFails(c) PROVE SessionTypes'
  BY <1>27 DEF StreamFails, Sever, StreamGoes
<1>28. ASSUME NEW c \in Conns, StreamStops(c) PROVE SessionTypes'
  BY <1>28 DEF StreamStops, StreamGoes
<1>29. ASSUME NEW c \in Conns, StreamStats(c) PROVE SessionTypes'
  BY <1>29 DEF StreamStats, StatsBegin, StreamGoes
<1>30. ASSUME NEW c \in Conns, StreamStatsSent(c) PROVE SessionTypes'
  BY <1>30 DEF StreamStatsSent, StatsSend, StreamGoes, Sendable
<1>31. ASSUME NEW c \in Conns, StreamStatsFail(c) PROVE SessionTypes'
  BY <1>31 DEF StreamStatsFail, StatsFail, Sever, StreamGoes
<1>32. ASSUME NEW c \in Conns, MetricsFail(c) PROVE SessionTypes'
  BY <1>32 DEF MetricsFail, Sever
<1>33. ASSUME NEW c \in Conns, MetricsStop(c) PROVE SessionTypes'
  BY <1>33 DEF MetricsStop
<1> QED
  BY <1>1, <1>2, <1>3, <1>4, <1>5, <1>6, <1>7, <1>8, <1>9, <1>10, <1>11, <1>12,
     <1>13, <1>14, <1>15, <1>16, <1>17, <1>18, <1>19, <1>20, <1>21, <1>22,
     <1>23, <1>24, <1>25, <1>26, <1>27, <1>28, <1>29, <1>30, <1>31, <1>32, <1>33
     DEF Next, AcceptorNext, StopNext, InjectorNext, StreamNext, MetricsNext, Finished

LEMMA NextInjectionTypes == InjectionTypes /\ [Next]_vars => InjectionTypes'
<1> SUFFICES ASSUME InjectionTypes, [Next]_vars PROVE InjectionTypes'
  OBVIOUS
<1> USE ReplayAssumption DEF Conns, Packets, Senders, Reader, InjectionTypes, vars, accVars, injVars, statsVars, Acc, othersOfAcc, othersOfStop, othersOfThread
<1>1. CASE UNCHANGED vars
  BY <1>1
<1>2. CASE AcceptTest
  BY <1>2 DEF AcceptTest
<1>3. CASE AcceptReturns
  BY <1>3 DEF AcceptReturns
<1>4. CASE Accept
  BY <1>4 DEF Accept
<1>5. CASE ConfigureFails
  BY <1>5 DEF ConfigureFails
<1>6. CASE Connected
  BY <1>6 DEF Connected
<1>7. CASE SpawnThreads
  BY <1>7 DEF SpawnThreads
<1>8. CASE ReaderTest
  BY <1>8 DEF ReaderTest
<1>9. CASE RecvEnds
  BY <1>9 DEF RecvEnds
<1>10. CASE RecvMessage
  BY <1>10 DEF RecvMessage
<1>11. CASE DatabaseStats
  BY <1>11 DEF DatabaseStats, StatsBegin
<1>12. CASE DatabaseBound
  BY <1>12 DEF DatabaseBound
<1>13. CASE DatabaseSent
  BY <1>13 DEF DatabaseSent, StatsSend, Sendable
<1>14. CASE DatabaseFails
  BY <1>14 DEF DatabaseFails, StatsFail
<1>15. CASE Cleanup
  BY <1>15 DEF Cleanup
<1>16. CASE AcceptLoopEnds
  BY <1>16 DEF AcceptLoopEnds
<1>17. CASE StopRaisesFlag
  BY <1>17 DEF StopRaisesFlag
<1>18. CASE StopCloses
  BY <1>18 DEF StopCloses
<1>19. CASE StopLooks
  BY <1>19 DEF StopLooks
<1>20. CASE StopShuts
  BY <1>20 DEF StopShuts, Sever
<1>21. CASE Inject
  BY <1>21 DEF Inject
<1>22. CASE PeerLeaves
  BY <1>22 DEF PeerLeaves
<1>23. ASSUME NEW c \in Conns, InjectorTakes(c) PROVE InjectionTypes'
  BY <1>23 DEF InjectorTakes
<1>24. ASSUME NEW c \in Conns, InjectorSends(c) PROVE InjectionTypes'
  BY <1>24 DEF InjectorSends, Sendable
<1>25. ASSUME NEW c \in Conns, InjectorFails(c) PROVE InjectionTypes'
  BY <1>25 DEF InjectorFails
<1>26. ASSUME NEW c \in Conns, InjectorStops(c) PROVE InjectionTypes'
  BY <1>26 DEF InjectorStops
<1>27. ASSUME NEW c \in Conns, StreamFails(c) PROVE InjectionTypes'
  BY <1>27 DEF StreamFails, Sever, StreamGoes
<1>28. ASSUME NEW c \in Conns, StreamStops(c) PROVE InjectionTypes'
  BY <1>28 DEF StreamStops, StreamGoes
<1>29. ASSUME NEW c \in Conns, StreamStats(c) PROVE InjectionTypes'
  BY <1>29 DEF StreamStats, StatsBegin, StreamGoes
<1>30. ASSUME NEW c \in Conns, StreamStatsSent(c) PROVE InjectionTypes'
  BY <1>30 DEF StreamStatsSent, StatsSend, StreamGoes, Sendable
<1>31. ASSUME NEW c \in Conns, StreamStatsFail(c) PROVE InjectionTypes'
  BY <1>31 DEF StreamStatsFail, StatsFail, Sever, StreamGoes
<1>32. ASSUME NEW c \in Conns, MetricsFail(c) PROVE InjectionTypes'
  BY <1>32 DEF MetricsFail, Sever
<1>33. ASSUME NEW c \in Conns, MetricsStop(c) PROVE InjectionTypes'
  BY <1>33 DEF MetricsStop
<1> QED
  BY <1>1, <1>2, <1>3, <1>4, <1>5, <1>6, <1>7, <1>8, <1>9, <1>10, <1>11, <1>12,
     <1>13, <1>14, <1>15, <1>16, <1>17, <1>18, <1>19, <1>20, <1>21, <1>22,
     <1>23, <1>24, <1>25, <1>26, <1>27, <1>28, <1>29, <1>30, <1>31, <1>32, <1>33
     DEF Next, AcceptorNext, StopNext, InjectorNext, StreamNext, MetricsNext, Finished

LEMMA NextStatsTypes == LockedBySender /\ StatsTypes /\ [Next]_vars => StatsTypes'
<1> SUFFICES ASSUME LockedBySender, StatsTypes, [Next]_vars PROVE StatsTypes'
  OBVIOUS
<1> USE ReplayAssumption DEF Conns, Packets, Senders, Reader, LockedBySender, StatsTypes, vars, accVars, injVars, statsVars, Acc, othersOfAcc, othersOfStop, othersOfThread
<1>1. CASE UNCHANGED vars
  BY <1>1
<1>2. CASE AcceptTest
  BY <1>2 DEF AcceptTest
<1>3. CASE AcceptReturns
  BY <1>3 DEF AcceptReturns
<1>4. CASE Accept
  BY <1>4 DEF Accept
<1>5. CASE ConfigureFails
  BY <1>5 DEF ConfigureFails
<1>6. CASE Connected
  BY <1>6 DEF Connected
<1>7. CASE SpawnThreads
  BY <1>7 DEF SpawnThreads
<1>8. CASE ReaderTest
  BY <1>8 DEF ReaderTest
<1>9. CASE RecvEnds
  BY <1>9 DEF RecvEnds
<1>10. CASE RecvMessage
  BY <1>10 DEF RecvMessage
<1>11. CASE DatabaseStats
  BY <1>11 DEF DatabaseStats, StatsBegin
<1>12. CASE DatabaseBound
  BY <1>12 DEF DatabaseBound
<1>13. CASE DatabaseSent
  <2>1. statsLock = Reader /\ tx[Reader] \in 1..MaxStats
    BY <1>13 DEF DatabaseSent
  <2>2. /\ published' \in Seq(1..MaxStats) /\ statsSent' \in 0..MaxStats
        /\ statsLock' = None /\ tx' \in [Senders -> 0..MaxStats]
    BY <1>13, <2>1 DEF DatabaseSent, StatsSend
  <2>3. stream' \in [Conns -> {"none", "running", "stats", "last", "gone"}]
    BY <1>13 DEF DatabaseSent
  <2>4. metrics' = metrics /\ None \notin Senders
    BY <1>13 DEF DatabaseSent
  <2> QED
    BY <2>2, <2>3, <2>4
<1>14. CASE DatabaseFails
  BY <1>14 DEF DatabaseFails, StatsFail
<1>15. CASE Cleanup
  BY <1>15 DEF Cleanup
<1>16. CASE AcceptLoopEnds
  BY <1>16 DEF AcceptLoopEnds
<1>17. CASE StopRaisesFlag
  BY <1>17 DEF StopRaisesFlag
<1>18. CASE StopCloses
  BY <1>18 DEF StopCloses
<1>19. CASE StopLooks
  BY <1>19 DEF StopLooks
<1>20. CASE StopShuts
  BY <1>20 DEF StopShuts, Sever
<1>21. CASE Inject
  BY <1>21 DEF Inject
<1>22. CASE PeerLeaves
  BY <1>22 DEF PeerLeaves
<1>23. ASSUME NEW c \in Conns, InjectorTakes(c) PROVE StatsTypes'
  BY <1>23 DEF InjectorTakes
<1>24. ASSUME NEW c \in Conns, InjectorSends(c) PROVE StatsTypes'
  BY <1>24 DEF InjectorSends, Sendable
<1>25. ASSUME NEW c \in Conns, InjectorFails(c) PROVE StatsTypes'
  BY <1>25 DEF InjectorFails
<1>26. ASSUME NEW c \in Conns, InjectorStops(c) PROVE StatsTypes'
  BY <1>26 DEF InjectorStops
<1>27. ASSUME NEW c \in Conns, StreamFails(c) PROVE StatsTypes'
  BY <1>27 DEF StreamFails, Sever, StreamGoes
<1>28. ASSUME NEW c \in Conns, StreamStops(c) PROVE StatsTypes'
  BY <1>28 DEF StreamStops, StreamGoes
<1>29. ASSUME NEW c \in Conns, StreamStats(c) PROVE StatsTypes'
  BY <1>29 DEF StreamStats, StatsBegin, StreamGoes
<1>30. ASSUME NEW c \in Conns, StreamStatsSent(c) PROVE StatsTypes'
  BY <1>30 DEF StreamStatsSent, StatsSend, StreamGoes, Sendable
<1>31. ASSUME NEW c \in Conns, StreamStatsFail(c) PROVE StatsTypes'
  BY <1>31 DEF StreamStatsFail, StatsFail, Sever, StreamGoes
<1>32. ASSUME NEW c \in Conns, MetricsFail(c) PROVE StatsTypes'
  BY <1>32 DEF MetricsFail, Sever
<1>33. ASSUME NEW c \in Conns, MetricsStop(c) PROVE StatsTypes'
  BY <1>33 DEF MetricsStop
<1> QED
  BY <1>1, <1>2, <1>3, <1>4, <1>5, <1>6, <1>7, <1>8, <1>9, <1>10, <1>11, <1>12,
     <1>13, <1>14, <1>15, <1>16, <1>17, <1>18, <1>19, <1>20, <1>21, <1>22,
     <1>23, <1>24, <1>25, <1>26, <1>27, <1>28, <1>29, <1>30, <1>31, <1>32, <1>33
     DEF Next, AcceptorNext, StopNext, InjectorNext, StreamNext, MetricsNext, Finished

LEMMA NextLocked == SessionTypes /\ LockedBySender /\ StatsTypes /\ [Next]_vars => LockedBySender'
<1> SUFFICES ASSUME SessionTypes, LockedBySender, StatsTypes, [Next]_vars PROVE LockedBySender'
  OBVIOUS
<1> USE ReplayAssumption DEF Conns, Senders, Reader, SessionTypes, LockedBySender, StatsTypes, vars, accVars, injVars, statsVars, Acc, othersOfAcc, othersOfStop, othersOfThread
<1>1. CASE UNCHANGED vars
  BY <1>1
<1>2. CASE AcceptTest
  BY <1>2 DEF AcceptTest
<1>3. CASE AcceptReturns
  BY <1>3 DEF AcceptReturns
<1>4. CASE Accept
  BY <1>4 DEF Accept
<1>5. CASE ConfigureFails
  BY <1>5 DEF ConfigureFails
<1>6. CASE Connected
  BY <1>6 DEF Connected
<1>7. CASE SpawnThreads
  BY <1>7 DEF SpawnThreads
<1>8. CASE ReaderTest
  BY <1>8 DEF ReaderTest
<1>9. CASE RecvEnds
  BY <1>9 DEF RecvEnds
<1>10. CASE RecvMessage
  BY <1>10 DEF RecvMessage
<1>11. CASE DatabaseStats
  BY <1>11 DEF DatabaseStats, StatsBegin
<1>12. CASE DatabaseBound
  BY <1>12 DEF DatabaseBound
<1>13. CASE DatabaseSent
  BY <1>13 DEF DatabaseSent, StatsSend, Sendable
<1>14. CASE DatabaseFails
  BY <1>14 DEF DatabaseFails, StatsFail
<1>15. CASE Cleanup
  BY <1>15 DEF Cleanup
<1>16. CASE AcceptLoopEnds
  BY <1>16 DEF AcceptLoopEnds
<1>17. CASE StopRaisesFlag
  BY <1>17 DEF StopRaisesFlag
<1>18. CASE StopCloses
  BY <1>18 DEF StopCloses
<1>19. CASE StopLooks
  BY <1>19 DEF StopLooks
<1>20. CASE StopShuts
  BY <1>20 DEF StopShuts, Sever
<1>21. CASE Inject
  BY <1>21 DEF Inject
<1>22. CASE PeerLeaves
  BY <1>22 DEF PeerLeaves
<1>23. ASSUME NEW c \in Conns, InjectorTakes(c) PROVE LockedBySender'
  BY <1>23 DEF InjectorTakes
<1>24. ASSUME NEW c \in Conns, InjectorSends(c) PROVE LockedBySender'
  BY <1>24 DEF InjectorSends, Sendable
<1>25. ASSUME NEW c \in Conns, InjectorFails(c) PROVE LockedBySender'
  BY <1>25 DEF InjectorFails
<1>26. ASSUME NEW c \in Conns, InjectorStops(c) PROVE LockedBySender'
  BY <1>26 DEF InjectorStops
<1>27. ASSUME NEW c \in Conns, StreamFails(c) PROVE LockedBySender'
  BY <1>27 DEF StreamFails, Sever, StreamGoes
<1>28. ASSUME NEW c \in Conns, StreamStops(c) PROVE LockedBySender'
  BY <1>28 DEF StreamStops, StreamGoes
<1>29. ASSUME NEW c \in Conns, StreamStats(c) PROVE LockedBySender'
  BY <1>29 DEF StreamStats, StatsBegin, StreamGoes
<1>30. ASSUME NEW c \in Conns, StreamStatsSent(c) PROVE LockedBySender'
  BY <1>30 DEF StreamStatsSent, StatsSend, StreamGoes, Sendable
<1>31. ASSUME NEW c \in Conns, StreamStatsFail(c) PROVE LockedBySender'
  BY <1>31 DEF StreamStatsFail, StatsFail, Sever, StreamGoes
<1>32. ASSUME NEW c \in Conns, MetricsFail(c) PROVE LockedBySender'
  BY <1>32 DEF MetricsFail, Sever
<1>33. ASSUME NEW c \in Conns, MetricsStop(c) PROVE LockedBySender'
  BY <1>33 DEF MetricsStop
<1> QED
  BY <1>1, <1>2, <1>3, <1>4, <1>5, <1>6, <1>7, <1>8, <1>9, <1>10, <1>11, <1>12,
     <1>13, <1>14, <1>15, <1>16, <1>17, <1>18, <1>19, <1>20, <1>21, <1>22,
     <1>23, <1>24, <1>25, <1>26, <1>27, <1>28, <1>29, <1>30, <1>31, <1>32, <1>33
     DEF Next, AcceptorNext, StopNext, InjectorNext, StreamNext, MetricsNext, Finished

Types == SessionTypes /\ InjectionTypes /\ StatsTypes /\ LockedBySender

LEMMA TypesAlways == Spec => []Types
<1>1. Init => Types
  <2>1. Init => LockedBySender
    BY ReplayAssumption DEF Init, LockedBySender, Conns, Reader
  <2> QED
    BY <2>1, InitTypes DEF Types
<1>2. Types /\ [Next]_vars => Types'
  BY NextSessionTypes, NextInjectionTypes, NextStatsTypes, NextLocked DEF Types
<1> QED
  BY <1>1, <1>2, PTL DEF Spec

\* Every variable keeps its type, and the counters their bounds.
THEOREM ReplayTypes == Spec => []TypeOK
<1>1. Types => TypeOK
  BY DEF Types, SessionTypes, InjectionTypes, StatsTypes, TypeOK
<1> QED
  BY <1>1, TypesAlways, PTL

-----------------------------------------------------------------------------
(* A looping session ends by stop(), or by an accept() that fails.         *)

EndsByStop ==
  /\ stop => caller # "idle"
  /\ srv = "closed" => caller # "idle" \/ acc \in {"over", "failed"}
  /\ loop /\ acc \in {"ending", "over"} => caller # "idle"
  /\ loop /\ ended => caller # "idle" \/ acc = "failed"
  /\ \A c \in Conns : stream[c] = "last" => ~loop

LEMMA NextEndsByStop == SessionTypes /\ StatsTypes /\ EndsByStop /\ [Next]_vars => EndsByStop'
<1> SUFFICES ASSUME SessionTypes, StatsTypes, EndsByStop, [Next]_vars PROVE EndsByStop'
  OBVIOUS
<1> USE DEF SessionTypes, StatsTypes, EndsByStop, vars, accVars, injVars, statsVars, Acc, othersOfAcc, othersOfStop, othersOfThread
<1>1. CASE UNCHANGED vars
  BY <1>1
<1>2. CASE AcceptTest
  BY <1>2 DEF AcceptTest
<1>3. CASE AcceptReturns
  BY <1>3 DEF AcceptReturns
<1>4. CASE Accept
  BY <1>4 DEF Accept
<1>5. CASE ConfigureFails
  BY <1>5 DEF ConfigureFails
<1>6. CASE Connected
  BY <1>6 DEF Connected
<1>7. CASE SpawnThreads
  BY <1>7 DEF SpawnThreads
<1>8. CASE ReaderTest
  BY <1>8 DEF ReaderTest
<1>9. CASE RecvEnds
  BY <1>9 DEF RecvEnds
<1>10. CASE RecvMessage
  BY <1>10 DEF RecvMessage
<1>11. CASE DatabaseStats
  BY <1>11 DEF DatabaseStats, StatsBegin
<1>12. CASE DatabaseBound
  BY <1>12 DEF DatabaseBound
<1>13. CASE DatabaseSent
  BY <1>13 DEF DatabaseSent, StatsSend, Sendable
<1>14. CASE DatabaseFails
  BY <1>14 DEF DatabaseFails, StatsFail
<1>15. CASE Cleanup
  BY <1>15 DEF Cleanup
<1>16. CASE AcceptLoopEnds
  BY <1>16 DEF AcceptLoopEnds
<1>17. CASE StopRaisesFlag
  BY <1>17 DEF StopRaisesFlag
<1>18. CASE StopCloses
  BY <1>18 DEF StopCloses
<1>19. CASE StopLooks
  BY <1>19 DEF StopLooks
<1>20. CASE StopShuts
  BY <1>20 DEF StopShuts, Sever
<1>21. CASE Inject
  BY <1>21 DEF Inject
<1>22. CASE PeerLeaves
  BY <1>22 DEF PeerLeaves
<1>23. ASSUME NEW c \in Conns, InjectorTakes(c) PROVE EndsByStop'
  BY <1>23 DEF InjectorTakes
<1>24. ASSUME NEW c \in Conns, InjectorSends(c) PROVE EndsByStop'
  BY <1>24 DEF InjectorSends, Sendable
<1>25. ASSUME NEW c \in Conns, InjectorFails(c) PROVE EndsByStop'
  BY <1>25 DEF InjectorFails
<1>26. ASSUME NEW c \in Conns, InjectorStops(c) PROVE EndsByStop'
  BY <1>26 DEF InjectorStops
<1>27. ASSUME NEW c \in Conns, StreamFails(c) PROVE EndsByStop'
  BY <1>27 DEF StreamFails, Sever, StreamGoes
<1>28. ASSUME NEW c \in Conns, StreamStops(c) PROVE EndsByStop'
  BY <1>28 DEF StreamStops, StreamGoes
<1>29. ASSUME NEW c \in Conns, StreamStats(c) PROVE EndsByStop'
  BY <1>29 DEF StreamStats, StatsBegin, StreamGoes
<1>30. ASSUME NEW c \in Conns, StreamStatsSent(c) PROVE EndsByStop'
  BY <1>30 DEF StreamStatsSent, StatsSend, StreamGoes, Sendable
<1>31. ASSUME NEW c \in Conns, StreamStatsFail(c) PROVE EndsByStop'
  BY <1>31 DEF StreamStatsFail, StatsFail, Sever, StreamGoes
<1>32. ASSUME NEW c \in Conns, MetricsFail(c) PROVE EndsByStop'
  BY <1>32 DEF MetricsFail, Sever
<1>33. ASSUME NEW c \in Conns, MetricsStop(c) PROVE EndsByStop'
  BY <1>33 DEF MetricsStop
<1> QED
  BY <1>1, <1>2, <1>3, <1>4, <1>5, <1>6, <1>7, <1>8, <1>9, <1>10, <1>11, <1>12,
     <1>13, <1>14, <1>15, <1>16, <1>17, <1>18, <1>19, <1>20, <1>21, <1>22,
     <1>23, <1>24, <1>25, <1>26, <1>27, <1>28, <1>29, <1>30, <1>31, <1>32, <1>33
     DEF Next, AcceptorNext, StopNext, InjectorNext, StreamNext, MetricsNext, Finished

\* No client and no failed send ends a session that loops: it ends by stop(), or by
\* an accept() of its own that fails (engine.py:480-481).
THEOREM OnlyStopEndsALoop == Spec => []LoopSurvives
<1>1. Init => EndsByStop
  BY DEF Init, EndsByStop
<1>2. EndsByStop => LoopSurvives
  BY DEF EndsByStop, LoopSurvives
<1> QED
  BY <1>1, <1>2, NextEndsByStop, TypesAlways, PTL DEF Spec, Types

-----------------------------------------------------------------------------
(* What a broken connection loses.                                         *)

LossInv ==
  /\ \A c \in Conns : c > n \/ (c = n /\ acc \in {"accepted", "connected"})
                    => injector[c] = "none"
  /\ \A x \in lost : injector[x[1]] = "gone"
  /\ OneLossPerConnection

LEMMA NextLoss == SessionTypes /\ InjectionTypes /\ LossInv /\ [Next]_vars => LossInv'
<1> SUFFICES ASSUME SessionTypes, InjectionTypes, LossInv, [Next]_vars PROVE LossInv'
  OBVIOUS
<1> USE DEF Conns, SessionTypes, InjectionTypes, LossInv, OneLossPerConnection, vars, accVars, injVars, statsVars, Acc, othersOfAcc, othersOfStop, othersOfThread
<1>1. CASE UNCHANGED vars
  BY <1>1
<1>2. CASE AcceptTest
  BY <1>2 DEF AcceptTest
<1>3. CASE AcceptReturns
  BY <1>3 DEF AcceptReturns
<1>4. CASE Accept
  BY <1>4 DEF Accept
<1>5. CASE ConfigureFails
  BY <1>5 DEF ConfigureFails
<1>6. CASE Connected
  BY <1>6 DEF Connected
<1>7. CASE SpawnThreads
  BY <1>7 DEF SpawnThreads
<1>8. CASE ReaderTest
  BY <1>8 DEF ReaderTest
<1>9. CASE RecvEnds
  BY <1>9 DEF RecvEnds
<1>10. CASE RecvMessage
  BY <1>10 DEF RecvMessage
<1>11. CASE DatabaseStats
  BY <1>11 DEF DatabaseStats, StatsBegin
<1>12. CASE DatabaseBound
  BY <1>12 DEF DatabaseBound
<1>13. CASE DatabaseSent
  BY <1>13 DEF DatabaseSent, StatsSend, Sendable
<1>14. CASE DatabaseFails
  BY <1>14 DEF DatabaseFails, StatsFail
<1>15. CASE Cleanup
  BY <1>15 DEF Cleanup
<1>16. CASE AcceptLoopEnds
  BY <1>16 DEF AcceptLoopEnds
<1>17. CASE StopRaisesFlag
  BY <1>17 DEF StopRaisesFlag
<1>18. CASE StopCloses
  BY <1>18 DEF StopCloses
<1>19. CASE StopLooks
  BY <1>19 DEF StopLooks
<1>20. CASE StopShuts
  BY <1>20 DEF StopShuts, Sever
<1>21. CASE Inject
  BY <1>21 DEF Inject
<1>22. CASE PeerLeaves
  BY <1>22 DEF PeerLeaves
<1>23. ASSUME NEW c \in Conns, InjectorTakes(c) PROVE LossInv'
  BY <1>23 DEF InjectorTakes
<1>24. ASSUME NEW c \in Conns, InjectorSends(c) PROVE LossInv'
  BY <1>24 DEF InjectorSends, Sendable
<1>25. ASSUME NEW c \in Conns, InjectorFails(c) PROVE LossInv'
  <2>1. /\ injector[c] = "holding" /\ injector' = [injector EXCEPT ![c] = "gone"]
        /\ lost' = lost \cup {<<c, held[c]>>} /\ acc' = acc /\ n' = n
    BY <1>25 DEF InjectorFails
  <2>2. \A x \in lost : x[1] # c
    BY <2>1
  <2>3. \A x \in lost' : x \in lost \/ x = <<c, held[c]>>
    BY <2>1
  <2>4. \A x \in lost' : injector'[x[1]] = "gone"
    BY <2>1, <2>2, <2>3
  <2>5. \A x, y \in lost' : x[1] = y[1] => x = y
    BY <2>2, <2>3
  <2> QED
    BY <2>1, <2>4, <2>5
<1>26. ASSUME NEW c \in Conns, InjectorStops(c) PROVE LossInv'
  BY <1>26 DEF InjectorStops
<1>27. ASSUME NEW c \in Conns, StreamFails(c) PROVE LossInv'
  BY <1>27 DEF StreamFails, Sever, StreamGoes
<1>28. ASSUME NEW c \in Conns, StreamStops(c) PROVE LossInv'
  BY <1>28 DEF StreamStops, StreamGoes
<1>29. ASSUME NEW c \in Conns, StreamStats(c) PROVE LossInv'
  BY <1>29 DEF StreamStats, StatsBegin, StreamGoes
<1>30. ASSUME NEW c \in Conns, StreamStatsSent(c) PROVE LossInv'
  BY <1>30 DEF StreamStatsSent, StatsSend, StreamGoes, Sendable
<1>31. ASSUME NEW c \in Conns, StreamStatsFail(c) PROVE LossInv'
  BY <1>31 DEF StreamStatsFail, StatsFail, Sever, StreamGoes
<1>32. ASSUME NEW c \in Conns, MetricsFail(c) PROVE LossInv'
  BY <1>32 DEF MetricsFail, Sever
<1>33. ASSUME NEW c \in Conns, MetricsStop(c) PROVE LossInv'
  BY <1>33 DEF MetricsStop
<1> QED
  BY <1>1, <1>2, <1>3, <1>4, <1>5, <1>6, <1>7, <1>8, <1>9, <1>10, <1>11, <1>12,
     <1>13, <1>14, <1>15, <1>16, <1>17, <1>18, <1>19, <1>20, <1>21, <1>22,
     <1>23, <1>24, <1>25, <1>26, <1>27, <1>28, <1>29, <1>30, <1>31, <1>32, <1>33
     DEF Next, AcceptorNext, StopNext, InjectorNext, StreamNext, MetricsNext, Finished

\* A connection costs at most the one packet its injector held.
THEOREM LossIsBounded == Spec => []OneLossPerConnection
<1>1. Init => LossInv
  BY DEF Init, LossInv, OneLossPerConnection, Conns
<1>2. LossInv => OneLossPerConnection
  BY DEF LossInv
<1> QED
  BY <1>1, <1>2, NextLoss, TypesAlways, PTL DEF Spec, Types

-----------------------------------------------------------------------------
(* The numbers of the LocalStats.                                          *)

\* The holder of the lock has the next number, since nobody else counts.
CountInv ==
  /\ statsLock # None => tx[statsLock] = statsSent + 1
  /\ StatsNumberedOnce

LEMMA NextCount == SessionTypes /\ StatsTypes /\ LockedBySender /\ CountInv /\ [Next]_vars => CountInv'
<1> SUFFICES ASSUME SessionTypes, StatsTypes, LockedBySender, CountInv, [Next]_vars PROVE CountInv'
  OBVIOUS
<1> USE ReplayAssumption DEF Conns, Senders, Reader, SessionTypes, StatsTypes, LockedBySender, CountInv, StatsNumberedOnce, vars, accVars, injVars, statsVars, Acc, othersOfAcc, othersOfStop, othersOfThread
<1>1. CASE UNCHANGED vars
  BY <1>1
<1>2. CASE AcceptTest
  BY <1>2 DEF AcceptTest
<1>3. CASE AcceptReturns
  BY <1>3 DEF AcceptReturns
<1>4. CASE Accept
  BY <1>4 DEF Accept
<1>5. CASE ConfigureFails
  BY <1>5 DEF ConfigureFails
<1>6. CASE Connected
  BY <1>6 DEF Connected
<1>7. CASE SpawnThreads
  BY <1>7 DEF SpawnThreads
<1>8. CASE ReaderTest
  BY <1>8 DEF ReaderTest
<1>9. CASE RecvEnds
  BY <1>9 DEF RecvEnds
<1>10. CASE RecvMessage
  BY <1>10 DEF RecvMessage
<1>11. CASE DatabaseStats
  BY <1>11 DEF DatabaseStats, StatsBegin
<1>12. CASE DatabaseBound
  BY <1>12 DEF DatabaseBound
<1>13. CASE DatabaseSent
  BY <1>13 DEF DatabaseSent, StatsSend, Sendable
<1>14. CASE DatabaseFails
  BY <1>14 DEF DatabaseFails, StatsFail
<1>15. CASE Cleanup
  BY <1>15 DEF Cleanup
<1>16. CASE AcceptLoopEnds
  BY <1>16 DEF AcceptLoopEnds
<1>17. CASE StopRaisesFlag
  BY <1>17 DEF StopRaisesFlag
<1>18. CASE StopCloses
  BY <1>18 DEF StopCloses
<1>19. CASE StopLooks
  BY <1>19 DEF StopLooks
<1>20. CASE StopShuts
  BY <1>20 DEF StopShuts, Sever
<1>21. CASE Inject
  BY <1>21 DEF Inject
<1>22. CASE PeerLeaves
  BY <1>22 DEF PeerLeaves
<1>23. ASSUME NEW c \in Conns, InjectorTakes(c) PROVE CountInv'
  BY <1>23 DEF InjectorTakes
<1>24. ASSUME NEW c \in Conns, InjectorSends(c) PROVE CountInv'
  BY <1>24 DEF InjectorSends, Sendable
<1>25. ASSUME NEW c \in Conns, InjectorFails(c) PROVE CountInv'
  BY <1>25 DEF InjectorFails
<1>26. ASSUME NEW c \in Conns, InjectorStops(c) PROVE CountInv'
  BY <1>26 DEF InjectorStops
<1>27. ASSUME NEW c \in Conns, StreamFails(c) PROVE CountInv'
  BY <1>27 DEF StreamFails, Sever, StreamGoes
<1>28. ASSUME NEW c \in Conns, StreamStops(c) PROVE CountInv'
  BY <1>28 DEF StreamStops, StreamGoes
<1>29. ASSUME NEW c \in Conns, StreamStats(c) PROVE CountInv'
  BY <1>29 DEF StreamStats, StatsBegin, StreamGoes
<1>30. ASSUME NEW c \in Conns, StreamStatsSent(c) PROVE CountInv'
  <2>1. statsLock = c /\ tx[c] = statsSent + 1 /\ published \in Seq(1..MaxStats)
    BY <1>30 DEF StreamStatsSent
  <2>2. /\ published' = Append(published, tx[c])
        /\ statsSent' = tx[c] /\ statsLock' = None
    BY <1>30 DEF StreamStatsSent, StatsSend
  <2> QED
    BY <2>1, <2>2
<1>31. ASSUME NEW c \in Conns, StreamStatsFail(c) PROVE CountInv'
  BY <1>31 DEF StreamStatsFail, StatsFail, Sever, StreamGoes
<1>32. ASSUME NEW c \in Conns, MetricsFail(c) PROVE CountInv'
  BY <1>32 DEF MetricsFail, Sever
<1>33. ASSUME NEW c \in Conns, MetricsStop(c) PROVE CountInv'
  BY <1>33 DEF MetricsStop
<1> QED
  BY <1>1, <1>2, <1>3, <1>4, <1>5, <1>6, <1>7, <1>8, <1>9, <1>10, <1>11, <1>12,
     <1>13, <1>14, <1>15, <1>16, <1>17, <1>18, <1>19, <1>20, <1>21, <1>22,
     <1>23, <1>24, <1>25, <1>26, <1>27, <1>28, <1>29, <1>30, <1>31, <1>32, <1>33
     DEF Next, AcceptorNext, StopNext, InjectorNext, StreamNext, MetricsNext, Finished

\* The stats are numbered from 1 without a gap, whoever sends them.
THEOREM StatsAreNumbered == Spec => []StatsNumberedOnce
<1>1. Init => CountInv
  BY DEF Init, CountInv, StatsNumberedOnce
<1>2. CountInv => StatsNumberedOnce
  BY DEF CountInv
<1> QED
  BY <1>1, <1>2, NextCount, TypesAlways, PTL DEF Spec, Types

-----------------------------------------------------------------------------
(* The order of the injected packets.                                      *)

\* One connection is served at a time, and its threads start with it.
OneServed ==
  /\ \A c \in Conns : sock[c] \in {"open", "shut"} => c = n /\ acc \in Serving
  /\ \A c \in Conns : c > n \/ (c = n /\ acc \in {"accepted", "connected"})
                    => injector[c] = "none"

LEMMA NextOneServed == SessionTypes /\ InjectionTypes /\ OneServed /\ [Next]_vars => OneServed'
<1> SUFFICES ASSUME SessionTypes, InjectionTypes, OneServed, [Next]_vars PROVE OneServed'
  OBVIOUS
<1> USE DEF Conns, Serving, SessionTypes, InjectionTypes, OneServed, vars, accVars, injVars, statsVars, Acc, othersOfAcc, othersOfStop, othersOfThread
<1>1. CASE UNCHANGED vars
  BY <1>1
<1>2. CASE AcceptTest
  BY <1>2 DEF AcceptTest
<1>3. CASE AcceptReturns
  BY <1>3 DEF AcceptReturns
<1>4. CASE Accept
  BY <1>4 DEF Accept
<1>5. CASE ConfigureFails
  BY <1>5 DEF ConfigureFails
<1>6. CASE Connected
  BY <1>6 DEF Connected
<1>7. CASE SpawnThreads
  BY <1>7 DEF SpawnThreads
<1>8. CASE ReaderTest
  BY <1>8 DEF ReaderTest
<1>9. CASE RecvEnds
  BY <1>9 DEF RecvEnds
<1>10. CASE RecvMessage
  BY <1>10 DEF RecvMessage
<1>11. CASE DatabaseStats
  BY <1>11 DEF DatabaseStats, StatsBegin
<1>12. CASE DatabaseBound
  BY <1>12 DEF DatabaseBound
<1>13. CASE DatabaseSent
  BY <1>13 DEF DatabaseSent, StatsSend, Sendable
<1>14. CASE DatabaseFails
  BY <1>14 DEF DatabaseFails, StatsFail
<1>15. CASE Cleanup
  BY <1>15 DEF Cleanup
<1>16. CASE AcceptLoopEnds
  BY <1>16 DEF AcceptLoopEnds
<1>17. CASE StopRaisesFlag
  BY <1>17 DEF StopRaisesFlag
<1>18. CASE StopCloses
  BY <1>18 DEF StopCloses
<1>19. CASE StopLooks
  BY <1>19 DEF StopLooks
<1>20. CASE StopShuts
  BY <1>20 DEF StopShuts, Sever
<1>21. CASE Inject
  BY <1>21 DEF Inject
<1>22. CASE PeerLeaves
  BY <1>22 DEF PeerLeaves
<1>23. ASSUME NEW c \in Conns, InjectorTakes(c) PROVE OneServed'
  BY <1>23 DEF InjectorTakes
<1>24. ASSUME NEW c \in Conns, InjectorSends(c) PROVE OneServed'
  BY <1>24 DEF InjectorSends, Sendable
<1>25. ASSUME NEW c \in Conns, InjectorFails(c) PROVE OneServed'
  BY <1>25 DEF InjectorFails
<1>26. ASSUME NEW c \in Conns, InjectorStops(c) PROVE OneServed'
  BY <1>26 DEF InjectorStops
<1>27. ASSUME NEW c \in Conns, StreamFails(c) PROVE OneServed'
  BY <1>27 DEF StreamFails, Sever, StreamGoes
<1>28. ASSUME NEW c \in Conns, StreamStops(c) PROVE OneServed'
  BY <1>28 DEF StreamStops, StreamGoes
<1>29. ASSUME NEW c \in Conns, StreamStats(c) PROVE OneServed'
  BY <1>29 DEF StreamStats, StatsBegin, StreamGoes
<1>30. ASSUME NEW c \in Conns, StreamStatsSent(c) PROVE OneServed'
  BY <1>30 DEF StreamStatsSent, StatsSend, StreamGoes, Sendable
<1>31. ASSUME NEW c \in Conns, StreamStatsFail(c) PROVE OneServed'
  BY <1>31 DEF StreamStatsFail, StatsFail, Sever, StreamGoes
<1>32. ASSUME NEW c \in Conns, MetricsFail(c) PROVE OneServed'
  BY <1>32 DEF MetricsFail, Sever
<1>33. ASSUME NEW c \in Conns, MetricsStop(c) PROVE OneServed'
  BY <1>33 DEF MetricsStop
<1> QED
  BY <1>1, <1>2, <1>3, <1>4, <1>5, <1>6, <1>7, <1>8, <1>9, <1>10, <1>11, <1>12,
     <1>13, <1>14, <1>15, <1>16, <1>17, <1>18, <1>19, <1>20, <1>21, <1>22,
     <1>23, <1>24, <1>25, <1>26, <1>27, <1>28, <1>29, <1>30, <1>31, <1>32, <1>33
     DEF Next, AcceptorNext, StopNext, InjectorNext, StreamNext, MetricsNext, Finished

\* A packet is behind all that were queued before it: those delivered, and
\* those an injector holds.  Only a packet held for a connection that is gone
\* may have been overtaken, and that packet is not sent any more.
QueueOrder ==
  /\ \A i \in 1..Len(queue) : queue[i] <= injected
  /\ \A i, j \in 1..Len(queue) : i < j => queue[i] < queue[j]

HeldOrder ==
  \A c \in Conns : injector[c] = "holding" =>
    /\ held[c] <= injected
    /\ \A i \in 1..Len(queue) : held[c] < queue[i]
    /\ sock[c] = "open" => \A i \in 1..Len(delivered) : delivered[i] < held[c]

SentOrder ==
  /\ \A i \in 1..Len(delivered) : delivered[i] <= injected
  /\ \A i \in 1..Len(delivered), j \in 1..Len(queue) : delivered[i] < queue[j]
  /\ DeliveredInOrder

OrderInv == QueueOrder /\ HeldOrder /\ SentOrder

LEMMA NextOrder == SessionTypes /\ InjectionTypes /\ OneServed /\ OrderInv /\ [Next]_vars => OrderInv'
<1> SUFFICES ASSUME SessionTypes, InjectionTypes, OneServed, OrderInv, [Next]_vars PROVE OrderInv'
  OBVIOUS
<1> USE DEF Conns, Serving, Packets, SessionTypes, InjectionTypes, OneServed, OrderInv, QueueOrder, HeldOrder, SentOrder, DeliveredInOrder, vars, accVars, injVars, statsVars, Acc, othersOfAcc, othersOfStop, othersOfThread
<1>1. CASE UNCHANGED vars
  BY <1>1
<1>2. CASE AcceptTest
  BY <1>2 DEF AcceptTest
<1>3. CASE AcceptReturns
  BY <1>3 DEF AcceptReturns
<1>4. CASE Accept
  BY <1>4 DEF Accept
<1>5. CASE ConfigureFails
  BY <1>5 DEF ConfigureFails
<1>6. CASE Connected
  BY <1>6 DEF Connected
<1>7. CASE SpawnThreads
  BY <1>7 DEF SpawnThreads
<1>8. CASE ReaderTest
  BY <1>8 DEF ReaderTest
<1>9. CASE RecvEnds
  BY <1>9 DEF RecvEnds
<1>10. CASE RecvMessage
  BY <1>10 DEF RecvMessage
<1>11. CASE DatabaseStats
  BY <1>11 DEF DatabaseStats, StatsBegin
<1>12. CASE DatabaseBound
  BY <1>12 DEF DatabaseBound
<1>13. CASE DatabaseSent
  BY <1>13 DEF DatabaseSent, StatsSend, Sendable
<1>14. CASE DatabaseFails
  BY <1>14 DEF DatabaseFails, StatsFail
<1>15. CASE Cleanup
  BY <1>15 DEF Cleanup
<1>16. CASE AcceptLoopEnds
  BY <1>16 DEF AcceptLoopEnds
<1>17. CASE StopRaisesFlag
  BY <1>17 DEF StopRaisesFlag
<1>18. CASE StopCloses
  BY <1>18 DEF StopCloses
<1>19. CASE StopLooks
  BY <1>19 DEF StopLooks
<1>20. CASE StopShuts
  BY <1>20 DEF StopShuts, Sever
<1>21. CASE Inject
  <2>1. /\ queue' = Append(queue, injected + 1) /\ injected' = injected + 1
        /\ UNCHANGED <<injector, held, delivered, sock>>
    BY <1>21 DEF Inject
  <2>2. /\ Len(queue') = Len(queue) + 1 /\ injected \in Nat
        /\ \A i \in 1..Len(queue') :
             queue'[i] = IF i <= Len(queue) THEN queue[i] ELSE injected + 1
    BY <2>1
  <2>3. \A i \in 1..Len(queue') : i <= Len(queue) \/ i = Len(queue) + 1
    BY <2>2
  <2>4. \A i \in 1..Len(queue) : queue[i] \in Nat /\ queue[i] <= injected
    <3>1. \A i \in 1..Len(queue) : queue[i] \in Packets
      BY ElementOfSeq
    <3>2. \A i \in 1..Len(queue) : queue[i] <= injected
      OBVIOUS
    <3> QED
      BY <3>1, <3>2, ReplayAssumption
  <2>5. \A i \in 1..Len(queue') : queue'[i] <= injected'
    BY <2>1, <2>2, <2>3, <2>4
  <2>6. ASSUME NEW i \in 1..Len(queue'), NEW j \in 1..Len(queue'), i < j
        PROVE  queue'[i] < queue'[j]
    <3>1. i <= Len(queue) /\ queue'[i] = queue[i]
      BY <2>6, <2>2, <2>3
    <3>2. CASE j <= Len(queue)
      BY <2>6, <2>2, <3>1, <3>2
    <3>3. CASE j = Len(queue) + 1
      <4>1. queue'[j] = injected + 1
        BY <2>2, <3>3
      <4> QED
        BY <2>2, <2>4, <3>1, <4>1
    <3> QED
      BY <2>3, <3>2, <3>3
  <2>7. QueueOrder'
    BY <2>5, <2>6
  <2>8. HeldOrder'
    BY <2>1, <2>2, <2>3
  <2>9. \A i \in 1..Len(delivered) :
          delivered[i] \in Nat /\ delivered[i] <= injected
    <3>1. \A i \in 1..Len(delivered) : delivered[i] \in Packets
      BY ElementOfSeq
    <3>2. \A i \in 1..Len(delivered) : delivered[i] <= injected
      OBVIOUS
    <3> QED
      BY <3>1, <3>2, ReplayAssumption
  <2>10. ASSUME NEW i \in 1..Len(delivered), NEW j \in 1..Len(queue')
         PROVE  delivered[i] < queue'[j]
    <3>1. delivered[i] \in Nat /\ delivered[i] <= injected /\ injected \in Nat
      BY <2>2, <2>9
    <3>2. CASE j \in 1..Len(queue)
      <4>1. queue'[j] = queue[j]
        BY <2>2, <3>2
      <4> QED
        BY <3>2, <4>1
    <3>3. CASE queue'[j] = injected + 1
      <4> HIDE DEF SessionTypes, InjectionTypes, OneServed, QueueOrder, HeldOrder, SentOrder, DeliveredInOrder
      <4> QED
        BY <3>1, <3>3
    <3> QED
      BY <2>2, <2>3, <3>2, <3>3
  <2>11. SentOrder'
    BY <2>1, <2>2, <2>9, <2>10
  <2> QED
    BY <2>7, <2>8, <2>11
<1>22. CASE PeerLeaves
  BY <1>22 DEF PeerLeaves
<1>23. ASSUME NEW c \in Conns, InjectorTakes(c) PROVE OrderInv'
  BY <1>23 DEF InjectorTakes
<1>24. ASSUME NEW c \in Conns, InjectorSends(c) PROVE OrderInv'
  BY <1>24 DEF InjectorSends, Sendable
<1>25. ASSUME NEW c \in Conns, InjectorFails(c) PROVE OrderInv'
  BY <1>25 DEF InjectorFails
<1>26. ASSUME NEW c \in Conns, InjectorStops(c) PROVE OrderInv'
  BY <1>26 DEF InjectorStops
<1>27. ASSUME NEW c \in Conns, StreamFails(c) PROVE OrderInv'
  BY <1>27 DEF StreamFails, Sever, StreamGoes
<1>28. ASSUME NEW c \in Conns, StreamStops(c) PROVE OrderInv'
  BY <1>28 DEF StreamStops, StreamGoes
<1>29. ASSUME NEW c \in Conns, StreamStats(c) PROVE OrderInv'
  BY <1>29 DEF StreamStats, StatsBegin, StreamGoes
<1>30. ASSUME NEW c \in Conns, StreamStatsSent(c) PROVE OrderInv'
  BY <1>30 DEF StreamStatsSent, StatsSend, StreamGoes, Sendable
<1>31. ASSUME NEW c \in Conns, StreamStatsFail(c) PROVE OrderInv'
  BY <1>31 DEF StreamStatsFail, StatsFail, Sever, StreamGoes
<1>32. ASSUME NEW c \in Conns, MetricsFail(c) PROVE OrderInv'
  BY <1>32 DEF MetricsFail, Sever
<1>33. ASSUME NEW c \in Conns, MetricsStop(c) PROVE OrderInv'
  BY <1>33 DEF MetricsStop
<1> QED
  BY <1>1, <1>2, <1>3, <1>4, <1>5, <1>6, <1>7, <1>8, <1>9, <1>10, <1>11, <1>12,
     <1>13, <1>14, <1>15, <1>16, <1>17, <1>18, <1>19, <1>20, <1>21, <1>22,
     <1>23, <1>24, <1>25, <1>26, <1>27, <1>28, <1>29, <1>30, <1>31, <1>32, <1>33
     DEF Next, AcceptorNext, StopNext, InjectorNext, StreamNext, MetricsNext, Finished

\* Injected packets are delivered in the order of their injection.
THEOREM DeliveryKeepsOrder == Spec => []DeliveredInOrder
<1>1. Init => OneServed /\ OrderInv
  BY DEF Init, OneServed, OrderInv, QueueOrder, HeldOrder, SentOrder,
         DeliveredInOrder, Conns
<1>2. OrderInv => DeliveredInOrder
  BY DEF OrderInv, SentOrder
<1> QED
  BY <1>1, <1>2, NextOneServed, NextOrder, TypesAlways, PTL DEF Spec, Types

-----------------------------------------------------------------------------
(* Which connection a failed send severs.                                  *)

SeversOwn ==
  \A c \in Conns : sock[c] = "open" /\ sock'[c] = "shut" =>
    \/ caller = "found"
    \/ stream[c] # "gone" /\ stream'[c] = "gone"
    \/ metrics[c] # "gone" /\ metrics'[c] = "gone"

LEMMA NextSevers == SessionTypes /\ StatsTypes /\ [Next]_vars => SeversOwn
<1> SUFFICES ASSUME SessionTypes, StatsTypes, [Next]_vars PROVE SeversOwn
  OBVIOUS
<1> USE DEF SessionTypes, StatsTypes, SeversOwn, vars, accVars, injVars, statsVars, Acc, othersOfAcc, othersOfStop, othersOfThread
<1>1. CASE UNCHANGED vars
  BY <1>1
<1>2. CASE AcceptTest
  BY <1>2 DEF AcceptTest
<1>3. CASE AcceptReturns
  BY <1>3 DEF AcceptReturns
<1>4. CASE Accept
  BY <1>4 DEF Accept
<1>5. CASE ConfigureFails
  BY <1>5 DEF ConfigureFails
<1>6. CASE Connected
  BY <1>6 DEF Connected
<1>7. CASE SpawnThreads
  BY <1>7 DEF SpawnThreads
<1>8. CASE ReaderTest
  BY <1>8 DEF ReaderTest
<1>9. CASE RecvEnds
  BY <1>9 DEF RecvEnds
<1>10. CASE RecvMessage
  BY <1>10 DEF RecvMessage
<1>11. CASE DatabaseStats
  BY <1>11 DEF DatabaseStats, StatsBegin
<1>12. CASE DatabaseBound
  BY <1>12 DEF DatabaseBound
<1>13. CASE DatabaseSent
  BY <1>13 DEF DatabaseSent, StatsSend, Sendable
<1>14. CASE DatabaseFails
  BY <1>14 DEF DatabaseFails, StatsFail
<1>15. CASE Cleanup
  BY <1>15 DEF Cleanup
<1>16. CASE AcceptLoopEnds
  BY <1>16 DEF AcceptLoopEnds
<1>17. CASE StopRaisesFlag
  BY <1>17 DEF StopRaisesFlag
<1>18. CASE StopCloses
  BY <1>18 DEF StopCloses
<1>19. CASE StopLooks
  BY <1>19 DEF StopLooks
<1>20. CASE StopShuts
  BY <1>20 DEF StopShuts, Sever
<1>21. CASE Inject
  BY <1>21 DEF Inject
<1>22. CASE PeerLeaves
  BY <1>22 DEF PeerLeaves
<1>23. ASSUME NEW c \in Conns, InjectorTakes(c) PROVE SeversOwn
  BY <1>23 DEF InjectorTakes
<1>24. ASSUME NEW c \in Conns, InjectorSends(c) PROVE SeversOwn
  BY <1>24 DEF InjectorSends, Sendable
<1>25. ASSUME NEW c \in Conns, InjectorFails(c) PROVE SeversOwn
  BY <1>25 DEF InjectorFails
<1>26. ASSUME NEW c \in Conns, InjectorStops(c) PROVE SeversOwn
  BY <1>26 DEF InjectorStops
<1>27. ASSUME NEW c \in Conns, StreamFails(c) PROVE SeversOwn
  BY <1>27 DEF StreamFails, Sever, StreamGoes
<1>28. ASSUME NEW c \in Conns, StreamStops(c) PROVE SeversOwn
  BY <1>28 DEF StreamStops, StreamGoes
<1>29. ASSUME NEW c \in Conns, StreamStats(c) PROVE SeversOwn
  BY <1>29 DEF StreamStats, StatsBegin, StreamGoes
<1>30. ASSUME NEW c \in Conns, StreamStatsSent(c) PROVE SeversOwn
  BY <1>30 DEF StreamStatsSent, StatsSend, StreamGoes, Sendable
<1>31. ASSUME NEW c \in Conns, StreamStatsFail(c) PROVE SeversOwn
  BY <1>31 DEF StreamStatsFail, StatsFail, Sever, StreamGoes
<1>32. ASSUME NEW c \in Conns, MetricsFail(c) PROVE SeversOwn
  BY <1>32 DEF MetricsFail, Sever
<1>33. ASSUME NEW c \in Conns, MetricsStop(c) PROVE SeversOwn
  BY <1>33 DEF MetricsStop
<1> QED
  BY <1>1, <1>2, <1>3, <1>4, <1>5, <1>6, <1>7, <1>8, <1>9, <1>10, <1>11, <1>12,
     <1>13, <1>14, <1>15, <1>16, <1>17, <1>18, <1>19, <1>20, <1>21, <1>22,
     <1>23, <1>24, <1>25, <1>26, <1>27, <1>28, <1>29, <1>30, <1>31, <1>32, <1>33
     DEF Next, AcceptorNext, StopNext, InjectorNext, StreamNext, MetricsNext, Finished

\* A thread that outlived its connection never severs the next one.
THEOREM OnlyOwnConnectionSevered == Spec => SeversItsOwn
<1>1. Types /\ [Next]_vars => SeversOwn
  BY NextSevers DEF Types
<1> QED
  BY <1>1, TypesAlways, PTL DEF Spec, SeversItsOwn, SeversOwn

\* What a session counts, sends and loses.
THEOREM ReplayInvAlways == Spec => []ReplayInv
BY ReplayTypes, LossIsBounded, DeliveryKeepsOrder, StatsAreNumbered, OnlyStopEndsALoop, PTL
   DEF ReplayInv

=============================================================================
