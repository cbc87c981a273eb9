------------------------- MODULE FeedHandlerProofs -------------------------
(***************************************************************************)
(* Proofs about FeedHandler, for every number of attempts, every timeout   *)
(* and every bound.  The flags, the numbers and the connection each have a *)
(* lemma of their own, with one step per action.                           *)
(***************************************************************************)
EXTENDS FeedHandler, TLAPS

-----------------------------------------------------------------------------
(***************************************************************************)
(* Type correctness.                                                       *)
(***************************************************************************)

LEMMA FlagInit == Init => FlagTypes
BY Zenon DEF Init, FlagTypes

LEMMA FlagStep == ASSUME FlagTypes, [Next]_vars PROVE FlagTypes'
<1> USE DEF FlagTypes
<1>1. CASE InitialConnect
  BY Zenon, <1>1 DEF InitialConnect, ConnectSucceeds, ConnectFails, sock, parse, rvars, main
<1>2. CASE LoopExit
  BY Zenon, <1>2 DEF LoopExit, flags, sock, time, parse, rvars, main
<1>3. CASE EpollWait
  BY Zenon, <1>3 DEF EpollWait, flags, time, parse, rvars, main
<1>4. CASE HandleEventFd
  BY Zenon, <1>4 DEF HandleEventFd, sock, time, parse, rvars, main
<1>5. CASE Connect
  BY Zenon, <1>5 DEF Connect, ConnectSucceeds, ConnectFails, sock, parse, rvars, main
<1>6. CASE HandleSocket
  BY Zenon, <1>6 DEF HandleSocket, OnDisconnect, sock, time, parse, rvars, main
<1>7. CASE RecvBytes
  BY Zenon, <1>7 DEF RecvBytes, flags, nvars, rvars, main
<1>8. CASE RecvAgain
  BY Zenon, <1>8 DEF RecvAgain, flags, sock, time, parse, rvars, main
<1>9. CASE RecvClosed
  BY Zenon, <1>9 DEF RecvClosed, OnDisconnect, sock, time, parse, rvars, main
<1>10. CASE BatchDone
  BY Zenon, <1>10 DEF BatchDone, flags, sock, parse, rvars, main
<1>11. CASE HeartbeatCheck
  BY Zenon, <1>11 DEF HeartbeatCheck, OnDisconnect, sock, parse, rvars, main
<1>12. CASE ParseMessage
  BY Zenon, <1>12 DEF ParseMessage, flags, sock, nvars, rvars, main
<1>13. CASE ParseExit
  BY Zenon, <1>13 DEF ParseExit, flags, sock, nvars, time, rvars, main
<1>14. CASE ReconnectTop
  BY Zenon, <1>14 DEF ReconnectTop, flags, sock, nvars, time, parse, main
<1>15. CASE GiveUpCheck
  BY Zenon, <1>15 DEF GiveUpCheck, sock, nvars, time, parse, main
<1>16. CASE NextDelay
  BY Zenon, <1>16 DEF NextDelay, sock, nvars, time, parse, main
<1>17. CASE BackoffDone
  BY Zenon, <1>17 DEF BackoffDone, sock, nvars, time, parse, main
<1>18. CASE Stop
  BY Zenon, <1>18 DEF Stop, sock, nvars, time, parse, rvars
<1>19. CASE Join
  BY Zenon, <1>19 DEF Join, flags, sock, nvars, time, parse, rvars
<1>20. CASE StopAgain
  BY Zenon, <1>20 DEF StopAgain, sock, nvars, time, parse, rvars
<1>21. CASE ServerSends
  BY Zenon, <1>21 DEF ServerSends, flags, nvars, time, parse, rvars, main
<1>22. CASE PeerCloses
  BY Zenon, <1>22 DEF PeerCloses, flags, nvars, time, parse, rvars, main
<1>23. CASE PeerVanishes
  BY Zenon, <1>23 DEF PeerVanishes, flags, nvars, time, parse, rvars, main
<1>24. CASE ServerToggles
  BY Zenon, <1>24 DEF ServerToggles, flags, sock, nvars, time, parse, rvars, main
<1>25. CASE Tick
  BY Zenon, <1>25 DEF Tick, flags, sock, nvars, parse, rvars, main
<1>26. CASE UNCHANGED vars
  BY Zenon, <1>26 DEF vars, flags, sock, nvars, time, parse, rvars, main
<1>27. CASE Terminated
  BY Zenon, <1>27 DEF Terminated, vars, flags, sock, nvars, time, parse, rvars, main
<1>28. QED
  BY <1>1, <1>2, <1>3, <1>4, <1>5, <1>6, <1>7, <1>8, <1>9, <1>10, <1>11, <1>12,
     <1>13, <1>14, <1>15, <1>16, <1>17, <1>18, <1>19, <1>20, <1>21, <1>22, <1>23, <1>24, <1>25,
     <1>26, <1>27
  DEF Next, Network, Parse, Reconnector, Main, Environment

\* The clock's two readings and the backlog stay within their bounds.
LEMMA AgeType ==
    ASSUME NEW n \in 0 .. MaxAge
    PROVE  Least(n + 1, MaxAge) \in 0 .. MaxAge
BY TimeAssumption DEF Least, MaxAge

LEMMA BacklogType ==
    ASSUME NEW n \in 0 .. MaxBacklog
    PROVE  /\ Least(n + 1, MaxBacklog) \in 0 .. MaxBacklog
           /\ n > 0 => n - 1 \in 0 .. MaxBacklog
BY BacklogAssumption DEF Least

LEMMA ZeroTypes == 0 \in 0 .. MAX_ATTEMPT /\ 0 \in 0 .. MaxAge /\ 0 \in 0 .. MaxLag
BY AttemptAssumption, TimeAssumption DEF MaxAge

LEMMA DataInit == Init => DataTypes
BY ZeroTypes, BacklogAssumption DEF Init, DataTypes

LEMMA DataStep == ASSUME DataTypes, [Next]_vars PROVE DataTypes'
<1> USE DEF DataTypes
<1>1. CASE InitialConnect
  BY <1>1, ZeroTypes DEF InitialConnect, ConnectSucceeds, ConnectFails, sock, parse, rvars, main
<1>2. CASE LoopExit
  BY <1>2 DEF LoopExit, flags, sock, time, parse, rvars, main
<1>3. CASE EpollWait
  BY <1>3 DEF EpollWait, flags, time, parse, rvars, main
<1>4. CASE HandleEventFd
  BY <1>4 DEF HandleEventFd, sock, time, parse, rvars, main
<1>5. CASE Connect
  BY <1>5, ZeroTypes DEF Connect, ConnectSucceeds, ConnectFails, sock, parse, rvars, main
<1>6. CASE HandleSocket
  BY <1>6 DEF HandleSocket, OnDisconnect, sock, time, parse, rvars, main
<1>7. CASE RecvBytes
  BY <1>7, ZeroTypes, BacklogType DEF RecvBytes, flags, nvars, rvars, main
<1>8. CASE RecvAgain
  BY <1>8 DEF RecvAgain, flags, sock, time, parse, rvars, main
<1>9. CASE RecvClosed
  BY <1>9 DEF RecvClosed, OnDisconnect, sock, time, parse, rvars, main
<1>10. CASE BatchDone
  BY <1>10, ZeroTypes DEF BatchDone, flags, sock, parse, rvars, main
<1>11. CASE HeartbeatCheck
  BY <1>11, ZeroTypes DEF HeartbeatCheck, OnDisconnect, sock, parse, rvars, main
<1>12. CASE ParseMessage
  BY <1>12, ZeroTypes, BacklogType DEF ParseMessage, flags, sock, nvars, rvars, main
<1>13. CASE ParseExit
  BY <1>13 DEF ParseExit, flags, sock, nvars, time, rvars, main
<1>14. CASE ReconnectTop
  BY <1>14 DEF ReconnectTop, flags, sock, nvars, time, parse, main
<1>15. CASE GiveUpCheck
  BY <1>15, AttemptAssumption DEF GiveUpCheck, sock, nvars, time, parse, main
<1>16. CASE NextDelay
  BY <1>16, AttemptAssumption DEF NextDelay, sock, nvars, time, parse, main
<1>17. CASE BackoffDone
  BY <1>17 DEF BackoffDone, sock, nvars, time, parse, main
<1>18. CASE Stop
  BY <1>18 DEF Stop, sock, nvars, time, parse, rvars
<1>19. CASE Join
  BY <1>19 DEF Join, Follower, flags, sock, nvars, time, parse, rvars
<1>20. CASE StopAgain
  BY <1>20 DEF StopAgain, sock, nvars, time, parse, rvars
<1>21. CASE ServerSends
  BY <1>21 DEF ServerSends, flags, nvars, time, parse, rvars, main
<1>22. CASE PeerCloses
  BY <1>22 DEF PeerCloses, flags, nvars, time, parse, rvars, main
<1>23. CASE PeerVanishes
  BY <1>23 DEF PeerVanishes, flags, nvars, time, parse, rvars, main
<1>24. CASE ServerToggles
  BY <1>24 DEF ServerToggles, flags, sock, nvars, time, parse, rvars, main
<1>25. CASE Tick
  BY <1>25, AgeType, TimeAssumption DEF Tick, flags, sock, nvars, parse, rvars, main
<1>26. CASE UNCHANGED vars
  BY <1>26 DEF vars, flags, sock, nvars, time, parse, rvars, main
<1>27. CASE Terminated
  BY <1>27 DEF Terminated, vars, flags, sock, nvars, time, parse, rvars, main
<1>28. QED
  BY <1>1, <1>2, <1>3, <1>4, <1>5, <1>6, <1>7, <1>8, <1>9, <1>10, <1>11, <1>12,
     <1>13, <1>14, <1>15, <1>16, <1>17, <1>18, <1>19, <1>20, <1>21, <1>22, <1>23, <1>24, <1>25,
     <1>26, <1>27
  DEF Next, Network, Parse, Reconnector, Main, Environment

\* Every variable keeps its type.  In particular attempt_ never passes
\* MAX_ATTEMPT, although two threads write it without synchronisation.
THEOREM TypeCorrect == Spec => []TypeOK
<1>1. Init => FlagTypes /\ DataTypes
  BY FlagInit, DataInit
<1>2. FlagTypes /\ DataTypes /\ [Next]_vars => FlagTypes' /\ DataTypes'
  BY FlagStep, DataStep
<1>3. FlagTypes /\ DataTypes => TypeOK
  BY DEF TypeOK
<1>4. QED
  BY <1>1, <1>2, <1>3, PTL DEF Spec

-----------------------------------------------------------------------------
(***************************************************************************)
(* The connection.                                                         *)
(***************************************************************************)

LEMMA ConnInit == Init => ConnInv
BY DEF Init, ConnInv, EventsAreCurrent

LEMMA ConnStep ==
    ASSUME FlagTypes, DataTypes, ConnInv, [Next]_vars PROVE ConnInv'
<1> USE DEF FlagTypes, DataTypes, ConnInv, EventsAreCurrent
<1>1. CASE InitialConnect
  BY <1>1 DEF InitialConnect, ConnectSucceeds, ConnectFails, sock, parse, rvars, main
<1>2. CASE LoopExit
  BY <1>2 DEF LoopExit, flags, sock, time, parse, rvars, main
<1>3. CASE EpollWait
  BY <1>3 DEF EpollWait, flags, time, parse, rvars, main
<1>4. CASE HandleEventFd
  BY <1>4 DEF HandleEventFd, sock, time, parse, rvars, main
<1>5. CASE Connect
  BY <1>5 DEF Connect, ConnectSucceeds, ConnectFails, sock, parse, rvars, main
<1>6. CASE HandleSocket
  BY <1>6 DEF HandleSocket, OnDisconnect, sock, time, parse, rvars, main
<1>7. CASE RecvBytes
  BY <1>7 DEF RecvBytes, flags, nvars, rvars, main
<1>8. CASE RecvAgain
  BY <1>8 DEF RecvAgain, flags, sock, time, parse, rvars, main
<1>9. CASE RecvClosed
  BY <1>9 DEF RecvClosed, OnDisconnect, sock, time, parse, rvars, main
<1>10. CASE BatchDone
  BY <1>10 DEF BatchDone, flags, sock, parse, rvars, main
<1>11. CASE HeartbeatCheck
  BY <1>11 DEF HeartbeatCheck, OnDisconnect, sock, parse, rvars, main
<1>12. CASE ParseMessage
  BY <1>12 DEF ParseMessage, flags, sock, nvars, rvars, main
<1>13. CASE ParseExit
  BY <1>13 DEF ParseExit, flags, sock, nvars, time, rvars, main
<1>14. CASE ReconnectTop
  BY <1>14 DEF ReconnectTop, flags, sock, nvars, time, parse, main
<1>15. CASE GiveUpCheck
  BY <1>15 DEF GiveUpCheck, sock, nvars, time, parse, main
<1>16. CASE NextDelay
  BY <1>16 DEF NextDelay, sock, nvars, time, parse, main
<1>17. CASE BackoffDone
  BY <1>17 DEF BackoffDone, sock, nvars, time, parse, main
<1>18. CASE Stop
  BY <1>18 DEF Stop, sock, nvars, time, parse, rvars
<1>19. CASE Join
  BY <1>19 DEF Join, Follower, flags, sock, nvars, time, parse, rvars
<1>20. CASE StopAgain
  BY <1>20 DEF StopAgain, sock, nvars, time, parse, rvars
<1>21. CASE ServerSends
  BY <1>21 DEF ServerSends, flags, nvars, time, parse, rvars, main
<1>22. CASE PeerCloses
  BY <1>22 DEF PeerCloses, flags, nvars, time, parse, rvars, main
<1>23. CASE PeerVanishes
  BY <1>23 DEF PeerVanishes, flags, nvars, time, parse, rvars, main
<1>24. CASE ServerToggles
  BY <1>24 DEF ServerToggles, flags, sock, nvars, time, parse, rvars, main
<1>25. CASE Tick
  BY <1>25 DEF Tick, flags, sock, nvars, parse, rvars, main
<1>26. CASE UNCHANGED vars
  BY <1>26 DEF vars, flags, sock, nvars, time, parse, rvars, main
<1>27. CASE Terminated
  BY <1>27 DEF Terminated, vars, flags, sock, nvars, time, parse, rvars, main
<1>28. QED
  BY <1>1, <1>2, <1>3, <1>4, <1>5, <1>6, <1>7, <1>8, <1>9, <1>10, <1>11, <1>12,
     <1>13, <1>14, <1>15, <1>16, <1>17, <1>18, <1>19, <1>20, <1>21, <1>22, <1>23, <1>24, <1>25,
     <1>26, <1>27
  DEF Next, Network, Parse, Reconnector, Main, Environment

\* Where the network thread is tells what it knows of the connection: it has
\* none and no request for one before its connect, a lost one is replaced by a
\* request, and it drains and times only a socket it still holds.
THEOREM ConnInvariant == Spec => []ConnInv
<1>1. Init => FlagTypes /\ DataTypes /\ ConnInv
  BY FlagInit, DataInit, ConnInit
<1>2. FlagTypes /\ DataTypes /\ ConnInv /\ [Next]_vars
        => FlagTypes' /\ DataTypes' /\ ConnInv'
  BY FlagStep, DataStep, ConnStep
<1>3. QED
  BY <1>1, <1>2, PTL DEF Spec

\* Whatever the order of disconnections, failed connects, wake-ups of the
\* reconnect thread and spurious signals, the network thread never goes to
\* wait without a connection and without a pending request for one.
THEOREM ReconnectNeverLost == Spec => []NoLostReconnect
<1>1. ConnInv => NoLostReconnect
  BY DEF ConnInv, NoLostReconnect
<1>2. QED
  BY <1>1, ConnInvariant, PTL

\* An epoll event is never applied to a connection other than the one it was
\* reported for, and the flags agree with the socket.
THEOREM EventsHitTheirSocket == Spec => []EventsAreCurrent
<1>1. ConnInv => EventsAreCurrent
  BY DEF ConnInv
<1>2. QED
  BY <1>1, ConnInvariant, PTL
=============================================================================
