---------------------------- MODULE FeedHandler ----------------------------
(***************************************************************************)
(* FeedHandler (include/client/feed_handler.h, src/client/feed_handler.cpp *)
(* with MarketDataSocket and ReconnectPolicy of src/client/socket.cpp):    *)
(* the network thread owns the socket and the epoll loop, the reconnect    *)
(* thread paces reconnections and wakes it through an eventfd, the parse   *)
(* thread drains the ring buffer, the main thread waits for `q' or a       *)
(* signal and joins them.                                                  *)
(*                                                                         *)
(* Time.  Only differences of mono_ns() matter: age is the present minus   *)
(* last_recv_ns_, lag the present minus the `now' of the heartbeat check   *)
(* in progress.  Both stop at a value beyond which they decide alike.      *)
(* The 100 ms poll, the backoff and the 1 s epoll timeout take any time.   *)
(***************************************************************************)
EXTENDS Integers

CONSTANTS
    MAX_ATTEMPT,        \* ReconnectPolicy::MAX_ATTEMPT
    HEARTBEAT_TIMEOUT,  \* HEARTBEAT_TIMEOUT_NS, in ticks
    MaxLag,             \* bound: ticks during one heartbeat check
    MaxBacklog          \* bound: messages in the ring buffer

ASSUME AttemptAssumption == MAX_ATTEMPT \in Nat \ {0}
ASSUME TimeAssumption    == HEARTBEAT_TIMEOUT \in Nat \ {0} /\ MaxLag \in Nat
ASSUME BacklogAssumption == MaxBacklog \in Nat

VARIABLES
    running,    \* running_
    connected,  \* connected_
    pending,    \* reconnect_pending_
    attempt,    \* reconnect_policy_.attempt_, a plain int two threads use
    efd,        \* the eventfd is readable
    link,       \* the client's socket: "none" (closed), "up", "cut" (the peer
                \* closed or reset it), "dead" (silent, and no error either)
    edge,       \* epoll holds an unreported edge for the socket
    data,       \* the socket has unread bytes
    fresh,      \* ghost: the socket was connected after the last epoll_wait
    serverUp,   \* a connect succeeds: the exchange can be reached and accepts
    npc,        \* network thread
    batch,      \* network thread: events of the batch still to be handled
    hup,        \* network thread: the socket's event has ERR, HUP or RDHUP
    age, lag,   \* see above
    backlog,    \* messages in the ring buffer
    ppc,        \* parse thread: "loop", "exit"
    rpc,        \* reconnect thread
    ratt,       \* reconnect thread: attempt_ as next_delay_ms loaded it
    mpc,        \* main thread: "run", the thread it joins, "done"
    stopped     \* a stop() has returned: no thread is joinable

flags   == <<running, connected, pending, attempt, efd>>
sock    == <<link, edge, data, fresh>>
nvars   == <<npc, batch, hup>>
time    == <<age, lag>>
parse   == <<backlog, ppc>>
rvars   == <<rpc, ratt>>
main    == <<mpc, stopped>>
vars    == <<flags, sock, serverUp, nvars, time, parse, rvars, main>>

Least(m, n) == IF m < n THEN m ELSE n

\* An age that has passed every timeout, whatever the lag.
MaxAge == HEARTBEAT_TIMEOUT + MaxLag + 1

FlagTypes ==
    /\ running \in BOOLEAN /\ connected \in BOOLEAN /\ pending \in BOOLEAN
    /\ efd \in BOOLEAN /\ edge \in BOOLEAN /\ data \in BOOLEAN /\ fresh \in BOOLEAN
    /\ serverUp \in BOOLEAN /\ hup \in BOOLEAN
    /\ stopped \in BOOLEAN

DataTypes ==
    /\ attempt \in 0 .. MAX_ATTEMPT /\ ratt \in 0 .. MAX_ATTEMPT
    /\ link \in {"none", "up", "cut", "dead"}
    /\ npc \in {"init", "top", "events", "connect", "drain", "hbload", "exit"}
    /\ batch \subseteq {"efd", "sock"}
    /\ age \in 0 .. MaxAge /\ lag \in 0 .. MaxLag
    /\ backlog \in 0 .. MaxBacklog
    /\ ppc \in {"loop", "exit"}
    /\ rpc \in {"top", "check", "delay", "sleep", "exit"}
    /\ rpc = "delay" => ratt < MAX_ATTEMPT
    /\ mpc \in {"run", "net", "parse", "rec", "done"}

TypeOK == FlagTypes /\ DataTypes

\* start() has set running_ and launched the threads.
Init ==
    /\ running = TRUE /\ connected = FALSE /\ pending = FALSE
    /\ attempt = 0 /\ efd = FALSE
    /\ link = "none" /\ edge = FALSE /\ data = FALSE /\ fresh = FALSE
    /\ serverUp \in BOOLEAN
    /\ npc = "init" /\ batch = {} /\ hup = FALSE
    /\ age = 0 /\ lag = 0
    /\ backlog = 0 /\ ppc = "loop"
    /\ rpc = "top" /\ ratt = 0
    /\ mpc = "run" /\ stopped = FALSE

-----------------------------------------------------------------------------
(***************************************************************************)
(* Connecting and disconnecting, on the network thread.                    *)
(***************************************************************************)

\* do_connect succeeds: the new socket is registered edge-triggered, the
\* subscription is sent (its result is ignored), the policy and the heartbeat
\* clock start afresh.
ConnectSucceeds ==
    /\ serverUp
    /\ link' = "up" /\ edge' = FALSE /\ data' = FALSE /\ fresh' = TRUE
    /\ connected' = TRUE
    /\ attempt' = 0
    /\ age' = 0
    /\ UNCHANGED pending

\* Mutant: the caller does not ask for another attempt.
ConnectFailsForgotten ==
    /\ ~serverUp
    /\ UNCHANGED <<sock, connected, attempt, age, pending>>

\* do_connect fails; its caller asks the reconnect thread for another attempt.
ConnectFails ==
    /\ ~serverUp
    /\ pending' = TRUE
    /\ UNCHANGED <<sock, connected, attempt, age>>

\* Mutant: the network thread is signalled but no reconnection is requested.
OnDisconnectNoPending ==
    /\ connected' = FALSE
    /\ IF connected
         THEN /\ link' = "none" /\ edge' = FALSE /\ data' = FALSE
              /\ efd' = (running \/ efd)
              /\ UNCHANGED <<fresh, pending>>
         ELSE UNCHANGED <<sock, pending, efd>>

\* on_disconnect: only the first call of a connection does anything.
OnDisconnect ==
    /\ connected' = FALSE
    /\ IF connected
         THEN /\ link' = "none" /\ edge' = FALSE /\ data' = FALSE
              /\ pending' = (running \/ pending)
              /\ efd' = (running \/ efd)
              /\ UNCHANGED fresh
         ELSE UNCHANGED <<sock, pending, efd>>

-----------------------------------------------------------------------------
(***************************************************************************)
(* The network thread.                                                     *)
(***************************************************************************)

\* The connect before the loop.
InitialConnect ==
    /\ npc = "init"
    /\ ConnectSucceeds \/ ConnectFails
    /\ npc' = "top"
    /\ UNCHANGED <<running, efd, serverUp, batch, hup, lag, parse, rvars, main>>

LoopExit ==
    /\ npc = "top"
    /\ ~running
    /\ npc' = "exit"
    /\ UNCHANGED <<flags, sock, serverUp, batch, hup, time, parse, rvars, main>>

\* epoll_wait returns the readable eventfd and the socket's edge, if any, or
\* times out with nothing.
EpollWait ==
    /\ npc = "top"
    /\ running
    /\ batch' = (IF efd THEN {"efd"} ELSE {}) \union (IF edge THEN {"sock"} ELSE {})
    /\ hup' = (link = "cut")
    /\ edge' = FALSE
    /\ fresh' = FALSE
    /\ npc' = "events"
    /\ UNCHANGED <<flags, link, data, serverUp, time, parse, rvars, main>>

\* Mutant: every signal on the eventfd is taken as a request to reconnect.
HandleEventFdAlways ==
    /\ npc = "events" /\ "efd" \in batch
    /\ batch' = batch \ {"efd"}
    /\ efd' = FALSE
    /\ pending' = FALSE
    /\ npc' = "connect"
    /\ UNCHANGED <<running, connected, attempt, sock, serverUp, hup, time, parse, rvars, main>>

\* The eventfd: drain it and connect if a reconnection is pending.
HandleEventFd ==
    /\ npc = "events" /\ "efd" \in batch
    /\ batch' = batch \ {"efd"}
    /\ efd' = FALSE
    /\ pending' = FALSE
    /\ npc' = IF pending THEN "connect" ELSE "events"
    /\ UNCHANGED <<running, connected, attempt, sock, serverUp, hup, time, parse, rvars, main>>

Connect ==
    /\ npc = "connect"
    /\ ConnectSucceeds \/ ConnectFails
    /\ npc' = "events"
    /\ UNCHANGED <<running, efd, serverUp, batch, hup, lag, parse, rvars, main>>

\* An event of the socket: disconnect at once on ERR, HUP or RDHUP, drain it
\* otherwise.
HandleSocket ==
    /\ npc = "events" /\ "sock" \in batch
    /\ batch' = batch \ {"sock"}
    /\ IF hup
         THEN OnDisconnect /\ npc' = "events"
         ELSE npc' = "drain" /\ UNCHANGED <<connected, pending, efd, sock>>
    /\ UNCHANGED <<running, attempt, serverUp, hup, time, parse, rvars, main>>

\* One turn of the drain loop: bytes are fed to the parser (they may or may not
\* complete a message) and the heartbeat clock restarts.
RecvBytes ==
    /\ npc = "drain" /\ data
    /\ data' = FALSE
    /\ backlog' \in {backlog, Least(backlog + 1, MaxBacklog)}
    /\ age' = 0
    /\ UNCHANGED <<flags, link, edge, fresh, serverUp, nvars, lag, ppc, rvars, main>>

\* EAGAIN
RecvAgain ==
    /\ npc = "drain" /\ ~data /\ link # "cut"
    /\ npc' = "events"
    /\ UNCHANGED <<flags, sock, serverUp, batch, hup, time, parse, rvars, main>>

\* End of file, or an error.
RecvClosed ==
    /\ npc = "drain" /\ ~data /\ link = "cut"
    /\ OnDisconnect
    /\ npc' = "events"
    /\ UNCHANGED <<running, attempt, serverUp, batch, hup, time, parse, rvars, main>>

\* After the batch, when connected, the heartbeat check reads the clock ...
BatchDone ==
    /\ npc = "events" /\ batch = {}
    /\ lag' = 0
    /\ npc' = IF connected THEN "hbload" ELSE "top"
    /\ UNCHANGED <<flags, sock, serverUp, batch, hup, age, parse, rvars, main>>

\* Mutant: a dead connection is left alone.
HeartbeatTimedOutNever == FALSE

\* ... and then loads last_recv_ns_.  now - last is unsigned: when the parse
\* thread has stored a later time in between, it is larger than any timeout.
HeartbeatTimedOut == age - lag > HEARTBEAT_TIMEOUT \/ age - lag < 0

HeartbeatCheck ==
    /\ npc = "hbload"
    /\ IF HeartbeatTimedOut THEN OnDisconnect ELSE UNCHANGED <<connected, pending, efd, sock>>
    /\ lag' = 0
    /\ npc' = "top"
    /\ UNCHANGED <<running, attempt, serverUp, batch, hup, age, parse, rvars, main>>

-----------------------------------------------------------------------------
(***************************************************************************)
(* The parse thread: a message that reaches the callback updates           *)
(* last_recv_ns_ too.                                                      *)
(***************************************************************************)
ParseMessage ==
    /\ ppc = "loop" /\ backlog > 0
    /\ backlog' = backlog - 1
    /\ age' = 0
    /\ UNCHANGED <<flags, sock, serverUp, nvars, lag, ppc, rvars, main>>

ParseExit ==
    /\ ppc = "loop" /\ ~running
    /\ ppc' = "exit"
    /\ UNCHANGED <<flags, sock, serverUp, nvars, time, backlog, rvars, main>>

-----------------------------------------------------------------------------
(***************************************************************************)
(* The reconnect thread.                                                   *)
(***************************************************************************)

\* Mutant: the loop looks at running_ only when a reconnection is pending.
ReconnectTopDeaf ==
    /\ rpc = "top"
    /\ pending
    /\ rpc' = IF running THEN "check" ELSE "exit"
    /\ UNCHANGED <<flags, sock, serverUp, nvars, time, parse, ratt, main>>

\* Loop condition, and the load of reconnect_pending_; when it is clear the
\* thread polls again after 100 ms.
ReconnectTop ==
    /\ rpc = "top"
    /\ \/ ~running /\ rpc' = "exit"
       \/ running /\ pending /\ rpc' = "check"
    /\ UNCHANGED <<flags, sock, serverUp, nvars, time, parse, ratt, main>>

\* Mutant: one attempt too many.
GiveUpCheckOffByOne ==
    /\ rpc = "check"
    /\ IF attempt > MAX_ATTEMPT
         THEN running' = FALSE /\ rpc' = "exit" /\ UNCHANGED ratt
         ELSE ratt' = attempt /\ rpc' = "delay" /\ UNCHANGED running
    /\ UNCHANGED <<connected, pending, attempt, efd, sock, serverUp, nvars, time, parse, main>>

\* give_up(), and next_delay_ms() loads attempt_.
GiveUpCheck ==
    /\ rpc = "check"
    /\ IF attempt >= MAX_ATTEMPT
         THEN /\ running' = FALSE
              /\ rpc' = "exit"
              /\ UNCHANGED ratt
         ELSE /\ ratt' = attempt
              /\ rpc' = "delay"
              /\ UNCHANGED running
    /\ UNCHANGED <<connected, pending, attempt, efd, sock, serverUp, nvars, time, parse, main>>

\* ++attempt_, not atomic with the load.
NextDelay ==
    /\ rpc = "delay"
    /\ attempt' = ratt + 1
    /\ rpc' = "sleep"
    /\ UNCHANGED <<running, connected, pending, efd, sock, serverUp, nvars, time, parse,
                   ratt, main>>

\* Mutant: the thread ends after its first signal.
BackoffDoneOnce ==
    /\ rpc = "sleep"
    /\ efd' = (running \/ efd)
    /\ rpc' = "exit"
    /\ UNCHANGED <<running, connected, pending, attempt, sock, serverUp, nvars, time, parse,
                   ratt, main>>

\* The backoff has passed: wake the network thread and poll again.
BackoffDone ==
    /\ rpc = "sleep"
    /\ IF running
         THEN efd' = TRUE /\ rpc' = "top"
         ELSE rpc' = "exit" /\ UNCHANGED efd
    /\ UNCHANGED <<running, connected, pending, attempt, sock, serverUp, nvars, time, parse,
                   ratt, main>>

-----------------------------------------------------------------------------
(***************************************************************************)
(* The main thread: run() ends on `q' or when running_ is cleared, and     *)
(* calls stop(); so does the handler of SIGINT and SIGTERM, which is taken *)
(* to interrupt run() and not a stop(), where it would throw.              *)
(***************************************************************************)

\* stop() begins: it clears running_, wakes epoll_wait, and stops and joins the
\* renderer, which ends after the frame it is drawing (see Visualizer).
Stop ==
    /\ mpc = "run" /\ ~stopped
    /\ running' = FALSE
    /\ efd' = TRUE
    /\ mpc' = "net"
    /\ UNCHANGED <<connected, pending, attempt, sock, serverUp, nvars, time, parse, rvars,
                   stopped>>

Ended == [net |-> npc, parse |-> ppc, rec |-> rpc]
Follower == [net |-> "parse", parse |-> "rec"]

\* Then the other threads are joined, one after the other.  A stop() called by the
\* handler returns into run(), ...
Join ==
    /\ mpc \in {"net", "parse", "rec"}
    /\ Ended[mpc] = "exit"
    /\ IF mpc = "rec"
         THEN mpc' \in {"run", "done"} /\ stopped' = TRUE
         ELSE mpc' = Follower[mpc] /\ UNCHANGED stopped
    /\ UNCHANGED <<flags, sock, serverUp, nvars, time, parse, rvars>>

\* ... which finds running_ clear and calls stop() again; nothing is joinable.
StopAgain ==
    /\ mpc = "run" /\ stopped /\ ~running
    /\ efd' = TRUE
    /\ mpc' = "done"
    /\ UNCHANGED <<running, connected, pending, attempt, sock, serverUp, nvars, time, parse,
                   rvars, stopped>>

-----------------------------------------------------------------------------
(***************************************************************************)
(* The surroundings: the exchange, the connection and the clock.           *)
(***************************************************************************)
ServerSends ==
    /\ link = "up"
    /\ data' = TRUE /\ edge' = TRUE
    /\ UNCHANGED <<flags, link, fresh, serverUp, nvars, time, parse, rvars, main>>

\* The peer closes or resets the connection.
PeerCloses ==
    /\ link = "up"
    /\ link' = "cut" /\ edge' = TRUE
    /\ UNCHANGED <<flags, data, fresh, serverUp, nvars, time, parse, rvars, main>>

\* The path to the peer breaks without a trace.
PeerVanishes ==
    /\ link = "up"
    /\ link' = "dead"
    /\ UNCHANGED <<flags, edge, data, fresh, serverUp, nvars, time, parse, rvars, main>>

ServerToggles ==
    /\ serverUp' = ~serverUp
    /\ UNCHANGED <<flags, sock, nvars, time, parse, rvars, main>>

Tick ==
    /\ npc = "hbload" => lag < MaxLag
    /\ age' = Least(age + 1, MaxAge)
    /\ lag' = IF npc = "hbload" THEN lag + 1 ELSE lag
    /\ UNCHANGED <<flags, sock, serverUp, nvars, parse, rvars, main>>

-----------------------------------------------------------------------------
Network ==
    \/ InitialConnect \/ LoopExit \/ EpollWait \/ HandleEventFd \/ Connect
    \/ HandleSocket \/ RecvBytes \/ RecvAgain \/ RecvClosed \/ BatchDone
    \/ HeartbeatCheck

Parse == ParseMessage \/ ParseExit

Reconnector == ReconnectTop \/ GiveUpCheck \/ NextDelay \/ BackoffDone

Main == Stop \/ Join \/ StopAgain

\* Once the network thread has ended nobody looks at the connection or the clock.
Environment ==
    /\ npc # "exit"
    /\ ServerSends \/ PeerCloses \/ PeerVanishes \/ ServerToggles \/ Tick

\* The program ends.
Terminated == mpc = "done" /\ UNCHANGED vars

Next ==
    Network \/ Parse \/ Reconnector \/ Main \/ Environment \/ Terminated

Spec == Init /\ [][Next]_vars

\* The threads are scheduled and the clock runs; nothing is assumed of the
\* connection or of the user, and of the server only that it does not outrun
\* the drain loop for ever (recv reports EAGAIN again and again).
FairSpec ==
    /\ Spec
    /\ SF_vars(RecvAgain)
    /\ WF_vars(Network) /\ WF_vars(Parse) /\ WF_vars(Reconnector)
    /\ WF_vars(Stop /\ ~running) /\ WF_vars(Join) /\ WF_vars(StopAgain)
    /\ WF_vars(Tick /\ npc # "exit")

-----------------------------------------------------------------------------
(***************************************************************************)
(* Properties.                                                             *)
(***************************************************************************)

\* Whenever the network thread is about to wait without a connection, a
\* reconnection is pending: no failure, signal or race loses the request.
NoLostReconnect ==
    npc = "top" /\ running /\ ~connected => pending

\* An event of the socket is handled only while the connection it belongs to is
\* the current one, never by the successor made earlier in the same batch; and
\* connected_ is true exactly while the client holds a socket.
EventsAreCurrent ==
    /\ "sock" \in batch => connected /\ ~fresh
    /\ connected <=> link # "none"
    /\ pending => ~connected

\* While the exchange accepts connections, a client without one gets one, or
\* has given up or is stopping.
Reconnects ==
    running /\ serverUp /\ ~connected ~> connected \/ ~serverUp \/ ~running

\* A connection that goes silent without an error is given up.
DeadPeerDetected ==
    link = "dead" ~> link # "dead" \/ ~running

\* When the program is told to stop, by the user or by a signal, or gives up,
\* every thread ends and the main thread joins them all, one after the other.
ShutdownCompletes ==
    ~running ~> mpc = "done"

\* The inductive invariant behind NoLostReconnect and EventsAreCurrent: where
\* the network thread is tells what it knows of the connection.
ConnInv ==
    /\ EventsAreCurrent
    /\ edge => connected
    /\ npc \in {"init", "connect"} => ~connected /\ ~pending
    /\ npc \notin {"init", "connect"} /\ running /\ ~connected => pending
    /\ npc \in {"drain", "hbload"} => connected
    /\ npc \in {"init", "top", "hbload", "exit"} => batch = {}
    /\ npc = "drain" => "sock" \notin batch

\* What the documentation says of the heartbeat: it ends a connection on which
\* nothing was received for the timeout.
HeartbeatOnlyWhenSilent ==
    [][npc = "hbload" /\ connected /\ ~connected' => age > HEARTBEAT_TIMEOUT]_vars
=============================================================================
