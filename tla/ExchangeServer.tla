--------------------------- MODULE ExchangeServer ---------------------------
(***************************************************************************)
(* The exchange's side: the two threads of ExchangeSimulator (src/server/  *)
(* exchange_simulator.cpp) on the client table of ClientManager            *)
(* (src/server/client_manager.cpp).  The accept thread runs the epoll loop *)
(* (accept, subscriptions, flushing, disconnects, periodic check); the     *)
(* tick thread broadcasts messages.  Nothing locks the table, its entries  *)
(* or the epoll interest they keep, so a step is one access to any of      *)
(* them.                                                                   *)
(*                                                                         *)
(* Undefined behaviour.  An entry reached through a reference or iterator  *)
(* after it was erased makes the rest of the run undefined: such a run     *)
(* ends there (both threads stop).  find, emplace and erase of the table   *)
(* and the operations on the two ends of a queue are taken to be atomic,   *)
(* and the table not to rehash (libstdc++: fewer than 14 clients).  The    *)
(* unlocked arithmetic on pending_bytes is a load and a store.             *)
(* tick()'s search for slow clients is one step: it changes nothing, but   *)
(* an erase by the tick thread under its iterator is not seen.             *)
(*                                                                         *)
(* Data.  Message m is the bytes (m - 1) * MsgLen + 1 .. m * MsgLen of the *)
(* stream the tick thread broadcasts.  How many bytes a send takes is left *)
(* open.  A connection has a number of its own, which its descriptor, that *)
(* the kernel uses again, does not tell.                                   *)
(***************************************************************************)
EXTENDS Integers, Sequences
LOCAL INSTANCE SequencesExt

CONSTANTS
    Fds,             \* descriptors accept4 may return
    MsgLen,          \* bytes in a message
    GreetingSizes,   \* bytes after which a client's first message is complete
    DROP_BYTES,      \* SLOW_CLIENT_DROP_BYTES
    SizeMod,         \* number of values of a size_t
    MaxConns,        \* bound: connections made
    MaxMsgs          \* bound: messages broadcast

ASSUME SizesAssumption ==
    /\ MsgLen \in Nat \ {0}
    /\ GreetingSizes \subseteq Nat \ {0}
    /\ DROP_BYTES \in Nat /\ SizeMod \in Nat /\ SizeMod > DROP_BYTES
ASSUME ServerBoundsAssumption == MaxConns \in Nat \ {0} /\ MaxMsgs \in Nat

VARIABLES
    fdConn,     \* kernel: the connection a descriptor is open on, 0 if closed
    armed,      \* kernel: EPOLLOUT is in the descriptor's interest set
    made,       \* connections made by clients
    accepted,   \* connections accepted; the others wait in the backlog
    greeting,   \* greeting[c], size of the client's first message
    sent, read, \* bytes of it the client has sent, the server has read
    gone,       \* connections closed or reset by the client
    clients,    \* clients_[fd]
    nmsgs,      \* messages generated
    tpc,        \* tick thread
    ttodo,      \* tick thread: connections the iteration has yet to reach
    tfd, tconn, \* tick thread: key of the iterator's node, and its connection
    tref,       \* tick thread: connection of the entry a find by key has led to
    tsent,      \* tick thread: result of its last send
    treg,       \* tick thread: pending_bytes as loaded
    apc,        \* accept thread
    batch,      \* accept thread: events still to be handled
    slow,       \* accept thread: to_remove of tick()
    afd, aconn, \* accept thread: descriptor and entry it is working on
    areg,       \* accept thread: pending_bytes as loaded
    asent,      \* accept thread: bytes the last send of flush_queue took
    wire        \* ghost: bytes written to each connection

kernel == <<fdConn, armed>>
peers  == <<made, accepted, greeting, sent, read, gone>>
tvars  == <<tpc, ttodo, tfd, tconn, tref, tsent, treg>>
avars  == <<apc, batch, slow, afd, aconn, areg, asent>>
vars   == <<kernel, peers, clients, nmsgs, tvars, avars, wire>>

Conns == 1 .. MaxConns
Bytes == 1 .. MaxMsgs * MsgLen
Message(m) == [i \in 1 .. MsgLen |-> (m - 1) * MsgLen + i]

\* A table slot without a client, and the client add_client puts there.
NoClient == [conn |-> 0, live |-> FALSE, got |-> 0, pending |-> <<>>, pending_bytes |-> 0]
NewClient(c) == [NoClient EXCEPT !.conn = c]

Client == [conn : 0 .. MaxConns, live : BOOLEAN, got : Nat, pending : Seq(Seq(Bytes)),
           pending_bytes : 0 .. SizeMod - 1]

InTable == {fd \in Fds : clients[fd].conn # 0}

KernelTypes == fdConn \in [Fds -> 0 .. MaxConns] /\ armed \in [Fds -> BOOLEAN]

PeerTypes ==
    /\ made \in 0 .. MaxConns /\ accepted \in 0 .. made
    /\ greeting \in [Conns -> GreetingSizes]
    /\ sent \in [Conns -> Nat] /\ read \in [Conns -> Nat]
    /\ \A c \in Conns : sent[c] <= greeting[c] /\ read[c] <= sent[c]
    /\ gone \subseteq Conns

TableTypes ==
    /\ clients \in [Fds -> Client]
    /\ \A fd \in Fds : \A i \in 1 .. Len(clients[fd].pending) :
         Len(clients[fd].pending[i]) \in 1 .. MsgLen

TickTypes ==
    /\ nmsgs \in 0 .. MaxMsgs
    /\ tpc \in {"idle", "visit", "find", "enqueue", "count", "send", "sent", "arm", "close",
               "erase", "advance", "undefined"}
    /\ ttodo \subseteq Conns /\ tfd \in Fds /\ tconn \in 0 .. MaxConns
    /\ tref \in 0 .. MaxConns /\ tsent \in 0 .. MsgLen /\ treg \in 0 .. SizeMod - 1

AcceptTypes ==
    /\ apc \in {"wait", "events", "accept", "add", "flush", "store", "disarm", "close",
                "erase", "tick", "undefined"}
    /\ batch \subseteq [fd : Fds, ev : {"hup", "out", "in"}] \union {[fd |-> 0, ev |-> "listen"]}
    /\ slow \subseteq Fds /\ afd \in Fds /\ aconn \in 0 .. MaxConns
    /\ areg \in 0 .. SizeMod - 1 /\ asent \in 0 .. MsgLen

TypeOK ==
    /\ KernelTypes /\ PeerTypes /\ TableTypes /\ TickTypes /\ AcceptTypes
    /\ wire \in [Conns -> Seq(Bytes)]

Init ==
    /\ fdConn = [fd \in Fds |-> 0] /\ armed = [fd \in Fds |-> FALSE]
    /\ made = 0 /\ accepted = 0
    /\ greeting \in [Conns -> GreetingSizes]
    /\ sent = [c \in Conns |-> 0] /\ read = [c \in Conns |-> 0]
    /\ gone = {}
    /\ clients = [fd \in Fds |-> NoClient]
    /\ nmsgs = 0
    /\ tpc = "idle" /\ ttodo = {} /\ tfd \in Fds /\ tconn = 0
    /\ tref = 0 /\ tsent = 0 /\ treg = 0
    /\ apc = "wait" /\ batch = {} /\ slow = {} /\ afd = tfd /\ aconn = 0
    /\ areg = 0 /\ asent = 0
    /\ wire = [c \in Conns |-> <<>>]

-----------------------------------------------------------------------------
(***************************************************************************)
(* What the two threads share.                                             *)
(***************************************************************************)

\* The results send may have on descriptor fd: bytes taken (0 is EAGAIN), or
\* -1 for another error.
SendResults(fd, len) ==
    {k \in -1 .. len : /\ fdConn[fd] = 0 => k = -1
                       /\ k = -1 => fdConn[fd] \in gone \union {0}}

Wrote(fd, bytes) ==
    wire' = IF bytes = <<>> THEN wire ELSE [wire EXCEPT ![fdConn[fd]] = @ \o bytes]

\* arm_epollout: the modification fails on a closed descriptor.
ArmEpollout(fd, enable) ==
    armed' = [armed EXCEPT ![fd] = enable /\ fdConn[fd] # 0]

\* remove_client up to close: the kernel may use the descriptor again before
\* the entry is erased.
CloseFd(fd) ==
    /\ fdConn' = [fdConn EXCEPT ![fd] = 0]
    /\ armed' = [armed EXCEPT ![fd] = FALSE]

\* The rest of remove_client.
EraseEntry(fd) == clients' = [clients EXCEPT ![fd] = NoClient]

\* An erased entry is used: from here on anything may happen.
Undefined ==
    /\ tpc' = "undefined" /\ apc' = "undefined"
    /\ UNCHANGED <<kernel, peers, clients, nmsgs, ttodo, tfd, tconn, tref, tsent, treg, batch,
                   slow, afd, aconn, areg, asent, wire>>

-----------------------------------------------------------------------------
(***************************************************************************)
(* The tick thread: broadcast, and send_to for each client of the table.   *)
(***************************************************************************)

TickUnchanged == UNCHANGED <<peers, avars>>

\* The iterator of broadcast still leads to the entry it is on, ...
TickEntryValid == clients[tfd].conn = tconn

\* ... and the reference of send_to, or the iterator of remove_client, to the
\* entry that was found.
TickRefValid == clients[tfd].conn = tref

\* The next message; the iteration begins.
Broadcast ==
    /\ tpc = "idle" /\ nmsgs < MaxMsgs
    /\ nmsgs' = nmsgs + 1
    /\ ttodo' = {clients[fd].conn : fd \in InTable}
    /\ tpc' = "visit"
    /\ TickUnchanged /\ UNCHANGED <<kernel, clients, tfd, tconn, tref, tsent, treg, wire>>

\* One client: skip it unless it is LIVE; send_to is called with its key ...
Visit ==
    /\ tpc = "visit"
    /\ \E fd \in InTable :
         /\ clients[fd].conn \in ttodo
         /\ ttodo' = ttodo \ {clients[fd].conn}
         /\ IF clients[fd].live
              THEN tfd' = fd /\ tconn' = clients[fd].conn /\ tpc' = "find"
              ELSE UNCHANGED <<tpc, tfd, tconn>>
    /\ TickUnchanged /\ UNCHANGED <<kernel, clients, nmsgs, tref, tsent, treg, wire>>

BroadcastEnds ==
    /\ tpc = "visit"
    /\ \A fd \in InTable : clients[fd].conn \notin ttodo
    /\ tpc' = "idle" /\ ttodo' = {} /\ tconn' = 0
    /\ TickUnchanged
    /\ UNCHANGED <<kernel, clients, nmsgs, tfd, tref, tsent, treg, wire>>

\* ... which it looks up again, and looks at the queue it finds.
FindClient ==
    /\ tpc = "find"
    /\ tref' = clients[tfd].conn
    /\ tpc' = IF tfd \notin InTable THEN "advance"
              ELSE IF clients[tfd].pending = <<>> THEN "send" ELSE "enqueue"
    /\ TickUnchanged /\ UNCHANGED <<kernel, clients, nmsgs, ttodo, tfd, tconn, tsent, treg, wire>>

\* Backpressured: the whole message goes to the queue ...
Enqueue ==
    /\ tpc = "enqueue" /\ TickRefValid
    /\ clients' = [clients EXCEPT ![tfd].pending = Append(@, Message(nmsgs))]
    /\ treg' = clients[tfd].pending_bytes
    /\ tpc' = "count"
    /\ TickUnchanged /\ UNCHANGED <<kernel, nmsgs, ttodo, tfd, tconn, tref, tsent, wire>>

\* ... and a client whose queue has grown too long is dropped.
Count ==
    /\ tpc = "count" /\ TickRefValid
    /\ LET pb == (treg + MsgLen) % SizeMod
       IN  /\ clients' = [clients EXCEPT ![tfd].pending_bytes = pb]
           /\ tpc' = IF pb > DROP_BYTES THEN "close" ELSE "advance"
    /\ treg' = 0
    /\ TickUnchanged /\ UNCHANGED <<kernel, nmsgs, ttodo, tfd, tconn, tref, tsent, wire>>

\* An empty queue: send at once.  Only the descriptor is used, whatever it is
\* open on by now.
SendBytes ==
    /\ tpc = "send"
    /\ \E k \in SendResults(tfd, MsgLen) :
         /\ Wrote(tfd, SubSeq(Message(nmsgs), 1, k))
         /\ IF k = -1 THEN tpc' = "close" /\ UNCHANGED tsent
                      ELSE tpc' = "sent" /\ tsent' = k
    /\ TickUnchanged /\ UNCHANGED <<kernel, clients, nmsgs, ttodo, tfd, tconn, tref, treg>>

\* Mutant: after a partial send the whole message is queued.
SentRequeuesAll ==
    /\ tpc = "sent" /\ TickRefValid
    /\ clients' = IF tsent = MsgLen THEN clients
                  ELSE [clients EXCEPT ![tfd].pending = Append(@, Message(nmsgs)),
                                       ![tfd].pending_bytes = (@ + MsgLen) % SizeMod]
    /\ tpc' = IF tsent = MsgLen THEN "advance" ELSE "arm"
    /\ tsent' = 0
    /\ TickUnchanged /\ UNCHANGED <<kernel, nmsgs, ttodo, tfd, tconn, tref, treg, wire>>

\* Back in the entry: queue what the socket did not take.  (The accept thread
\* leaves an empty queue and its count alone.)
Sent ==
    /\ tpc = "sent" /\ TickRefValid
    /\ clients' = IF tsent = MsgLen THEN clients
                  ELSE [clients EXCEPT
                          ![tfd].pending = Append(@, SubSeq(Message(nmsgs), tsent + 1, MsgLen)),
                          ![tfd].pending_bytes = (@ + MsgLen - tsent) % SizeMod]
    /\ tpc' = IF tsent = MsgLen THEN "advance" ELSE "arm"
    /\ tsent' = 0
    /\ TickUnchanged /\ UNCHANGED <<kernel, nmsgs, ttodo, tfd, tconn, tref, treg, wire>>

Arm ==
    /\ tpc = "arm"
    /\ ArmEpollout(tfd, TRUE)
    /\ tpc' = "advance"
    /\ TickUnchanged
    /\ UNCHANGED <<fdConn, clients, nmsgs, ttodo, tfd, tconn, tref, tsent, treg, wire>>

\* remove_client, called by send_to: it looks the descriptor up once more, ...
TickClose ==
    /\ tpc = "close"
    /\ tref' = clients[tfd].conn
    /\ IF tfd \in InTable
         THEN tpc' = "erase" /\ CloseFd(tfd)
         ELSE tpc' = "advance" /\ UNCHANGED kernel
    /\ TickUnchanged
    /\ UNCHANGED <<clients, nmsgs, ttodo, tfd, tconn, tsent, treg, wire>>

\* ... and erases the entry it found.
TickErase ==
    /\ tpc = "erase" /\ TickRefValid
    /\ EraseEntry(tfd)
    /\ tpc' = "advance"
    /\ TickUnchanged /\ UNCHANGED <<kernel, nmsgs, ttodo, tfd, tconn, tref, tsent, treg, wire>>

\* The range-for increments its iterator.
Advance ==
    /\ tpc = "advance" /\ TickEntryValid
    /\ tpc' = "visit" /\ tref' = 0
    /\ TickUnchanged
    /\ UNCHANGED <<kernel, clients, nmsgs, ttodo, tfd, tconn, tsent, treg, wire>>

\* Any of these uses of an entry after it was erased, by this or by the other
\* thread.
TickUseAfterErase ==
    /\ \/ tpc \in {"enqueue", "count", "sent", "erase"} /\ ~TickRefValid
       \/ tpc = "advance" /\ ~TickEntryValid
    /\ Undefined

-----------------------------------------------------------------------------
(***************************************************************************)
(* The accept thread: accept_loop.                                         *)
(***************************************************************************)

AcceptUnchanged == UNCHANGED <<made, greeting, sent, gone, nmsgs, tvars>>

AcceptEntryValid == clients[afd].conn = aconn

\* epoll_wait, level-triggered: every descriptor with something to report, or
\* nothing after a second.  Whether an armed socket has room is left open.
EpollWait ==
    /\ apc = "wait"
    /\ \E room \in SUBSET {fd \in Fds : armed[fd]} :
         batch' = {[fd |-> fd, ev |-> "hup"] : fd \in {f \in Fds : fdConn[f] \in gone}}
                  \union {[fd |-> fd, ev |-> "out"] : fd \in {f \in room : fdConn[f] \notin gone}}
                  \union {[fd |-> fd, ev |-> "in"] :
                            fd \in {f \in Fds \ room : fdConn[f] # 0 /\ fdConn[f] \notin gone
                                                         /\ read[fdConn[f]] < sent[fdConn[f]]}}
                  \union (IF accepted < made THEN {[fd |-> 0, ev |-> "listen"]} ELSE {})
    /\ apc' = "events"
    /\ AcceptUnchanged
    /\ UNCHANGED <<kernel, accepted, read, clients, slow, afd, aconn, areg, asent, wire>>

\* Events of the listening socket: accept until there is none ...
Listen ==
    /\ apc = "events"
    /\ \E e \in batch : e.ev = "listen" /\ batch' = batch \ {e}
    /\ apc' = "accept"
    /\ AcceptUnchanged
    /\ UNCHANGED <<kernel, accepted, read, clients, slow, afd, aconn, areg, asent, wire>>

Accept4 ==
    /\ apc = "accept"
    /\ accepted < made
    /\ \E fd \in Fds :
         /\ fdConn[fd] = 0
         /\ fdConn' = [fdConn EXCEPT ![fd] = accepted + 1]
         /\ armed' = [armed EXCEPT ![fd] = FALSE]
         /\ afd' = fd
    /\ accepted' = accepted + 1
    /\ apc' = "add"
    /\ AcceptUnchanged
    /\ UNCHANGED <<read, clients, batch, slow, aconn, areg, asent, wire>>

\* EAGAIN, or no descriptor left.
AcceptEnds ==
    /\ apc = "accept"
    /\ accepted = made \/ \A fd \in Fds : fdConn[fd] # 0
    /\ apc' = "events"
    /\ AcceptUnchanged
    /\ UNCHANGED <<kernel, accepted, read, clients, batch, slow, afd, aconn, areg, asent, wire>>

\* ... and enter the client; emplace does nothing when the key is there.
AddClient ==
    /\ apc = "add"
    /\ clients' = IF afd \in InTable THEN clients ELSE [clients EXCEPT ![afd] = NewClient(accepted)]
    /\ apc' = "accept"
    /\ AcceptUnchanged
    /\ UNCHANGED <<kernel, accepted, read, batch, slow, afd, aconn, areg, asent, wire>>

\* ERR, HUP or RDHUP: remove_client.
HandleHup ==
    /\ apc = "events"
    /\ \E e \in batch : e.ev = "hup" /\ batch' = batch \ {e} /\ afd' = e.fd
    /\ apc' = "close"
    /\ AcceptUnchanged
    /\ UNCHANGED <<kernel, accepted, read, clients, slow, aconn, areg, asent, wire>>

\* Mutant: any bytes at all make the client LIVE.
OnRecvTooSoon(fd, n) ==
    clients' = IF fd \notin InTable \/ clients[fd].live THEN clients
               ELSE [clients EXCEPT ![fd].got = @ + n, ![fd].live = TRUE]

\* on_recv: gather the client's first message; when it is complete, or is no
\* subscription, the client is LIVE.  What a LIVE client sends is ignored.
OnRecv(fd, n) ==
    clients' = IF fd \notin InTable \/ clients[fd].live THEN clients
               ELSE [clients EXCEPT ![fd].got = @ + n,
                                    ![fd].live = clients[fd].got + n >= greeting[clients[fd].conn]]

\* EPOLLIN: one recv.  By now the descriptor may be closed (EBADF), or the
\* client gone (end of file): remove_client.
HandleIn ==
    /\ apc = "events"
    /\ \E e \in batch :
         LET c == fdConn[e.fd]
         IN  /\ e.ev = "in"
             /\ batch' = batch \ {e}
             /\ afd' = e.fd
             /\ IF c # 0 /\ read[c] < sent[c]
                  THEN /\ OnRecv(e.fd, sent[c] - read[c])
                       /\ read' = [read EXCEPT ![c] = sent[c]]
                       /\ apc' = "events"
                  ELSE /\ apc' = IF c = 0 \/ c \in gone THEN "close" ELSE "events"
                       /\ UNCHANGED <<clients, read>>
    /\ AcceptUnchanged
    /\ UNCHANGED <<kernel, accepted, slow, aconn, areg, asent, wire>>

\* EPOLLOUT: flush_pending ...
HandleOut ==
    /\ apc = "events"
    /\ \E e \in batch :
         /\ e.ev = "out"
         /\ batch' = batch \ {e}
         /\ afd' = e.fd /\ aconn' = clients[e.fd].conn
         /\ apc' = IF e.fd \in InTable THEN "flush" ELSE "events"
    /\ AcceptUnchanged
    /\ UNCHANGED <<kernel, accepted, read, clients, slow, areg, asent, wire>>

\* ... sends the head of the queue, while there is one and it is taken ...
FlushSend ==
    /\ apc = "flush" /\ AcceptEntryValid
    /\ LET pending == clients[afd].pending
       IN  IF pending = <<>>
             THEN apc' = "disarm" /\ UNCHANGED <<areg, asent, wire>>
             ELSE \E k \in SendResults(afd, Len(Head(pending))) :
                    /\ Wrote(afd, SubSeq(Head(pending), 1, k))
                    /\ IF k > 0
                         THEN /\ apc' = "store" /\ asent' = k
                              /\ areg' = clients[afd].pending_bytes
                         ELSE apc' = "events" /\ UNCHANGED <<areg, asent>>
    /\ AcceptUnchanged
    /\ UNCHANGED <<kernel, accepted, read, clients, batch, slow, afd, aconn>>

\* Mutant: the count is kept in a signed type.
FlushStoreSigned ==
    /\ apc = "store" /\ AcceptEntryValid
    /\ LET pending == clients[afd].pending
           rest    == SubSeq(Head(pending), asent + 1, Len(Head(pending)))
       IN  /\ clients' = [clients EXCEPT
                            ![afd].pending_bytes = areg - asent,
                            ![afd].pending = IF rest = <<>> THEN Tail(@) ELSE <<rest>> \o Tail(@)]
           /\ apc' = IF rest = <<>> THEN "flush" ELSE "events"
    /\ areg' = 0 /\ asent' = 0
    /\ AcceptUnchanged
    /\ UNCHANGED <<kernel, accepted, read, batch, slow, afd, aconn, wire>>

\* ... takes what was sent from the count and from the queue ...
FlushStore ==
    /\ apc = "store" /\ AcceptEntryValid
    /\ LET pending == clients[afd].pending
           rest    == SubSeq(Head(pending), asent + 1, Len(Head(pending)))
       IN  /\ clients' = [clients EXCEPT
                            ![afd].pending_bytes = (areg - asent) % SizeMod,
                            ![afd].pending = IF rest = <<>> THEN Tail(@) ELSE <<rest>> \o Tail(@)]
           /\ apc' = IF rest = <<>> THEN "flush" ELSE "events"
    /\ areg' = 0 /\ asent' = 0
    /\ AcceptUnchanged
    /\ UNCHANGED <<kernel, accepted, read, batch, slow, afd, aconn, wire>>

\* ... and gives up EPOLLOUT when it found the queue empty.
Disarm ==
    /\ apc = "disarm"
    /\ ArmEpollout(afd, FALSE)
    /\ apc' = "events"
    /\ AcceptUnchanged
    /\ UNCHANGED <<fdConn, accepted, read, clients, batch, slow, afd, aconn, areg, asent, wire>>

\* After the batch, tick() collects the clients whose queues are too long and
\* removes them one by one.
TickCheck ==
    /\ apc = "events" /\ batch = {}
    /\ slow' = {fd \in InTable : clients[fd].pending_bytes > DROP_BYTES}
    /\ apc' = "tick"
    /\ AcceptUnchanged
    /\ UNCHANGED <<kernel, accepted, read, clients, batch, afd, aconn, areg, asent, wire>>

TickRemove ==
    /\ apc = "tick"
    /\ \/ \E fd \in slow : afd' = fd /\ apc' = "close"
       \/ slow = {} /\ apc' = "wait" /\ UNCHANGED afd
    /\ AcceptUnchanged
    /\ UNCHANGED <<kernel, accepted, read, clients, batch, slow, aconn, areg, asent, wire>>

\* remove_client returns: to tick(), which has a client to remove while it
\* runs, or to the handling of the batch.
RemoveReturns ==
    /\ apc' = IF slow # {} THEN "tick" ELSE "events"
    /\ slow' = slow \ {afd}

\* Mutant: the entry is left when the descriptor is closed.
AcceptCloseOnly ==
    /\ apc = "close"
    /\ aconn' = clients[afd].conn
    /\ RemoveReturns
    /\ IF afd \in InTable THEN CloseFd(afd) ELSE UNCHANGED kernel
    /\ AcceptUnchanged
    /\ UNCHANGED <<accepted, read, clients, batch, afd, areg, asent, wire>>

\* remove_client, in two steps.
AcceptClose ==
    /\ apc = "close"
    /\ aconn' = clients[afd].conn
    /\ IF afd \in InTable
         THEN apc' = "erase" /\ CloseFd(afd) /\ UNCHANGED slow
         ELSE RemoveReturns /\ UNCHANGED kernel
    /\ AcceptUnchanged
    /\ UNCHANGED <<accepted, read, clients, batch, afd, areg, asent, wire>>

AcceptErase ==
    /\ apc = "erase" /\ AcceptEntryValid
    /\ EraseEntry(afd)
    /\ RemoveReturns
    /\ AcceptUnchanged
    /\ UNCHANGED <<kernel, accepted, read, batch, afd, aconn, areg, asent, wire>>

AcceptUseAfterErase ==
    /\ apc \in {"flush", "store", "erase"} /\ ~AcceptEntryValid
    /\ Undefined

-----------------------------------------------------------------------------
(***************************************************************************)
(* The clients.                                                            *)
(***************************************************************************)
ServerUnchanged == UNCHANGED <<kernel, accepted, greeting, read, clients, nmsgs, tvars, avars,
                               wire>>

ClientConnects ==
    /\ made < MaxConns
    /\ made' = made + 1
    /\ UNCHANGED <<sent, gone>> /\ ServerUnchanged

ClientSends ==
    /\ \E c \in (1 .. made) \ gone :
         /\ sent[c] < greeting[c]
         /\ sent' = [sent EXCEPT ![c] = @ + 1]
    /\ UNCHANGED <<made, gone>> /\ ServerUnchanged

ClientCloses ==
    /\ \E c \in (1 .. made) \ gone : gone' = gone \union {c}
    /\ UNCHANGED <<made, sent>> /\ ServerUnchanged

-----------------------------------------------------------------------------
TickThread ==
    \/ Broadcast \/ Visit \/ BroadcastEnds \/ FindClient \/ Enqueue \/ Count \/ SendBytes
    \/ Sent \/ Arm \/ TickClose \/ TickErase \/ Advance \/ TickUseAfterErase

AcceptThread ==
    \/ EpollWait \/ Listen \/ Accept4 \/ AcceptEnds \/ AddClient \/ HandleHup
    \/ HandleIn \/ HandleOut \/ FlushSend \/ FlushStore \/ Disarm \/ TickCheck
    \/ TickRemove \/ AcceptClose \/ AcceptErase \/ AcceptUseAfterErase

Next == TickThread \/ AcceptThread \/ ClientConnects \/ ClientSends \/ ClientCloses

Spec == Init /\ [][Next]_vars

-----------------------------------------------------------------------------
(***************************************************************************)
(* Properties.  They are of the states up to the first use of an erased    *)
(* entry.  Until then only one descriptor can be out of order: the one the *)
(* tick thread is visiting, when its client is removed during the visit.   *)
(***************************************************************************)

\* The tick thread is not removing the entry its iterator is on, and nobody
\* has removed it.
Sound ==
    /\ tpc \notin {"erase", "undefined"}
    /\ tpc \in {"idle", "visit"} \/ TickEntryValid

\* The descriptor whose client was removed, or is being removed, while the
\* tick thread visits it.
Pulled(fd) == fd = tfd /\ ~Sound

\* The queue of fd without the bytes that flush_queue has sent but not taken
\* off yet.
Unsent(fd) ==
    LET queued   == FlattenSeq(clients[fd].pending)
        inFlight == IF apc = "store" /\ afd = fd THEN asent ELSE 0
    IN  SubSeq(queued, inFlight + 1, Len(queued))

\* The message being broadcast has been handled for fd, if it has to be.
UpToDate(fd) ==
    \/ tpc = "idle"
    \/ tpc \in {"count", "arm", "advance"} /\ tfd = fd

\* What was written to a client followed by its queue is an unbroken run of
\* the broadcast that begins with a whole message and ends with the last one:
\* partial sends, the spill queue and its flushing by the other thread lose,
\* repeat or reorder no byte.
StreamUnbroken ==
    tpc # "undefined" => \A fd \in InTable :
        LET s == wire[clients[fd].conn] \o Unsent(fd)
        IN  \/ Pulled(fd) \/ s = <<>>
            \/ /\ \A i \in 1 .. Len(s) - 1 : s[i + 1] = s[i] + 1
               /\ \E m \in 1 .. nmsgs : s[1] = Message(m)[1]
               /\ UpToDate(fd) => s[Len(s)] = nmsgs * MsgLen

\* No byte of the feed reaches a connection whose client has not sent its
\* whole first message.  The one exception is a connection that was accepted
\* on the visited descriptor after the visited client, which has been removed
\* meanwhile (send uses the number alone): it is later than that client, and
\* on no other descriptor.
NothingBeforeGreeting ==
    tpc # "undefined" => \A c \in Conns : wire[c] # <<>> =>
        \/ read[c] = greeting[c]
        \/ /\ ~Sound /\ c > tconn
           /\ \A fd \in Fds \ {tfd} : fdConn[fd] # c /\ clients[fd].conn # c

\* Except where the accept thread is in the middle of adding or removing a
\* client, the table holds exactly the open descriptors, each with the
\* connection it is open on.
TableMatchesFds ==
    tpc # "undefined" => \A fd \in Fds :
        \/ clients[fd].conn = fdConn[fd]
        \/ apc \in {"add", "erase"} /\ fd = afd
        \/ Pulled(fd)

\* What the documentation says of a client with spilled messages: "EPOLLOUT
\* fires and the server flushes the spill queue".  Nothing else flushes it, so
\* the interest must be there once both threads have done with the client.
SpilledIsArmed ==
    Sound /\ tpc = "idle" /\ apc = "wait" =>
        \A fd \in InTable : clients[fd].pending # <<>> => armed[fd]

\* What a comment in broadcast says of a client removed in the middle of the
\* iteration: "already handled".  No step uses an erased entry.
NoUseAfterErase == tpc # "undefined"
=============================================================================
