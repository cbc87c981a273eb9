------------------------ MODULE ExchangeServerProofs ------------------------
(***************************************************************************)
(* Proofs about ExchangeServer, for every set of descriptors, every length *)
(* of messages and greetings, every limit of the spill queue and any       *)
(* number of connections and messages.                                     *)
(***************************************************************************)
EXTENDS ExchangeServer, SequenceTheorems, FiniteSums, TLAPS

-----------------------------------------------------------------------------
(***************************************************************************)
(* The inductive invariant.                                                *)
(***************************************************************************)

LastOf(s) == s[Len(s)]

Contiguous(s) == \A i \in 1 .. Len(s) : s[i] = s[1] + i - 1

\* A connection has one number, which does not come back, one descriptor and
\* one entry; the descriptor it is accepted on is that of its entry.
ConnsOnce ==
    /\ \A fd \in Fds : /\ clients[fd].conn <= accepted /\ fdConn[fd] <= accepted
                       /\ apc = "add" => /\ clients[fd].conn < accepted
                                         /\ fd # afd => fdConn[fd] < accepted
    /\ \A f, g \in Fds :
         /\ clients[f].conn # 0 /\ clients[f].conn = clients[g].conn => f = g
         /\ fdConn[f] # 0 /\ fdConn[f] = fdConn[g] => f = g
         /\ clients[f].conn # 0 /\ clients[f].conn = fdConn[g] => f = g
    /\ tconn <= accepted /\ (apc = "add" => tconn < accepted)

\* The tick thread is broadcasting, to an entry the iteration has passed.
TickInv ==
    /\ tpc \notin {"idle", "undefined"} => nmsgs # 0
    /\ tpc \notin {"idle", "visit", "undefined"} => tconn # 0 /\ tconn \notin ttodo

\* While the entry the accept thread works on is there, so is the piece of
\* which flush_queue has sent asent bytes.
FlushInv ==
    /\ apc \in {"flush", "store", "erase"} => aconn # 0
    /\ apc = "store" /\ AcceptEntryValid =>
         clients[afd].pending # <<>> /\ asent \in 1 .. Len(clients[afd].pending[1])

\* Nothing has passed on a connection that waits in the backlog.
BacklogInv == \A c \in Conns : c > accepted => read[c] = 0 /\ wire[c] = <<>>

\* Once its client has been pulled from under the tick thread, the visited
\* descriptor is closed or open on a later connection.
PulledInv ==
    tpc # "undefined" /\ ~Sound => fdConn[tfd] = 0 \/ fdConn[tfd] > tconn

Adding(fd) == apc = "add" /\ afd = fd
Erasing(fd) == apc = "erase" /\ afd = fd
Flushing(fd) == apc \in {"flush", "store"} /\ afd = fd
InFlight(fd) == IF apc = "store" /\ afd = fd THEN asent ELSE 0

\* The table and the kernel agree on fd, unless it is being accepted or closed.
TableAt(fd) ==
    /\ Adding(fd) => clients[fd].conn = 0 /\ fdConn[fd] = accepted
    /\ Erasing(fd) => fdConn[fd] = 0
    /\ Erasing(fd) \/ Flushing(fd) => clients[fd].conn = aconn
    /\ ~Adding(fd) /\ ~Erasing(fd) => clients[fd].conn = fdConn[fd]

\* Who is LIVE has been heard to the end, and only he is sent anything.
LiveAt(fd) ==
    LET c == clients[fd].conn
    IN  /\ Adding(fd) => read[accepted] = 0 /\ wire[accepted] = <<>>
        /\ c # 0 /\ clients[fd].live => read[c] = greeting[c]
        /\ c # 0 /\ ~clients[fd].live => /\ clients[fd].got = read[c] /\ read[c] < greeting[c]
                                         /\ clients[fd].pending = <<>> /\ wire[c] = <<>>
        /\ tfd = fd /\ tpc \notin {"idle", "visit"} => clients[fd].live
        /\ tfd = fd /\ tpc \in {"send", "sent"} => clients[fd].pending = <<>>

\* b is the first byte of one of m messages.
FirstByte(b, m) == \E k \in 1 .. m : b = (k - 1) * MsgLen + 1

\* The pieces q of a queue follow each other, and what was written, w, of which
\* n bytes are still in the first piece; the first is the start of a message.
PiecesJoin(w, q, n, m) ==
    /\ Contiguous(w) /\ \A i \in 1 .. Len(q) : Contiguous(q[i])
    /\ \A i \in 1 .. Len(q) - 1 : q[i + 1][1] = LastOf(q[i]) + 1
    /\ w # <<>> => FirstByte(w[1], m)
    /\ w # <<>> /\ q # <<>> => q[1][1] + n = LastOf(w) + 1
    /\ w = <<>> /\ q # <<>> => FirstByte(q[1][1], m) /\ n = 0

\* The last byte, if there is one, is e.
EndsAt(w, q, e) ==
    /\ q # <<>> => LastOf(LastOf(q)) = e
    /\ q = <<>> /\ w # <<>> => LastOf(w) = e

\* The iteration is past fd, or has not reached it, or send has taken tsent
\* bytes of the message.
Handled(fd) ==
    \/ tpc = "idle"
    \/ tpc \in {"count", "arm", "advance"} /\ tfd = fd
    \/ (tpc = "visit" \/ tfd # fd) /\ clients[fd].conn \notin ttodo
Unhandled(fd) ==
    \/ tpc # "idle" /\ clients[fd].conn \in ttodo
    \/ tpc \in {"find", "enqueue", "send"} /\ tfd = fd
HalfSent(fd) == tpc = "sent" /\ tfd = fd

\* What was written to the client of fd, w, and its queue, q.
Ends(fd, w, q) ==
    /\ Handled(fd) => EndsAt(w, q, nmsgs * MsgLen)
    /\ Unhandled(fd) => EndsAt(w, q, (nmsgs - 1) * MsgLen)
    /\ HalfSent(fd) => /\ EndsAt(w, q, (nmsgs - 1) * MsgLen + tsent)
                       /\ w = <<>> => tsent = 0

StreamAt(fd) ==
    LET w == wire[clients[fd].conn]
        q == clients[fd].pending
    IN  clients[fd].conn # 0 => PiecesJoin(w, q, InFlight(fd), nmsgs) /\ Ends(fd, w, q)

GoodAt(fd) == TableAt(fd) /\ LiveAt(fd) /\ StreamAt(fd)

\* Every descriptor but the one whose client was pulled is in order.
OthersInv == tpc # "undefined" => \A fd \in Fds : Pulled(fd) \/ GoodAt(fd)

ServerInv ==
    /\ TypeOK /\ ConnsOnce /\ TickInv /\ FlushInv /\ BacklogInv /\ PulledInv
    /\ NothingBeforeGreeting /\ OthersInv

-----------------------------------------------------------------------------
LEMMA ServerInit == Init => ServerInv
<1> SUFFICES ASSUME Init PROVE ServerInv
  OBVIOUS
<1>1. TypeOK
  <2>1. NoClient \in Client
    BY SizesAssumption, ServerBoundsAssumption DEF NoClient, Client
  <2>2. wire \in [Conns -> Seq(Bytes)]
    BY DEF Init
  <2>3. KernelTypes
    <3>1. armed \in [Fds -> BOOLEAN]
      BY Zenon DEF Init
    <3>2. QED
      BY <3>1, ServerBoundsAssumption DEF Init, KernelTypes
  <2>4. PeerTypes
    <3>1. \A c \in Conns : greeting[c] \in Nat
      BY SizesAssumption DEF Init
    <3>2. sent \in [Conns -> Nat] /\ read \in [Conns -> Nat]
      BY DEF Init
    <3>3. made \in 0 .. MaxConns /\ accepted \in 0 .. made /\ gone \subseteq Conns
      BY ServerBoundsAssumption DEF Init
    <3>4. greeting \in [Conns -> GreetingSizes]
      BY DEF Init
    <3>5. \A c \in Conns : sent[c] <= greeting[c] /\ read[c] <= sent[c]
      BY <3>1 DEF Init
    <3>6. QED
      BY <3>2, <3>3, <3>4, <3>5 DEF PeerTypes
  <2>5. TableTypes
    BY <2>1 DEF Init, TableTypes, NoClient
  <2>6. TickTypes /\ AcceptTypes
    BY SizesAssumption, ServerBoundsAssumption DEF Init, TickTypes, AcceptTypes
  <2>7. QED
    BY <2>2, <2>3, <2>4, <2>5, <2>6 DEF TypeOK
<1>2. \A fd \in Fds : clients[fd] = NoClient /\ clients[fd].conn = 0 /\ fdConn[fd] = 0
  BY DEF Init, NoClient
<1>3. ConnsOnce /\ TickInv /\ FlushInv
  BY <1>2 DEF Init, ConnsOnce, TickInv, FlushInv
<1>4. BacklogInv /\ PulledInv /\ NothingBeforeGreeting
  BY DEF Init, BacklogInv, PulledInv, NothingBeforeGreeting, Sound
<1>5. ASSUME NEW fd \in Fds PROVE GoodAt(fd)
  <2>1. apc = "wait" /\ tpc = "idle"
    BY DEF Init
  <2>2. TableAt(fd)
    BY <1>2, <2>1 DEF TableAt, Adding, Erasing, Flushing
  <2>3. LiveAt(fd) /\ StreamAt(fd)
    BY <1>2, <2>1 DEF LiveAt, StreamAt, Adding
  <2>4. QED
    BY <2>2, <2>3 DEF GoodAt
<1>6. QED
  BY <1>1, <1>3, <1>4, <1>5 DEF ServerInv, OthersInv

-----------------------------------------------------------------------------
(***************************************************************************)
(* Facts about the operators.                                              *)
(***************************************************************************)

LEMMA Products ==
    ASSUME NEW a \in Nat, NEW b \in Nat, NEW n \in Nat, a <= b
    PROVE  /\ a * n \in Nat /\ a * n <= b * n
           /\ (a + 1) * n = a * n + n
OBVIOUS

\* The bytes of message m.
LEMMA MessageFacts ==
    ASSUME NEW m \in 1 .. MaxMsgs
    PROVE  /\ Message(m) \in Seq(Bytes) /\ Len(Message(m)) = MsgLen
           /\ \A i \in 1 .. MsgLen : Message(m)[i] = (m - 1) * MsgLen + i
           /\ m * MsgLen = (m - 1) * MsgLen + MsgLen
           /\ (m - 1) * MsgLen \in Nat
<1>1. /\ MsgLen \in Nat \ {0} /\ MaxMsgs \in Nat /\ m \in Nat /\ m - 1 \in Nat
      /\ m <= MaxMsgs
  BY SizesAssumption, ServerBoundsAssumption
<1>2. /\ (m - 1) * MsgLen \in Nat /\ m * MsgLen = (m - 1) * MsgLen + MsgLen
      /\ m * MsgLen <= MaxMsgs * MsgLen /\ MaxMsgs * MsgLen \in Nat
  <2>1. /\ (m - 1) * MsgLen \in Nat /\ ((m - 1) + 1) * MsgLen = (m - 1) * MsgLen + MsgLen
    BY <1>1, Products
  <2>2. m * MsgLen <= MaxMsgs * MsgLen /\ MaxMsgs * MsgLen \in Nat
    BY <1>1, Products
  <2>3. (m - 1) + 1 = m
    BY <1>1
  <2>4. QED
    BY <2>1, <2>2, <2>3
<1>3. \A i \in 1 .. MsgLen : (m - 1) * MsgLen + i \in Bytes
  <2> DEFINE p == (m - 1) * MsgLen
             q == MaxMsgs * MsgLen
  <2>1. p \in Nat /\ q \in Nat /\ p + MsgLen <= q
    BY <1>2
  <2> HIDE DEF p, q
  <2>2. \A i \in 1 .. MsgLen : p + i \in 1 .. q
    BY <1>1, <2>1
  <2>3. QED
    BY <2>2 DEF Bytes, p, q
<1>4. QED
  BY <1>1, <1>2, <1>3 DEF Message

\* A part of a sequence.
LEMMA PartFacts ==
    ASSUME NEW S, NEW s \in Seq(S), NEW j \in 1 .. Len(s) + 1, NEW k \in j - 1 .. Len(s)
    PROVE  /\ SubSeq(s, j, k) \in Seq(S) /\ Len(SubSeq(s, j, k)) = k - j + 1
           /\ \A i \in 1 .. k - j + 1 : SubSeq(s, j, k)[i] = s[j + i - 1]
OBVIOUS

LEMMA ConcatFacts ==
    ASSUME NEW S, NEW s \in Seq(S), NEW t \in Seq(S)
    PROVE  /\ s \o t \in Seq(S) /\ Len(s \o t) = Len(s) + Len(t)
           /\ \A i \in 1 .. Len(s) : (s \o t)[i] = s[i]
           /\ \A i \in 1 .. Len(t) : (s \o t)[Len(s) + i] = t[i]
OBVIOUS

LEMMA ConcatSecond ==
    ASSUME NEW S, NEW s \in Seq(S), NEW t \in Seq(S), NEW i \in 1 .. Len(t)
    PROVE  (s \o t)[Len(s) + i] = t[i]
BY ConcatFacts

LEMMA AppendFacts ==
    ASSUME NEW S, NEW s \in Seq(S), NEW e \in S
    PROVE  /\ Append(s, e) \in Seq(S) /\ Len(Append(s, e)) = Len(s) + 1
           /\ Append(s, e)[Len(s) + 1] = e
           /\ \A i \in 1 .. Len(s) : Append(s, e)[i] = s[i]
           /\ Append(s, e) # <<>>
OBVIOUS

LEMMA ClientFacts ==
    ASSUME TypeOK, NEW fd \in Fds
    PROVE  /\ clients[fd] \in Client
           /\ clients[fd].conn \in Nat /\ clients[fd].conn <= MaxConns
           /\ clients[fd].conn \in 0 .. MaxConns
           /\ clients[fd].conn # 0 => clients[fd].conn \in Conns
           /\ clients[fd].live \in BOOLEAN
           /\ clients[fd].got \in Nat
           /\ clients[fd].pending \in Seq(Seq(Bytes))
           /\ Len(clients[fd].pending) \in Nat
           /\ \A i \in 1 .. Len(clients[fd].pending) :
                /\ clients[fd].pending[i] \in Seq(Bytes)
                /\ Len(clients[fd].pending[i]) \in 1 .. MsgLen
           /\ clients[fd].pending_bytes \in 0 .. SizeMod - 1
<1>1. clients[fd] \in Client
  BY DEF TypeOK, TableTypes
<1>2. clients[fd].live \in BOOLEAN
  BY <1>1, Zenon DEF Client
<1>3. /\ clients[fd].conn \in 0 .. MaxConns /\ clients[fd].got \in Nat
      /\ clients[fd].pending \in Seq(Seq(Bytes))
      /\ clients[fd].pending_bytes \in 0 .. SizeMod - 1
  BY <1>1 DEF Client
<1>4. /\ clients[fd].conn \in Nat /\ clients[fd].conn <= MaxConns
      /\ clients[fd].conn # 0 => clients[fd].conn \in Conns
  BY <1>3, ServerBoundsAssumption DEF Conns
<1>5. \A i \in 1 .. Len(clients[fd].pending) : Len(clients[fd].pending[i]) \in 1 .. MsgLen
  BY DEF TypeOK, TableTypes
<1>6. QED
  BY <1>1, <1>2, <1>3, <1>4, <1>5, SMTT(30)

\* An entry is replaced.
LEMMA EntryReplaced ==
    ASSUME TypeOK, NEW f \in Fds, NEW r \in Client,
           \A i \in 1 .. Len(r.pending) : Len(r.pending[i]) \in 1 .. MsgLen,
           clients' = [clients EXCEPT ![f] = r]
    PROVE  /\ TableTypes'
           /\ clients'[f] = r
           /\ \A fd \in Fds : fd # f => clients'[fd] = clients[fd]
<1>1. clients \in [Fds -> Client]
  BY DEF TypeOK, TableTypes
<1>2. /\ clients' \in [Fds -> Client] /\ clients'[f] = r
      /\ \A fd \in Fds : fd # f => clients'[fd] = clients[fd]
  BY <1>1
<1>3. \A fd \in Fds : \A i \in 1 .. Len(clients'[fd].pending) :
        Len(clients'[fd].pending[i]) \in 1 .. MsgLen
  BY <1>2 DEF TypeOK, TableTypes
<1>4. QED
  BY <1>2, <1>3 DEF TableTypes

\* A client with another queue and count.
WithQueue(r, q, n) ==
    [conn |-> r.conn, live |-> r.live, got |-> r.got, pending |-> q, pending_bytes |-> n]

LEMMA RecordUpdates ==
    ASSUME NEW r \in Client, NEW q, NEW n
    PROVE  /\ [r EXCEPT !.pending = q] = WithQueue(r, q, r.pending_bytes)
           /\ [r EXCEPT !.pending_bytes = n] = WithQueue(r, r.pending, n)
<1> DEFINE lit == [conn |-> r.conn, live |-> r.live, got |-> r.got, pending |-> r.pending,
                   pending_bytes |-> r.pending_bytes]
<1>1. r = lit
  BY DEF Client
<1>2. [lit EXCEPT !.pending = q] = WithQueue(r, q, r.pending_bytes)
  BY DEF WithQueue
<1>3. [lit EXCEPT !.pending_bytes = n] = WithQueue(r, r.pending, n)
  BY DEF WithQueue
<1> HIDE DEF lit
<1>4. QED
  BY <1>1, <1>2, <1>3, Zenon

LEMMA QueueAndCountSet ==
    ASSUME NEW r \in Client, NEW q, NEW n
    PROVE  [r EXCEPT !.pending = q, !.pending_bytes = n] = WithQueue(r, q, n)
<1>1. [r EXCEPT !.pending = q] = WithQueue(r, q, r.pending_bytes)
  BY RecordUpdates
<1>2. [WithQueue(r, q, r.pending_bytes) EXCEPT !.pending_bytes = n] = WithQueue(r, q, n)
  BY DEF WithQueue
<1>3. QED
  BY <1>1, <1>2, Zenon

LEMMA CountAndQueueSet ==
    ASSUME NEW r \in Client, NEW q, NEW n
    PROVE  [r EXCEPT !.pending_bytes = n, !.pending = q] = WithQueue(r, q, n)
<1>1. [r EXCEPT !.pending_bytes = n] = WithQueue(r, r.pending, n)
  BY RecordUpdates
<1>2. [WithQueue(r, r.pending, n) EXCEPT !.pending = q] = WithQueue(r, q, n)
  BY DEF WithQueue
<1>3. QED
  BY <1>1, <1>2, Zenon

\* Of the table only the queue and the count of f change.
OnlyQueue(f) ==
    \A fd \in Fds : /\ clients'[fd].conn = clients[fd].conn
                    /\ clients'[fd].live = clients[fd].live
                    /\ clients'[fd].got = clients[fd].got
                    /\ fd # f => clients'[fd] = clients[fd]

LEMMA QueueReplaced ==
    ASSUME TypeOK, NEW f \in Fds, NEW q \in Seq(Seq(Bytes)), NEW n \in 0 .. SizeMod - 1,
           \A i \in 1 .. Len(q) : Len(q[i]) \in 1 .. MsgLen,
           clients' = [clients EXCEPT ![f] = WithQueue(clients[f], q, n)]
    PROVE  /\ TableTypes'
           /\ clients'[f].pending = q
           /\ OnlyQueue(f)
<1> DEFINE r == WithQueue(clients[f], q, n)
<1>1. /\ r \in Client /\ r.pending = q /\ r.conn = clients[f].conn
      /\ r.live = clients[f].live /\ r.got = clients[f].got
  BY ClientFacts DEF WithQueue, Client
<1> HIDE DEF r
<1>2. clients' = [clients EXCEPT ![f] = r]
  BY DEF r
<1>3. /\ TableTypes' /\ clients'[f] = r
      /\ \A fd \in Fds : fd # f => clients'[fd] = clients[fd]
  BY <1>1, <1>2, EntryReplaced
<1>4. OnlyQueue(f)
  BY <1>1, <1>3, Zenon DEF OnlyQueue
<1>5. QED
  BY <1>1, <1>3, <1>4

\* A sum or difference of sizes, as the machine computes it.
LEMMA SizeArithmetic ==
    ASSUME NEW x \in Int
    PROVE  x % SizeMod \in 0 .. SizeMod - 1
BY SizesAssumption

-----------------------------------------------------------------------------
(***************************************************************************)
(* Facts about contiguous sequences of bytes.                              *)
(***************************************************************************)

LEMMA ByteFacts ==
    ASSUME NEW s \in Seq(Bytes)
    PROVE  /\ Len(s) \in Nat /\ (s # <<>> <=> Len(s) > 0)
           /\ \A i \in 1 .. Len(s) : s[i] \in Nat
           /\ s # <<>> => s[1] \in Nat /\ LastOf(s) \in Nat
<1>1. Bytes \subseteq Nat
  BY DEF Bytes
<1>2. \A i \in 1 .. Len(s) : s[i] \in Bytes
  OBVIOUS
<1>3. Len(s) \in Nat /\ (s # <<>> <=> Len(s) > 0)
  OBVIOUS
<1>4. ASSUME s # <<>> PROVE s[1] \in Nat /\ s[Len(s)] \in Nat
  <2>1. 1 \in 1 .. Len(s) /\ Len(s) \in 1 .. Len(s)
    BY <1>3, <1>4
  <2>2. s[1] \in Bytes /\ s[Len(s)] \in Bytes
    BY <1>2, <2>1, Zenon
  <2>3. QED
    BY <1>1, <2>2, Zenon
<1>5. QED
  BY <1>1, <1>2, <1>3, <1>4 DEF LastOf

LEMMA ContiguousPart ==
    ASSUME NEW s \in Seq(Bytes), Contiguous(s),
           NEW j \in 1 .. Len(s), NEW k \in j .. Len(s)
    PROVE  /\ SubSeq(s, j, k) \in Seq(Bytes) /\ Len(SubSeq(s, j, k)) = k - j + 1
           /\ Contiguous(SubSeq(s, j, k)) /\ SubSeq(s, j, k) # <<>>
           /\ SubSeq(s, j, k)[1] = s[1] + j - 1
           /\ LastOf(SubSeq(s, j, k)) = s[1] + k - 1
<1> DEFINE t == SubSeq(s, j, k)
<1>1. /\ t \in Seq(Bytes) /\ Len(t) = k - j + 1
      /\ \A i \in 1 .. k - j + 1 : t[i] = s[j + i - 1]
  BY PartFacts
<1>2. \A i \in 1 .. Len(s) : s[i] = s[1] + i - 1
  BY DEF Contiguous
<1>3. s[1] \in Nat /\ Len(s) \in Nat
  BY ByteFacts
<1> HIDE DEF t
<1>4. \A i \in 1 .. k - j + 1 : t[i] = s[1] + (j + i - 1) - 1
  BY <1>1, <1>2, <1>3
<1>5. t[1] = s[1] + j - 1 /\ t[Len(t)] = s[1] + k - 1 /\ Len(t) > 0
  BY <1>1, <1>3, <1>4
<1>6. Contiguous(t)
  <2>1. ASSUME NEW i \in 1 .. Len(t) PROVE t[i] = t[1] + i - 1
    <3>1. i \in 1 .. k - j + 1
      BY <1>1
    <3>2. t[i] = s[1] + (j + i - 1) - 1
      BY <1>4, <3>1
    <3>3. QED
      BY <1>3, <1>5, <3>1, <3>2
  <2>2. QED
    BY <2>1 DEF Contiguous
<1>7. QED
  BY <1>1, <1>5, <1>6 DEF t, LastOf

LEMMA ContiguousConcat ==
    ASSUME NEW s \in Seq(Bytes), NEW t \in Seq(Bytes), Contiguous(s), Contiguous(t), t # <<>>,
           s # <<>> => t[1] = LastOf(s) + 1
    PROVE  /\ s \o t \in Seq(Bytes) /\ Contiguous(s \o t) /\ s \o t # <<>>
           /\ (s \o t)[1] = IF s = <<>> THEN t[1] ELSE s[1]
           /\ LastOf(s \o t) = LastOf(t)
<1> DEFINE u == s \o t
<1>1. /\ u \in Seq(Bytes) /\ Len(u) = Len(s) + Len(t)
      /\ \A i \in 1 .. Len(s) : u[i] = s[i]
      /\ \A i \in 1 .. Len(t) : u[Len(s) + i] = t[i]
  BY ConcatFacts
<1>2. /\ Len(s) \in Nat /\ Len(t) \in Nat /\ Len(t) > 0 /\ t[1] \in Nat
      /\ s # <<>> => s[1] \in Nat /\ Len(s) > 0
      /\ s = <<>> => Len(s) = 0
  BY ByteFacts
<1>3. /\ \A i \in 1 .. Len(s) : s[i] = s[1] + i - 1
      /\ \A i \in 1 .. Len(t) : t[i] = t[1] + i - 1
  BY DEF Contiguous
<1> HIDE DEF u
<1>4. u[Len(u)] = t[Len(t)] /\ Len(u) > 0
  BY <1>1, <1>2
<1>5. CASE s = <<>>
  <2>1. \A i \in 1 .. Len(t) : u[i] = t[i]
    BY <1>1, <1>2, <1>5
  <2>2. u[1] = t[1] /\ Len(u) = Len(t)
    BY <1>1, <1>2, <1>5, <2>1
  <2>3. Contiguous(u)
    BY <1>3, <2>1, <2>2 DEF Contiguous
  <2>4. QED
    BY <1>1, <1>2, <1>4, <1>5, <2>2, <2>3 DEF LastOf, u
<1>6. CASE s # <<>>
  <2>1. t[1] = s[1] + Len(s)
    <3>1. Len(s) \in 1 .. Len(s)
      BY <1>2, <1>6
    <3>2. s[Len(s)] = s[1] + Len(s) - 1
      BY <1>3, <3>1
    <3>3. QED
      BY <1>2, <1>6, <3>2 DEF LastOf
  <2>2. u[1] = s[1]
    BY <1>1, <1>2, <1>6
  <2>3. ASSUME NEW i \in 1 .. Len(u) PROVE u[i] = s[1] + i - 1
    <3>1. CASE i <= Len(s)
      BY <1>1, <1>2, <1>3, <3>1
    <3>2. CASE i > Len(s)
      <4>1. i - Len(s) \in 1 .. Len(t) /\ i = Len(s) + (i - Len(s))
        BY <1>1, <1>2, <3>2
      <4>2. u[i] = t[i - Len(s)]
        BY <1>1, <4>1
      <4>3. t[i - Len(s)] = t[1] + (i - Len(s)) - 1
        BY <1>3, <4>1
      <4>4. PICK a \in Nat, l \in Nat, k \in Nat : a = s[1] /\ l = Len(s) /\ k = i - Len(s)
        <5>1. s[1] \in Nat /\ Len(s) \in Nat
          BY <1>2, <1>6, Zenon
        <5>2. i - Len(s) \in Nat
          BY <1>2, <4>1
        <5>3. QED
          BY <5>1, <5>2, Zenon
      <4>5. i = l + k /\ u[i] = (a + l) + k - 1
        BY <2>1, <4>1, <4>2, <4>3, <4>4, Zenon
      <4>6. (a + l) + k - 1 = a + (l + k) - 1
        BY <4>4
      <4>7. QED
        BY <4>4, <4>5, <4>6, Zenon
    <3>3. QED
      BY <1>1, <1>2, <3>1, <3>2
  <2>4. Contiguous(u)
    BY <2>2, <2>3 DEF Contiguous
  <2>5. QED
    BY <1>1, <1>4, <1>6, <2>2, <2>4, <1>2 DEF LastOf, u
<1>7. QED
  BY <1>5, <1>6

\* A queue of pieces, none of them empty.
Pieces == {q \in Seq(Seq(Bytes)) : \A i \in 1 .. Len(q) : Len(q[i]) \in 1 .. MsgLen}

\* A piece that follows the last byte is put at the end of the queue.
LEMMA JoinAppend ==
    ASSUME NEW w \in Seq(Bytes), NEW q \in Pieces, NEW n \in Nat, NEW m \in Nat,
           NEW e \in Nat, NEW p \in Seq(Bytes),
           PiecesJoin(w, q, n, m), EndsAt(w, q, e), q = <<>> => n = 0,
           Contiguous(p), Len(p) \in 1 .. MsgLen, p[1] = e + 1,
           w = <<>> /\ q = <<>> => FirstByte(p[1], m)
    PROVE  /\ Append(q, p) \in Pieces
           /\ PiecesJoin(w, Append(q, p), n, m)
           /\ EndsAt(w, Append(q, p), LastOf(p))
<1> DEFINE r == Append(q, p)
<1>1. q \in Seq(Seq(Bytes)) /\ \A i \in 1 .. Len(q) : Len(q[i]) \in 1 .. MsgLen
  BY DEF Pieces
<1>2. /\ r \in Seq(Seq(Bytes)) /\ Len(r) = Len(q) + 1 /\ r[Len(q) + 1] = p /\ r # <<>>
      /\ \A i \in 1 .. Len(q) : r[i] = q[i]
      /\ Len(q) \in Nat
  <2>1. Len(q) \in Nat
    BY <1>1
  <2>2. r \in Seq(Seq(Bytes)) /\ Len(r) = Len(q) + 1
    <3>1. r \in Seq(Seq(Bytes))
      BY <1>1
    <3>2. Len(r) = Len(q) + 1
      BY <1>1
    <3>3. QED
      BY <3>1, <3>2
  <2>3. r[Len(q) + 1] = p
    BY <1>1
  <2>4. \A i \in 1 .. Len(q) : r[i] = q[i]
    BY <1>1
  <2> HIDE DEF r
  <2>5. r # <<>>
    BY <2>1, <2>2
  <2>6. QED
    BY <2>1, <2>2, <2>3, <2>4, <2>5
<1> HIDE DEF r
<1>b. \A i \in 1 .. Len(r) : i \in 1 .. Len(q) \/ i = Len(q) + 1
  BY <1>2
<1>3. r \in Pieces
  <2>1. ASSUME NEW i \in 1 .. Len(r) PROVE Len(r[i]) \in 1 .. MsgLen
    <3>1. CASE i \in 1 .. Len(q)
      BY <1>1, <1>2, <3>1
    <3>2. CASE i = Len(q) + 1
      BY <1>2, <3>2
    <3>3. QED
      BY <1>b, <3>1, <3>2
  <2>2. QED
    BY <1>2, <2>1 DEF Pieces
<1>4. EndsAt(w, r, LastOf(p))
  BY <1>2 DEF EndsAt, LastOf
<1>5. ASSUME NEW i \in 1 .. Len(r) PROVE Contiguous(r[i])
  <2>1. CASE i \in 1 .. Len(q)
    BY <1>2, <2>1 DEF PiecesJoin
  <2>2. CASE i = Len(q) + 1
    BY <1>2, <2>2
  <2>3. QED
    BY <1>b, <2>1, <2>2
<1>6. ASSUME NEW i \in 1 .. Len(r) - 1 PROVE r[i + 1][1] = LastOf(r[i]) + 1
  <2>1. CASE i < Len(q)
    <3>1. i \in 1 .. Len(q) /\ i + 1 \in 1 .. Len(q) /\ i \in 1 .. Len(q) - 1
      BY <1>2, <2>1
    <3>2. q[i + 1][1] = LastOf(q[i]) + 1
      BY <3>1 DEF PiecesJoin
    <3>3. QED
      BY <1>2, <3>1, <3>2
  <2>2. CASE i = Len(q)
    <3>1. q # <<>> /\ LastOf(q) = q[i]
      BY <1>1, <1>2, <2>2 DEF LastOf
    <3>2. LastOf(q[i]) = e
      BY <3>1 DEF EndsAt
    <3>3. QED
      BY <1>2, <2>2, <3>2
  <2>3. QED
    BY <1>2, <2>1, <2>2
<1>7. CASE q # <<>>
  <2>1. r[1] = q[1]
    BY <1>1, <1>2, <1>7
  <2>2. QED
    BY <1>2, <1>3, <1>4, <1>5, <1>6, <1>7, <2>1 DEF PiecesJoin, r
<1>8. CASE q = <<>>
  <2>1. r[1] = p /\ n = 0
    BY <1>1, <1>2, <1>8
  <2>2. w # <<>> => LastOf(w) = e /\ e \in Nat
    BY <1>8 DEF EndsAt
  <2>3. w # <<>> => r[1][1] + n = LastOf(w) + 1
    BY <2>1, <2>2
  <2>4. w = <<>> => FirstByte(r[1][1], m) /\ n = 0
    BY <1>8, <2>1
  <2>5. QED
    BY <1>2, <1>3, <1>4, <1>5, <1>6, <2>3, <2>4 DEF PiecesJoin, r
<1>9. QED
  BY <1>7, <1>8

\* More of the stream is written to an empty queue's connection.
LEMMA JoinWrite ==
    ASSUME NEW w \in Seq(Bytes), NEW p \in Seq(Bytes), NEW m \in Nat, NEW e \in Nat,
           PiecesJoin(w, <<>>, 0, m), EndsAt(w, <<>>, e),
           Contiguous(p), p # <<>>, p[1] = e + 1, w = <<>> => FirstByte(p[1], m)
    PROVE  /\ w \o p \in Seq(Bytes) /\ w \o p # <<>>
           /\ PiecesJoin(w \o p, <<>>, 0, m)
           /\ EndsAt(w \o p, <<>>, LastOf(p))
<1>1. /\ Contiguous(w) /\ (w # <<>> => FirstByte(w[1], m))
      /\ w # <<>> => LastOf(w) = e
  BY DEF PiecesJoin, EndsAt
<1>2. /\ w \o p \in Seq(Bytes) /\ Contiguous(w \o p) /\ w \o p # <<>>
      /\ (w \o p)[1] = IF w = <<>> THEN p[1] ELSE w[1]
      /\ LastOf(w \o p) = LastOf(p)
  BY <1>1, ContiguousConcat
<1>3. FirstByte((w \o p)[1], m)
  BY <1>1, <1>2
<1> DEFINE v == w \o p
<1> HIDE DEF v
<1>4. v \in Seq(Bytes) /\ Contiguous(v) /\ v # <<>> /\ FirstByte(v[1], m) /\ LastOf(v) = LastOf(p)
  BY <1>2, <1>3 DEF v
<1>5. PiecesJoin(v, <<>>, 0, m) /\ EndsAt(v, <<>>, LastOf(p))
  BY <1>4 DEF PiecesJoin, EndsAt
<1>6. QED
  BY <1>4, <1>5 DEF v

\* The first k bytes of a message follow each other, and so do the others.
LEMMA MessageParts ==
    ASSUME NEW m \in 1 .. MaxMsgs, NEW k \in 0 .. MsgLen
    PROVE  LET p == SubSeq(Message(m), 1, k)
               r == SubSeq(Message(m), k + 1, MsgLen)
               e == (m - 1) * MsgLen
           IN  /\ p \in Seq(Bytes) /\ (p = <<>> <=> k = 0)
               /\ k > 0 => Contiguous(p) /\ p[1] = e + 1 /\ LastOf(p) = e + k
               /\ k < MsgLen => /\ r \in Seq(Bytes) /\ Len(r) \in 1 .. MsgLen
                                /\ Contiguous(r) /\ r[1] = e + k + 1 /\ LastOf(r) = m * MsgLen
               /\ FirstByte(e + 1, m) /\ e \in Nat /\ m * MsgLen = e + MsgLen
<1> DEFINE M == Message(m)
           e == (m - 1) * MsgLen
           p == SubSeq(M, 1, k)
           r == SubSeq(M, k + 1, MsgLen)
<1>1. /\ M \in Seq(Bytes) /\ Len(M) = MsgLen /\ MsgLen \in Nat \ {0} /\ m \in Nat
      /\ \A i \in 1 .. MsgLen : M[i] = e + i
      /\ m * MsgLen = e + MsgLen /\ e \in Nat
  BY MessageFacts, SizesAssumption
<1> HIDE DEF M
<1>2. M[1] = e + 1 /\ FirstByte(e + 1, m)
  <2>1. m \in 1 .. m
    BY <1>1
  <2>2. M[1] = e + 1
    BY <1>1
  <2>3. QED
    BY <2>1, <2>2 DEF FirstByte
<1> DEFINE z == m * MsgLen
<1>e. z = e + MsgLen
  BY <1>1
<1> HIDE DEF e, z
<1>3. Contiguous(M)
  BY <1>1, <1>2 DEF Contiguous
<1>4. p \in Seq(Bytes) /\ (p = <<>> <=> k = 0)
  <2>1. p \in Seq(Bytes) /\ Len(p) = k
    BY <1>1, PartFacts
  <2> HIDE DEF p
  <2>2. QED
    BY <2>1
<1>5. k > 0 => Contiguous(p) /\ p[1] = e + 1 /\ LastOf(p) = e + k
  <2>1. ASSUME k > 0 PROVE /\ Contiguous(p) /\ p[1] = M[1] + 1 - 1
                           /\ LastOf(p) = M[1] + k - 1
    <3>1. 1 \in 1 .. Len(M) /\ k \in 1 .. Len(M)
      BY <1>1, <2>1
    <3>2. QED
      BY <1>1, <1>3, <3>1, ContiguousPart
  <2> HIDE DEF p
  <2>2. QED
    BY <1>1, <1>2, <2>1
<1>6. k < MsgLen => /\ r \in Seq(Bytes) /\ Len(r) \in 1 .. MsgLen
                    /\ Contiguous(r) /\ r[1] = e + k + 1 /\ LastOf(r) = z
  <2>1. ASSUME k < MsgLen
        PROVE  /\ r \in Seq(Bytes) /\ Len(r) = MsgLen - (k + 1) + 1 /\ Contiguous(r)
               /\ r[1] = M[1] + (k + 1) - 1 /\ LastOf(r) = M[1] + MsgLen - 1
    <3>1. k + 1 \in 1 .. Len(M) /\ MsgLen \in k + 1 .. Len(M)
      BY <1>1, <2>1
    <3>2. QED
      BY <1>1, <1>3, <3>1, ContiguousPart
  <2> HIDE DEF r
  <2>2. QED
    BY <1>1, <1>2, <1>e, <2>1
<1> HIDE DEF p, r
<1>7. QED
  BY <1>1, <1>2, <1>e, <1>4, <1>5, <1>6 DEF M, p, r, e, z

\* The first k bytes of a message are written to an empty queue's connection.
LEMMA StartWritten ==
    ASSUME NEW w \in Seq(Bytes), NEW m \in 1 .. MaxMsgs, NEW k \in 0 .. MsgLen,
           PiecesJoin(w, <<>>, 0, m), EndsAt(w, <<>>, (m - 1) * MsgLen)
    PROVE  LET p == SubSeq(Message(m), 1, k)
               v == IF k = 0 THEN w ELSE w \o p
           IN  /\ p \in Seq(Bytes) /\ (p = <<>> <=> k = 0)
               /\ v \in Seq(Bytes) /\ (v = <<>> => k = 0)
               /\ PiecesJoin(v, <<>>, 0, m) /\ EndsAt(v, <<>>, (m - 1) * MsgLen + k)
<1> DEFINE p == SubSeq(Message(m), 1, k)
           e == (m - 1) * MsgLen
           v == IF k = 0 THEN w ELSE w \o p
<1>1. /\ p \in Seq(Bytes) /\ (p = <<>> <=> k = 0)
      /\ k > 0 => Contiguous(p) /\ p[1] = e + 1 /\ LastOf(p) = e + k
      /\ FirstByte(e + 1, m) /\ e \in Nat
  BY MessageParts
<1>2. EndsAt(w, <<>>, e) /\ m \in Nat /\ k \in Nat
  BY SizesAssumption
<1> HIDE DEF p, e
<1>3. CASE k = 0
  <2>1. e + k = e
    BY <1>1, <1>3
  <2>2. QED
    BY <1>1, <1>2, <1>3, <2>1 DEF p, e
<1>4. CASE k > 0
  <2>1. w = <<>> => FirstByte(p[1], m)
    BY <1>1, <1>4
  <2>2. /\ w \o p \in Seq(Bytes) /\ w \o p # <<>> /\ PiecesJoin(w \o p, <<>>, 0, m)
        /\ EndsAt(w \o p, <<>>, LastOf(p))
    BY <1>1, <1>2, <1>4, <2>1, JoinWrite
  <2>3. v = w \o p /\ LastOf(p) = e + k
    BY <1>1, <1>4
  <2>4. QED
    BY <1>1, <2>2, <2>3 DEF p, e
<1>5. k = 0 \/ k > 0
  BY <1>2
<1>6. QED
  BY <1>3, <1>4, <1>5, Zenon

\* The others are queued.
LEMMA RestQueued ==
    ASSUME NEW w \in Seq(Bytes), NEW m \in 1 .. MaxMsgs, NEW k \in 0 .. MsgLen,
           PiecesJoin(w, <<>>, 0, m), EndsAt(w, <<>>, (m - 1) * MsgLen + k), w = <<>> => k = 0
    PROVE  LET r == SubSeq(Message(m), k + 1, MsgLen)
               q == IF k = MsgLen THEN <<>> ELSE Append(<<>>, r)
           IN  q \in Pieces /\ PiecesJoin(w, q, 0, m) /\ EndsAt(w, q, m * MsgLen)
<1> DEFINE r == SubSeq(Message(m), k + 1, MsgLen)
           e == (m - 1) * MsgLen
           z == m * MsgLen
<1>1. /\ k < MsgLen => /\ r \in Seq(Bytes) /\ Len(r) \in 1 .. MsgLen
                       /\ Contiguous(r) /\ r[1] = e + k + 1 /\ LastOf(r) = z
      /\ FirstByte(e + 1, m) /\ e \in Nat /\ z = e + MsgLen
  BY MessageParts
<1>2. EndsAt(w, <<>>, e + k) /\ m \in Nat /\ k \in Nat /\ MsgLen \in Nat
  BY SizesAssumption
<1> HIDE DEF r, e, z
<1>3. <<>> \in Pieces
  BY DEF Pieces
<1>4. CASE k = MsgLen
  BY <1>1, <1>2, <1>3, <1>4 DEF z
<1>5. CASE k < MsgLen
  <2>1. w = <<>> => FirstByte(r[1], m)
    BY <1>1, <1>2, <1>5
  <2>2. e + k \in Nat /\ 0 \in Nat /\ r[1] = (e + k) + 1
    BY <1>1, <1>2, <1>5
  <2>3. /\ Append(<<>>, r) \in Pieces /\ PiecesJoin(w, Append(<<>>, r), 0, m)
        /\ EndsAt(w, Append(<<>>, r), LastOf(r))
    BY <1>1, <1>2, <1>3, <1>5, <2>1, <2>2, JoinAppend
  <2>4. QED
    BY <1>1, <1>2, <1>5, <2>3 DEF r, z
<1>6. QED
  BY <1>2, <1>4, <1>5

\* More messages have been sent.
LEMMA JoinMore ==
    ASSUME NEW w, NEW q, NEW n, NEW m \in Nat, NEW k \in Nat, m <= k, PiecesJoin(w, q, n, m)
    PROVE  PiecesJoin(w, q, n, k)
<1>1. \A b : FirstByte(b, m) => FirstByte(b, k)
  BY DEF FirstByte
<1>2. QED
  BY <1>1 DEF PiecesJoin

-----------------------------------------------------------------------------
(***************************************************************************)
(* What a step has to show.                                                *)
(***************************************************************************)

\* The step leaves the entry, the kernel's side and the connection of fd alone,
\* and the accept thread is not about to make or to close it.
Kept(fd) ==
    /\ clients'[fd] = clients[fd] /\ fdConn'[fd] = fdConn[fd]
    /\ LET c == clients[fd].conn
       IN  c # 0 => wire'[c] = wire[c] /\ read'[c] = read[c]
    /\ \/ /\ UNCHANGED <<apc, afd, aconn, asent, accepted>>
          /\ Adding(fd) => read'[accepted] = read[accepted] /\ wire'[accepted] = wire[accepted]
       \/ /\ ~Adding(fd) /\ ~Erasing(fd) /\ ~Adding(fd)' /\ ~Erasing(fd)'
          /\ InFlight(fd)' = InFlight(fd)
          /\ Flushing(fd)' => clients[fd].conn = aconn'

\* What the tick thread's step has to show of such a descriptor.
TickKept(fd) ==
    /\ nmsgs <= nmsgs'
    /\ tfd' = fd /\ tpc' \notin {"idle", "visit"} => clients[fd].live
    /\ tfd' = fd /\ tpc' \in {"send", "sent"} => clients[fd].pending = <<>>
    /\ clients[fd].conn # 0 => Ends(fd, wire[clients[fd].conn], clients[fd].pending)'

LEMMA KeptAt ==
    ASSUME TypeOK, TypeOK', NEW fd \in Fds, greeting' = greeting,
           GoodAt(fd), Kept(fd), TickKept(fd)
    PROVE  GoodAt(fd)'
<1> DEFINE c == clients[fd].conn
<1>1. /\ clients'[fd] = clients[fd] /\ fdConn'[fd] = fdConn[fd]
      /\ c # 0 => wire'[c] = wire[c] /\ read'[c] = read[c]
  BY DEF Kept
<1>2. \/ /\ UNCHANGED <<apc, afd, aconn, asent, accepted>>
         /\ Adding(fd) => read'[accepted] = read[accepted] /\ wire'[accepted] = wire[accepted]
      \/ /\ ~Adding(fd) /\ ~Erasing(fd) /\ ~Adding(fd)' /\ ~Erasing(fd)'
         /\ InFlight(fd)' = InFlight(fd)
         /\ Flushing(fd)' => clients[fd].conn = aconn'
  BY DEF Kept
<1>3. TableAt(fd) /\ LiveAt(fd) /\ StreamAt(fd)
  BY DEF GoodAt
<1>4. TableAt(fd)'
  <2>1. CASE UNCHANGED <<apc, afd, aconn, asent, accepted>>
    BY <1>1, <1>3, <2>1 DEF TableAt, Adding, Erasing, Flushing
  <2>2. CASE /\ ~Adding(fd) /\ ~Erasing(fd) /\ ~Adding(fd)' /\ ~Erasing(fd)'
             /\ Flushing(fd)' => clients[fd].conn = aconn'
    BY <1>1, <1>3, <2>2 DEF TableAt
  <2>3. QED
    BY <1>2, <2>1, <2>2
<1>5. LiveAt(fd)'
  <2>1. Adding(fd)' => read'[accepted'] = 0 /\ wire'[accepted'] = <<>>
    BY <1>2, <1>3 DEF LiveAt, Adding
  <2>2. /\ c # 0 /\ clients[fd].live => read[c] = greeting[c]
        /\ c # 0 /\ ~clients[fd].live => /\ clients[fd].got = read[c] /\ read[c] < greeting[c]
                                         /\ clients[fd].pending = <<>> /\ wire[c] = <<>>
    BY <1>3 DEF LiveAt
  <2>3. /\ tfd' = fd /\ tpc' \notin {"idle", "visit"} => clients[fd].live
        /\ tfd' = fd /\ tpc' \in {"send", "sent"} => clients[fd].pending = <<>>
    BY DEF TickKept
  <2>4. QED
    BY <1>1, <2>1, <2>2, <2>3 DEF LiveAt
<1>6. StreamAt(fd)'
  <2>1. SUFFICES ASSUME c # 0
                 PROVE  /\ PiecesJoin(wire[c], clients[fd].pending, InFlight(fd), nmsgs')
                        /\ Ends(fd, wire[clients[fd].conn], clients[fd].pending)'
    <3>1. InFlight(fd)' = InFlight(fd)
      BY <1>2 DEF InFlight
    <3>2. QED
      BY <1>1, <3>1 DEF StreamAt
  <2>2. PiecesJoin(wire[c], clients[fd].pending, InFlight(fd), nmsgs)
    BY <1>3, <2>1 DEF StreamAt
  <2>3. nmsgs \in Nat /\ nmsgs' \in Nat /\ nmsgs <= nmsgs'
    BY ServerBoundsAssumption DEF TypeOK, TickTypes, TickKept
  <2>4. QED
    BY <2>1, <2>2, <2>3, JoinMore DEF TickKept
<1>7. QED
  BY <1>4, <1>5, <1>6 DEF GoodAt

\* The tick thread has done nothing.
LEMMA LeftAlone ==
    ASSUME TypeOK, TypeOK', NEW fd \in Fds, greeting' = greeting,
           UNCHANGED <<nmsgs, tpc, ttodo, tfd, tsent>>, GoodAt(fd), Kept(fd)
    PROVE  GoodAt(fd)'
<1>1. /\ clients'[fd] = clients[fd]
      /\ clients[fd].conn # 0 => wire'[clients[fd].conn] = wire[clients[fd].conn]
  BY DEF Kept
<1>2. /\ clients[fd].conn # 0 => Ends(fd, wire[clients[fd].conn], clients[fd].pending)
      /\ tfd = fd /\ tpc \notin {"idle", "visit"} => clients[fd].live
      /\ tfd = fd /\ tpc \in {"send", "sent"} => clients[fd].pending = <<>>
  BY DEF GoodAt, StreamAt, LiveAt
<1>3. clients[fd].conn # 0 => Ends(fd, wire[clients[fd].conn], clients[fd].pending)'
  BY <1>1, <1>2 DEF Ends, Handled, Unhandled, HalfSent
<1>4. nmsgs <= nmsgs'
  BY ServerBoundsAssumption DEF TypeOK, TickTypes
<1>5. QED
  BY <1>2, <1>3, <1>4, KeptAt DEF TickKept

\* The tick thread is visiting another descriptor.
LEMMA VisitedElsewhere ==
    ASSUME TypeOK, TypeOK', NEW fd \in Fds, greeting' = greeting,
           UNCHANGED <<nmsgs, ttodo, tfd>>, fd # tfd,
           tpc \notin {"idle", "visit"}, tpc' \notin {"idle", "visit"}, GoodAt(fd), Kept(fd)
    PROVE  GoodAt(fd)'
<1>1. /\ clients'[fd] = clients[fd]
      /\ clients[fd].conn # 0 => wire'[clients[fd].conn] = wire[clients[fd].conn]
  BY DEF Kept
<1>2. clients[fd].conn # 0 => Ends(fd, wire[clients[fd].conn], clients[fd].pending)
  BY DEF GoodAt, StreamAt
<1>3. /\ (Handled(fd)' <=> Handled(fd)) /\ (Unhandled(fd)' <=> Unhandled(fd))
      /\ ~HalfSent(fd)'
  BY <1>1 DEF Handled, Unhandled, HalfSent
<1>4. clients[fd].conn # 0 => Ends(fd, wire[clients[fd].conn], clients[fd].pending)'
  BY <1>1, <1>2, <1>3 DEF Ends
<1>5. nmsgs <= nmsgs'
  BY ServerBoundsAssumption DEF TypeOK, TickTypes
<1>6. QED
  BY <1>4, <1>5, KeptAt DEF TickKept

\* A step of either thread.  Once the visited client has been pulled the tick
\* thread stays where it is; what a step writes goes to a connection that has
\* been heard or to the visited descriptor; and a connection does not come to
\* another descriptor than the one it was accepted on.
LEMMA StepKeeps ==
    ASSUME ServerInv, TypeOK', ConnsOnce', TickInv', FlushInv',
           greeting' = greeting, accepted <= accepted',
           tpc' # "undefined" => tpc # "undefined",
           Sound' => Sound,
           Sound /\ ~Sound' => fdConn'[tfd'] = 0,
           ~Sound => tfd' = tfd /\ tconn' = tconn,
           \A fd \in Fds : fdConn'[fd] \in {0, fdConn[fd]} \/ fdConn'[fd] > accepted,
           tpc # "undefined" =>
             /\ \A fd \in Fds : fd # tfd => clients'[fd].conn \in {0, clients[fd].conn, fdConn[fd]}
             /\ \A c \in Conns : wire'[c] # <<>> =>
                  \/ wire[c] # <<>> /\ (read[c] = greeting[c] => read'[c] = greeting[c])
                  \/ read'[c] = greeting[c]
                  \/ ~Sound /\ c = fdConn[tfd]
             /\ \A fd \in Fds :
                  tpc' # "undefined" /\ GoodAt(fd) /\ ~Pulled(fd) /\ ~Pulled(fd)' => GoodAt(fd)',
           \A c \in Conns : c > accepted => read'[c] = read[c] /\ wire'[c] = wire[c]
    PROVE  ServerInv'
<1>1. /\ TypeOK /\ ConnsOnce /\ BacklogInv /\ PulledInv /\ NothingBeforeGreeting /\ OthersInv
  BY DEF ServerInv
<1>2. /\ accepted \in Nat /\ accepted' \in Nat /\ tconn \in Nat /\ tconn' \in Nat /\ tfd \in Fds
      /\ tconn <= accepted
      /\ \A fd \in Fds : fdConn[fd] \in Nat /\ fdConn'[fd] \in Nat
  BY <1>1, ServerBoundsAssumption
  DEF TypeOK, PeerTypes, TickTypes, KernelTypes, ConnsOnce
<1>3. BacklogInv'
  BY <1>1, <1>2 DEF BacklogInv, Conns
<1>4. PulledInv'
  <2>1. SUFFICES ASSUME tpc' # "undefined", ~Sound' PROVE fdConn'[tfd'] = 0 \/ fdConn'[tfd'] > tconn'
    BY DEF PulledInv
  <2>2. CASE Sound
    BY <2>1, <2>2
  <2>3. CASE ~Sound
    <3>1. fdConn[tfd] = 0 \/ fdConn[tfd] > tconn
      BY <1>1, <2>1, <2>3 DEF PulledInv
    <3>2. tfd' = tfd /\ tconn' = tconn
      BY <2>3
    <3>3. fdConn'[tfd] \in {0, fdConn[tfd]} \/ fdConn'[tfd] > accepted
      BY <1>2
    <3>4. QED
      BY <1>2, <3>1, <3>2, <3>3
  <2>4. QED
    BY <2>2, <2>3
<1>5. NothingBeforeGreeting'
  <2>1. SUFFICES ASSUME tpc' # "undefined", NEW c \in Conns, wire'[c] # <<>>, read'[c] # greeting[c]
                 PROVE  /\ ~Sound' /\ c > tconn'
                        /\ \A fd \in Fds \ {tfd'} : fdConn'[fd] # c /\ clients'[fd].conn # c
    BY DEF NothingBeforeGreeting
  <2>2. /\ ~Sound /\ c > tconn
        /\ \A fd \in Fds \ {tfd} : fdConn[fd] # c /\ clients[fd].conn # c
    <3>1. \/ wire[c] # <<>> /\ (read[c] = greeting[c] => read'[c] = greeting[c])
          \/ ~Sound /\ c = fdConn[tfd]
      BY <2>1
    <3>2. CASE wire[c] # <<>> /\ (read[c] = greeting[c] => read'[c] = greeting[c])
      BY <1>1, <2>1, <3>2 DEF NothingBeforeGreeting
    <3>3. CASE ~Sound /\ c = fdConn[tfd]
      <4>1. c # 0
        BY DEF Conns
      <4>2. c > tconn
        BY <1>1, <2>1, <3>3, <4>1 DEF PulledInv
      <4>3. \A fd \in Fds \ {tfd} : fdConn[fd] # c /\ clients[fd].conn # c
        BY <1>1, <1>2, <3>3, <4>1 DEF ConnsOnce
      <4>4. QED
        BY <3>3, <4>2, <4>3
    <3>4. QED
      BY <3>1, <3>2, <3>3
  <2>3. c <= accepted /\ c # 0
    <3>1. c > accepted => wire'[c] = <<>>
      BY <1>1 DEF BacklogInv
    <3>2. QED
      BY <1>2, <2>1, <3>1 DEF Conns
  <2>4. tfd' = tfd /\ tconn' = tconn /\ ~Sound'
    BY <2>2
  <2>5. ASSUME NEW fd \in Fds \ {tfd} PROVE fdConn'[fd] # c /\ clients'[fd].conn # c
    <3>1. fdConn[fd] # c /\ clients[fd].conn # c /\ fd # tfd /\ fd \in Fds
      BY <2>2
    <3>2. fdConn'[fd] # c
      <4>1. fdConn'[fd] \in {0, fdConn[fd]} \/ fdConn'[fd] > accepted
        BY <3>1
      <4>2. c \in Nat
        BY DEF Conns
      <4>3. QED
        BY <1>2, <2>3, <3>1, <4>1, <4>2
    <3>3. clients'[fd].conn \in {0, clients[fd].conn, fdConn[fd]}
      BY <2>1, <3>1
    <3>4. QED
      BY <2>3, <3>1, <3>2, <3>3
  <2>6. QED
    BY <2>2, <2>4, <2>5
<1>6. OthersInv'
  <2>1. SUFFICES ASSUME tpc' # "undefined", NEW fd \in Fds, ~Pulled(fd)' PROVE GoodAt(fd)'
    BY DEF OthersInv
  <2>2. ~Pulled(fd)
    BY <2>1 DEF Pulled
  <2>3. GoodAt(fd)
    BY <1>1, <2>1, <2>2 DEF OthersInv
  <2>4. QED
    BY <2>1, <2>2, <2>3
<1>7. QED
  BY <1>3, <1>4, <1>5, <1>6 DEF ServerInv

-----------------------------------------------------------------------------
(***************************************************************************)
(* Steps that touch neither the table nor what it is compared with.        *)
(***************************************************************************)

LEMMA QuietStep ==
    ASSUME ServerInv, TypeOK',
           UNCHANGED <<fdConn, accepted, greeting, read, clients, nmsgs, tvars, wire>>,
           \/ UNCHANGED <<apc, afd, aconn, asent>>
           \/ /\ apc \notin {"add", "erase", "store"} /\ apc' \notin {"add", "erase", "store"}
              /\ apc' = "flush" => aconn' # 0 /\ clients[afd'].conn = aconn'
    PROVE  ServerInv'
<1>1. /\ UNCHANGED <<fdConn, accepted, greeting, read, clients, nmsgs, wire>>
      /\ UNCHANGED <<tpc, ttodo, tfd, tconn, tsent>>
      /\ Sound' <=> Sound
  BY DEF tvars, Sound, TickEntryValid
<1>2. ConnsOnce'
  BY <1>1 DEF ServerInv, ConnsOnce
<1>3. TickInv'
  BY <1>1 DEF ServerInv, TickInv
<1>4. FlushInv'
  BY <1>1 DEF ServerInv, FlushInv, AcceptEntryValid
<1>5. ASSUME NEW fd \in Fds, GoodAt(fd) PROVE GoodAt(fd)'
  <2>1. Kept(fd)
    <3>1. CASE UNCHANGED <<apc, afd, aconn, asent>>
      BY <1>1, <3>1 DEF Kept
    <3>2. CASE /\ apc \notin {"add", "erase", "store"} /\ apc' \notin {"add", "erase", "store"}
               /\ apc' = "flush" => aconn' # 0 /\ clients[afd'].conn = aconn'
      BY <1>1, <3>2 DEF Kept, Adding, Erasing, Flushing, InFlight
    <3>3. QED
      BY <3>1, <3>2
  <2>2. QED
    BY <1>1, <1>5, <2>1, LeftAlone DEF ServerInv
<1>6. \A c \in Conns : wire'[c] # <<>> =>
          wire[c] # <<>> /\ (read[c] = greeting[c] => read'[c] = greeting[c])
  BY <1>1
<1>7. accepted <= accepted'
  BY <1>1, ServerBoundsAssumption DEF ServerInv, TypeOK, PeerTypes
<1>8. /\ \A fd \in Fds : fdConn'[fd] \in {0, fdConn[fd]} \/ fdConn'[fd] > accepted
      /\ \A fd \in Fds : fd # tfd => clients'[fd].conn \in {0, clients[fd].conn, fdConn[fd]}
      /\ \A c \in Conns : c > accepted => read'[c] = read[c] /\ wire'[c] = wire[c]
  BY <1>1
<1>9. QED
  BY <1>1, <1>2, <1>3, <1>4, <1>5, <1>6, <1>7, <1>8, StepKeeps

\* A step into undefined behaviour.
LEMMA UndefinedStep ==
    ASSUME ServerInv, Undefined
    PROVE  ServerInv'
<1>1. /\ tpc' = "undefined" /\ apc' = "undefined"
      /\ UNCHANGED <<kernel, peers, clients, nmsgs, ttodo, tfd, tconn, tref, tsent, treg, batch,
                     slow, afd, aconn, areg, asent, wire>>
  BY DEF Undefined
<1>2. TypeOK'
  <2>1. KernelTypes' /\ PeerTypes' /\ TableTypes'
    BY <1>1 DEF ServerInv, TypeOK, KernelTypes, PeerTypes, TableTypes, kernel, peers
  <2>2. TickTypes' /\ AcceptTypes'
    BY <1>1 DEF ServerInv, TypeOK, TickTypes, AcceptTypes
  <2>3. QED
    BY <1>1, <2>1, <2>2 DEF ServerInv, TypeOK
<1>3. ConnsOnce' /\ TickInv' /\ FlushInv' /\ BacklogInv'
  BY <1>1 DEF ServerInv, ConnsOnce, TickInv, FlushInv, BacklogInv, peers, kernel
<1>4. PulledInv' /\ NothingBeforeGreeting' /\ OthersInv'
  BY <1>1 DEF PulledInv, NothingBeforeGreeting, OthersInv
<1>5. QED
  BY <1>2, <1>3, <1>4 DEF ServerInv

\* The types of what a quiet step of the accept thread leaves alone.
LEMMA QuietTypes ==
    ASSUME TypeOK, UNCHANGED <<fdConn, peers, clients, nmsgs, tvars, wire>>,
           armed' \in [Fds -> BOOLEAN], AcceptTypes'
    PROVE  TypeOK'
<1>1. KernelTypes'
  BY DEF TypeOK, KernelTypes
<1>2. PeerTypes'
  BY DEF TypeOK, PeerTypes, peers
<1>3. TableTypes' /\ TickTypes'
  BY DEF TypeOK, TableTypes, TickTypes, tvars
<1>4. QED
  BY <1>1, <1>2, <1>3 DEF TypeOK

LEMMA EpollWaitStep ==
    ASSUME ServerInv, EpollWait
    PROVE  ServerInv'
<1>1. /\ apc = "wait" /\ apc' = "events"
      /\ UNCHANGED <<kernel, peers, clients, nmsgs, tvars, slow, afd, aconn, areg, asent, wire>>
  BY DEF EpollWait, AcceptUnchanged, peers
<1>2. batch' \subseteq [fd : Fds, ev : {"hup", "out", "in"}] \union {[fd |-> 0, ev |-> "listen"]}
  <2>1. PICK room \in SUBSET {fd \in Fds : armed[fd]} :
         batch' = {[fd |-> fd, ev |-> "hup"] : fd \in {f \in Fds : fdConn[f] \in gone}}
                  \union {[fd |-> fd, ev |-> "out"] : fd \in {f \in room : fdConn[f] \notin gone}}
                  \union {[fd |-> fd, ev |-> "in"] :
                            fd \in {f \in Fds \ room : fdConn[f] # 0 /\ fdConn[f] \notin gone
                                                         /\ read[fdConn[f]] < sent[fdConn[f]]}}
                  \union (IF accepted < made THEN {[fd |-> 0, ev |-> "listen"]} ELSE {})
    BY DEF EpollWait
  <2>2. QED
    BY <2>1
<1>3. TypeOK'
  BY <1>1, <1>2, QuietTypes DEF ServerInv, TypeOK, AcceptTypes, KernelTypes, kernel
<1>4. QED
  BY <1>1, <1>3, QuietStep DEF ServerInv, kernel, peers

LEMMA EventsStep ==
    ASSUME ServerInv, Listen \/ AcceptEnds \/ HandleHup \/ TickCheck \/ TickRemove
    PROVE  ServerInv'
<1>1. /\ apc \in {"events", "accept", "tick"}
      /\ apc' \in {"accept", "events", "close", "tick", "wait"}
      /\ afd' \in Fds /\ batch' \subseteq batch /\ slow' \subseteq Fds
      /\ UNCHANGED <<kernel, peers, clients, nmsgs, tvars, aconn, areg, asent, wire>>
  BY DEF Listen, AcceptEnds, HandleHup, TickCheck, TickRemove, AcceptUnchanged, peers,
         ServerInv, TypeOK, AcceptTypes, InTable
<1>2. TypeOK'
  BY <1>1, QuietTypes DEF ServerInv, TypeOK, AcceptTypes, KernelTypes, kernel
<1>3. QED
  BY <1>1, <1>2, QuietStep DEF ServerInv, kernel, peers

LEMMA HandleOutStep ==
    ASSUME ServerInv, HandleOut
    PROVE  ServerInv'
<1>1. /\ apc = "events" /\ afd' \in Fds /\ aconn' = clients[afd'].conn /\ batch' \subseteq batch
      /\ apc' = IF afd' \in InTable THEN "flush" ELSE "events"
      /\ UNCHANGED <<kernel, peers, clients, nmsgs, tvars, slow, areg, asent, wire>>
  BY DEF HandleOut, AcceptUnchanged, peers, ServerInv, TypeOK, AcceptTypes
<1>2. aconn' \in 0 .. MaxConns /\ (apc' = "flush" => aconn' # 0)
  BY <1>1, ClientFacts DEF ServerInv, InTable
<1>3. TypeOK'
  BY <1>1, <1>2, QuietTypes DEF ServerInv, TypeOK, AcceptTypes, KernelTypes, kernel
<1>4. QED
  BY <1>1, <1>2, <1>3, QuietStep DEF ServerInv, kernel, peers

LEMMA DisarmStep ==
    ASSUME ServerInv, Disarm
    PROVE  ServerInv'
<1>1. /\ apc = "disarm" /\ apc' = "events" /\ armed' = [armed EXCEPT ![afd] = FALSE]
      /\ UNCHANGED <<fdConn, peers, clients, nmsgs, tvars, batch, slow, afd, aconn, areg,
                     asent, wire>>
  BY DEF Disarm, AcceptUnchanged, ArmEpollout, peers
<1>2. armed' \in [Fds -> BOOLEAN]
  BY <1>1 DEF ServerInv, TypeOK, KernelTypes
<1>3. TypeOK'
  BY <1>1, <1>2, QuietTypes DEF ServerInv, TypeOK, AcceptTypes
<1>4. QED
  BY <1>1, <1>3, QuietStep DEF ServerInv, peers

LEMMA ClientsStep ==
    ASSUME ServerInv, ClientConnects \/ ClientSends \/ ClientCloses
    PROVE  ServerInv'
<1>1. UNCHANGED <<kernel, accepted, greeting, read, clients, nmsgs, tvars, avars, wire>>
  BY DEF ClientConnects, ClientSends, ClientCloses, ServerUnchanged
<1>2. PeerTypes'
  <2>1. /\ made \in 0 .. MaxConns /\ accepted \in 0 .. made /\ gone \subseteq Conns
        /\ greeting \in [Conns -> GreetingSizes] /\ MaxConns \in Nat
        /\ sent \in [Conns -> Nat] /\ read \in [Conns -> Nat]
        /\ \A c \in Conns : /\ sent[c] <= greeting[c] /\ read[c] <= sent[c]
                             /\ greeting[c] \in Nat
    BY SizesAssumption, ServerBoundsAssumption DEF ServerInv, TypeOK, PeerTypes
  <2>2. CASE ClientConnects
    BY <1>1, <2>1, <2>2 DEF ClientConnects, PeerTypes
  <2>3. CASE ClientSends
    BY <1>1, <2>1, <2>3, SMTT(30) DEF ClientSends, PeerTypes, Conns
  <2>4. CASE ClientCloses
    BY <1>1, <2>1, <2>4 DEF ClientCloses, PeerTypes, Conns
  <2>5. QED
    BY <2>2, <2>3, <2>4
<1>3. TypeOK'
  BY <1>1, <1>2 DEF ServerInv, TypeOK, KernelTypes, TableTypes, TickTypes, AcceptTypes,
     kernel, tvars, avars
<1>4. QED
  BY <1>1, <1>3, QuietStep DEF ServerInv, kernel, avars


-----------------------------------------------------------------------------
(***************************************************************************)
(* The tick thread.                                                        *)
(***************************************************************************)

LEMMA TickFrame ==
    ASSUME TypeOK, UNCHANGED <<peers, avars>>, KernelTypes', TableTypes', TickTypes',
           wire' \in [Conns -> Seq(Bytes)]
    PROVE  TypeOK'
<1>1. PeerTypes'
  BY DEF TypeOK, PeerTypes, peers
<1>2. AcceptTypes'
  BY DEF TypeOK, AcceptTypes, avars
<1>3. QED
  BY <1>1, <1>2 DEF TypeOK

\* Steps of the iteration, which change neither the table nor the wire.
LEMMA IterationStep ==
    ASSUME ServerInv, UNCHANGED <<kernel, peers, avars, clients, wire>>,
           TickTypes', TickInv', tconn' <= accepted, apc = "add" => tconn' < accepted,
           Sound, Sound', \A fd \in Fds : GoodAt(fd) => TickKept(fd)
    PROVE  ServerInv'
<1>1. /\ UNCHANGED <<fdConn, accepted, greeting, read, clients, wire, apc, afd, aconn, asent>>
      /\ KernelTypes' /\ TableTypes' /\ wire' \in [Conns -> Seq(Bytes)]
  BY DEF kernel, peers, avars, ServerInv, TypeOK, KernelTypes, TableTypes
<1>2. TypeOK'
  BY <1>1, TickFrame DEF ServerInv
<1>3. ConnsOnce' /\ FlushInv'
  BY <1>1 DEF ServerInv, ConnsOnce, FlushInv, AcceptEntryValid
<1>4. tpc # "undefined" /\ tpc' # "undefined"
  BY DEF Sound
<1>5. ASSUME NEW fd \in Fds, GoodAt(fd) PROVE GoodAt(fd)'
  <2>1. Kept(fd)
    BY <1>1 DEF Kept
  <2>2. QED
    BY <1>1, <1>2, <1>5, <2>1, KeptAt DEF ServerInv
<1>6. /\ \A fd \in Fds : fdConn'[fd] \in {0, fdConn[fd]} \/ fdConn'[fd] > accepted
      /\ \A fd \in Fds : fd # tfd => clients'[fd].conn \in {0, clients[fd].conn, fdConn[fd]}
      /\ \A c \in Conns : c > accepted => read'[c] = read[c] /\ wire'[c] = wire[c]
      /\ \A c \in Conns : wire'[c] # <<>> =>
           wire[c] # <<>> /\ (read[c] = greeting[c] => read'[c] = greeting[c])
  BY <1>1
<1>7. accepted <= accepted'
  BY <1>1, ServerBoundsAssumption DEF ServerInv, TypeOK, PeerTypes
<1>8. QED
  BY <1>1, <1>2, <1>3, <1>4, <1>5, <1>6, <1>7, StepKeeps

LEMMA BroadcastStep ==
    ASSUME ServerInv, Broadcast
    PROVE  ServerInv'
<1>1. /\ tpc = "idle" /\ tpc' = "visit" /\ nmsgs < MaxMsgs /\ nmsgs' = nmsgs + 1
      /\ ttodo' = {clients[fd].conn : fd \in InTable}
      /\ UNCHANGED <<kernel, peers, avars, clients, wire>>
      /\ UNCHANGED <<tfd, tconn, tref, tsent, treg>>
  BY DEF Broadcast, TickUnchanged
<1>2. nmsgs \in Nat /\ nmsgs' \in 0 .. MaxMsgs /\ nmsgs' # 0 /\ nmsgs' - 1 = nmsgs
  BY <1>1, ServerBoundsAssumption DEF ServerInv, TypeOK, TickTypes
<1>3. ttodo' \subseteq Conns
  BY <1>1, ClientFacts DEF ServerInv, InTable
<1>4. TickTypes' /\ TickInv'
  BY <1>1, <1>2, <1>3 DEF ServerInv, TypeOK, TickTypes, TickInv
<1>5. tconn' <= accepted /\ (apc = "add" => tconn' < accepted)
  BY <1>1 DEF ServerInv, ConnsOnce
<1>6. Sound /\ Sound'
  BY <1>1 DEF Sound
<1>7. ASSUME NEW fd \in Fds, GoodAt(fd) PROVE TickKept(fd)
  <2>1. ASSUME clients[fd].conn # 0
        PROVE  Ends(fd, wire[clients[fd].conn], clients[fd].pending)'
    <3>1. EndsAt(wire[clients[fd].conn], clients[fd].pending, nmsgs * MsgLen)
      BY <1>1, <1>7, <2>1 DEF GoodAt, StreamAt, Ends, Handled
    <3>2. ~Handled(fd)' /\ ~HalfSent(fd)'
      BY <1>1, <2>1 DEF Handled, HalfSent, InTable
    <3>3. UNCHANGED <<clients, wire>>
      BY <1>1
    <3>4. QED
      BY <1>2, <3>1, <3>2, <3>3 DEF Ends
  <2>2. QED
    BY <1>1, <1>2, <2>1 DEF TickKept
<1>8. QED
  BY <1>1, <1>4, <1>5, <1>6, <1>7, IterationStep

LEMMA VisitStep ==
    ASSUME ServerInv, Visit
    PROVE  ServerInv'
<1>1. /\ tpc = "visit" /\ UNCHANGED <<kernel, peers, avars, clients, wire>>
      /\ UNCHANGED <<nmsgs, tref, tsent, treg>>
  BY DEF Visit, TickUnchanged
<1>2. PICK f \in InTable :
         /\ clients[f].conn \in ttodo
         /\ ttodo' = ttodo \ {clients[f].conn}
         /\ IF clients[f].live
              THEN tfd' = f /\ tconn' = clients[f].conn /\ tpc' = "find"
              ELSE UNCHANGED <<tpc, tfd, tconn>>
  BY DEF Visit
<1>3. /\ f \in Fds /\ clients[f].conn # 0 /\ clients[f].conn \in 0 .. MaxConns
      /\ clients[f].live \in BOOLEAN
  BY ClientFacts DEF ServerInv, InTable
<1>4. TickTypes'
  BY <1>1, <1>2, <1>3 DEF ServerInv, TypeOK, TickTypes
<1>5. TickInv'
  BY <1>1, <1>2, <1>3 DEF ServerInv, TickInv
<1>6. tconn' <= accepted /\ (apc = "add" => tconn' < accepted)
  BY <1>2, <1>3 DEF ServerInv, ConnsOnce
<1>7. Sound /\ Sound'
  BY <1>1, <1>2 DEF Sound, TickEntryValid
<1>8. nmsgs <= nmsgs' /\ nmsgs' = nmsgs
  BY <1>1, ServerBoundsAssumption DEF ServerInv, TypeOK, TickTypes
<1>9. ASSUME NEW fd \in Fds, GoodAt(fd) PROVE TickKept(fd)
  <2>1. ASSUME clients[fd].conn # 0
        PROVE  Ends(fd, wire[clients[fd].conn], clients[fd].pending)'
    <3>1. fd # f => clients[fd].conn # clients[f].conn
      BY <1>3, <2>1 DEF ServerInv, ConnsOnce
    <3>2. UNCHANGED <<clients, wire>> /\ ~HalfSent(fd)'
      BY <1>1, <1>2 DEF HalfSent
    <3>3. CASE fd # f \/ clients[f].live
      <4>1. Handled(fd)' => Handled(fd)
        BY <1>1, <1>2, <2>1, <3>1, <3>3 DEF Handled
      <4>2. Unhandled(fd)' => Unhandled(fd)
        BY <1>1, <1>2, <2>1, <3>1, <3>3 DEF Unhandled
      <4>3. QED
        BY <1>8, <1>9, <2>1, <3>2, <4>1, <4>2 DEF GoodAt, StreamAt, Ends
    <3>4. CASE fd = f /\ ~clients[f].live
      <4>1. wire[clients[fd].conn] = <<>> /\ clients[fd].pending = <<>>
        BY <1>9, <2>1, <3>4 DEF GoodAt, LiveAt
      <4>2. QED
        BY <3>2, <4>1 DEF Ends, EndsAt
    <3>5. QED
      BY <3>3, <3>4
  <2>2. tpc' \notin {"send", "sent"} /\ (tpc' \notin {"idle", "visit"} => clients[tfd'].live)
    BY <1>1, <1>2
  <2>3. QED
    BY <1>8, <2>1, <2>2 DEF TickKept
<1>10. QED
  BY <1>1, <1>4, <1>5, <1>6, <1>7, <1>9, IterationStep

LEMMA BroadcastEndsStep ==
    ASSUME ServerInv, BroadcastEnds
    PROVE  ServerInv'
<1>1. /\ tpc = "visit" /\ tpc' = "idle" /\ ttodo' = {} /\ tconn' = 0
      /\ \A fd \in InTable : clients[fd].conn \notin ttodo
      /\ UNCHANGED <<kernel, peers, avars, clients, wire>>
      /\ UNCHANGED <<nmsgs, tfd, tref, tsent, treg>>
  BY DEF BroadcastEnds, TickUnchanged
<1>2. TickTypes' /\ TickInv'
  BY <1>1, ServerBoundsAssumption DEF ServerInv, TypeOK, TickTypes, TickInv
<1>3. tconn' <= accepted /\ (apc = "add" => tconn' < accepted)
  <2>1. accepted \in Nat /\ tconn \in Nat
    BY ServerBoundsAssumption DEF ServerInv, TypeOK, PeerTypes, TickTypes
  <2>2. QED
    BY <1>1, <2>1 DEF ServerInv, ConnsOnce
<1>4. Sound /\ Sound' /\ nmsgs <= nmsgs'
  BY <1>1, ServerBoundsAssumption DEF Sound, ServerInv, TypeOK, TickTypes
<1>5. ASSUME NEW fd \in Fds, GoodAt(fd) PROVE TickKept(fd)
  <2>1. ASSUME clients[fd].conn # 0
        PROVE  Ends(fd, wire[clients[fd].conn], clients[fd].pending)'
    <3>1. Handled(fd) /\ ~Unhandled(fd)' /\ ~HalfSent(fd)'
      BY <1>1, <2>1 DEF Handled, Unhandled, HalfSent, InTable
    <3>2. UNCHANGED <<clients, wire, nmsgs>>
      BY <1>1
    <3>3. QED
      BY <1>5, <2>1, <3>1, <3>2 DEF GoodAt, StreamAt, Ends
  <2>2. QED
    BY <1>1, <1>4, <2>1 DEF TickKept
<1>6. QED
  BY <1>1, <1>2, <1>3, <1>4, <1>5, IterationStep

\* The iterator moves on.
LEMMA AdvanceStep ==
    ASSUME ServerInv, Advance
    PROVE  ServerInv'
<1>1. /\ tpc = "advance" /\ tpc' = "visit" /\ TickEntryValid /\ tref' = 0
      /\ UNCHANGED <<kernel, peers, avars, clients, wire>>
      /\ UNCHANGED <<nmsgs, ttodo, tfd, tconn, tsent, treg>>
  BY DEF Advance, TickUnchanged
<1>2. TickTypes' /\ TickInv'
  BY <1>1, ServerBoundsAssumption DEF ServerInv, TypeOK, TickTypes, TickInv
<1>3. tconn' <= accepted /\ (apc = "add" => tconn' < accepted)
  BY <1>1 DEF ServerInv, ConnsOnce
<1>4. Sound /\ Sound' /\ nmsgs <= nmsgs'
  BY <1>1, ServerBoundsAssumption DEF Sound, ServerInv, TypeOK, TickTypes
<1>5. ASSUME NEW fd \in Fds, GoodAt(fd) PROVE TickKept(fd)
  <2>1. ASSUME clients[fd].conn # 0
        PROVE  Ends(fd, wire[clients[fd].conn], clients[fd].pending)'
    <3>1. (Handled(fd)' => Handled(fd)) /\ (Unhandled(fd)' => Unhandled(fd)) /\ ~HalfSent(fd)'
      BY <1>1 DEF Handled, Unhandled, HalfSent
    <3>2. UNCHANGED <<clients, wire, nmsgs>>
      BY <1>1
    <3>3. QED
      BY <1>5, <2>1, <3>1, <3>2 DEF GoodAt, StreamAt, Ends
  <2>2. QED
    BY <1>1, <1>4, <2>1 DEF TickKept
<1>6. QED
  BY <1>1, <1>2, <1>3, <1>4, <1>5, IterationStep

\* How the stream of the visited client ends when the tick thread is at pc.
VisitEnds(pc, w, q, k) ==
    /\ pc \in {"count", "arm", "advance"} => EndsAt(w, q, nmsgs * MsgLen)
    /\ pc \in {"find", "enqueue", "send"} => EndsAt(w, q, (nmsgs - 1) * MsgLen)
    /\ pc = "sent" => EndsAt(w, q, (nmsgs - 1) * MsgLen + k) /\ (w = <<>> => k = 0)
    /\ pc \in {"send", "sent"} => q = <<>>

MidVisit == {"find", "enqueue", "count", "send", "sent", "arm", "close", "advance"}

\* The visited client, while it is there.
LEMMA VisitedClient ==
    ASSUME ServerInv, Sound, tpc \in MidVisit
    PROVE  /\ tconn \in Conns /\ tconn # 0 /\ clients[tfd].conn = tconn /\ GoodAt(tfd)
           /\ read[tconn] = greeting[tconn] /\ fdConn[tfd] \in {0, tconn}
           /\ clients[tfd].live /\ ~Adding(tfd) /\ tconn \notin ttodo
           /\ wire[tconn] \in Seq(Bytes)
           /\ InFlight(tfd) \in Nat /\ (clients[tfd].pending = <<>> => InFlight(tfd) = 0)
           /\ PiecesJoin(wire[tconn], clients[tfd].pending, InFlight(tfd), nmsgs)
           /\ VisitEnds(tpc, wire[tconn], clients[tfd].pending, tsent)
<1>1. /\ TypeOK /\ TickInv /\ FlushInv /\ OthersInv /\ tfd \in Fds
      /\ tpc \notin {"idle", "visit", "undefined"} /\ TickEntryValid
  BY DEF ServerInv, MidVisit, Sound, TypeOK, TickTypes
<1>2. tconn # 0 /\ tconn \notin ttodo /\ clients[tfd].conn = tconn /\ tconn \in Conns
  BY <1>1, ClientFacts DEF TickInv, TickEntryValid
<1>3. GoodAt(tfd)
  BY <1>1 DEF OthersInv, Pulled
<1>4. TableAt(tfd) /\ LiveAt(tfd) /\ StreamAt(tfd)
  BY <1>3 DEF GoodAt
<1>5. ~Adding(tfd) /\ fdConn[tfd] \in {0, tconn}
  BY <1>2, <1>4 DEF TableAt
<1>6. clients[tfd].live /\ (tpc \in {"send", "sent"} => clients[tfd].pending = <<>>)
  BY <1>1, <1>4 DEF LiveAt
<1>7. read[tconn] = greeting[tconn]
  BY <1>2, <1>4, <1>6 DEF LiveAt
<1>8. wire[tconn] \in Seq(Bytes) /\ InFlight(tfd) \in Nat
  BY <1>1, <1>2, SizesAssumption DEF TypeOK, AcceptTypes, InFlight
<1>9. clients[tfd].pending = <<>> => InFlight(tfd) = 0
  <2>1. Flushing(tfd) => clients[tfd].conn = aconn
    BY <1>4 DEF TableAt
  <2>2. QED
    BY <1>1, <2>1 DEF FlushInv, InFlight, Flushing, AcceptEntryValid
<1>10. /\ PiecesJoin(wire[tconn], clients[tfd].pending, InFlight(tfd), nmsgs)
       /\ Ends(tfd, wire[tconn], clients[tfd].pending)
  BY <1>2, <1>4 DEF StreamAt
<1>11. VisitEnds(tpc, wire[tconn], clients[tfd].pending, tsent)
  BY <1>6, <1>10 DEF VisitEnds, Ends, Handled, Unhandled, HalfSent
<1>12. QED
  BY <1>2, <1>3, <1>5, <1>6, <1>7, <1>8, <1>9, <1>10, <1>11

\* A step in the middle of a visit: the queue of the entry may grow, and what
\* was written to the connection the descriptor is open on.
LEMMA MidVisitStep ==
    ASSUME ServerInv, UNCHANGED <<fdConn, peers, avars, nmsgs, ttodo, tfd, tconn>>,
           tpc \in MidVisit, tpc' \in MidVisit,
           armed' \in [Fds -> BOOLEAN], TableTypes', TickTypes', OnlyQueue(tfd),
           wire' \in [Conns -> Seq(Bytes)],
           \A c \in Conns : c # fdConn[tfd] => wire'[c] = wire[c],
           clients[tfd].pending # <<>> =>
             clients'[tfd].pending # <<>> /\ clients'[tfd].pending[1] = clients[tfd].pending[1],
           Sound => /\ PiecesJoin(wire'[tconn], clients'[tfd].pending, InFlight(tfd), nmsgs)
                    /\ VisitEnds(tpc', wire'[tconn], clients'[tfd].pending, tsent')
    PROVE  ServerInv'
<1>1. /\ TypeOK /\ ConnsOnce /\ TickInv /\ FlushInv /\ tfd \in Fds /\ afd \in Fds
      /\ tpc \notin {"idle", "visit", "erase", "undefined"}
      /\ tpc' \notin {"idle", "visit", "erase", "undefined"}
  BY DEF ServerInv, TypeOK, TickTypes, AcceptTypes, MidVisit
<1>2. /\ UNCHANGED <<fdConn, accepted, greeting, read, apc, afd, aconn, asent>>
      /\ UNCHANGED <<nmsgs, ttodo, tfd, tconn>>
  BY DEF peers, avars
<1>3. \A fd \in Fds : /\ clients'[fd].conn = clients[fd].conn
                      /\ clients'[fd].live = clients[fd].live
                      /\ fd # tfd => clients'[fd] = clients[fd]
  BY DEF OnlyQueue
<1>4. TypeOK'
  BY <1>1, <1>2, TickFrame DEF TypeOK, KernelTypes
<1>5. ConnsOnce' /\ TickInv'
  BY <1>1, <1>2, <1>3 DEF ConnsOnce, TickInv
<1>6. FlushInv'
  BY <1>1, <1>2, <1>3 DEF FlushInv, AcceptEntryValid
<1>7. Sound' <=> Sound
  BY <1>1, <1>2, <1>3 DEF Sound, TickEntryValid
<1>8. ASSUME NEW c \in Conns, c = fdConn[tfd], Sound PROVE read[c] = greeting[c]
  <2>1. c # 0
    BY DEF Conns
  <2>2. QED
    BY <1>8, <2>1, VisitedClient
<1>9. \A c \in Conns : wire'[c] # <<>> =>
          \/ wire[c] # <<>> /\ (read[c] = greeting[c] => read'[c] = greeting[c])
          \/ read'[c] = greeting[c]
          \/ ~Sound /\ c = fdConn[tfd]
  BY <1>2, <1>8
<1>10. accepted \in Nat /\ \A fd \in Fds : fdConn[fd] \in Nat /\ fdConn[fd] <= accepted
  BY <1>1, ServerBoundsAssumption DEF TypeOK, PeerTypes, KernelTypes, ConnsOnce
<1>11. \A c \in Conns : c > accepted => read'[c] = read[c] /\ wire'[c] = wire[c]
  <2>1. ASSUME NEW c \in Conns, c > accepted PROVE c # fdConn[tfd]
    BY <1>1, <1>10, <2>1
  <2>2. QED
    BY <1>2, <2>1
<1>12. ASSUME NEW fd \in Fds, GoodAt(fd), ~Pulled(fd) PROVE GoodAt(fd)'
  <2>1. CASE fd # tfd
    <3>1. ASSUME clients[fd].conn # 0 PROVE wire'[clients[fd].conn] = wire[clients[fd].conn]
      <4>1. clients[fd].conn # fdConn[tfd]
        BY <1>1, <2>1, <3>1 DEF ConnsOnce
      <4>2. clients[fd].conn \in Conns
        BY <1>1, <3>1, ClientFacts
      <4>3. QED
        BY <4>1, <4>2
    <3>2. ASSUME Adding(fd) PROVE wire'[accepted] = wire[accepted]
      <4>1. fdConn[tfd] < accepted
        BY <1>1, <2>1, <3>2 DEF ConnsOnce, Adding
      <4>2. accepted \in Conns
        BY <1>1, <1>10, <4>1, ServerBoundsAssumption DEF TypeOK, PeerTypes, Conns
      <4>3. QED
        BY <1>1, <1>10, <4>1, <4>2
    <3>3. Kept(fd)
      BY <1>2, <1>3, <2>1, <3>1, <3>2 DEF Kept
    <3>4. QED
      BY <1>1, <1>2, <1>4, <1>12, <2>1, <3>3, VisitedElsewhere
  <2>2. CASE fd = tfd
    <3>1. Sound
      BY <1>12, <2>2 DEF Pulled
    <3>2. /\ tconn # 0 /\ clients[tfd].conn = tconn /\ clients[tfd].live /\ ~Adding(tfd)
          /\ read[tconn] = greeting[tconn] /\ tconn \notin ttodo
      BY <3>1, VisitedClient
    <3>3. clients'[tfd].conn = tconn /\ clients'[tfd].live
      BY <1>1, <1>3, <3>2, Zenon
    <3>4. TableAt(tfd)'
      <4>1. TableAt(tfd)
        BY <1>12, <2>2 DEF GoodAt
      <4>2. QED
        BY <1>2, <3>2, <3>3, <4>1 DEF TableAt, Adding, Erasing, Flushing
    <3>5. LiveAt(tfd)'
      <4>1. ~Adding(tfd)'
        BY <1>2, <3>2 DEF Adding
      <4>2. tpc' \in {"send", "sent"} => clients'[tfd].pending = <<>>
        BY <3>1 DEF VisitEnds
      <4>3. QED
        BY <1>2, <3>2, <3>3, <4>1, <4>2 DEF LiveAt
    <3>6. StreamAt(tfd)'
      <4>1. InFlight(tfd)' = InFlight(tfd)
        BY <1>2 DEF InFlight
      <4>2. /\ Handled(tfd)' => tpc' \in {"count", "arm", "advance"}
            /\ Unhandled(tfd)' => tpc' \in {"find", "enqueue", "send"}
            /\ HalfSent(tfd)' => tpc' = "sent"
        BY <1>1, <1>2, <3>2, <3>3 DEF Handled, Unhandled, HalfSent
      <4>3. /\ PiecesJoin(wire'[tconn], clients'[tfd].pending, InFlight(tfd), nmsgs)
            /\ VisitEnds(tpc', wire'[tconn], clients'[tfd].pending, tsent')
        BY <3>1
      <4>4. Ends(tfd, wire[clients[tfd].conn], clients[tfd].pending)'
        BY <1>2, <3>3, <4>2, <4>3 DEF Ends, VisitEnds
      <4>5. QED
        BY <1>2, <3>3, <4>1, <4>3, <4>4 DEF StreamAt
    <3>7. GoodAt(tfd)'
      BY <3>4, <3>5, <3>6 DEF GoodAt
    <3>8. QED
      BY <1>2, <2>2, <3>7
  <2>3. QED
    BY <2>1, <2>2
<1>13. /\ \A fd \in Fds : fdConn'[fd] \in {0, fdConn[fd]} \/ fdConn'[fd] > accepted
       /\ \A fd \in Fds : fd # tfd => clients'[fd].conn \in {0, clients[fd].conn, fdConn[fd]}
       /\ accepted <= accepted'
  BY <1>2, <1>3, <1>10
<1>14. QED
  BY <1>1, <1>2, <1>4, <1>5, <1>6, <1>7, <1>9, <1>11, <1>12, <1>13, StepKeeps

\* The table and the wire are left alone.
LEMMA LookStep ==
    ASSUME ServerInv, FindClient \/ Arm \/ (TickClose /\ tfd \notin InTable)
    PROVE  ServerInv'
<1>1. /\ UNCHANGED <<fdConn, peers, avars, clients, nmsgs, ttodo, tfd, tconn, tsent, treg, wire>>
      /\ tpc \in MidVisit /\ tpc' \in MidVisit
      /\ tref' = tref \/ tref' = clients[tfd].conn
  BY DEF FindClient, Arm, TickClose, TickUnchanged, kernel, MidVisit
<1>2. TypeOK /\ tfd \in Fds /\ clients[tfd].conn \in 0 .. MaxConns
  BY ClientFacts DEF ServerInv, TypeOK, TickTypes
<1>3. armed' \in [Fds -> BOOLEAN]
  <2>1. armed \in [Fds -> BOOLEAN] /\ (TRUE /\ fdConn[tfd] # 0) \in BOOLEAN
    BY <1>2, Zenon DEF TypeOK, KernelTypes
  <2>2. armed' = armed \/ armed' = [armed EXCEPT ![tfd] = TRUE /\ fdConn[tfd] # 0]
    BY DEF FindClient, Arm, TickClose, ArmEpollout, kernel
  <2>3. QED
    BY <1>2, <2>1, <2>2
<1>4. TableTypes' /\ TickTypes' /\ wire' \in [Conns -> Seq(Bytes)]
  BY <1>1, <1>2 DEF TypeOK, TableTypes, TickTypes, MidVisit
<1>5. OnlyQueue(tfd)
  BY <1>1 DEF OnlyQueue
<1>6. ASSUME Sound
      PROVE  /\ PiecesJoin(wire[tconn], clients[tfd].pending, InFlight(tfd), nmsgs)
             /\ VisitEnds(tpc', wire[tconn], clients[tfd].pending, tsent)
  <2>1. /\ PiecesJoin(wire[tconn], clients[tfd].pending, InFlight(tfd), nmsgs)
        /\ VisitEnds(tpc, wire[tconn], clients[tfd].pending, tsent)
        /\ tfd \in InTable
    BY <1>1, <1>2, <1>6, VisitedClient DEF InTable
  <2>2. CASE FindClient
    BY <2>1, <2>2 DEF FindClient, VisitEnds
  <2>3. CASE Arm
    BY <2>1, <2>3 DEF Arm, VisitEnds
  <2>4. QED
    BY <2>1, <2>2, <2>3
<1>7. QED
  BY <1>1, <1>3, <1>4, <1>5, <1>6, MidVisitStep

\* What a step with the entry of the visited descriptor needs of it.
LEMMA VisitedEntry ==
    ASSUME ServerInv, tpc \in MidVisit
    PROVE  /\ TypeOK /\ tfd \in Fds /\ clients[tfd] \in Client
           /\ clients[tfd].pending \in Pieces /\ clients[tfd].pending \in Seq(Seq(Bytes))
           /\ clients[tfd].pending_bytes \in 0 .. SizeMod - 1
           /\ nmsgs \in 1 .. MaxMsgs /\ MsgLen \in Nat \ {0} /\ treg \in 0 .. SizeMod - 1
           /\ tsent \in 0 .. MsgLen /\ 0 \in 0 .. MsgLen /\ 0 \in 0 .. SizeMod - 1
           /\ armed \in [Fds -> BOOLEAN] /\ wire \in [Conns -> Seq(Bytes)]
<1>1. TypeOK /\ tfd \in Fds /\ nmsgs # 0 /\ nmsgs \in 0 .. MaxMsgs
  BY DEF ServerInv, TypeOK, TickTypes, TickInv, MidVisit
<1>2. clients[tfd] \in Client /\ clients[tfd].pending \in Pieces
  BY <1>1, ClientFacts DEF Pieces
<1>3. clients[tfd].pending \in Seq(Seq(Bytes)) /\ clients[tfd].pending_bytes \in 0 .. SizeMod - 1
  BY <1>1, ClientFacts
<1>4. QED
  BY <1>1, <1>2, <1>3, SizesAssumption, ServerBoundsAssumption DEF TypeOK, TickTypes, KernelTypes

\* A piece at the end leaves the first one where it is.
LEMMA FirstStays ==
    ASSUME NEW q \in Seq(Seq(Bytes)), NEW p \in Seq(Bytes)
    PROVE  q # <<>> => Append(q, p) # <<>> /\ Append(q, p)[1] = q[1]
<1>1. Len(q) \in Nat /\ (q # <<>> => Len(q) >= 1)
  OBVIOUS
<1>2. /\ \A i \in 1 .. Len(q) : Append(q, p)[i] = q[i]
      /\ Append(q, p) # <<>>
  BY AppendFacts
<1>3. QED
  BY <1>1, <1>2

LEMMA EnqueueStep ==
    ASSUME ServerInv, Enqueue
    PROVE  ServerInv'
<1>1. /\ tpc = "enqueue" /\ tpc' = "count" /\ tpc \in MidVisit /\ tpc' \in MidVisit
      /\ clients' = [clients EXCEPT ![tfd].pending = Append(@, Message(nmsgs))]
      /\ treg' = clients[tfd].pending_bytes
      /\ UNCHANGED <<fdConn, armed, peers, avars, nmsgs, ttodo, tfd, tconn, tref, tsent, wire>>
  BY DEF Enqueue, TickUnchanged, MidVisit, kernel
<1> DEFINE q == clients[tfd].pending
           p == Message(nmsgs)
           w == wire[tconn]
           e == (nmsgs - 1) * MsgLen
<1>2. /\ TypeOK /\ tfd \in Fds /\ clients[tfd] \in Client /\ q \in Pieces /\ q \in Seq(Seq(Bytes))
      /\ clients[tfd].pending_bytes \in 0 .. SizeMod - 1
      /\ nmsgs \in 1 .. MaxMsgs /\ MsgLen \in Nat \ {0}
      /\ armed' \in [Fds -> BOOLEAN] /\ wire' \in [Conns -> Seq(Bytes)]
  BY <1>1, VisitedEntry
<1>3. /\ p \in Seq(Bytes) /\ Len(p) = MsgLen /\ \A i \in 1 .. MsgLen : p[i] = e + i
      /\ nmsgs * MsgLen = e + MsgLen /\ e \in Nat
  BY <1>2, MessageFacts
<1>4. /\ Len(p) \in 1 .. MsgLen /\ p[1] = e + 1 /\ LastOf(p) = nmsgs * MsgLen
      /\ Contiguous(p) /\ FirstByte(p[1], nmsgs) /\ nmsgs \in Nat
  <2>1. MsgLen \in 1 .. MsgLen /\ 1 \in 1 .. MsgLen
    BY <1>2
  <2>2. p[1] = e + 1 /\ p[MsgLen] = e + MsgLen
    BY <1>3, <2>1
  <2>3. nmsgs \in 1 .. nmsgs /\ nmsgs \in Nat
    BY <1>2
  <2>4. Contiguous(p)
    <3> HIDE DEF p, e
    <3>1. QED
      BY <1>2, <1>3, <2>2 DEF Contiguous
  <2>5. QED
    BY <1>3, <2>1, <2>2, <2>3, <2>4 DEF LastOf, FirstByte
<1> HIDE DEF p, e, w, q
<1>5. ASSUME Sound
      PROVE  /\ PiecesJoin(w, Append(q, p), InFlight(tfd), nmsgs)
             /\ EndsAt(w, Append(q, p), nmsgs * MsgLen)
  <2>1. /\ w \in Seq(Bytes) /\ InFlight(tfd) \in Nat /\ (q = <<>> => InFlight(tfd) = 0)
        /\ PiecesJoin(w, q, InFlight(tfd), nmsgs) /\ EndsAt(w, q, e)
    BY <1>1, <1>5, VisitedClient DEF w, q, e, VisitEnds
  <2>2. /\ PiecesJoin(w, Append(q, p), InFlight(tfd), nmsgs)
        /\ EndsAt(w, Append(q, p), LastOf(p))
    BY <1>2, <1>3, <1>4, <2>1, JoinAppend
  <2>3. QED
    BY <1>4, <2>2
<1>6. clients' = [clients EXCEPT ![tfd] = WithQueue(clients[tfd], Append(q, p),
                                                     clients[tfd].pending_bytes)]
  <2>1. [clients[tfd] EXCEPT !.pending = Append(q, p)]
          = WithQueue(clients[tfd], Append(q, p), clients[tfd].pending_bytes)
    BY <1>2, RecordUpdates
  <2>2. clients' = [clients EXCEPT ![tfd] = [clients[tfd] EXCEPT !.pending = Append(q, p)]]
    BY <1>1 DEF p, q
  <2>3. QED
    BY <2>1, <2>2
<1>7. q # <<>> => Append(q, p) # <<>> /\ Append(q, p)[1] = q[1]
  BY <1>2, <1>3, FirstStays
<1>8. Append(q, p) \in Seq(Seq(Bytes)) /\ \A i \in 1 .. Len(Append(q, p)) :
                                           Len(Append(q, p)[i]) \in 1 .. MsgLen
  BY <1>2, <1>3, <1>4, AppendFacts DEF Pieces
<1>9. /\ TableTypes' /\ clients'[tfd].pending = Append(q, p)
      /\ OnlyQueue(tfd)
  BY <1>2, <1>6, <1>8, QueueReplaced
<1>10. TickTypes'
  BY <1>1, <1>2 DEF TypeOK, TickTypes
<1>11. Sound => /\ PiecesJoin(wire'[tconn], clients'[tfd].pending, InFlight(tfd), nmsgs)
                /\ VisitEnds(tpc', wire'[tconn], clients'[tfd].pending, tsent')
  BY <1>1, <1>5, <1>9 DEF w, VisitEnds
<1>12. clients[tfd].pending # <<>> =>
         clients'[tfd].pending # <<>> /\ clients'[tfd].pending[1] = clients[tfd].pending[1]
  BY <1>7, <1>9 DEF q
<1>13. QED
  BY <1>1, <1>2, <1>9, <1>10, <1>11, <1>12, MidVisitStep

LEMMA CountStep ==
    ASSUME ServerInv, Count
    PROVE  ServerInv'
<1> DEFINE n == (treg + MsgLen) % SizeMod
           q == clients[tfd].pending
<1>1. /\ tpc = "count" /\ tpc' \in {"close", "advance"} /\ treg' = 0
      /\ tpc \in MidVisit /\ tpc' \in MidVisit
      /\ clients' = [clients EXCEPT ![tfd].pending_bytes = n]
      /\ UNCHANGED <<fdConn, armed, peers, avars, nmsgs, ttodo, tfd, tconn, tref, tsent, wire>>
  BY DEF Count, TickUnchanged, MidVisit, kernel
<1>2. /\ TypeOK /\ tfd \in Fds /\ clients[tfd] \in Client /\ q \in Pieces
      /\ MsgLen \in Nat \ {0} /\ treg \in 0 .. SizeMod - 1
      /\ armed' \in [Fds -> BOOLEAN] /\ wire' \in [Conns -> Seq(Bytes)]
  BY <1>1, VisitedEntry
<1>3. n \in 0 .. SizeMod - 1 /\ 0 \in 0 .. SizeMod - 1
  <2>1. treg + MsgLen \in Int
    BY <1>2
  <2>2. QED
    BY <2>1, SizesAssumption, SizeArithmetic
<1> HIDE DEF n
<1>4. clients' = [clients EXCEPT ![tfd] = WithQueue(clients[tfd], q, n)]
  <2>1. [clients[tfd] EXCEPT !.pending_bytes = n] = WithQueue(clients[tfd], q, n)
    BY <1>2, RecordUpdates
  <2>2. clients' = [clients EXCEPT ![tfd] = [clients[tfd] EXCEPT !.pending_bytes = n]]
    BY <1>1
  <2>3. QED
    BY <2>1, <2>2
<1> HIDE DEF q
<1>5. /\ TableTypes' /\ clients'[tfd].pending = q
      /\ OnlyQueue(tfd)
  BY <1>2, <1>3, <1>4, QueueReplaced DEF Pieces
<1>6. TickTypes'
  BY <1>1, <1>2, <1>3 DEF TypeOK, TickTypes
<1>7. Sound => /\ PiecesJoin(wire'[tconn], clients'[tfd].pending, InFlight(tfd), nmsgs)
               /\ VisitEnds(tpc', wire'[tconn], clients'[tfd].pending, tsent')
  BY <1>1, <1>5, VisitedClient DEF q, VisitEnds
<1>8. clients[tfd].pending # <<>> =>
        clients'[tfd].pending # <<>> /\ clients'[tfd].pending[1] = clients[tfd].pending[1]
  BY <1>5 DEF q
<1>9. QED
  BY <1>1, <1>2, <1>5, <1>6, <1>7, <1>8, MidVisitStep

\* remove_client.
LEMMA CloseFacts ==
    ASSUME TypeOK, NEW fd \in Fds, CloseFd(fd)
    PROVE  /\ KernelTypes' /\ fdConn'[fd] = 0
           /\ \A g \in Fds : g # fd => fdConn'[g] = fdConn[g]
<1>1. /\ fdConn \in [Fds -> 0 .. MaxConns] /\ armed \in [Fds -> BOOLEAN]
      /\ fdConn' = [fdConn EXCEPT ![fd] = 0] /\ armed' = [armed EXCEPT ![fd] = FALSE]
      /\ 0 \in 0 .. MaxConns
  BY ServerBoundsAssumption DEF TypeOK, KernelTypes, CloseFd
<1>2. armed' \in [Fds -> BOOLEAN]
  BY <1>1
<1>3. QED
  BY <1>1, <1>2 DEF KernelTypes

LEMMA EraseFacts ==
    ASSUME TypeOK, NEW fd \in Fds, EraseEntry(fd)
    PROVE  /\ TableTypes' /\ clients'[fd] = NoClient /\ NoClient.conn = 0
           /\ NoClient.pending = <<>>
           /\ \A g \in Fds : g # fd => clients'[g] = clients[g]
<1>1. NoClient \in Client /\ NoClient.pending = <<>> /\ NoClient.conn = 0
  BY SizesAssumption, ServerBoundsAssumption DEF NoClient, Client
<1>2. \A i \in 1 .. Len(NoClient.pending) : Len(NoClient.pending[i]) \in 1 .. MsgLen
  BY <1>1
<1>3. clients' = [clients EXCEPT ![fd] = NoClient]
  BY DEF EraseEntry
<1>4. QED
  BY <1>1, <1>2, <1>3, EntryReplaced


\* The bytes p are written to the connection of fd.
LEMMA WireGrows ==
    ASSUME TypeOK, NEW fd \in Fds, NEW p \in Seq(Bytes), p # <<>>, Wrote(fd, p),
           fdConn[fd] \in Conns
    PROVE  /\ wire' \in [Conns -> Seq(Bytes)]
           /\ wire'[fdConn[fd]] = wire[fdConn[fd]] \o p
           /\ \A c \in Conns : c # fdConn[fd] => wire'[c] = wire[c]
<1>1. wire \in [Conns -> Seq(Bytes)] /\ wire' = [wire EXCEPT ![fdConn[fd]] = @ \o p]
  BY DEF TypeOK, Wrote
<1> DEFINE c == fdConn[fd]
           v == wire[c] \o p
<1>2. v \in Seq(Bytes) /\ wire' = [wire EXCEPT ![c] = v]
  BY <1>1
<1> HIDE DEF c, v
<1>3. /\ wire' \in [Conns -> Seq(Bytes)] /\ \A d \in Conns : d # c => wire'[d] = wire[d]
      /\ c \in Conns => wire'[c] = v
  BY <1>1, <1>2
<1>4. QED
  BY <1>3 DEF c, v

LEMMA SendResultsFacts ==
    ASSUME TypeOK, NEW fd \in Fds, NEW len \in Nat, NEW k \in SendResults(fd, len)
    PROVE  /\ k \in -1 .. len
           /\ k >= 0 => fdConn[fd] # 0
BY DEF SendResults

LEMMA SendBytesStep ==
    ASSUME ServerInv, SendBytes
    PROVE  ServerInv'
<1>1. /\ tpc = "send" /\ tpc \in MidVisit
      /\ UNCHANGED <<fdConn, armed, peers, avars, clients, nmsgs, ttodo, tfd, tconn, tref, treg>>
  BY DEF SendBytes, TickUnchanged, kernel, MidVisit
<1>2. PICK k \in SendResults(tfd, MsgLen) :
         /\ Wrote(tfd, SubSeq(Message(nmsgs), 1, k))
         /\ IF k = -1 THEN tpc' = "close" /\ UNCHANGED tsent
                      ELSE tpc' = "sent" /\ tsent' = k
  BY DEF SendBytes
<1>3. /\ TypeOK /\ tfd \in Fds /\ nmsgs \in 1 .. MaxMsgs /\ MsgLen \in Nat \ {0}
      /\ tsent \in 0 .. MsgLen /\ armed' \in [Fds -> BOOLEAN] /\ wire \in [Conns -> Seq(Bytes)]
  BY <1>1, VisitedEntry
<1>4. k \in -1 .. MsgLen /\ (k >= 0 => fdConn[tfd] # 0)
  BY <1>3, SendResultsFacts
<1>5. tpc' \in MidVisit /\ TickTypes' /\ TableTypes' /\ OnlyQueue(tfd)
  BY <1>1, <1>2, <1>3, <1>4 DEF MidVisit, TypeOK, TickTypes, TableTypes, OnlyQueue
<1> DEFINE p == SubSeq(Message(nmsgs), 1, k)
           w == wire[tconn]
           v == IF k = 0 THEN w ELSE w \o p
<1>6. CASE k = -1
  <2>1. p = <<>>
    BY <1>3, <1>6, MessageFacts
  <2>2. wire' = wire /\ tpc' = "close"
    BY <1>2, <1>6, <2>1 DEF Wrote
  <2>3. Sound => /\ PiecesJoin(wire'[tconn], clients'[tfd].pending, InFlight(tfd), nmsgs)
                 /\ VisitEnds(tpc', wire'[tconn], clients'[tfd].pending, tsent')
    BY <1>1, <2>2, VisitedClient DEF VisitEnds
  <2>4. QED
    BY <1>1, <1>3, <1>5, <2>2, <2>3, MidVisitStep
<1>7. CASE k >= 0
  <2>1. k \in 0 .. MsgLen /\ tpc' = "sent" /\ tsent' = k
    BY <1>2, <1>3, <1>4, <1>7
  <2>2. fdConn[tfd] \in Conns
    BY <1>3, <1>4, <1>7, ServerBoundsAssumption DEF TypeOK, KernelTypes, Conns
  <2>3. p \in Seq(Bytes) /\ (p = <<>> <=> k = 0)
    BY <1>3, <2>1, MessageParts
  <2>4. /\ wire' \in [Conns -> Seq(Bytes)]
        /\ wire'[fdConn[tfd]] = IF k = 0 THEN wire[fdConn[tfd]] ELSE wire[fdConn[tfd]] \o p
        /\ \A c \in Conns : c # fdConn[tfd] => wire'[c] = wire[c]
    <3>1. CASE k = 0
      <4>1. wire' = wire
        BY <1>2, <2>3, <3>1 DEF Wrote
      <4>2. QED
        BY <1>3, <3>1, <4>1
    <3>2. CASE k # 0
      <4>1. p \in Seq(Bytes) /\ p # <<>> /\ Wrote(tfd, p)
        BY <1>2, <2>3, <3>2
      <4> HIDE DEF p
      <4>2. QED
        BY <1>3, <2>2, <3>2, <4>1, WireGrows
    <3>3. QED
      BY <3>1, <3>2
  <2>5. ASSUME Sound
        PROVE  /\ PiecesJoin(wire'[tconn], clients'[tfd].pending, InFlight(tfd), nmsgs)
               /\ VisitEnds(tpc', wire'[tconn], clients'[tfd].pending, tsent')
    <3>1. /\ w \in Seq(Bytes) /\ clients[tfd].pending = <<>> /\ InFlight(tfd) = 0
          /\ PiecesJoin(w, <<>>, 0, nmsgs) /\ EndsAt(w, <<>>, (nmsgs - 1) * MsgLen)
          /\ fdConn[tfd] = tconn
      <4>1. fdConn[tfd] = tconn
        BY <1>1, <1>4, <1>7, <2>5, VisitedClient
      <4>2. /\ VisitEnds("send", w, clients[tfd].pending, tsent)
            /\ w \in Seq(Bytes) /\ (clients[tfd].pending = <<>> => InFlight(tfd) = 0)
            /\ PiecesJoin(w, clients[tfd].pending, InFlight(tfd), nmsgs)
        BY <1>1, <2>5, VisitedClient
      <4>3. clients[tfd].pending = <<>> /\ EndsAt(w, clients[tfd].pending, (nmsgs - 1) * MsgLen)
        BY <4>2 DEF VisitEnds
      <4>4. InFlight(tfd) = 0
        BY <4>2, <4>3
      <4>5. QED
        BY <4>1, <4>2, <4>3, <4>4
    <3>2. /\ v \in Seq(Bytes) /\ (v = <<>> => k = 0)
          /\ PiecesJoin(v, <<>>, 0, nmsgs) /\ EndsAt(v, <<>>, (nmsgs - 1) * MsgLen + k)
      <4>1. /\ nmsgs \in 1 .. MaxMsgs /\ k \in 0 .. MsgLen /\ w \in Seq(Bytes)
            /\ PiecesJoin(w, <<>>, 0, nmsgs) /\ EndsAt(w, <<>>, (nmsgs - 1) * MsgLen)
        BY <1>3, <2>1, <3>1
      <4> HIDE DEF w
      <4>2. QED
        BY <4>1, StartWritten, Zenon
    <3>3. wire'[tconn] = v
      BY <2>4, <3>1
    <3>4. clients'[tfd].pending = <<>>
      BY <1>1, <3>1
    <3> HIDE DEF v
    <3>5. PiecesJoin(wire'[tconn], clients'[tfd].pending, InFlight(tfd), nmsgs)
      BY <3>1, <3>2, <3>3, <3>4
    <3>6. VisitEnds("sent", v, <<>>, k)
      BY <3>2 DEF VisitEnds
    <3>7. QED
      BY <2>1, <3>3, <3>4, <3>5, <3>6
  <2>6. QED
    BY <1>1, <1>3, <1>5, <2>4, <2>5, MidVisitStep
<1>8. QED
  BY <1>3, <1>4, <1>6, <1>7

LEMMA SentStep ==
    ASSUME ServerInv, Sent
    PROVE  ServerInv'
<1> DEFINE r == SubSeq(Message(nmsgs), tsent + 1, MsgLen)
           q == clients[tfd].pending
           s == IF tsent = MsgLen THEN q ELSE Append(q, r)
           n == (clients[tfd].pending_bytes + MsgLen - tsent) % SizeMod
           w == wire[tconn]
<1>1. /\ tpc = "sent" /\ tpc' = (IF tsent = MsgLen THEN "advance" ELSE "arm") /\ tsent' = 0
      /\ tpc \in MidVisit /\ tpc' \in MidVisit
      /\ clients' = IF tsent = MsgLen THEN clients
                    ELSE [clients EXCEPT ![tfd].pending = Append(@, r), ![tfd].pending_bytes = n]
      /\ UNCHANGED <<fdConn, armed, peers, avars, nmsgs, ttodo, tfd, tconn, tref, treg, wire>>
  BY DEF Sent, TickUnchanged, kernel, MidVisit
<1>2. /\ TypeOK /\ tfd \in Fds /\ clients[tfd] \in Client /\ q \in Pieces /\ q \in Seq(Seq(Bytes))
      /\ clients[tfd].pending_bytes \in 0 .. SizeMod - 1
      /\ nmsgs \in 1 .. MaxMsgs /\ MsgLen \in Nat \ {0} /\ tsent \in 0 .. MsgLen
      /\ armed' \in [Fds -> BOOLEAN] /\ wire' \in [Conns -> Seq(Bytes)] /\ 0 \in 0 .. MsgLen
  BY <1>1, VisitedEntry
<1>3. tsent # MsgLen => r \in Seq(Bytes) /\ Len(r) \in 1 .. MsgLen
  <2>1. tsent # MsgLen => tsent < MsgLen
    BY <1>2
  <2>2. QED
    BY <1>2, <2>1, MessageParts
<1>4. n \in 0 .. SizeMod - 1
  <2>1. clients[tfd].pending_bytes + MsgLen - tsent \in Int
    BY <1>2, SizesAssumption
  <2>2. QED
    BY <2>1, SizeArithmetic
<1> HIDE DEF r, q, n
<1>5. TableTypes' /\ clients'[tfd].pending = s /\ OnlyQueue(tfd)
  <2>1. CASE tsent = MsgLen
    <3>1. clients' = clients
      BY <1>1, <2>1
    <3>2. QED
      BY <1>2, <2>1, <3>1 DEF TypeOK, TableTypes, OnlyQueue, q
  <2>2. CASE tsent # MsgLen
    <3>1. s = Append(q, r)
      BY <2>2
    <3>2. s \in Seq(Seq(Bytes)) /\ \A i \in 1 .. Len(s) : Len(s[i]) \in 1 .. MsgLen
      BY <1>2, <1>3, <2>2, <3>1, AppendFacts DEF Pieces
    <3>3. clients' = [clients EXCEPT ![tfd].pending = Append(@, r), ![tfd].pending_bytes = n]
      BY <1>1, <2>2
    <3>4. [clients[tfd] EXCEPT !.pending = s, !.pending_bytes = n]
            = WithQueue(clients[tfd], s, n)
      <4> HIDE DEF s
      <4>1. QED
        BY <1>2, QueueAndCountSet, Zenon
    <3>5. clients' = [clients EXCEPT ![tfd] = WithQueue(clients[tfd], s, n)]
      <4>1. Append(clients[tfd].pending, r) = s
        BY <3>1 DEF q
      <4>2. QED
        BY <3>3, <3>4, <4>1, Zenon
    <3> HIDE DEF s
    <3>6. QED
      BY <1>2, <1>4, <3>2, <3>5, QueueReplaced
  <2>3. QED
    BY <2>1, <2>2
<1>6. TickTypes'
  BY <1>1, <1>2 DEF TypeOK, TickTypes
<1>7. q # <<>> => s # <<>> /\ s[1] = q[1]
  BY <1>2, <1>3, FirstStays
<1>8. ASSUME Sound
      PROVE  /\ PiecesJoin(w, s, InFlight(tfd), nmsgs)
             /\ EndsAt(w, s, nmsgs * MsgLen)
  <2>1. /\ VisitEnds("sent", w, q, tsent) /\ w \in Seq(Bytes)
        /\ (q = <<>> => InFlight(tfd) = 0) /\ PiecesJoin(w, q, InFlight(tfd), nmsgs)
    BY <1>1, <1>8, VisitedClient DEF q
  <2>2. /\ q = <<>> /\ EndsAt(w, q, (nmsgs - 1) * MsgLen + tsent) /\ (w = <<>> => tsent = 0)
    BY <2>1 DEF VisitEnds
  <2>3. InFlight(tfd) = 0 /\ PiecesJoin(w, <<>>, 0, nmsgs)
        /\ EndsAt(w, <<>>, (nmsgs - 1) * MsgLen + tsent)
    BY <2>1, <2>2
  <2>4. s = IF tsent = MsgLen THEN <<>> ELSE Append(<<>>, SubSeq(Message(nmsgs), tsent + 1, MsgLen))
    BY <2>2 DEF r
  <2>5. PiecesJoin(w, s, 0, nmsgs) /\ EndsAt(w, s, nmsgs * MsgLen)
    BY <1>2, <2>1, <2>2, <2>3, <2>4, RestQueued
  <2>6. QED
    BY <2>3, <2>5
<1> HIDE DEF s
<1>9. Sound => /\ PiecesJoin(wire'[tconn], clients'[tfd].pending, InFlight(tfd), nmsgs)
               /\ VisitEnds(tpc', wire'[tconn], clients'[tfd].pending, tsent')
  BY <1>1, <1>5, <1>8 DEF VisitEnds
<1>10. clients[tfd].pending # <<>> =>
         clients'[tfd].pending # <<>> /\ clients'[tfd].pending[1] = clients[tfd].pending[1]
  BY <1>5, <1>7 DEF q
<1>11. QED
  BY <1>1, <1>2, <1>5, <1>6, <1>9, <1>10, MidVisitStep

\* remove_client pulls the client from under the iteration.
LEMMA TickRemovesStep ==
    ASSUME ServerInv, (TickClose /\ tfd \in InTable) \/ TickErase
    PROVE  ServerInv'
<1>1. /\ UNCHANGED <<peers, avars, nmsgs, ttodo, tfd, tconn, tsent, treg, wire>>
      /\ tpc \in {"close", "erase"} /\ tpc' \in {"advance", "erase"}
      /\ tref' = tref \/ tref' = clients[tfd].conn
      /\ (UNCHANGED kernel /\ EraseEntry(tfd) /\ tpc = "erase" /\ tpc' = "advance")
         \/ (CloseFd(tfd) /\ UNCHANGED clients /\ tpc' = "erase")
  BY DEF TickClose, TickErase, TickUnchanged
<1>2. /\ TypeOK /\ ConnsOnce /\ TickInv /\ FlushInv /\ tfd \in Fds
      /\ tconn # 0 /\ tconn \notin ttodo /\ nmsgs # 0
  BY <1>1 DEF ServerInv, TypeOK, TickTypes, TickInv
<1>3. /\ KernelTypes' /\ TableTypes'
      /\ \A fd \in Fds : fd # tfd => fdConn'[fd] = fdConn[fd] /\ clients'[fd] = clients[fd]
      /\ \A fd \in Fds : fdConn'[fd] \in {0, fdConn[fd]}
      /\ \A fd \in Fds : clients'[fd] = clients[fd] \/ clients'[fd].conn = 0
      /\ tpc' = "advance" => clients'[tfd].conn = 0
      /\ tpc # "erase" => fdConn'[tfd] = 0
  <2>1. CASE UNCHANGED kernel /\ EraseEntry(tfd) /\ tpc = "erase" /\ tpc' = "advance"
    <3>1. KernelTypes' /\ UNCHANGED fdConn
      BY <1>2, <2>1 DEF TypeOK, KernelTypes, kernel
    <3>2. /\ TableTypes' /\ clients'[tfd].conn = 0
          /\ \A g \in Fds : g # tfd => clients'[g] = clients[g]
      BY <1>2, <2>1, EraseFacts
    <3>3. QED
      BY <2>1, <3>1, <3>2
  <2>2. CASE CloseFd(tfd) /\ UNCHANGED clients /\ tpc' = "erase"
    <3>1. /\ KernelTypes' /\ fdConn'[tfd] = 0
          /\ \A g \in Fds : g # tfd => fdConn'[g] = fdConn[g]
      BY <1>2, <2>2, CloseFacts
    <3>2. TableTypes'
      BY <1>2, <2>2 DEF TypeOK, TableTypes
    <3>3. QED
      BY <2>2, <3>1, <3>2
  <2>3. QED
    BY <1>1, <2>1, <2>2
<1>4. TypeOK'
  <2>1. TickTypes'
    BY <1>1, <1>2, ClientFacts DEF TypeOK, TickTypes
  <2>2. QED
    BY <1>1, <1>2, <1>3, <2>1, TickFrame DEF TypeOK
<1>5. /\ UNCHANGED <<accepted, greeting, read, apc, afd, aconn, asent>>
      /\ accepted \in Nat /\ tconn \in Nat /\ afd \in Fds
      /\ \A fd \in Fds : fdConn[fd] \in Nat /\ clients[fd].conn \in Nat
  BY <1>1, <1>2, ServerBoundsAssumption, ClientFacts
  DEF peers, avars, TypeOK, PeerTypes, TickTypes, AcceptTypes, KernelTypes
<1>6. ConnsOnce'
  <2>1. apc = "add" => 0 < accepted
    BY <1>2, <1>5 DEF ConnsOnce
  <2>2. QED
    BY <1>1, <1>2, <1>3, <1>5, <2>1 DEF ConnsOnce
<1>7. TickInv'
  BY <1>1, <1>2 DEF TickInv
<1>8. FlushInv'
  BY <1>1, <1>2, <1>3, <1>5 DEF FlushInv, AcceptEntryValid
<1>9. ~Sound' /\ (Sound => fdConn'[tfd'] = 0)
  BY <1>1, <1>2, <1>3 DEF Sound, TickEntryValid
<1>10. ASSUME NEW fd \in Fds, GoodAt(fd), ~Pulled(fd)' PROVE GoodAt(fd)'
  <2>1. fd # tfd
    BY <1>1, <1>9, <1>10 DEF Pulled
  <2>2. Kept(fd)
    BY <1>1, <1>3, <1>5, <2>1 DEF Kept
  <2>3. QED
    BY <1>1, <1>2, <1>4, <1>5, <1>10, <2>1, <2>2, VisitedElsewhere
<1>11. /\ \A fd \in Fds : fd # tfd => clients'[fd].conn \in {0, clients[fd].conn, fdConn[fd]}
       /\ \A c \in Conns : c > accepted => read'[c] = read[c] /\ wire'[c] = wire[c]
       /\ \A c \in Conns : wire'[c] # <<>> =>
            wire[c] # <<>> /\ (read[c] = greeting[c] => read'[c] = greeting[c])
       /\ accepted <= accepted' /\ tpc # "undefined"
  BY <1>1, <1>3, <1>5
<1>12. QED
  BY <1>1, <1>3, <1>4, <1>5, <1>6, <1>7, <1>8, <1>9, <1>10, <1>11, StepKeeps

LEMMA TickThreadStep ==
    ASSUME ServerInv, TickThread
    PROVE  ServerInv'
<1>1. TickUseAfterErase => Undefined
  BY DEF TickUseAfterErase
<1>2. QED
  BY <1>1, BroadcastStep, VisitStep, BroadcastEndsStep, LookStep, EnqueueStep, CountStep,
     SendBytesStep, SentStep, TickRemovesStep, AdvanceStep, UndefinedStep
  DEF TickThread

-----------------------------------------------------------------------------
(***************************************************************************)
(* The accept thread, which works on one descriptor at a time.             *)
(***************************************************************************)

LEMMA OneFdStep ==
    ASSUME ServerInv, TypeOK', ConnsOnce', FlushInv', NEW f \in Fds,
           UNCHANGED <<greeting, nmsgs, tvars>>, accepted <= accepted',
           Sound' => Sound, Sound /\ ~Sound' => fdConn'[tfd] = 0,
           \A fd \in Fds : fd # f => Kept(fd),
           fdConn'[f] \in {0, fdConn[f]} \/ fdConn'[f] > accepted,
           tpc # "undefined" /\ f # tfd => clients'[f].conn \in {0, clients[f].conn, fdConn[f]},
           tpc # "undefined" => \A c \in Conns : wire'[c] # <<>> =>
               \/ wire[c] # <<>> /\ (read[c] = greeting[c] => read'[c] = greeting[c])
               \/ read'[c] = greeting[c]
               \/ ~Sound /\ c = fdConn[tfd],
           \A c \in Conns : c > accepted => read'[c] = read[c] /\ wire'[c] = wire[c],
           tpc # "undefined" /\ GoodAt(f) /\ ~Pulled(f) /\ ~Pulled(f)' => GoodAt(f)'
    PROVE  ServerInv'
<1>1. UNCHANGED <<tpc, ttodo, tfd, tconn, tsent>> /\ TypeOK /\ TickInv'
  BY DEF tvars, ServerInv, TickInv
<1>2. \A fd \in Fds : fd # f => fdConn'[fd] = fdConn[fd] /\ clients'[fd] = clients[fd]
  BY DEF Kept
<1>3. ASSUME NEW fd \in Fds, tpc # "undefined", GoodAt(fd), ~Pulled(fd), ~Pulled(fd)'
      PROVE  GoodAt(fd)'
  <2>1. CASE fd # f
    BY <1>1, <1>3, <2>1, LeftAlone
  <2>2. CASE fd = f
    BY <1>3, <2>2
  <2>3. QED
    BY <2>1, <2>2
<1>4. /\ \A fd \in Fds : fdConn'[fd] \in {0, fdConn[fd]} \/ fdConn'[fd] > accepted
      /\ tpc # "undefined" => \A fd \in Fds :
           fd # tfd => clients'[fd].conn \in {0, clients[fd].conn, fdConn[fd]}
  BY <1>2
<1>5. /\ tpc' # "undefined" => tpc # "undefined"
      /\ Sound /\ ~Sound' => fdConn'[tfd'] = 0
      /\ ~Sound => tfd' = tfd /\ tconn' = tconn
  BY <1>1
<1>6. QED
  BY <1>1, <1>3, <1>4, <1>5, StepKeeps

LEMMA Accept4Step ==
    ASSUME ServerInv, Accept4
    PROVE  ServerInv'
<1>1. /\ apc = "accept" /\ apc' = "add" /\ accepted < made /\ accepted' = accepted + 1
      /\ UNCHANGED <<made, greeting, sent, gone, nmsgs, tvars>>
      /\ UNCHANGED <<read, clients, batch, slow, aconn, areg, asent, wire>>
  BY DEF Accept4, AcceptUnchanged
<1>2. PICK f \in Fds : /\ fdConn[f] = 0
                       /\ fdConn' = [fdConn EXCEPT ![f] = accepted + 1]
                       /\ armed' = [armed EXCEPT ![f] = FALSE]
                       /\ afd' = f
  BY DEF Accept4
<1>3. /\ TypeOK /\ ConnsOnce /\ BacklogInv
      /\ accepted \in Nat /\ accepted + 1 \in 0 .. MaxConns /\ accepted + 1 \in 0 .. made
      /\ tconn \in Nat /\ accepted + 1 \in Conns
  BY <1>1, ServerBoundsAssumption DEF ServerInv, TypeOK, PeerTypes, TickTypes, Conns
<1>4. /\ fdConn'[f] = accepted + 1 /\ \A fd \in Fds : fd # f => fdConn'[fd] = fdConn[fd]
      /\ \A fd \in Fds : fdConn[fd] \in Nat /\ clients[fd].conn \in Nat
      /\ \A fd \in Fds : fdConn[fd] <= accepted /\ clients[fd].conn <= accepted
  BY <1>2, <1>3, ClientFacts, ServerBoundsAssumption DEF TypeOK, KernelTypes, ConnsOnce
<1>5. TypeOK'
  <2>1. armed' \in [Fds -> BOOLEAN]
    BY <1>2, <1>3 DEF TypeOK, KernelTypes
  <2>2. KernelTypes'
    BY <1>2, <1>3, <2>1 DEF TypeOK, KernelTypes
  <2>3. PeerTypes'
    BY <1>1, <1>3 DEF TypeOK, PeerTypes
  <2>4. TableTypes' /\ TickTypes'
    BY <1>1, <1>3 DEF TypeOK, TableTypes, TickTypes, tvars
  <2>5. AcceptTypes'
    BY <1>1, <1>2, <1>3 DEF TypeOK, AcceptTypes
  <2>6. QED
    BY <1>1, <1>3, <2>2, <2>3, <2>4, <2>5 DEF TypeOK
<1>6. ConnsOnce'
  <2>1. tconn' = tconn /\ tconn <= accepted /\ clients' = clients
    BY <1>1, <1>3 DEF tvars, ConnsOnce
  <2>2. ASSUME NEW g \in Fds, NEW h \in Fds
        PROVE  /\ clients[g].conn # 0 /\ clients[g].conn = clients[h].conn => g = h
               /\ fdConn'[g] # 0 /\ fdConn'[g] = fdConn'[h] => g = h
               /\ clients[g].conn # 0 /\ clients[g].conn = fdConn'[h] => g = h
    BY <1>3, <1>4 DEF ConnsOnce
  <2>3. QED
    BY <1>1, <1>2, <1>3, <1>4, <2>1, <2>2 DEF ConnsOnce
<1>7. FlushInv' /\ (Sound' <=> Sound)
  BY <1>1 DEF FlushInv, Sound, TickEntryValid, tvars
<1>8. ASSUME NEW fd \in Fds, fd # f PROVE Kept(fd)
  BY <1>1, <1>2, <1>4, <1>8 DEF Kept, Adding, Erasing, Flushing, InFlight
<1>9. ASSUME GoodAt(f) PROVE GoodAt(f)'
  <2>1. clients[f].conn = 0
    BY <1>1, <1>2, <1>9 DEF GoodAt, TableAt, Adding, Erasing
  <2>2. TableAt(f)' /\ StreamAt(f)'
    BY <1>1, <1>2, <1>4, <2>1 DEF TableAt, Erasing, Flushing, StreamAt, Adding
  <2>3. read[accepted + 1] = 0 /\ wire[accepted + 1] = <<>>
    BY <1>3 DEF BacklogInv
  <2>4. LiveAt(f)'
    BY <1>1, <1>9, <2>1, <2>3 DEF GoodAt, LiveAt, tvars
  <2>5. QED
    BY <2>2, <2>4 DEF GoodAt
<1>10. /\ fdConn'[f] > accepted /\ accepted <= accepted'
       /\ \A c \in Conns : wire'[c] = wire[c] /\ read'[c] = read[c]
       /\ clients'[f].conn = clients[f].conn
  BY <1>1, <1>3, <1>4
<1>11. QED
  BY <1>1, <1>5, <1>6, <1>7, <1>8, <1>9, <1>10, OneFdStep

LEMMA EntryOf ==
    ASSUME NEW c, NEW l
    PROVE  [[conn |-> 0, live |-> l, got |-> 0, pending |-> <<>>, pending_bytes |-> 0]
              EXCEPT !.conn = c]
             = [conn |-> c, live |-> l, got |-> 0, pending |-> <<>>, pending_bytes |-> 0]
OBVIOUS

\* A stream that has not begun.
LEMMA NothingJoins ==
    ASSUME NEW n, NEW m
    PROVE  PiecesJoin(<<>>, <<>>, n, m) /\ \A e : EndsAt(<<>>, <<>>, e)
BY DEF PiecesJoin, EndsAt, Contiguous

LEMMA AddClientStep ==
    ASSUME ServerInv, AddClient
    PROVE  ServerInv'
<1>1. /\ apc = "add" /\ apc' = "accept"
      /\ clients' = IF afd \in InTable THEN clients
                    ELSE [clients EXCEPT ![afd] = NewClient(accepted)]
      /\ UNCHANGED <<kernel, peers, nmsgs, tvars>>
      /\ UNCHANGED <<batch, slow, afd, aconn, areg, asent, wire>>
  BY DEF AddClient, AcceptUnchanged, peers
<1>2. /\ UNCHANGED <<fdConn, accepted, greeting, read, nmsgs, wire, afd>>
      /\ UNCHANGED <<tpc, ttodo, tfd, tconn, tsent>>
  BY <1>1 DEF kernel, peers, tvars
<1>3. /\ TypeOK /\ ConnsOnce /\ TickInv /\ OthersInv
      /\ accepted \in Nat /\ accepted <= MaxConns /\ tconn \in Nat /\ afd \in Fds
      /\ tconn < accepted /\ tfd \in Fds /\ accepted \in Conns
  <2>1. TypeOK /\ ConnsOnce /\ TickInv /\ OthersInv
    BY DEF ServerInv
  <2>2. /\ accepted \in Nat /\ accepted <= MaxConns /\ tconn \in Nat /\ afd \in Fds
        /\ tfd \in Fds
    BY <2>1, ServerBoundsAssumption DEF TypeOK, PeerTypes, TickTypes, AcceptTypes
  <2>3. tconn < accepted
    BY <1>1, <2>1 DEF ConnsOnce
  <2>4. accepted \in Conns
    BY <2>2, <2>3, ServerBoundsAssumption DEF Conns
  <2>5. QED
    BY <2>1, <2>2, <2>3, <2>4
<1>4. /\ \A fd \in Fds : clients[fd].conn \in Nat /\ clients[fd].conn < accepted
      /\ \A fd \in Fds : fdConn[fd] \in Nat /\ (fd # afd => fdConn[fd] < accepted)
  BY <1>1, <1>3, ClientFacts, ServerBoundsAssumption DEF ConnsOnce, TypeOK, KernelTypes
<1> DEFINE r == NewClient(accepted)
<1>5. /\ r \in Client /\ r.conn = accepted /\ r.live = FALSE /\ r.got = 0 /\ r.pending = <<>>
  <2>1. r = [conn |-> accepted, live |-> FALSE, got |-> 0, pending |-> <<>>, pending_bytes |-> 0]
    BY EntryOf, Zenon DEF NewClient, NoClient
  <2>2. QED
    BY <1>3, <2>1, SizesAssumption, ServerBoundsAssumption DEF Client
<1> HIDE DEF r
<1>6. /\ TableTypes'
      /\ \A fd \in Fds : fd # afd => clients'[fd] = clients[fd]
      /\ afd \in InTable => clients'[afd] = clients[afd]
      /\ afd \notin InTable => clients'[afd] = r
  <2>1. CASE afd \in InTable
    BY <1>1, <1>3, <2>1 DEF TypeOK, TableTypes
  <2>2. CASE afd \notin InTable
    <3>1. clients' = [clients EXCEPT ![afd] = r]
      BY <1>1, <2>2 DEF r
    <3>2. \A i \in 1 .. Len(r.pending) : Len(r.pending[i]) \in 1 .. MsgLen
      BY <1>5
    <3>3. QED
      BY <1>3, <1>5, <2>2, <3>1, <3>2, EntryReplaced
  <2>3. QED
    BY <2>1, <2>2
<1>7. TypeOK'
  <2>1. KernelTypes' /\ PeerTypes' /\ TickTypes' /\ AcceptTypes'
    BY <1>1, <1>3 DEF TypeOK, KernelTypes, PeerTypes, TickTypes, AcceptTypes, kernel, peers, tvars
  <2>2. QED
    BY <1>2, <1>3, <1>6, <2>1 DEF TypeOK
<1>8. ConnsOnce'
  BY <1>1, <1>2, <1>3, <1>4, <1>5, <1>6 DEF ConnsOnce
<1>9. FlushInv'
  BY <1>1 DEF FlushInv
<1>10. Sound' <=> Sound
  <2>1. tpc \notin {"idle", "visit", "undefined"} => tconn # 0
    BY <1>3 DEF TickInv
  <2>2. tconn # 0 => (clients'[tfd].conn = tconn <=> clients[tfd].conn = tconn)
    BY <1>3, <1>4, <1>5, <1>6 DEF InTable
  <2>3. QED
    BY <1>2, <2>1, <2>2 DEF Sound, TickEntryValid
<1>11. ASSUME NEW fd \in Fds, fd # afd PROVE Kept(fd)
  BY <1>1, <1>2, <1>6, <1>11 DEF Kept, Adding, Erasing, Flushing, InFlight
<1>12. ASSUME GoodAt(afd)
       PROVE  /\ clients[afd].conn = 0 /\ fdConn[afd] = accepted /\ clients'[afd] = r
              /\ read[accepted] = 0 /\ wire[accepted] = <<>>
  <2>1. clients[afd].conn = 0 /\ fdConn[afd] = accepted
    BY <1>1, <1>12 DEF GoodAt, TableAt, Adding
  <2>2. read[accepted] = 0 /\ wire[accepted] = <<>>
    BY <1>1, <1>12 DEF GoodAt, LiveAt, Adding
  <2>3. QED
    BY <1>6, <2>1, <2>2 DEF InTable
<1>13. ASSUME tpc # "undefined", GoodAt(afd), ~Pulled(afd) PROVE GoodAt(afd)'
  <2>1. /\ clients[afd].conn = 0 /\ fdConn[afd] = accepted /\ clients'[afd] = r
        /\ read[accepted] = 0 /\ wire[accepted] = <<>>
    BY <1>12, <1>13
  <2>2. tfd = afd => tpc \in {"idle", "visit"}
    BY <1>3, <1>13, <2>1 DEF Pulled, Sound, TickEntryValid, TickInv
  <2>3. TableAt(afd)'
    BY <1>1, <1>2, <1>5, <2>1 DEF TableAt, Adding, Erasing, Flushing
  <2>4. 0 < greeting[accepted]
    <3>1. greeting[accepted] \in GreetingSizes
      BY <1>3 DEF TypeOK, PeerTypes
    <3>2. greeting[accepted] \in Nat \ {0}
      BY <3>1, SizesAssumption, Zenon
    <3>3. QED
      BY <3>2
  <2>5. LiveAt(afd)'
    BY <1>1, <1>2, <1>5, <2>1, <2>2, <2>4 DEF LiveAt, Adding
  <2>6. StreamAt(afd)'
    <3>1. ~HalfSent(afd)'
      BY <1>2, <2>2 DEF HalfSent
    <3>2. wire'[clients'[afd].conn] = <<>> /\ clients'[afd].pending = <<>>
      BY <1>2, <1>5, <2>1
    <3>3. QED
      BY <1>2, <3>1, <3>2, NothingJoins DEF StreamAt, Ends
  <2>7. QED
    BY <2>3, <2>5, <2>6 DEF GoodAt
<1>14. tpc # "undefined" /\ afd # tfd => clients'[afd].conn \in {0, clients[afd].conn, fdConn[afd]}
  <2>1. tpc # "undefined" /\ afd # tfd => GoodAt(afd)
    BY <1>3 DEF OthersInv, Pulled
  <2>2. QED
    BY <1>5, <1>12, <2>1
<1>15. accepted <= accepted'
  BY <1>2, <1>3
<1>16. QED
  BY <1>1, <1>2, <1>3, <1>7, <1>8, <1>9, <1>10, <1>11, <1>13, <1>14, <1>15, OneFdStep

\* A client that has been heard further.
Heard(r, g, l) ==
    [conn |-> r.conn, live |-> l, got |-> g, pending |-> r.pending,
     pending_bytes |-> r.pending_bytes]

LEMMA HeardFurther ==
    ASSUME NEW r \in Client, NEW g, NEW l
    PROVE  [r EXCEPT !.got = g, !.live = l] = Heard(r, g, l)
<1>1. r = Heard(r, r.got, r.live)
  BY DEF Client, Heard
<1>2. [Heard(r, r.got, r.live) EXCEPT !.got = g] = Heard(r, g, r.live)
  BY DEF Heard
<1>3. [Heard(r, g, r.live) EXCEPT !.live = l] = Heard(r, g, l)
  BY DEF Heard
<1>4. [r EXCEPT !.got = g] = Heard(r, g, r.live)
  BY <1>1, <1>2, Zenon
<1>5. QED
  BY <1>3, <1>4, Zenon

LEMMA HeardFields ==
    ASSUME NEW r \in Client, NEW g \in Nat, NEW l \in BOOLEAN
    PROVE  /\ Heard(r, g, l) \in Client /\ Heard(r, g, l).conn = r.conn
           /\ Heard(r, g, l).live = l /\ Heard(r, g, l).got = g
           /\ Heard(r, g, l).pending = r.pending
<1>1. /\ r.conn \in 0 .. MaxConns /\ r.pending \in Seq(Seq(Bytes))
      /\ r.pending_bytes \in 0 .. SizeMod - 1
  BY DEF Client
<1>2. Heard(r, g, l) \in Client
  BY <1>1, Zenon DEF Client, Heard
<1>3. /\ Heard(r, g, l).conn = r.conn /\ Heard(r, g, l).live = l /\ Heard(r, g, l).got = g
      /\ Heard(r, g, l).pending = r.pending
  BY Zenon DEF Heard
<1>4. QED
  BY <1>2, <1>3

\* on_recv: what it does to the table.
LEMMA OnRecvFacts ==
    ASSUME TypeOK, NEW fd \in Fds, NEW n \in Nat, OnRecv(fd, n)
    PROVE  /\ TableTypes'
           /\ \A f \in Fds : /\ clients'[f].conn = clients[f].conn
                             /\ clients'[f].pending = clients[f].pending
                             /\ f # fd => clients'[f] = clients[f]
           /\ fd \notin InTable \/ clients[fd].live => clients'[fd] = clients[fd]
           /\ fd \in InTable /\ ~clients[fd].live =>
                LET g == clients[fd].got + n
                IN  /\ clients'[fd].got = g
                    /\ clients'[fd].live <=> g >= greeting[clients[fd].conn]
<1>1. CASE fd \notin InTable \/ clients[fd].live
  <2>1. clients' = clients
    BY <1>1 DEF OnRecv
  <2>2. QED
    BY <1>1, <2>1 DEF TypeOK, TableTypes
<1>2. CASE fd \in InTable /\ ~clients[fd].live
  <2> DEFINE g == clients[fd].got + n
             l == g >= greeting[clients[fd].conn]
             r == [clients[fd] EXCEPT !.got = g, !.live = l]
  <2>1. clients' = [clients EXCEPT ![fd] = r]
    BY <1>2, Zenon DEF OnRecv
  <2>2. g \in Nat /\ clients[fd] \in Client
    BY ClientFacts
  <2>3. l \in BOOLEAN
    OBVIOUS
  <2>4. /\ r \in Client /\ r.conn = clients[fd].conn /\ r.live = l /\ r.got = g
        /\ r.pending = clients[fd].pending
    <3> HIDE DEF g, l
    <3>1. r = Heard(clients[fd], g, l)
      BY <2>2, HeardFurther, Zenon
    <3> HIDE DEF r
    <3> DEFINE h == Heard(clients[fd], g, l)
    <3>2. /\ h \in Client /\ h.conn = clients[fd].conn /\ h.live = l /\ h.got = g
          /\ h.pending = clients[fd].pending
      BY <2>2, <2>3, HeardFields
    <3> HIDE DEF h
    <3>3. QED
      BY <3>1, <3>2, Zenon DEF h
  <2> HIDE DEF r, l, g
  <2>5. \A i \in 1 .. Len(r.pending) : Len(r.pending[i]) \in 1 .. MsgLen
    BY <2>4, ClientFacts, Zenon
  <2>6. /\ TableTypes' /\ clients'[fd] = r
        /\ \A f \in Fds : f # fd => clients'[f] = clients[f]
    BY <2>1, <2>4, <2>5, EntryReplaced
  <2>7. QED
    BY <1>2, <2>4, <2>6, Zenon DEF g, l
<1>3. QED
  BY <1>1, <1>2

LEMMA HandleInStep ==
    ASSUME ServerInv, HandleIn
    PROVE  ServerInv'
<1>1. /\ apc = "events" /\ UNCHANGED <<kernel, accepted, slow, aconn, areg, asent, wire>>
      /\ UNCHANGED <<made, greeting, sent, gone, nmsgs, tvars>>
  BY DEF HandleIn, AcceptUnchanged
<1>2. PICK ev \in batch :
         LET c == fdConn[ev.fd]
         IN  /\ ev.ev = "in"
             /\ batch' = batch \ {ev}
             /\ afd' = ev.fd
             /\ IF c # 0 /\ read[c] < sent[c]
                  THEN /\ OnRecv(ev.fd, sent[c] - read[c])
                       /\ read' = [read EXCEPT ![c] = sent[c]]
                       /\ apc' = "events"
                  ELSE /\ apc' = IF c = 0 \/ c \in gone THEN "close" ELSE "events"
                       /\ UNCHANGED <<clients, read>>
  BY DEF HandleIn
<1> DEFINE f == ev.fd
           c == fdConn[f]
<1>3. f \in Fds /\ afd' = f /\ batch' \subseteq batch /\ apc' \in {"events", "close"}
  BY <1>2 DEF ServerInv, TypeOK, AcceptTypes
<1>4. AcceptTypes'
  BY <1>1, <1>3 DEF ServerInv, TypeOK, AcceptTypes
<1>5. CASE ~(c # 0 /\ read[c] < sent[c])
  <2>1. clients' = clients /\ read' = read
    BY <1>2, <1>5
  <2>2. TypeOK'
    BY <1>1, <1>4, <2>1, QuietTypes DEF ServerInv, TypeOK, KernelTypes, kernel, peers
  <2>3. QED
    BY <1>1, <1>3, <2>1, <2>2, QuietStep DEF kernel
<1>6. CASE c # 0 /\ read[c] < sent[c]
  <2> DEFINE n == sent[c] - read[c]
  <2>1. OnRecv(f, n) /\ read' = [read EXCEPT ![c] = sent[c]] /\ apc' = "events"
    BY <1>2, <1>6
  <2>2. /\ TypeOK /\ ConnsOnce /\ c \in Conns /\ sent[c] \in Nat /\ read[c] \in Nat /\ n \in Nat
        /\ greeting[c] \in Nat /\ sent[c] <= greeting[c] /\ accepted \in Nat
        /\ read[c] # greeting[c] /\ c <= accepted
    <3>1. TypeOK /\ ConnsOnce
      BY DEF ServerInv
    <3>2. c \in Conns
      BY <1>3, <1>6, <3>1, ServerBoundsAssumption DEF TypeOK, KernelTypes, Conns
    <3>3. /\ sent[c] \in Nat /\ read[c] \in Nat /\ sent[c] <= greeting[c]
          /\ greeting[c] \in GreetingSizes /\ accepted \in Nat
      BY <3>1, <3>2, ServerBoundsAssumption DEF TypeOK, PeerTypes
    <3>4. greeting[c] \in Nat
      BY <3>3, SizesAssumption
    <3>5. c <= accepted
      BY <1>3, <3>1 DEF ConnsOnce
    <3>6. QED
      BY <1>6, <3>1, <3>2, <3>3, <3>4, <3>5
  <2>3. /\ TableTypes'
        /\ \A g \in Fds : /\ clients'[g].conn = clients[g].conn
                          /\ clients'[g].pending = clients[g].pending
                          /\ g # f => clients'[g] = clients[g]
        /\ f \in InTable /\ ~clients[f].live =>
             /\ clients'[f].got = clients[f].got + n
             /\ clients'[f].live <=> clients[f].got + n >= greeting[clients[f].conn]
    BY <1>3, <2>1, <2>2, OnRecvFacts
  <2>4. /\ read' \in [Conns -> Nat] /\ read'[c] = sent[c]
        /\ \A d \in Conns : d # c => read'[d] = read[d]
    BY <2>1, <2>2 DEF TypeOK, PeerTypes
  <2>5. TypeOK'
    <3>1. PeerTypes'
      <4>1. \A d \in Conns : sent[d] <= greeting[d] /\ read'[d] <= sent[d]
        <5>1. ASSUME NEW d \in Conns PROVE sent[d] <= greeting[d] /\ read[d] <= sent[d]
          BY <2>2 DEF TypeOK, PeerTypes
        <5>2. sent[c] <= sent[c]
          BY <2>2
        <5>3. QED
          BY <2>4, <5>1, <5>2, Zenon
      <4>2. QED
        BY <1>1, <2>2, <2>4, <4>1 DEF TypeOK, PeerTypes
    <3>2. KernelTypes' /\ TickTypes'
      BY <1>1, <2>2 DEF TypeOK, KernelTypes, TickTypes, kernel, tvars
    <3>3. QED
      BY <1>1, <1>4, <2>2, <2>3, <3>1, <3>2 DEF TypeOK
  <2>6. /\ UNCHANGED <<fdConn, accepted, greeting, nmsgs, tpc, ttodo, tfd, tconn, tsent, wire>>
        /\ tfd \in Fds
    BY <1>1, <2>2 DEF kernel, tvars, TypeOK, TickTypes
  <2>7. ConnsOnce' /\ FlushInv'
    BY <1>1, <2>1, <2>2, <2>3, <2>6 DEF ConnsOnce, FlushInv
  <2>8. Sound' <=> Sound
    BY <2>3, <2>6 DEF Sound, TickEntryValid
  <2>9. ASSUME NEW fd \in Fds, fd # f PROVE Kept(fd)
    <3>1. ASSUME clients[fd].conn # 0 PROVE read'[clients[fd].conn] = read[clients[fd].conn]
      <4>1. clients[fd].conn # c
        BY <1>3, <2>2, <2>9, <3>1 DEF ConnsOnce
      <4>2. clients[fd].conn \in Conns
        BY <2>2, <3>1, ClientFacts
      <4>3. QED
        BY <2>4, <4>1, <4>2
    <3>2. QED
      BY <1>1, <1>3, <2>1, <2>3, <2>6, <2>9, <3>1 DEF Kept, Adding, Erasing, Flushing, InFlight
  <2>10. ASSUME GoodAt(f) PROVE GoodAt(f)'
    <3>1. TableAt(f) /\ LiveAt(f) /\ StreamAt(f)
      BY <2>10 DEF GoodAt
    <3>2. clients[f].conn = c /\ f \in InTable
      BY <1>1, <1>3, <1>6, <3>1 DEF TableAt, Adding, Erasing, InTable
    <3>3. /\ ~clients[f].live /\ clients[f].got = read[c] /\ clients[f].pending = <<>>
          /\ wire[c] = <<>> /\ (tfd = f => tpc \in {"idle", "visit"})
      BY <1>6, <2>2, <3>1, <3>2 DEF LiveAt
    <3>4. clients'[f].got = sent[c] /\ (clients'[f].live <=> sent[c] >= greeting[c])
      <4>1. clients[f].got + n = sent[c]
        BY <2>2, <3>3
      <4>2. QED
        BY <2>3, <3>2, <3>3, <4>1, Zenon
    <3>5. /\ clients'[f].conn = c /\ clients'[f].pending = <<>>
          /\ clients'[f].live => sent[c] = greeting[c]
          /\ ~clients'[f].live => sent[c] < greeting[c]
      BY <1>3, <2>2, <2>3, <3>2, <3>3, <3>4
    <3>6. TableAt(f)'
      BY <1>1, <2>1, <2>6, <3>2, <3>5 DEF TableAt, Adding, Erasing, Flushing
    <3>7. LiveAt(f)'
      BY <2>1, <2>4, <2>6, <3>3, <3>4, <3>5 DEF LiveAt, Adding
    <3>8. StreamAt(f)'
      <4>1. ~HalfSent(f)'
        BY <2>6, <3>3 DEF HalfSent
      <4>2. QED
        BY <2>6, <3>3, <3>5, <4>1, NothingJoins DEF StreamAt, Ends
    <3>9. QED
      BY <3>6, <3>7, <3>8 DEF GoodAt
  <2>11. \A d \in Conns : wire'[d] # <<>> =>
           wire[d] # <<>> /\ (read[d] = greeting[d] => read'[d] = greeting[d])
    BY <2>2, <2>4, <2>6
  <2>12. \A d \in Conns : d > accepted => read'[d] = read[d] /\ wire'[d] = wire[d]
    <3>1. \A d \in Conns : d > accepted => d # c
      BY <2>2 DEF Conns
    <3>2. QED
      BY <2>4, <2>6, <3>1
  <2>13. accepted <= accepted' /\ fdConn'[f] = fdConn[f] /\ clients'[f].conn = clients[f].conn
    BY <1>3, <2>2, <2>3, <2>6
  <2>14. QED
    BY <1>1, <1>3, <2>5, <2>7, <2>8, <2>9, <2>10, <2>11, <2>12, <2>13, OneFdStep
<1>7. QED
  BY <1>5, <1>6

\* The first k bytes of the queue are written, and still in the queue.
LEMMA FlushWrites ==
    ASSUME NEW w \in Seq(Bytes), NEW q \in Pieces, NEW m \in Nat, q # <<>>,
           NEW k \in 1 .. Len(q[1]), PiecesJoin(w, q, 0, m)
    PROVE  LET v == w \o SubSeq(q[1], 1, k)
           IN  v # <<>> /\ SubSeq(q[1], 1, k) \in Seq(Bytes) /\ PiecesJoin(v, q, k, m)
<1> DEFINE p == SubSeq(q[1], 1, k)
           v == w \o p
           h == q[1]
<1>1. h \in Seq(Bytes) /\ Contiguous(h) /\ Len(h) \in Nat
  <2>1. q \in Seq(Seq(Bytes)) /\ 1 \in 1 .. Len(q)
    BY DEF Pieces
  <2>2. QED
    BY <2>1 DEF PiecesJoin
<1>2. /\ w # <<>> => h[1] + 0 = LastOf(w) + 1
      /\ w = <<>> => FirstByte(h[1], m)
      /\ w # <<>> => FirstByte(w[1], m)
      /\ Contiguous(w)
  BY DEF PiecesJoin
<1> HIDE DEF h
<1>3. h[1] \in Nat
  BY <1>1, ByteFacts DEF h
<1>4. /\ p \in Seq(Bytes) /\ Contiguous(p) /\ p # <<>> /\ p[1] = h[1] + 1 - 1
      /\ LastOf(p) = h[1] + k - 1
  <2>1. 1 \in 1 .. Len(h) /\ k \in 1 .. Len(h)
    BY <1>1 DEF h
  <2>2. QED
    BY <1>1, <2>1, ContiguousPart DEF h
<1> HIDE DEF p
<1>5. w # <<>> => p[1] = LastOf(w) + 1
  BY <1>2, <1>3, <1>4
<1>6. /\ v \in Seq(Bytes) /\ Contiguous(v) /\ v # <<>>
      /\ v[1] = IF w = <<>> THEN p[1] ELSE w[1]
      /\ LastOf(v) = LastOf(p)
  BY <1>2, <1>4, <1>5, ContiguousConcat
<1> HIDE DEF v
<1>7. FirstByte(v[1], m)
  <2>1. p[1] = h[1]
    BY <1>3, <1>4
  <2>2. QED
    BY <1>2, <1>6, <2>1
<1>8. h[1] + k = LastOf(v) + 1
  BY <1>3, <1>4, <1>6
<1>9. PiecesJoin(v, q, k, m)
  BY <1>6, <1>7, <1>8 DEF PiecesJoin, h
<1>10. QED
  BY <1>4, <1>6, <1>9 DEF p, v

\* They are taken from the queue, whose first piece may then be at an end.
LEMMA FlushTakes ==
    ASSUME NEW w \in Seq(Bytes), NEW q \in Pieces, NEW m \in Nat, q # <<>>,
           NEW n \in 1 .. Len(q[1]), PiecesJoin(w, q, n, m)
    PROVE  LET rest == SubSeq(q[1], n + 1, Len(q[1]))
               r    == IF rest = <<>> THEN Tail(q) ELSE <<rest>> \o Tail(q)
           IN  /\ r \in Pieces /\ PiecesJoin(w, r, 0, m)
               /\ \A e : EndsAt(w, q, e) => EndsAt(w, r, e)
<1> DEFINE h    == q[1]
           rest == SubSeq(h, n + 1, Len(h))
           r    == IF rest = <<>> THEN Tail(q) ELSE <<rest>> \o Tail(q)
<1>1. /\ q \in Seq(Seq(Bytes)) /\ Len(q) \in Nat /\ Len(q) >= 1
      /\ \A i \in 1 .. Len(q) : q[i] \in Seq(Bytes) /\ Len(q[i]) \in 1 .. MsgLen
  BY DEF Pieces
<1>2. h \in Seq(Bytes) /\ Contiguous(h) /\ Len(h) \in Nat /\ Len(h) <= MsgLen /\ h # <<>>
  <2>1. 1 \in 1 .. Len(q)
    BY <1>1
  <2>2. h \in Seq(Bytes) /\ Contiguous(h) /\ Len(h) \in 1 .. MsgLen
    BY <1>1, <2>1 DEF PiecesJoin
  <2>3. QED
    BY <2>2
<1>3. /\ w # <<>> /\ h[1] + n = LastOf(w) + 1 /\ FirstByte(w[1], m) /\ Contiguous(w)
  <2>1. n # 0
    BY <1>2
  <2>2. QED
    BY <2>1 DEF PiecesJoin
<1>4. /\ \A i \in 1 .. Len(q) : Contiguous(q[i])
      /\ \A i \in 1 .. Len(q) - 1 : q[i + 1][1] = LastOf(q[i]) + 1
  BY DEF PiecesJoin
<1>5. n \in 1 .. Len(h) /\ q[1] = h
  OBVIOUS
<1> HIDE DEF h
<1>6. h[1] \in Nat /\ LastOf(w) \in Nat /\ LastOf(h) = h[1] + Len(h) - 1
  <2>1. h[1] \in Nat /\ LastOf(w) \in Nat /\ Len(h) \in 1 .. Len(h)
    BY <1>2, <1>3, ByteFacts
  <2>2. QED
    BY <2>1, <1>2 DEF Contiguous, LastOf
<1>7. /\ Tail(q) \in Seq(Seq(Bytes)) /\ Len(Tail(q)) = Len(q) - 1
      /\ \A i \in 1 .. Len(q) - 1 : Tail(q)[i] = q[i + 1]
  <2>1. Tail(q) \in Seq(Seq(Bytes))
    BY <1>1
  <2>2. Len(Tail(q)) = Len(q) - 1
    BY <1>1
  <2>3. \A i \in 1 .. Len(q) - 1 : Tail(q)[i] = q[i + 1]
    BY <1>1
  <2>4. QED
    BY <2>1, <2>2, <2>3
<1>8. CASE n = Len(h)
  <2>1. rest = <<>>
    <3>1. Len(rest) = 0 /\ rest \in Seq(Bytes)
      BY <1>2, <1>8, PartFacts
    <3>2. QED
      BY <3>1
  <2>2. r = Tail(q)
    BY <2>1
  <2> HIDE DEF r
  <2>3. /\ r \in Seq(Seq(Bytes)) /\ Len(r) = Len(q) - 1 /\ Len(r) \in Nat
        /\ \A i \in 1 .. Len(r) : r[i] = q[i + 1] /\ i + 1 \in 1 .. Len(q)
    BY <1>1, <1>7, <2>2
  <2>4. r \in Pieces
    BY <1>1, <2>3 DEF Pieces
  <2>5. \A i \in 1 .. Len(r) : Contiguous(r[i])
    BY <1>4, <2>3
  <2>6. ASSUME NEW i \in 1 .. Len(r) - 1 PROVE r[i + 1][1] = LastOf(r[i]) + 1
    <3>1. i \in 1 .. Len(r) /\ i + 1 \in 1 .. Len(r) /\ i + 1 \in 1 .. Len(q) - 1
      BY <2>3
    <3>2. QED
      BY <1>4, <2>3, <3>1
  <2>7. LastOf(h) = LastOf(w)
    <3>1. PICK a \in Nat : a = h[1]
      BY <1>6
    <3>2. PICK b \in Nat : b = LastOf(w)
      BY <1>6
    <3>3. PICK l \in Nat : l = Len(h)
      BY <1>2
    <3>4. a + l = b + 1 /\ LastOf(h) = a + l - 1
      BY <1>3, <1>6, <1>8, <3>1, <3>2, <3>3, Zenon
    <3>5. a + l - 1 = b
      BY <3>4
    <3>6. QED
      BY <3>2, <3>4, <3>5, Zenon
  <2>8. ASSUME r # <<>> PROVE r[1][1] + 0 = LastOf(w) + 1
    <3>1. 1 \in 1 .. Len(r) /\ 1 \in 1 .. Len(q) - 1
      BY <2>3, <2>8
    <3>2. r[1] = q[1 + 1] /\ q[1 + 1][1] = LastOf(q[1]) + 1
      BY <1>4, <2>3, <3>1
    <3>3. r[1][1] = LastOf(w) + 1
      BY <1>5, <2>7, <3>2
    <3>4. QED
      BY <1>6, <3>3
  <2>9. PiecesJoin(w, r, 0, m)
    BY <1>3, <2>5, <2>6, <2>8 DEF PiecesJoin
  <2>10. ASSUME NEW e, EndsAt(w, q, e) PROVE EndsAt(w, r, e)
    <3>1. LastOf(q[Len(q)]) = e
      BY <2>10 DEF EndsAt, LastOf
    <3>2. CASE r = <<>>
      <4>1. Len(r) = 0
        BY <3>2
      <4>2. Len(q) = 1
        BY <1>1, <2>3, <4>1
      <4>3. QED
        BY <1>5, <2>7, <3>1, <3>2, <4>2 DEF EndsAt
    <3>3. CASE r # <<>>
      <4>1. Len(r) \in 1 .. Len(r) /\ Len(r) + 1 = Len(q)
        BY <1>1, <2>3, <3>3
      <4>2. r[Len(r)] = q[Len(q)]
        BY <2>3, <4>1
      <4>3. QED
        BY <3>1, <3>3, <4>2 DEF EndsAt, LastOf
    <3>4. QED
      BY <3>2, <3>3
  <2>11. QED
    BY <2>4, <2>9, <2>10 DEF r, h
<1>9. CASE n < Len(h)
  <2>1. /\ rest \in Seq(Bytes) /\ Len(rest) = Len(h) - (n + 1) + 1 /\ Contiguous(rest)
        /\ rest # <<>> /\ rest[1] = h[1] + (n + 1) - 1 /\ LastOf(rest) = h[1] + Len(h) - 1
    <3>1. n + 1 \in 1 .. Len(h) /\ Len(h) \in n + 1 .. Len(h)
      BY <1>2, <1>5, <1>9
    <3>2. QED
      BY <1>2, <3>1, ContiguousPart
  <2>2. r = <<rest>> \o Tail(q)
    BY <2>1
  <2> HIDE DEF rest, r
  <2>3. Len(rest) \in 1 .. MsgLen /\ rest[1] + 0 = LastOf(w) + 1 /\ LastOf(rest) = LastOf(h)
    BY <1>2, <1>3, <1>5, <1>6, <1>9, <2>1, SizesAssumption, SMTT(30)
  <2>4. /\ r \in Seq(Seq(Bytes)) /\ Len(r) = Len(q) /\ r[1] = rest
        /\ \A i \in 2 .. Len(q) : r[i] = q[i]
    <3> DEFINE t == Tail(q)
    <3> HIDE DEF t
    <3>1. t \in Seq(Seq(Bytes)) /\ Len(t) = Len(q) - 1
          /\ \A i \in 1 .. Len(q) - 1 : t[i] = q[i + 1]
      BY <1>7 DEF t
    <3>2. <<rest>> \in Seq(Seq(Bytes)) /\ Len(<<rest>>) = 1 /\ <<rest>>[1] = rest
      BY <2>1
    <3> DEFINE u == <<rest>>
    <3> HIDE DEF u
    <3>3. /\ u \o t \in Seq(Seq(Bytes)) /\ Len(u \o t) = 1 + Len(t)
          /\ \A i \in 1 .. 1 : (u \o t)[i] = u[i]
          /\ \A i \in 1 .. Len(t) : (u \o t)[1 + i] = t[i]
      <4>1. u \in Seq(Seq(Bytes)) /\ Len(u) = 1
        BY <3>2 DEF u
      <4>2. /\ u \o t \in Seq(Seq(Bytes)) /\ Len(u \o t) = Len(u) + Len(t)
            /\ \A i \in 1 .. Len(u) : (u \o t)[i] = u[i]
            /\ \A i \in 1 .. Len(t) : (u \o t)[Len(u) + i] = t[i]
        <5>1. t \in Seq(Seq(Bytes))
          BY <3>1
        <5>2. u \o t \in Seq(Seq(Bytes))
          BY <4>1, <5>1, ConcatFacts
        <5>3. Len(u \o t) = Len(u) + Len(t)
          BY <4>1, <5>1, ConcatFacts
        <5>4. \A i \in 1 .. Len(u) : (u \o t)[i] = u[i]
          BY <4>1, <5>1, ConcatFacts
        <5>5. \A i \in 1 .. Len(t) : (u \o t)[Len(u) + i] = t[i]
          BY <4>1, <5>1, ConcatSecond, Zenon
        <5>6. QED
          BY <5>2, <5>3, <5>4, <5>5
      <4>3. QED
        BY <4>1, <4>2, Zenon
    <3>4. r = u \o t
      BY <2>2 DEF u, t
    <3>5. Len(r) = Len(q) /\ r[1] = rest
      BY <1>1, <3>1, <3>2, <3>3, <3>4 DEF u
    <3>6. ASSUME NEW i \in 2 .. Len(q) PROVE r[i] = q[i]
      <4>1. i - 1 \in 1 .. Len(t) /\ i - 1 \in 1 .. Len(q) - 1 /\ 1 + (i - 1) = i /\ (i - 1) + 1 = i
        BY <1>1, <3>1
      <4>2. (u \o t)[1 + (i - 1)] = t[i - 1]
        BY <3>3, <4>1, Zenon
      <4>3. t[i - 1] = q[(i - 1) + 1]
        BY <3>1, <4>1, Zenon
      <4>4. QED
        BY <3>4, <4>1, <4>2, <4>3, Zenon
    <3>7. QED
      BY <3>3, <3>4, <3>5, <3>6
  <2>5. \A i \in 1 .. Len(r) : i = 1 \/ i \in 2 .. Len(q)
    BY <1>1, <2>4
  <2>6. r \in Pieces
    <3>1. ASSUME NEW i \in 1 .. Len(r) PROVE Len(r[i]) \in 1 .. MsgLen
      BY <1>1, <2>3, <2>4, <2>5
    <3>2. QED
      BY <2>4, <3>1 DEF Pieces
  <2>7. \A i \in 1 .. Len(r) : Contiguous(r[i])
    BY <1>1, <1>4, <2>1, <2>4, <2>5
  <2>8. ASSUME NEW i \in 1 .. Len(r) - 1 PROVE r[i + 1][1] = LastOf(r[i]) + 1
    <3>1. i \in 1 .. Len(q) - 1 /\ i + 1 \in 2 .. Len(q) /\ (i # 1 => i \in 2 .. Len(q))
      BY <1>1, <2>4
    <3>2. q[i + 1][1] = LastOf(q[i]) + 1 /\ r[i + 1] = q[i + 1]
      BY <1>4, <2>4, <3>1
    <3>3. LastOf(r[i]) = LastOf(q[i])
      BY <1>5, <2>3, <2>4, <3>1
    <3>4. QED
      BY <3>2, <3>3
  <2>9. PiecesJoin(w, r, 0, m)
    BY <1>3, <2>3, <2>4, <2>7, <2>8 DEF PiecesJoin
  <2>10. ASSUME NEW e, EndsAt(w, q, e) PROVE EndsAt(w, r, e)
    <3>1. LastOf(q[Len(q)]) = e
      BY <2>10 DEF EndsAt, LastOf
    <3>2. LastOf(r[Len(r)]) = LastOf(q[Len(q)])
      <4>1. Len(q) = 1 \/ Len(q) \in 2 .. Len(q)
        <5>1. \A x \in Nat : x >= 1 => x = 1 \/ x \in 2 .. x
          OBVIOUS
        <5>2. QED
          BY <1>1, <5>1, Zenon
      <4>2. QED
        BY <1>5, <2>3, <2>4, <4>1
    <3>3. r # <<>>
      BY <1>1, <2>4
    <3>4. QED
      BY <3>1, <3>2, <3>3 DEF EndsAt, LastOf
  <2>11. QED
    BY <2>6, <2>9, <2>10 DEF r, rest, h
<1>10. n = Len(h) \/ n < Len(h)
  BY <1>2, <1>5
<1>11. QED
  BY <1>8, <1>9, <1>10

LEMMA TakenPieces ==
    ASSUME NEW q \in Pieces, q # <<>>, NEW n \in 1 .. Len(q[1])
    PROVE  LET rest == SubSeq(q[1], n + 1, Len(q[1]))
           IN  (IF rest = <<>> THEN Tail(q) ELSE <<rest>> \o Tail(q)) \in Pieces
<1> DEFINE h    == q[1]
           t    == Tail(q)
           rest == SubSeq(h, n + 1, Len(h))
           u    == <<rest>>
           r    == u \o t
<1>1. /\ q \in Seq(Seq(Bytes)) /\ Len(q) \in Nat /\ Len(q) >= 1
      /\ \A i \in 1 .. Len(q) : q[i] \in Seq(Bytes) /\ Len(q[i]) \in 1 .. MsgLen
  BY DEF Pieces
<1>2. h \in Seq(Bytes) /\ Len(h) \in 1 .. MsgLen /\ Len(h) \in Nat /\ n \in 1 .. Len(h)
  <2>1. 1 \in 1 .. Len(q)
    BY <1>1
  <2>2. QED
    BY <1>1, <2>1
<1>3. t \in Seq(Seq(Bytes)) /\ Len(t) = Len(q) - 1
  <2>1. t \in Seq(Seq(Bytes))
    BY <1>1
  <2>2. Len(t) = Len(q) - 1
    BY <1>1
  <2>3. QED
    BY <2>1, <2>2
<1>4. \A i \in 1 .. Len(q) - 1 : t[i] = q[i + 1] /\ i + 1 \in 1 .. Len(q)
  BY <1>1
<1> HIDE DEF h, t
<1>5. \A i \in 1 .. Len(t) : Len(t[i]) \in 1 .. MsgLen
  BY <1>1, <1>3, <1>4
<1>6. t \in Pieces
  BY <1>3, <1>5 DEF Pieces
<1>7. rest \in Seq(Bytes) /\ Len(rest) = Len(h) - n
  <2>1. rest \in Seq(Bytes) /\ Len(rest) = Len(h) - (n + 1) + 1
    BY <1>2, PartFacts
  <2> HIDE DEF rest
  <2>2. QED
    BY <1>2, <2>1
<1> HIDE DEF rest
<1>8. ASSUME rest # <<>> PROVE r \in Pieces
  <2>1. Len(rest) \in 1 .. MsgLen
    BY <1>2, <1>7, <1>8, SizesAssumption
  <2>2. u \in Seq(Seq(Bytes)) /\ Len(u) = 1 /\ u[1] = rest
    BY <1>7
  <2> HIDE DEF u
  <2>3. r \in Seq(Seq(Bytes)) /\ Len(r) = Len(u) + Len(t)
    <3>1. t \in Seq(Seq(Bytes))
      BY <1>3
    <3>2. r \in Seq(Seq(Bytes))
      BY <2>2, <3>1, ConcatFacts
    <3>3. Len(r) = Len(u) + Len(t)
      BY <2>2, <3>1, ConcatFacts
    <3>4. QED
      BY <3>2, <3>3
  <2>4. \A i \in 1 .. Len(u) : r[i] = u[i]
    BY <1>3, <2>2, ConcatFacts
  <2>5. \A i \in 1 .. Len(t) : r[Len(u) + i] = t[i]
    BY <1>3, <2>2, ConcatSecond, Zenon
  <2> HIDE DEF r
  <2>6. ASSUME NEW i \in 1 .. Len(r) PROVE Len(r[i]) \in 1 .. MsgLen
    <3>1. CASE i = 1
      <4>1. r[1] = rest
        BY <2>2, <2>4
      <4>2. QED
        BY <2>1, <3>1, <4>1
    <3>2. CASE i # 1
      <4>1. i - 1 \in 1 .. Len(t) /\ Len(u) + (i - 1) = i
        BY <1>1, <1>3, <2>2, <2>3, <3>2
      <4>2. r[i] = t[i - 1]
        BY <2>5, <4>1
      <4>3. QED
        BY <1>5, <4>1, <4>2
    <3>3. QED
      BY <3>1, <3>2
  <2>7. QED
    BY <2>3, <2>6 DEF Pieces
<1>9. QED
  BY <1>6, <1>8 DEF h, t, rest, r, u

\* The accept thread moves bytes of one entry, whose queue is not empty.
\* The accept thread moves bytes of one entry, whose queue is not empty.
LEMMA FlushStep ==
    ASSUME ServerInv, AcceptEntryValid, apc \in {"flush", "store"},
           apc' \in {"flush", "store", "events"},
           UNCHANGED <<kernel, peers, nmsgs, tvars, afd, aconn>>,
           AcceptTypes', TableTypes', OnlyQueue(afd), FlushInv',
           wire' \in [Conns -> Seq(Bytes)],
           \A c \in Conns : c # fdConn[afd] => wire'[c] = wire[c],
           clients[afd].pending # <<>>,
           LET w == wire[clients[afd].conn]
               v == wire'[clients[afd].conn]
               q == clients[afd].pending
               r == clients'[afd].pending
           IN  GoodAt(afd) => /\ PiecesJoin(v, r, InFlight(afd)', nmsgs)
                              /\ \A e : EndsAt(w, q, e) => EndsAt(v, r, e)
    PROVE  ServerInv'
<1>1. /\ UNCHANGED <<fdConn, armed, accepted, greeting, read, afd, aconn, nmsgs>>
      /\ UNCHANGED <<tpc, ttodo, tfd, tconn, tsent>>
      /\ TypeOK /\ ConnsOnce /\ FlushInv /\ OthersInv /\ afd \in Fds /\ tfd \in Fds
      /\ clients[afd].conn = aconn /\ aconn # 0
  BY DEF kernel, peers, tvars, ServerInv, TypeOK, AcceptTypes, TickTypes, FlushInv,
         AcceptEntryValid
<1>2. \A fd \in Fds : clients'[fd].conn = clients[fd].conn
  BY Zenon DEF OnlyQueue
<1>3. \A fd \in Fds : clients'[fd].live = clients[fd].live /\ clients'[fd].got = clients[fd].got
  BY Zenon DEF OnlyQueue
<1>4. \A fd \in Fds : fd # afd => clients'[fd] = clients[fd]
  BY Zenon DEF OnlyQueue
<1>5. TypeOK'
  <2>1. KernelTypes' /\ PeerTypes' /\ TickTypes'
    BY <1>1 DEF TypeOK, KernelTypes, PeerTypes, TickTypes, kernel, peers, tvars
  <2>2. QED
    BY <2>1 DEF TypeOK
<1>6. ConnsOnce'
  BY <1>1, <1>2 DEF ConnsOnce
<1>7. Sound' <=> Sound
  BY <1>1, <1>2 DEF Sound, TickEntryValid
<1>8. ASSUME NEW fd \in Fds, fd # afd PROVE Kept(fd)
  <2>1. ASSUME clients[fd].conn # 0 PROVE wire'[clients[fd].conn] = wire[clients[fd].conn]
    <3>1. clients[fd].conn # fdConn[afd] /\ clients[fd].conn \in Conns
      BY <1>1, <1>8, <2>1, ClientFacts DEF ConnsOnce
    <3>2. QED
      BY <3>1
  <2>2. QED
    BY <1>1, <1>4, <1>8, <2>1 DEF Kept, Adding, Erasing, Flushing, InFlight
<1>9. ASSUME GoodAt(afd)
      PROVE  /\ fdConn[afd] = clients[afd].conn /\ clients[afd].live
             /\ read[fdConn[afd]] = greeting[fdConn[afd]]
  <2>1. TableAt(afd) /\ LiveAt(afd)
    BY <1>9 DEF GoodAt
  <2>2. fdConn[afd] = clients[afd].conn
    BY <2>1 DEF TableAt, Adding, Erasing
  <2>3. QED
    BY <1>1, <2>1, <2>2 DEF LiveAt
<1>10. ASSUME GoodAt(afd) PROVE GoodAt(afd)'
  <2>1. TableAt(afd) /\ LiveAt(afd) /\ StreamAt(afd) /\ clients[afd].live
    BY <1>9, <1>10 DEF GoodAt
  <2>2. /\ clients'[afd].conn = clients[afd].conn /\ clients'[afd].live
        /\ read[clients[afd].conn] = greeting[clients[afd].conn]
    BY <1>1, <1>2, <1>3, <1>9, <1>10
  <2>3. TableAt(afd)'
    BY <1>1, <2>1, <2>2 DEF TableAt, Adding, Erasing, Flushing
  <2>4. tfd = afd => tpc \notin {"send", "sent"}
    BY <2>1 DEF LiveAt
  <2>5. LiveAt(afd)'
    BY <1>1, <2>2, <2>4 DEF LiveAt, Adding
  <2>6. StreamAt(afd)'
    <3>1. Ends(afd, wire[clients[afd].conn], clients[afd].pending)
      BY <1>1, <2>1 DEF StreamAt
    <3>2. /\ (Handled(afd)' <=> Handled(afd)) /\ (Unhandled(afd)' <=> Unhandled(afd))
          /\ ~HalfSent(afd)'
      BY <1>1, <2>2, <2>4 DEF Handled, Unhandled, HalfSent
    <3>3. Ends(afd, wire[clients[afd].conn], clients[afd].pending)'
      BY <1>1, <1>10, <2>2, <3>1, <3>2 DEF Ends
    <3>4. QED
      BY <1>1, <1>10, <2>2, <3>3 DEF StreamAt
  <2>7. QED
    BY <2>3, <2>5, <2>6 DEF GoodAt
<1>11. ASSUME tpc # "undefined", NEW c \in Conns, wire'[c] # <<>>
       PROVE  \/ wire[c] # <<>> /\ (read[c] = greeting[c] => read'[c] = greeting[c])
              \/ read'[c] = greeting[c]
              \/ ~Sound /\ c = fdConn[tfd]
  <2>1. CASE c # fdConn[afd]
    BY <1>1, <1>11, <2>1
  <2>2. CASE c = fdConn[afd] /\ ~Pulled(afd)
    <3>1. GoodAt(afd)
      BY <1>1, <1>11, <2>2 DEF OthersInv
    <3>2. QED
      BY <1>1, <1>9, <2>2, <3>1
  <2>3. CASE c = fdConn[afd] /\ Pulled(afd)
    BY <2>3 DEF Pulled
  <2>4. QED
    BY <2>1, <2>2, <2>3
<1>12. accepted \in Nat /\ fdConn[afd] \in Nat /\ fdConn[afd] <= accepted
  BY <1>1, ServerBoundsAssumption DEF TypeOK, PeerTypes, KernelTypes, ConnsOnce
<1>13. \A c \in Conns : c > accepted => read'[c] = read[c] /\ wire'[c] = wire[c]
  <2>1. \A c \in Conns : c > accepted => c # fdConn[afd]
    BY <1>12 DEF Conns
  <2>2. QED
    BY <1>1, <2>1
<1>14. accepted <= accepted' /\ fdConn'[afd] = fdConn[afd]
  BY <1>1, <1>12
<1>15. QED
  BY <1>1, <1>2, <1>5, <1>6, <1>7, <1>8, <1>10, <1>11, <1>13, <1>14, OneFdStep

LEMMA FlushQueue ==
    ASSUME ServerInv, AcceptEntryValid, apc \in {"flush", "store"}
    PROVE  /\ TypeOK /\ afd \in Fds /\ afd \in InTable /\ clients[afd].pending \in Pieces
           /\ clients[afd].pending # <<>> =>
                /\ clients[afd].pending[1] \in Seq(Bytes)
                /\ Len(clients[afd].pending[1]) \in 1 .. MsgLen
                /\ Head(clients[afd].pending) = clients[afd].pending[1]
           /\ clients[afd].pending_bytes \in 0 .. SizeMod - 1
           /\ wire[clients[afd].conn] \in Seq(Bytes) /\ nmsgs \in Nat
           /\ GoodAt(afd) => /\ fdConn[afd] = clients[afd].conn
                             /\ PiecesJoin(wire[clients[afd].conn], clients[afd].pending,
                                           InFlight(afd), nmsgs)
<1>1. TypeOK /\ afd \in Fds /\ afd \in InTable
  BY DEF ServerInv, TypeOK, AcceptTypes, FlushInv, AcceptEntryValid, InTable
<1>2. clients[afd].pending \in Pieces /\ clients[afd].pending_bytes \in 0 .. SizeMod - 1
  BY <1>1, ClientFacts DEF Pieces
<1>3. ASSUME clients[afd].pending # <<>>
      PROVE  /\ clients[afd].pending[1] \in Seq(Bytes)
             /\ Len(clients[afd].pending[1]) \in 1 .. MsgLen
             /\ Head(clients[afd].pending) = clients[afd].pending[1]
  <2> DEFINE q == clients[afd].pending
  <2> HIDE DEF q
  <2>1. q \in Seq(Seq(Bytes)) /\ q # <<>> /\ \A i \in 1 .. Len(q) : Len(q[i]) \in 1 .. MsgLen
    BY <1>2, <1>3 DEF Pieces, q
  <2>2. 1 \in 1 .. Len(q)
    BY <2>1
  <2>3. Head(q) = q[1]
    BY <2>1
  <2>4. q[1] \in Seq(Bytes)
    BY <2>1, <2>2
  <2>5. QED
    BY <2>1, <2>2, <2>3, <2>4 DEF q
<1>4. ASSUME GoodAt(afd)
      PROVE  /\ fdConn[afd] = clients[afd].conn
             /\ PiecesJoin(wire[clients[afd].conn], clients[afd].pending, InFlight(afd), nmsgs)
  <2>1. TableAt(afd) /\ StreamAt(afd) /\ clients[afd].conn # 0
    BY <1>1, <1>4 DEF GoodAt, InTable
  <2>2. QED
    BY <2>1 DEF TableAt, StreamAt, Adding, Erasing
<1>5. wire[clients[afd].conn] \in Seq(Bytes) /\ nmsgs \in Nat
  BY <1>1, ClientFacts, ServerBoundsAssumption DEF TypeOK, TickTypes, InTable
<1>6. QED
  BY <1>1, <1>2, <1>3, <1>4, <1>5

LEMMA FlushSendStep ==
    ASSUME ServerInv, FlushSend
    PROVE  ServerInv'
<1>1. /\ apc = "flush" /\ AcceptEntryValid
      /\ UNCHANGED <<kernel, peers, nmsgs, tvars, clients, batch, slow, afd, aconn>>
  BY DEF FlushSend, AcceptUnchanged, peers
<1> DEFINE q == clients[afd].pending
           p(k) == SubSeq(Head(q), 1, k)
<1>2. /\ TypeOK /\ afd \in Fds /\ afd \in InTable /\ q \in Pieces
      /\ q # <<>> => /\ q[1] \in Seq(Bytes) /\ Len(q[1]) \in 1 .. MsgLen /\ Head(q) = q[1]
      /\ clients[afd].pending_bytes \in 0 .. SizeMod - 1
      /\ wire[clients[afd].conn] \in Seq(Bytes) /\ nmsgs \in Nat
      /\ GoodAt(afd) => /\ fdConn[afd] = clients[afd].conn
                        /\ PiecesJoin(wire[clients[afd].conn], q, InFlight(afd), nmsgs)
  BY <1>1, FlushQueue
<1>3. ASSUME apc' \in {"disarm", "events"}, UNCHANGED <<areg, asent, wire>> PROVE ServerInv'
  <2>1. TypeOK'
    BY <1>1, <1>2, <1>3, QuietTypes DEF TypeOK, AcceptTypes, KernelTypes, kernel
  <2>2. QED
    BY <1>1, <1>3, <2>1, QuietStep DEF ServerInv, kernel, peers
<1>4. CASE q = <<>>
  BY <1>3, <1>4 DEF FlushSend
<1>5. CASE q # <<>>
  <2>1. PICK k \in SendResults(afd, Len(Head(q))) :
           /\ Wrote(afd, p(k))
           /\ IF k > 0
                THEN apc' = "store" /\ asent' = k /\ areg' = clients[afd].pending_bytes
                ELSE apc' = "events" /\ UNCHANGED <<areg, asent>>
    BY <1>5 DEF FlushSend
  <2>2. k \in -1 .. Len(q[1]) /\ (k >= 0 => fdConn[afd] # 0) /\ Len(q[1]) \in Nat
    <3>1. Len(Head(q)) \in Nat /\ Head(q) = q[1]
      BY <1>2, <1>5
    <3>2. QED
      BY <1>2, <2>1, <3>1, SendResultsFacts
  <2>3. CASE k <= 0
    <3>1. p(k) = <<>>
      <4>1. q[1] \in Seq(Bytes) /\ p(k) = SubSeq(q[1], 1, k)
        BY <1>2, <1>5
      <4>2. QED
        BY <2>2, <2>3, <4>1
    <3>2. wire' = wire
      BY <2>1, <3>1 DEF Wrote
    <3>3. QED
      BY <1>3, <2>1, <2>2, <2>3, <3>2
  <2>4. CASE k > 0
    <3>1. apc' = "store" /\ asent' = k /\ areg' = clients[afd].pending_bytes
      BY <2>1, <2>4
    <3>2. k \in 1 .. Len(q[1]) /\ k \in 0 .. MsgLen /\ fdConn[afd] \in Conns
      <4>1. PICK len \in 1 .. MsgLen : len = Len(q[1])
        BY <1>2, <1>5
      <4>2. k \in -1 .. len
        BY <2>2, <4>1
      <4>3. k \in 1 .. len /\ k \in 0 .. MsgLen
        BY <2>4, <4>2, SizesAssumption
      <4>4. fdConn[afd] # 0
        BY <2>2, <2>4
      <4>5. fdConn[afd] \in Conns
        BY <1>2, <4>4, ServerBoundsAssumption DEF TypeOK, KernelTypes, Conns
      <4>6. QED
        BY <4>1, <4>3, <4>5
    <3>3. p(k) \in Seq(Bytes) /\ p(k) # <<>>
      <4> DEFINE h == q[1]
                 t == SubSeq(h, 1, k)
      <4>1. h \in Seq(Bytes) /\ k \in 1 .. Len(h) /\ Len(h) \in Nat
        BY <1>2, <1>5, <2>2, <3>2
      <4> HIDE DEF h
      <4>2. t \in Seq(Bytes) /\ Len(t) = k
        BY <4>1, PartFacts
      <4> HIDE DEF t
      <4>3. t # <<>>
        BY <4>2, <2>4
      <4>4. p(k) = t
        BY <1>2, <1>5 DEF h, t
      <4>5. QED
        BY <4>2, <4>3, <4>4
    <3>4. /\ wire' \in [Conns -> Seq(Bytes)]
          /\ wire'[fdConn[afd]] = wire[fdConn[afd]] \o p(k)
          /\ \A c \in Conns : c # fdConn[afd] => wire'[c] = wire[c]
      BY <1>2, <2>1, <3>2, <3>3, WireGrows
    <3>5. AcceptTypes' /\ TableTypes' /\ OnlyQueue(afd)
      <4>1. AcceptTypes'
        BY <1>1, <1>2, <3>1, <3>2 DEF TypeOK, AcceptTypes
      <4>2. TableTypes' /\ OnlyQueue(afd)
        BY <1>1, <1>2, Zenon DEF TypeOK, TableTypes, OnlyQueue
      <4>3. QED
        BY <4>1, <4>2
    <3>6. FlushInv'
      BY <1>1, <1>5, <3>1, <3>2 DEF ServerInv, FlushInv, AcceptEntryValid
    <3>7. ASSUME GoodAt(afd)
          PROVE  /\ PiecesJoin(wire'[clients[afd].conn], clients'[afd].pending, InFlight(afd)', nmsgs)
                 /\ \A e : EndsAt(wire[clients[afd].conn], clients[afd].pending, e)
                           => EndsAt(wire'[clients[afd].conn], clients'[afd].pending, e)
      <4> DEFINE w == wire[clients[afd].conn]
      <4>1. /\ fdConn[afd] = clients[afd].conn /\ w \in Seq(Bytes) /\ nmsgs \in Nat
            /\ PiecesJoin(w, q, 0, nmsgs)
        BY <1>1, <1>2, <3>7 DEF InFlight
      <4>2. PiecesJoin(w \o SubSeq(q[1], 1, k), q, k, nmsgs)
        BY <1>2, <1>5, <3>2, <4>1, FlushWrites
      <4>3. wire'[clients[afd].conn] = w \o SubSeq(q[1], 1, k)
        BY <1>2, <1>5, <3>4, <4>1
      <4>4. InFlight(afd)' = k /\ clients' = clients
        BY <1>1, <3>1 DEF InFlight
      <4> HIDE DEF q
      <4>5. \A e : EndsAt(w, q, e) => EndsAt(wire'[clients[afd].conn], q, e)
        BY <1>5 DEF EndsAt
      <4>6. QED
        BY <4>2, <4>3, <4>4, <4>5 DEF q
    <3>8. QED
      BY <1>1, <1>5, <3>1, <3>4, <3>5, <3>6, <3>7, FlushStep
  <2>5. QED
    BY <2>2, <2>3, <2>4
<1>6. QED
  BY <1>4, <1>5

LEMMA FlushStoreStep ==
    ASSUME ServerInv, FlushStore
    PROVE  ServerInv'
<1> DEFINE q    == clients[afd].pending
           rest == SubSeq(Head(q), asent + 1, Len(Head(q)))
           r    == IF rest = <<>> THEN Tail(q) ELSE <<rest>> \o Tail(q)
           n    == (areg - asent) % SizeMod
<1>1. /\ apc = "store" /\ AcceptEntryValid /\ apc' \in {"flush", "events"}
      /\ clients' = [clients EXCEPT ![afd].pending_bytes = n, ![afd].pending = r]
      /\ areg' = 0 /\ asent' = 0
      /\ UNCHANGED <<kernel, peers, nmsgs, tvars, batch, slow, afd, aconn, wire>>
  BY DEF FlushStore, AcceptUnchanged, peers
<1>2. /\ TypeOK /\ afd \in Fds /\ afd \in InTable /\ q \in Pieces
      /\ q # <<>> => /\ q[1] \in Seq(Bytes) /\ Len(q[1]) \in 1 .. MsgLen /\ Head(q) = q[1]
      /\ clients[afd].pending_bytes \in 0 .. SizeMod - 1
      /\ wire[clients[afd].conn] \in Seq(Bytes) /\ nmsgs \in Nat
      /\ GoodAt(afd) => /\ fdConn[afd] = clients[afd].conn
                        /\ PiecesJoin(wire[clients[afd].conn], q, InFlight(afd), nmsgs)
  BY <1>1, FlushQueue
<1>3. q # <<>> /\ asent \in 1 .. Len(q[1]) /\ aconn # 0
  BY <1>1 DEF ServerInv, FlushInv
<1>4. Head(q) = q[1]
  BY <1>2, <1>3
<1>5. n \in 0 .. SizeMod - 1 /\ 0 \in 0 .. SizeMod - 1
  <2>1. areg - asent \in Int
    BY <1>2, SizesAssumption DEF TypeOK, AcceptTypes
  <2>2. QED
    BY <2>1, SizesAssumption, SizeArithmetic
<1>6. /\ r \in Pieces
      /\ GoodAt(afd) => /\ PiecesJoin(wire[clients[afd].conn], r, 0, nmsgs)
                        /\ \A e : EndsAt(wire[clients[afd].conn], q, e)
                                    => EndsAt(wire[clients[afd].conn], r, e)
  <2>1. InFlight(afd) = asent
    BY <1>1 DEF InFlight
  <2>2. r = LET rs == SubSeq(q[1], asent + 1, Len(q[1]))
            IN  IF rs = <<>> THEN Tail(q) ELSE <<rs>> \o Tail(q)
    BY <1>4, Zenon
  <2>3. r \in Pieces
    BY <1>2, <1>3, <1>4, TakenPieces
  <2>4. QED
    BY <1>2, <1>3, <1>4, <2>1, <2>3, FlushTakes
<1> HIDE DEF n, r
<1>7. clients' = [clients EXCEPT ![afd] = WithQueue(clients[afd], r, n)]
  <2>1. clients[afd] \in Client
    BY <1>2, ClientFacts
  <2>2. [clients[afd] EXCEPT !.pending_bytes = n, !.pending = r] = WithQueue(clients[afd], r, n)
    BY <2>1, CountAndQueueSet, Zenon
  <2>3. QED
    BY <1>1, <2>2, Zenon
<1> HIDE DEF q
<1>8. TableTypes' /\ clients'[afd].pending = r /\ OnlyQueue(afd)
  BY <1>2, <1>5, <1>6, <1>7, QueueReplaced DEF Pieces
<1>9. AcceptTypes' /\ wire' \in [Conns -> Seq(Bytes)]
  BY <1>1, <1>2, <1>5, SizesAssumption DEF TypeOK, AcceptTypes
<1>10. FlushInv'
  BY <1>1, <1>3 DEF FlushInv
<1>11. ASSUME GoodAt(afd)
       PROVE  /\ PiecesJoin(wire'[clients[afd].conn], clients'[afd].pending, InFlight(afd)', nmsgs)
              /\ \A e : EndsAt(wire[clients[afd].conn], clients[afd].pending, e)
                        => EndsAt(wire'[clients[afd].conn], clients'[afd].pending, e)
  <2>1. InFlight(afd)' = 0 /\ wire' = wire
    BY <1>1 DEF InFlight
  <2>2. QED
    BY <1>6, <1>8, <1>11, <2>1 DEF q
<1>12. UNCHANGED <<kernel, peers, nmsgs, tvars, afd, aconn>> /\ wire' = wire
       /\ clients[afd].pending # <<>>
  BY <1>1, <1>3 DEF q
<1>13. \A c \in Conns : c # fdConn[afd] => wire'[c] = wire[c]
  BY <1>12
<1>14. QED
  BY <1>1, <1>8, <1>9, <1>10, <1>11, <1>12, <1>13, FlushStep

LEMMA AcceptCloseStep ==
    ASSUME ServerInv, AcceptClose
    PROVE  ServerInv'
<1>1. /\ apc = "close" /\ aconn' = clients[afd].conn
      /\ UNCHANGED <<peers, nmsgs, tvars, clients, batch, afd, areg, asent, wire>>
  BY DEF AcceptClose, AcceptUnchanged, peers
<1>2. TypeOK /\ afd \in Fds /\ aconn' \in 0 .. MaxConns
  <2>1. TypeOK /\ afd \in Fds
    BY DEF ServerInv, TypeOK, AcceptTypes
  <2>2. QED
    BY <1>1, <2>1, ClientFacts
<1>3. CASE afd \notin InTable
  <2>1. /\ apc' \in {"tick", "events"} /\ slow' \subseteq slow /\ UNCHANGED kernel
    BY <1>3 DEF AcceptClose, RemoveReturns
  <2>2. TypeOK'
    BY <1>1, <1>2, <2>1, QuietTypes DEF TypeOK, AcceptTypes, KernelTypes, kernel
  <2>3. QED
    BY <1>1, <2>1, <2>2, QuietStep DEF kernel, peers
<1>4. CASE afd \in InTable
  <2>1. apc' = "erase" /\ CloseFd(afd) /\ slow' = slow
    BY <1>4 DEF AcceptClose
  <2>2. KernelTypes' /\ fdConn'[afd] = 0 /\ \A g \in Fds : g # afd => fdConn'[g] = fdConn[g]
    BY <1>2, <2>1, CloseFacts
  <2>3. TypeOK'
    <3>1. PeerTypes' /\ TableTypes' /\ TickTypes'
      BY <1>1, <1>2 DEF TypeOK, PeerTypes, TableTypes, TickTypes, peers, tvars
    <3>2. AcceptTypes'
      BY <1>1, <1>2, <2>1 DEF TypeOK, AcceptTypes
    <3>3. QED
      BY <1>1, <1>2, <2>2, <3>1, <3>2 DEF TypeOK
  <2>4. /\ UNCHANGED <<accepted, greeting, read, nmsgs, tpc, ttodo, tfd, tconn, tsent>>
        /\ UNCHANGED <<clients, afd, asent, wire>>
        /\ accepted \in Nat /\ \A fd \in Fds : fdConn[fd] \in Nat
    BY <1>1, <1>2, ServerBoundsAssumption DEF peers, tvars, TypeOK, PeerTypes, KernelTypes
  <2>5. ConnsOnce'
    BY <1>1, <2>1, <2>2, <2>4 DEF ServerInv, ConnsOnce
  <2>6. FlushInv'
    BY <1>1, <1>4, <2>1 DEF FlushInv, InTable
  <2>7. Sound' <=> Sound
    BY <2>4 DEF Sound, TickEntryValid
  <2>8. ASSUME NEW fd \in Fds, fd # afd PROVE Kept(fd)
    BY <1>1, <2>1, <2>2, <2>4, <2>8 DEF Kept, Adding, Erasing, Flushing, InFlight
  <2>9. ASSUME GoodAt(afd) PROVE GoodAt(afd)'
    <3>1. TableAt(afd) /\ LiveAt(afd) /\ StreamAt(afd)
      BY <2>9 DEF GoodAt
    <3>2. TableAt(afd)'
      BY <1>1, <2>1, <2>2, <2>4 DEF TableAt, Adding, Erasing, Flushing
    <3>3. LiveAt(afd)'
      BY <2>1, <2>4, <3>1 DEF LiveAt, Adding
    <3>4. InFlight(afd)' = InFlight(afd)
      BY <1>1, <2>1 DEF InFlight
    <3>5. StreamAt(afd)'
      BY <2>4, <3>1, <3>4 DEF StreamAt, Ends, Handled, Unhandled, HalfSent
    <3>6. QED
      BY <3>2, <3>3, <3>5 DEF GoodAt
  <2>10. accepted <= accepted' /\ clients'[afd].conn = clients[afd].conn
    BY <2>4
  <2>11. UNCHANGED <<greeting, nmsgs, tvars>>
    BY <1>1 DEF peers
  <2>12. QED
    BY <1>2, <2>2, <2>3, <2>4, <2>5, <2>6, <2>7, <2>8, <2>9, <2>10, <2>11, OneFdStep
<1>5. QED
  BY <1>3, <1>4

LEMMA AcceptEraseStep ==
    ASSUME ServerInv, AcceptErase
    PROVE  ServerInv'
<1>1. /\ apc = "erase" /\ apc' \in {"tick", "events"} /\ slow' \subseteq slow
      /\ AcceptEntryValid /\ EraseEntry(afd)
      /\ UNCHANGED <<kernel, peers, nmsgs, tvars, batch, afd, aconn, areg, asent, wire>>
  BY DEF AcceptErase, RemoveReturns, AcceptUnchanged, peers
<1>2. /\ TypeOK /\ ConnsOnce /\ TickInv /\ OthersInv
      /\ afd \in Fds /\ tfd \in Fds /\ accepted \in Nat /\ tconn \in Nat
  BY ServerBoundsAssumption DEF ServerInv, TypeOK, AcceptTypes, TickTypes, PeerTypes
<1>3. /\ TableTypes' /\ clients'[afd].conn = 0 /\ clients'[afd] = NoClient
      /\ \A g \in Fds : g # afd => clients'[g] = clients[g]
  BY <1>1, <1>2, EraseFacts
<1>4. /\ UNCHANGED <<fdConn, accepted, greeting, read, nmsgs, tpc, ttodo, tfd, tconn, tsent>>
      /\ UNCHANGED <<afd, asent, wire>>
  BY <1>1 DEF kernel, peers, tvars
<1>5. TypeOK'
  <2>1. KernelTypes' /\ PeerTypes' /\ TickTypes'
    BY <1>1, <1>2 DEF TypeOK, KernelTypes, PeerTypes, TickTypes, kernel, peers, tvars
  <2>2. AcceptTypes'
    BY <1>1, <1>2 DEF TypeOK, AcceptTypes
  <2>3. QED
    BY <1>1, <1>2, <1>3, <2>1, <2>2 DEF TypeOK
<1>6. ConnsOnce'
  BY <1>1, <1>2, <1>3, <1>4 DEF ConnsOnce
<1>7. FlushInv'
  BY <1>1 DEF FlushInv
<1>8. tpc \notin {"idle", "visit", "undefined"} => tconn # 0
  BY <1>2 DEF TickInv
<1>9. Sound' => Sound
  BY <1>2, <1>3, <1>4, <1>8 DEF Sound, TickEntryValid
<1>10. ASSUME Sound, ~Sound' PROVE fdConn'[tfd] = 0
  <2>1. tfd = afd /\ tpc # "undefined"
    BY <1>2, <1>3, <1>4, <1>10 DEF Sound, TickEntryValid
  <2>2. GoodAt(tfd)
    BY <1>2, <1>10, <2>1 DEF OthersInv, Pulled
  <2>3. QED
    BY <1>1, <1>4, <2>1, <2>2 DEF GoodAt, TableAt, Erasing
<1>11. ASSUME NEW fd \in Fds, fd # afd PROVE Kept(fd)
  BY <1>1, <1>3, <1>4, <1>11 DEF Kept, Adding, Erasing, Flushing, InFlight
<1>12. ASSUME tpc # "undefined", GoodAt(afd), ~Pulled(afd)' PROVE GoodAt(afd)'
  <2>1. fdConn[afd] = 0
    BY <1>1, <1>12 DEF GoodAt, TableAt, Erasing
  <2>2. tfd = afd => tpc \in {"idle", "visit"}
    BY <1>3, <1>4, <1>8, <1>12 DEF Pulled, Sound, TickEntryValid
  <2>3. TableAt(afd)' /\ StreamAt(afd)'
    BY <1>1, <1>3, <1>4, <2>1 DEF TableAt, StreamAt, Adding, Erasing, Flushing
  <2>4. LiveAt(afd)'
    BY <1>1, <1>3, <1>4, <2>2 DEF LiveAt, Adding
  <2>5. QED
    BY <2>3, <2>4 DEF GoodAt
<1>13. accepted <= accepted' /\ UNCHANGED <<greeting, nmsgs, tvars>>
  BY <1>1, <1>2, <1>4
<1>14. QED
  BY <1>2, <1>3, <1>4, <1>5, <1>6, <1>7, <1>9, <1>10, <1>11, <1>12, <1>13, OneFdStep

LEMMA AcceptThreadStep ==
    ASSUME ServerInv, AcceptThread
    PROVE  ServerInv'
<1>1. AcceptUseAfterErase => Undefined
  BY DEF AcceptUseAfterErase
<1>2. QED
  BY <1>1, EpollWaitStep, EventsStep, Accept4Step, AddClientStep, HandleInStep, HandleOutStep,
     FlushSendStep, FlushStoreStep, DisarmStep, AcceptCloseStep, AcceptEraseStep, UndefinedStep
  DEF AcceptThread

(***************************************************************************)
(* The queue in one piece.                                                 *)
(***************************************************************************)
LOCAL INSTANCE SequencesExt

\* f[i] is the first i pieces of q, joined.
Joins(f, q, n) == f = [i \in 1 .. n |-> IF i = 1 THEN q[i] ELSE f[i - 1] \o q[i]]

LEMMA JoinsExist ==
    ASSUME NEW q, NEW n \in Nat
    PROVE  \E f : Joins(f, q, n)
<1> SUFFICES ASSUME ~\E f : Joins(f, q, n) PROVE FALSE
  OBVIOUS
<1> DEFINE T == {k \in Nat : ~\E f : Joins(f, q, k)}
<1>1. PICK k \in T : \A j \in T : k <= j
  <2>1. n \in T /\ T \in SUBSET Nat
    BY Zenon
  <2> HIDE DEF T
  <2>2. QED
    BY <2>1, LeastElement
<1>2. k \in Nat /\ ~\E f : Joins(f, q, k)
  BY <1>1, Zenon
<1>3. CASE k = 0
  <2> DEFINE g == [i \in 1 .. 0 |-> 0]
  <2>1. g = [i \in 1 .. 0 |-> IF i = 1 THEN q[i] ELSE g[i - 1] \o q[i]]
    OBVIOUS
  <2>2. QED
    BY <1>2, <1>3, <2>1, Zenon DEF Joins
<1>4. CASE k # 0
  <2>1. k - 1 \in Nat /\ k - 1 \notin T
    BY <1>1, <1>2, <1>4
  <2>2. PICK f : Joins(f, q, k - 1)
    BY <2>1
  <2> DEFINE x == IF k = 1 THEN q[k] ELSE f[k - 1] \o q[k]
             g == [i \in 1 .. k |-> IF i = k THEN x ELSE f[i]]
  <2>3. \A i \in 1 .. k - 1 : f[i] = IF i = 1 THEN q[i] ELSE f[i - 1] \o q[i]
    <3>1. f = [i \in 1 .. k - 1 |-> IF i = 1 THEN q[i] ELSE f[i - 1] \o q[i]]
      BY <2>2, Zenon DEF Joins
    <3>2. QED
      BY <3>1, Zenon
  <2> HIDE DEF x
  <2>4. g[k] = x /\ \A i \in 1 .. k - 1 : g[i] = f[i]
    BY <1>2, <1>4
  <2>5. x = IF k = 1 THEN q[k] ELSE g[k - 1] \o q[k]
    <3>1. k # 1 => g[k - 1] = f[k - 1]
      BY <1>2, <1>4, <2>4
    <3>2. QED
      BY <3>1 DEF x
  <2>6. ASSUME NEW i \in 1 .. k
        PROVE  g[i] = IF i = 1 THEN q[i] ELSE g[i - 1] \o q[i]
    <3>1. CASE i = k
      BY <2>4, <2>5, <3>1, Zenon
    <3>2. CASE i # k
      <4>1. i \in 1 .. k - 1 /\ (i # 1 => i - 1 \in 1 .. k - 1)
        BY <1>2, <3>2
      <4>2. g[i] = f[i] /\ (i # 1 => g[i - 1] = f[i - 1])
        BY <2>4, <4>1, Zenon
      <4>3. QED
        BY <2>3, <4>1, <4>2, Zenon
    <3>3. QED
      BY <3>1, <3>2
  <2>7. g = [i \in 1 .. k |-> g[i]]
    BY Zenon
  <2>8. [i \in 1 .. k |-> g[i]] = [i \in 1 .. k |-> IF i = 1 THEN q[i] ELSE g[i - 1] \o q[i]]
    <3> HIDE DEF g
    <3>1. QED
      BY <2>6, Zenon
  <2>9. Joins(g, q, k)
    <3> HIDE DEF g
    <3>1. QED
      BY <2>7, <2>8, Zenon DEF Joins
  <2>10. QED
    BY <1>2, <2>9, Zenon
<1>5. QED
  BY <1>3, <1>4

\* The first i pieces of a queue that follow each other, joined, are contiguous.
Joined(f, q, i) ==
    /\ f[i] \in Seq(Bytes) /\ f[i] # <<>> /\ Contiguous(f[i])
    /\ f[i][1] = q[1][1] /\ LastOf(f[i]) = LastOf(q[i]) /\ Len(f[i]) >= Len(q[1])

LEMMA JoinedPieces ==
    ASSUME NEW q \in Pieces, q # <<>>, NEW f, Joins(f, q, Len(q)),
           \A i \in 1 .. Len(q) : Contiguous(q[i]),
           \A i \in 1 .. Len(q) - 1 : q[i + 1][1] = LastOf(q[i]) + 1
    PROVE  Joined(f, q, Len(q))
<1>1. /\ q \in Seq(Seq(Bytes)) /\ Len(q) \in Nat /\ Len(q) >= 1
      /\ \A i \in 1 .. Len(q) : q[i] \in Seq(Bytes) /\ Len(q[i]) \in 1 .. MsgLen
  BY DEF Pieces
<1>2. \A i \in 1 .. Len(q) : f[i] = IF i = 1 THEN q[i] ELSE f[i - 1] \o q[i]
  <2>1. f = [i \in 1 .. Len(q) |-> IF i = 1 THEN q[i] ELSE f[i - 1] \o q[i]]
    BY Zenon DEF Joins
  <2>2. QED
    BY <2>1, Zenon
<1> SUFFICES ASSUME ~Joined(f, q, Len(q)) PROVE FALSE
  OBVIOUS
<1> DEFINE T == {i \in 1 .. Len(q) : ~Joined(f, q, i)}
<1>3. PICK k \in T : \A j \in T : k <= j
  <2>1. Len(q) \in T /\ T \in SUBSET Nat
    BY <1>1
  <2> HIDE DEF T
  <2>2. QED
    BY <2>1, LeastElement
<1>4. k \in 1 .. Len(q) /\ k \in Nat /\ ~Joined(f, q, k)
  BY <1>3
<1>5. q[k] \in Seq(Bytes) /\ q[k] # <<>> /\ Contiguous(q[k]) /\ Len(q[k]) \in Nat
  <2>1. q[k] \in Seq(Bytes) /\ Contiguous(q[k]) /\ Len(q[k]) \in 1 .. MsgLen
    BY <1>1, <1>4
  <2>2. QED
    BY <2>1
<1>6. CASE k = 1
  <2>1. f[k] = q[k]
    BY <1>2, <1>4, <1>6, Zenon
  <2>2. Joined(f, q, k)
    BY <1>5, <1>6, <2>1 DEF Joined
  <2>3. QED
    BY <1>4, <2>2
<1>7. CASE k # 1
  <2>1. k - 1 \in 1 .. Len(q) - 1 /\ k - 1 \in 1 .. Len(q) /\ (k - 1) + 1 = k
    BY <1>1, <1>4, <1>7
  <2>2. Joined(f, q, k - 1)
    BY <1>3, <1>4, <2>1
  <2> DEFINE s == f[k - 1]
             t == q[k]
  <2>3. /\ s \in Seq(Bytes) /\ s # <<>> /\ Contiguous(s) /\ s[1] = q[1][1]
        /\ LastOf(s) = LastOf(q[k - 1]) /\ Len(s) >= Len(q[1])
    BY <2>2, Zenon DEF Joined
  <2>4. f[k] = s \o t
    BY <1>2, <1>4, <1>7, Zenon
  <2>5. t[1] = LastOf(s) + 1
    BY <2>1, <2>3
  <2>6. t \in Seq(Bytes) /\ t # <<>> /\ Contiguous(t) /\ LastOf(t) = LastOf(q[k])
    BY <1>5
  <2> HIDE DEF s, t
  <2>7. /\ s \o t \in Seq(Bytes) /\ Contiguous(s \o t) /\ s \o t # <<>>
        /\ (s \o t)[1] = IF s = <<>> THEN t[1] ELSE s[1]
        /\ LastOf(s \o t) = LastOf(t)
    BY <2>3, <2>5, <2>6, ContiguousConcat
  <2>8. Len(s \o t) >= Len(q[1])
    <3>1. PICK a \in Nat : a = Len(s)
      BY <2>3
    <3>2. PICK b \in Nat : b = Len(t)
      BY <2>6
    <3>3. PICK c \in Nat : c = Len(q[1])
      BY <1>1
    <3>4. Len(s \o t) = a + b
      BY <2>3, <2>6, <3>1, <3>2, ConcatFacts
    <3>5. a >= c
      BY <2>3, <3>1, <3>3, Zenon
    <3>6. a + b >= c
      BY <3>5
    <3>7. QED
      BY <3>3, <3>4, <3>6, Zenon
  <2>9. Joined(f, q, k)
    BY <2>3, <2>4, <2>6, <2>7, <2>8, Zenon DEF Joined
  <2>10. QED
    BY <1>4, <2>9
<1>8. QED
  BY <1>6, <1>7

LEMMA FlattenedQueue ==
    ASSUME NEW q \in Pieces, q # <<>>,
           \A i \in 1 .. Len(q) : Contiguous(q[i]),
           \A i \in 1 .. Len(q) - 1 : q[i + 1][1] = LastOf(q[i]) + 1
    PROVE  LET s == FlattenSeq(q)
           IN  /\ s \in Seq(Bytes) /\ s # <<>> /\ Contiguous(s) /\ s[1] = q[1][1]
               /\ LastOf(s) = LastOf(LastOf(q)) /\ Len(s) >= Len(q[1])
<1> DEFINE F == CHOOSE f : Joins(f, q, Len(q))
<1>1. Len(q) \in Nat /\ Len(q) # 0
  BY DEF Pieces
<1>2. Joins(F, q, Len(q))
  BY <1>1, JoinsExist, Zenon
<1>3. FlattenSeq(q) = F[Len(q)]
  BY <1>1, Zenon DEF FlattenSeq, Joins
<1> HIDE DEF F
<1>4. Joined(F, q, Len(q))
  BY <1>2, JoinedPieces
<1>5. QED
  BY <1>3, <1>4, Zenon DEF Joined, LastOf

\* What was written and what is left of the queue, in one piece.
Whole(w, q, n) == w \o SubSeq(FlattenSeq(q), n + 1, Len(FlattenSeq(q)))

\* ... is contiguous, begins with a message and ends where the queue does.
WholeStream(s, w, q, m) ==
    /\ s \in Seq(Bytes) /\ Contiguous(s)
    /\ s # <<>> => FirstByte(s[1], m)
    /\ \A e : EndsAt(w, q, e) /\ s # <<>> => LastOf(s) = e

LEMMA JoinedStream ==
    ASSUME NEW w \in Seq(Bytes), NEW q \in Pieces, NEW n \in Nat, NEW m \in Nat,
           q # <<>> => n <= Len(q[1]), q = <<>> => n = 0,
           PiecesJoin(w, q, n, m)
    PROVE  WholeStream(Whole(w, q, n), w, q, m)
<1> DEFINE X == FlattenSeq(q)
           p == SubSeq(X, n + 1, Len(X))
<1>1. /\ Contiguous(w) /\ \A i \in 1 .. Len(q) : Contiguous(q[i])
      /\ \A i \in 1 .. Len(q) - 1 : q[i + 1][1] = LastOf(q[i]) + 1
      /\ w # <<>> => FirstByte(w[1], m)
      /\ w # <<>> /\ q # <<>> => q[1][1] + n = LastOf(w) + 1
      /\ w = <<>> /\ q # <<>> => FirstByte(q[1][1], m) /\ n = 0
  BY Zenon DEF PiecesJoin
<1>2. Whole(w, q, n) = w \o p
  BY DEF Whole
<1>3. ASSUME p = <<>> PROVE Whole(w, q, n) = w
  <2>1. w \o <<>> = w
    OBVIOUS
  <2>2. QED
    BY <1>2, <1>3, <2>1
<1>4. CASE q = <<>>
  <2>1. X = <<>>
    BY <1>4 DEF FlattenSeq
  <2>2. p = <<>>
    BY <1>4, <2>1
  <2>3. Whole(w, q, n) = w
    BY <1>3, <2>2
  <2>4. WholeStream(w, w, q, m)
    BY <1>1, <1>4, Zenon DEF WholeStream, EndsAt
  <2>5. QED
    BY <2>3, <2>4, Zenon
<1>5. CASE q # <<>>
  <2>1. /\ X \in Seq(Bytes) /\ X # <<>> /\ Contiguous(X) /\ X[1] = q[1][1]
        /\ LastOf(X) = LastOf(LastOf(q)) /\ Len(X) >= Len(q[1])
    BY <1>1, <1>5, FlattenedQueue
  <2> HIDE DEF X
  <2>2. PICK b \in Nat : b = X[1]
    BY <2>1, ByteFacts
  <2>3. PICK l \in Nat : l = Len(X) /\ l > 0
    BY <2>1, ByteFacts
  <2>4. n <= l
    <3>1. q[1] \in Seq(Bytes)
      BY <1>5 DEF Pieces
    <3>2. PICK c \in Nat : c = Len(q[1])
      BY <3>1
    <3>3. n <= c /\ l >= c
      BY <1>5, <2>1, <2>3, <3>2, Zenon
    <3>4. QED
      BY <3>3
  <2>5. LastOf(X) = b + l - 1
    BY <2>1, <2>2, <2>3, SMTT(30) DEF Contiguous, LastOf
  <2>6. w # <<>> => b + n = LastOf(w) + 1
    BY <1>1, <1>5, <2>1, <2>2, Zenon
  <2>7. CASE n < l
    <3>1. /\ p \in Seq(Bytes) /\ Contiguous(p) /\ p # <<>>
          /\ p[1] = X[1] + (n + 1) - 1 /\ LastOf(p) = X[1] + l - 1
      <4>1. n + 1 \in 1 .. Len(X) /\ Len(X) \in n + 1 .. Len(X)
        BY <2>3, <2>7
      <4>2. QED
        BY <2>1, <2>3, <4>1, ContiguousPart
    <3> HIDE DEF p
    <3>2. p[1] = b + n /\ LastOf(p) = LastOf(X)
      BY <2>2, <2>5, <3>1
    <3>3. w # <<>> => p[1] = LastOf(w) + 1
      BY <2>6, <3>2, Zenon
    <3>4. /\ w \o p \in Seq(Bytes) /\ Contiguous(w \o p) /\ w \o p # <<>>
          /\ (w \o p)[1] = IF w = <<>> THEN p[1] ELSE w[1]
          /\ LastOf(w \o p) = LastOf(p)
      BY <1>1, <3>1, <3>3, ContiguousConcat
    <3>5. FirstByte((w \o p)[1], m)
      <4>1. CASE w = <<>>
        <5>1. n = 0 /\ FirstByte(b, m)
          BY <1>1, <1>5, <2>1, <2>2, <4>1, Zenon
        <5>2. b + n = b
          BY <5>1
        <5>3. QED
          BY <3>2, <3>4, <4>1, <5>1, <5>2, Zenon
      <4>2. CASE w # <<>>
        BY <1>1, <3>4, <4>2, Zenon
      <4>3. QED
        BY <4>1, <4>2
    <3>6. \A e : EndsAt(w, q, e) => LastOf(w \o p) = e
      BY <1>5, <2>1, <3>2, <3>4, Zenon DEF EndsAt
    <3>7. WholeStream(w \o p, w, q, m)
      BY <3>4, <3>5, <3>6, Zenon DEF WholeStream
    <3>8. QED
      BY <1>2, <3>7, Zenon
  <2>8. CASE n = l
    <3>1. p = <<>>
      <4>1. n + 1 > Len(X)
        BY <2>3, <2>8
      <4>2. QED
        BY <2>1, <2>3, <2>8, <4>1
    <3>2. w # <<>>
      BY <1>1, <1>5, <2>3, <2>8
    <3>3. LastOf(w) \in Nat
      BY <3>2, ByteFacts
    <3>4. LastOf(w) = LastOf(X)
      BY <2>5, <2>6, <2>8, <3>2, <3>3
    <3>5. WholeStream(w, w, q, m)
      BY <1>1, <1>5, <2>1, <3>2, <3>4, Zenon DEF WholeStream, EndsAt
    <3>6. QED
      BY <1>3, <3>1, <3>5, Zenon
  <2>9. QED
    BY <2>3, <2>4, <2>7, <2>8
<1>6. QED
  BY <1>4, <1>5

\* flush_queue has sent no more than the first piece of the queue.
LEMMA InFlightFacts ==
    ASSUME ServerInv, NEW fd \in Fds, GoodAt(fd)
    PROVE  /\ InFlight(fd) \in Nat
           /\ clients[fd].pending # <<>> => InFlight(fd) <= Len(clients[fd].pending[1])
           /\ clients[fd].pending = <<>> => InFlight(fd) = 0
<1>1. TypeOK /\ TableAt(fd)
  BY DEF ServerInv, GoodAt
<1>2. CASE apc = "store" /\ afd = fd
  <2>1. AcceptEntryValid
    BY <1>1, <1>2 DEF TableAt, Flushing, AcceptEntryValid
  <2>2. clients[fd].pending # <<>> /\ asent \in 1 .. Len(clients[fd].pending[1])
    BY <1>2, <2>1 DEF ServerInv, FlushInv
  <2>3. InFlight(fd) = asent
    BY <1>2 DEF InFlight
  <2>4. QED
    BY <2>2, <2>3
<1>3. CASE ~(apc = "store" /\ afd = fd)
  <2>1. InFlight(fd) = 0
    BY <1>3 DEF InFlight
  <2>2. clients[fd].pending # <<>> => Len(clients[fd].pending[1]) \in Nat
    BY <1>1, ClientFacts
  <2>3. QED
    BY <2>1, <2>2
<1>4. QED
  BY <1>2, <1>3

LEMMA UnbrokenStream == ServerInv => StreamUnbroken
<1> SUFFICES ASSUME ServerInv, tpc # "undefined", NEW fd \in InTable, ~Pulled(fd)
             PROVE  LET s == wire[clients[fd].conn] \o Unsent(fd)
                    IN  s # <<>> =>
                          /\ \A i \in 1 .. Len(s) - 1 : s[i + 1] = s[i] + 1
                          /\ \E m \in 1 .. nmsgs : s[1] = Message(m)[1]
                          /\ UpToDate(fd) => s[Len(s)] = nmsgs * MsgLen
  BY DEF StreamUnbroken
<1> DEFINE w == wire[clients[fd].conn]
           q == clients[fd].pending
           s == w \o Unsent(fd)
<1>1. /\ fd \in Fds /\ clients[fd].conn # 0 /\ clients[fd].conn \in Conns /\ TypeOK
      /\ GoodAt(fd) /\ nmsgs \in Nat /\ nmsgs <= MaxMsgs
  <2>1. fd \in Fds /\ clients[fd].conn # 0 /\ TypeOK /\ OthersInv
    BY DEF InTable, ServerInv
  <2>2. nmsgs \in Nat /\ nmsgs <= MaxMsgs
    BY <2>1, ServerBoundsAssumption DEF TypeOK, TickTypes
  <2>3. QED
    BY <2>1, <2>2, ClientFacts DEF OthersInv
<1>2. w \in Seq(Bytes) /\ q \in Pieces
  BY <1>1, ClientFacts DEF TypeOK, Pieces
<1>3. /\ PiecesJoin(w, q, InFlight(fd), nmsgs)
      /\ Handled(fd) => EndsAt(w, q, nmsgs * MsgLen)
  BY <1>1, Zenon DEF GoodAt, StreamAt, Ends
<1>4. s = Whole(w, q, InFlight(fd))
  BY DEF Unsent, Whole, InFlight
<1>5. WholeStream(s, w, q, nmsgs)
  <2> HIDE DEF w, q, s
  <2>1. /\ InFlight(fd) \in Nat /\ (q # <<>> => InFlight(fd) <= Len(q[1]))
        /\ q = <<>> => InFlight(fd) = 0
    BY <1>1, InFlightFacts DEF q
  <2>2. WholeStream(Whole(w, q, InFlight(fd)), w, q, nmsgs)
    BY <1>1, <1>2, <1>3, <2>1, JoinedStream
  <2>3. QED
    BY <1>4, <2>2, Zenon
<1>6. UpToDate(fd) => Handled(fd)
  BY DEF UpToDate, Handled
<1> HIDE DEF w, q, s
<1>7. /\ s \in Seq(Bytes) /\ Contiguous(s) /\ (s # <<>> => FirstByte(s[1], nmsgs))
      /\ UpToDate(fd) /\ s # <<>> => LastOf(s) = nmsgs * MsgLen
  BY <1>3, <1>5, <1>6, Zenon DEF WholeStream
<1>8. ASSUME s # <<>>, NEW i \in 1 .. Len(s) - 1 PROVE s[i + 1] = s[i] + 1
  <2>1. s[1] \in Nat /\ Len(s) \in Nat
    BY <1>7, <1>8, ByteFacts
  <2>2. i \in 1 .. Len(s) /\ i + 1 \in 1 .. Len(s)
    BY <2>1
  <2>3. s[i] = s[1] + i - 1 /\ s[i + 1] = s[1] + (i + 1) - 1
    BY <1>7, <2>2, Zenon DEF Contiguous
  <2>4. QED
    BY <2>1, <2>2, <2>3
<1>9. ASSUME s # <<>> PROVE \E m \in 1 .. nmsgs : s[1] = Message(m)[1]
  <2>1. PICK m \in 1 .. nmsgs : s[1] = (m - 1) * MsgLen + 1
    BY <1>7, <1>9 DEF FirstByte
  <2>2. m \in 1 .. MaxMsgs
    BY <1>1, ServerBoundsAssumption
  <2>3. 1 \in 1 .. MsgLen
    BY SizesAssumption
  <2>4. Message(m)[1] = (m - 1) * MsgLen + 1
    BY <2>2, <2>3, MessageFacts
  <2>5. QED
    BY <2>1, <2>4
<1>10. QED
  BY <1>7, <1>8, <1>9, Zenon DEF s, w, LastOf

-----------------------------------------------------------------------------
-----------------------------------------------------------------------------
(***************************************************************************)
(* The theorems.                                                           *)
(***************************************************************************)

LEMMA ServerStep == ServerInv /\ [Next]_vars => ServerInv'
<1> SUFFICES ASSUME ServerInv, [Next]_vars PROVE ServerInv'
  OBVIOUS
<1>1. CASE TickThread
  BY <1>1, TickThreadStep
<1>2. CASE AcceptThread
  BY <1>2, AcceptThreadStep
<1>3. CASE ClientConnects \/ ClientSends \/ ClientCloses
  BY <1>3, ClientsStep
<1>4. CASE UNCHANGED vars
  <2>1. UNCHANGED <<kernel, peers, clients, nmsgs, tvars, avars, wire>>
    BY <1>4 DEF vars
  <2>2. TypeOK'
    BY <2>1 DEF ServerInv, TypeOK, KernelTypes, PeerTypes, TableTypes, TickTypes, AcceptTypes,
       kernel, peers, tvars, avars
  <2>3. QED
    BY <2>1, <2>2, QuietStep DEF kernel, peers, avars
<1>5. QED
  BY <1>1, <1>2, <1>3, <1>4 DEF Next

LEMMA ServerInvariant == Spec => []ServerInv
BY ServerInit, ServerStep, PTL DEF Spec

\* Every variable keeps its type: the count of a queue stays a size_t, no piece
\* of a queue is empty or longer than a message, and no more is read of a
\* client's greeting than was sent.
THEOREM TypeCorrect == Spec => []TypeOK
<1>1. ServerInv => TypeOK
  BY DEF ServerInv
<1>2. QED
  BY <1>1, ServerInvariant, PTL

\* Up to the first use of an erased entry, and except for the client that one
\* of the threads is adding or removing, ClientManager's table holds exactly
\* the open descriptors, each with the connection it is open on, although both
\* threads close descriptors and the kernel uses them again.  The only
\* descriptor that may be out of order is the one being visited by broadcast,
\* once its client has been removed during the visit.
THEOREM TableConsistent == Spec => []TableMatchesFds
<1>1. ServerInv => TableMatchesFds
  <2>1. SUFFICES ASSUME ServerInv, tpc # "undefined", NEW fd \in Fds, ~Pulled(fd)
                 PROVE  \/ clients[fd].conn = fdConn[fd]
                        \/ apc \in {"add", "erase"} /\ fd = afd
    BY DEF TableMatchesFds
  <2>2. TableAt(fd)
    BY <2>1 DEF ServerInv, OthersInv, GoodAt
  <2>3. QED
    BY <2>2 DEF TableAt, Adding, Erasing
<1>2. QED
  BY <1>1, ServerInvariant, PTL

\* Up to the first use of an erased entry, a connection that was sent any byte
\* of the feed has been heard to the end of its client's first message, or it
\* was accepted, later than the client being visited by broadcast, on the
\* descriptor of that client, which was removed during the visit: send uses
\* the number of the descriptor alone, and this is the only way in which the
\* feed reaches anybody else.
THEOREM GreetingFirst == Spec => []NothingBeforeGreeting
<1>1. ServerInv => NothingBeforeGreeting
  BY DEF ServerInv
<1>2. QED
  BY <1>1, ServerInvariant, PTL

\* Up to the first use of an erased entry, what was written to a client and
\* what is queued for it, in one piece, is an unbroken run of the broadcast that
\* begins with a whole message and, once the client has had its turn, ends with
\* the last one: partial sends, the spill queue and its flushing by the other
\* thread lose, repeat or reorder no byte, also while other clients are removed
\* and their descriptors used again.
THEOREM FeedUnbroken == Spec => []StreamUnbroken
BY UnbrokenStream, ServerInvariant, PTL
=============================================================================
