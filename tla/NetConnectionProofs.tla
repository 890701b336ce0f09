------------------------- MODULE NetConnectionProofs -------------------------
(***************************************************************************)
(* Proofs about NetConnection, for any number of clients, messages and     *)
(* reads, for every net_type, with and without a proxy.                    *)
(***************************************************************************)
EXTENDS NetConnection, SequenceTheorems, TLAPS

RunnableNames == {"DoDnsResolve", "DoResolver", "DoCancel", "HandleCleanUp"}
Runnables == [run : RunnableNames, buffer : {Nothing}] \cup [run : {"DoSendFromQueue"}, buffer : Messages]
Callbacks == {"OnConnectOk", "OnConnectErr", "OnRecvData", "OnDisconnect"}
Connections ==
    [already_clean_up : BOOLEAN, socks5_client_ : BOOLEAN, dns_resolver_ : BOOLEAN,
     dns_delegate : BOOLEAN, send_buffers : Seq(Messages), ws_open : BOOLEAN, closed : BOOLEAN,
     ops : [Ops -> {"none", "pending", "ok", "err"}], pump : Seq(Runnables), recvs : Nat,
     asked : Seq(Messages), written : Seq(Messages), told : Seq(Callbacks), overlap : BOOLEAN]
Handlers == [at : {"idle", "notify", "callback"}, event : Callbacks,
             after : {"Nothing", "HandleCleanUp", "StartRecvDate", "DoRecvData"}]

Typing ==
    /\ net_type \in StreamTypes /\ proxy \in BOOLEAN
    /\ stoped_ \in BOOLEAN /\ delegate_ \in BOOLEAN
    /\ conn \in Connections /\ io \in Handlers
    /\ disc \in [Clients -> {"none", "returned", "set", "lock", "post", "done"}]
    /\ sending \in [Clients -> Messages \cup {Nothing}]
    /\ started \in BOOLEAN /\ held \in BOOLEAN

\* A DisConnect that is past the lock has cleared delegate_, outside of callbacks.
Cleared == \A c \in Clients : disc[c] \in {"post", "done"} => ~delegate_ /\ io.at # "callback"

\* The clean-up of a DisConnect comes; who lets go of the connection has
\* disconnected; no resolver outlives the clean-up, and none is made after it:
\* DoDnsResolve is the first runnable ever.
CleansUp ==
    /\ \A c \in Clients : disc[c] = "done" =>
          conn.already_clean_up \/ \E i \in DOMAIN conn.pump : conn.pump[i] = Runnable("HandleCleanUp")
    /\ ~held => \E c \in Clients : disc[c] = "done"
    /\ conn.dns_delegate => conn.dns_resolver_
    /\ conn.dns_resolver_ => ~conn.already_clean_up
    /\ ~started => conn.pump = <<>> /\ ~conn.already_clean_up /\ \A c \in Clients : disc[c] = "none"
    /\ \A i \in DOMAIN conn.pump : conn.pump[i].run = "DoDnsResolve" => i = 1 /\ ~conn.already_clean_up

\* The operations that follow each other from Connect to the last read.
Line == Ops \ {"send"}
Handshake == Line \ {"recv"}
StartsLine(r) == r.run \in {"DoDnsResolve", "DoResolver"}
NoLine == \A op \in Line : conn.ops[op] = "none"
NoStart == \A i \in DOMAIN conn.pump : ~StartsLine(conn.pump[i])

\* There is one activity on the line at a time: a runnable that starts it, an
\* operation, or a handler that will start the next one.
OneLine ==
    /\ \A p, q \in Line : conn.ops[p] # "none" /\ conn.ops[q] # "none" => p = q
    /\ \A i, j \in DOMAIN conn.pump : StartsLine(conn.pump[i]) /\ StartsLine(conn.pump[j]) => i = j
    /\ ~NoStart => NoLine
    /\ ~started => io.at = "idle" /\ NoLine
    /\ io.at # "idle" =>
         /\ started /\ NoStart
         /\ io.event = "OnDisconnect" => io.after = "HandleCleanUp"
         /\ io.event = "OnConnectErr" => io.after \in {"HandleCleanUp", "Nothing"}
         /\ io.event # "OnDisconnect" => NoLine
    /\ conn.ops["send"] # "none" => conn.send_buffers # <<>>
    /\ ~conn.overlap

\* The delegate has heard of a successful OnConnect.
OkTold == conn.told # <<>> /\ conn.told[1] = "OnConnectOk"

\* Until the connect result is reported nothing is told; data and the
\* disconnection are behind a reported success, unless the delegate is gone.
Told ==
    /\ ~started \/ ~NoStart \/ (\E op \in Handshake : conn.ops[op] # "none") => conn.told = <<>>
    /\ io.at = "notify" /\ io.event \in {"OnConnectOk", "OnConnectErr"} => conn.told = <<>>
    /\ io.at = "callback" /\ io.event \in {"OnConnectOk", "OnConnectErr"} => conn.told = <<io.event>>
    /\ io.at # "idle" /\ io.event \in {"OnRecvData", "OnDisconnect"} => OkTold \/ ~delegate_
    /\ conn.ops["recv"] # "none" => OkTold \/ ~delegate_
    /\ conn.ops["send"] # "none" \/ conn.send_buffers # <<>> => OkTold
    /\ \A i \in DOMAIN conn.pump : conn.pump[i].run = "DoSendFromQueue" => OkTold
    /\ \A c \in Clients : sending[c] # Nothing => OkTold
    /\ CallbackOrder

\* Each message is posted once.
Distinct ==
    /\ \A i, j \in DOMAIN conn.asked : conn.asked[i] = conn.asked[j] => i = j
    /\ \A c \in Clients : sending[c] # Nothing =>
         /\ \A i \in DOMAIN conn.asked : conn.asked[i] # sending[c]
         /\ \A d \in Clients : sending[d] = sending[c] => d = c

SendRunnable(m) == [run |-> "DoSendFromQueue", buffer |-> m]

\* How many messages have left the pump's queue; the front of send_buffers is
\* written already.
Taken(written, buffers) == IF buffers = <<>> THEN Len(written) ELSE Len(written) + Len(buffers) - 1

\* What was written is the beginning of what was asked for.
Wrote(asked, written) ==
    /\ Len(written) <= Len(asked)
    /\ \A i \in DOMAIN written : written[i] = asked[i]

\* What waits in send_buffers comes next.
Waiting(asked, written, buffers) ==
    /\ Taken(written, buffers) <= Len(asked)
    /\ buffers # <<>> => written # <<>>
    /\ \A k \in DOMAIN buffers : buffers[k] = asked[Len(written) - 1 + k]

\* The rest, from the message after the first t, is in the pump's queue, in the
\* same order.
AllQueued(asked, t, pump) ==
    \A j \in DOMAIN asked : j > t => \E i \in DOMAIN pump : pump[i] = SendRunnable(asked[j])
OnlyQueued(asked, t, pump) ==
    \A i \in DOMAIN pump : pump[i].run = "DoSendFromQueue" =>
      \E j \in DOMAIN asked : j > t /\ pump[i] = SendRunnable(asked[j])
QueuedInOrder(asked, pump) ==
    \A i, k \in DOMAIN pump : \A j, l \in DOMAIN asked :
      i < k /\ pump[i] = SendRunnable(asked[j]) /\ pump[k] = SendRunnable(asked[l]) => j < l

Queued(asked, t, pump) == AllQueued(asked, t, pump) /\ OnlyQueued(asked, t, pump) /\ QueuedInOrder(asked, pump)

InOrder ==
    /\ Wrote(conn.asked, conn.written)
    /\ ~conn.already_clean_up =>
         /\ Waiting(conn.asked, conn.written, conn.send_buffers)
         /\ Queued(conn.asked, Taken(conn.written, conn.send_buffers), conn.pump)

IInv == Typing /\ Cleared /\ CleansUp /\ OneLine /\ Told /\ Distinct /\ InOrder

-----------------------------------------------------------------------------
(* What the functions of conn do to the fields the invariant speaks of.    *)

KeepsSends(c, d) == d.send_buffers = c.send_buffers /\ d.asked = c.asked /\ d.written = c.written
KeepsResolver(c, d) == d.dns_resolver_ = c.dns_resolver_ /\ d.dns_delegate = c.dns_delegate
KeepsOps(c, d) == (\A op \in Ops : d.ops[op] = "none" <=> c.ops[op] = "none") /\ d.overlap = c.overlap
CleanUps == {Runnable("DoCancel"), Runnable("HandleCleanUp")}
KeepsPump(c, d) == d.pump = c.pump \/ \E r \in CleanUps : d.pump = Append(c.pump, r)

\* Starting an asynchronous operation touches that operation only.
LEMMA StartOpEffect ==
    ASSUME NEW c \in Connections, NEW op \in Ops
    PROVE  LET d == StartOp(c, op)
           IN  /\ d \in Connections /\ KeepsSends(c, d) /\ KeepsResolver(c, d)
               /\ d.pump = c.pump /\ d.told = c.told /\ d.already_clean_up = c.already_clean_up
               /\ d.ops[op] # "none" /\ \A p \in Ops \ {op} : d.ops[p] = c.ops[p]
               /\ d.overlap = (c.overlap \/ c.ops[op] # "none")
  BY DEF StartOp, Connections, KeepsSends, KeepsResolver

\* Closing the socket ends no operation by itself: its handler still runs.
LEMMA CloseSocketEffect ==
    ASSUME NEW c \in Connections
    PROVE  LET d == CloseSocket(c)
           IN  /\ d \in Connections /\ KeepsSends(c, d) /\ KeepsResolver(c, d) /\ KeepsOps(c, d)
               /\ d.pump = c.pump /\ d.told = c.told /\ d.already_clean_up = c.already_clean_up
  BY DEF CloseSocket, Connections, SocketOps, KeepsSends, KeepsResolver, KeepsOps

\* Nor does DoCleanUp of any of the stream classes.
LEMMA DoCleanUpEffect ==
    ASSUME NEW c \in Connections
    PROVE  LET d == DoCleanUp(c)
           IN  /\ d \in Connections /\ KeepsSends(c, d) /\ KeepsResolver(c, d) /\ KeepsOps(c, d)
               /\ d.pump = c.pump /\ d.told = c.told /\ d.already_clean_up = c.already_clean_up
  <1> DEFINE e == [c EXCEPT !.ws_open = FALSE]
  <1>1. /\ e \in Connections /\ KeepsSends(c, e) /\ KeepsResolver(c, e) /\ KeepsOps(c, e)
        /\ e.pump = c.pump /\ e.told = c.told /\ e.already_clean_up = c.already_clean_up
    BY DEF Connections, KeepsSends, KeepsResolver, KeepsOps
  <1>2. DoCleanUp(c) \in {c, CloseSocket(c), CloseSocket(e)}
    BY DEF DoCleanUp, WebsocketCleanUp, WebsocketTlsCleanUp, TcpCleanUp
  <1> HIDE DEF e
  <1>3. CASE DoCleanUp(c) = c
    BY <1>3 DEF KeepsSends, KeepsResolver, KeepsOps
  <1>4. CASE DoCleanUp(c) = CloseSocket(c)
    BY <1>4, CloseSocketEffect
  <1>5. CASE DoCleanUp(c) = CloseSocket(e)
    BY <1>1, <1>5, CloseSocketEffect DEF KeepsSends, KeepsResolver, KeepsOps
  <1> QED  BY <1>2, <1>3, <1>4, <1>5

\* Dropping the resolver cuts its pointer to the connection.
LEMMA DropResolverEffect ==
    ASSUME NEW c \in Connections
    PROVE  LET d == DropResolver(c)
           IN  /\ d \in Connections /\ KeepsSends(c, d) /\ KeepsOps(c, d) /\ d.ops = c.ops
               /\ KeepsPump(c, d) /\ d.told = c.told /\ d.already_clean_up = c.already_clean_up
               /\ ~d.dns_resolver_
               /\ d.dns_delegate => c.dns_delegate /\ ~c.dns_resolver_
  <1> DEFINE p == Append(c.pump, Runnable("DoCancel"))
  <1>1. p \in Seq(Runnables)
    BY AppendProperties DEF Connections, Runnable, Runnables, RunnableNames
  <1>2. CASE c.dns_resolver_
    <2>1. DropResolver(c) = [c EXCEPT !.dns_resolver_ = FALSE, !.dns_delegate = FALSE, !.pump = p]
      BY <1>2 DEF DropResolver, Post, Connections
    <2> QED  BY <1>1, <1>2, <2>1 DEF Connections, KeepsSends, KeepsOps, KeepsPump, CleanUps
  <1>3. CASE ~c.dns_resolver_
    BY <1>3 DEF DropResolver, KeepsSends, KeepsOps, KeepsPump
  <1> QED  BY <1>2, <1>3

\* The clean-up of a connection that is not cleaned up drops its resolver.
LEMMA HandleCleanUpEffect ==
    ASSUME NEW c \in Connections
    PROVE  LET d == HandleCleanUp(c)
           IN  /\ d \in Connections /\ KeepsSends(c, d) /\ KeepsOps(c, d)
               /\ KeepsPump(c, d) /\ d.told = c.told /\ d.already_clean_up
               /\ c.already_clean_up => KeepsResolver(c, d)
               /\ ~c.already_clean_up => ~d.dns_resolver_
               /\ ~c.already_clean_up /\ d.dns_delegate => c.dns_delegate /\ ~c.dns_resolver_
  <1> DEFINE a == [c EXCEPT !.already_clean_up = TRUE, !.socks5_client_ = FALSE]
             b == DropResolver(a)
  <1>1. CASE c.already_clean_up
    BY <1>1 DEF HandleCleanUp, KeepsSends, KeepsOps, KeepsPump, KeepsResolver
  <1>2. CASE ~c.already_clean_up
    <2>1. /\ a \in Connections /\ KeepsSends(c, a) /\ KeepsResolver(c, a) /\ KeepsOps(c, a)
          /\ a.pump = c.pump /\ a.told = c.told /\ a.already_clean_up
      BY DEF Connections, KeepsSends, KeepsResolver, KeepsOps
    <2>2. HandleCleanUp(c) = DoCleanUp(b)
      BY <1>2 DEF HandleCleanUp
    <2> HIDE DEF a
    <2>3. /\ b \in Connections /\ KeepsSends(a, b) /\ KeepsOps(a, b)
          /\ KeepsPump(a, b) /\ b.told = a.told /\ b.already_clean_up = a.already_clean_up
          /\ ~b.dns_resolver_ /\ (b.dns_delegate => a.dns_delegate /\ ~a.dns_resolver_)
      BY <2>1, DropResolverEffect
    <2> HIDE DEF b
    <2> DEFINE d == DoCleanUp(b)
    <2>4. /\ d \in Connections /\ KeepsSends(b, d) /\ KeepsResolver(b, d) /\ KeepsOps(b, d)
          /\ d.pump = b.pump /\ d.told = b.told /\ d.already_clean_up = b.already_clean_up
      BY <2>3, DoCleanUpEffect
    <2>5. HandleCleanUp(c) = d
      BY <2>2
    <2> HIDE DEF d
    <2>6. KeepsSends(c, d) /\ KeepsOps(c, d) /\ KeepsPump(c, d)
      BY <2>1, <2>3, <2>4 DEF KeepsSends, KeepsOps, KeepsPump
    <2> QED  BY <1>2, <2>1, <2>3, <2>4, <2>5, <2>6 DEF KeepsResolver
  <1> QED  BY <1>1, <1>2

\* DoSendData writes the front of send_buffers.
LEMMA DoSendDataEffect ==
    ASSUME NEW c \in Connections, c.send_buffers # <<>>
    PROVE  LET d == DoSendData(c)
           IN  /\ d \in Connections /\ KeepsResolver(c, d)
               /\ d.send_buffers = c.send_buffers /\ d.asked = c.asked
               /\ d.written = Append(c.written, Head(c.send_buffers))
               /\ d.pump = c.pump /\ d.told = c.told /\ d.already_clean_up = c.already_clean_up
               /\ d.ops["send"] # "none" /\ \A p \in Line : d.ops[p] = c.ops[p]
               /\ d.overlap = (c.overlap \/ c.ops["send"] # "none")
  <1> DEFINE s == StartOp(c, "send")
  <1>1. /\ s \in Connections /\ KeepsSends(c, s) /\ KeepsResolver(c, s)
        /\ s.pump = c.pump /\ s.told = c.told /\ s.already_clean_up = c.already_clean_up
        /\ s.ops["send"] # "none" /\ (\A p \in Ops \ {"send"} : s.ops[p] = c.ops[p])
        /\ s.overlap = (c.overlap \/ c.ops["send"] # "none")
    BY StartOpEffect DEF Ops
  <1>2. Head(c.send_buffers) \in Messages
    BY HeadTailProperties DEF Connections
  <1>3. DoSendData(c) = [s EXCEPT !.written = Append(s.written, Head(c.send_buffers))]
    BY DEF DoSendData
  <1> HIDE DEF s
  <1>4. Append(s.written, Head(c.send_buffers)) \in Seq(Messages)
    BY <1>1, <1>2, AppendProperties DEF Connections
  <1>5. DoSendData(c) \in Connections
    BY <1>1, <1>3, <1>4 DEF Connections
  <1>6. DoSendData(c).written = Append(c.written, Head(c.send_buffers))
    BY <1>1, <1>3 DEF Connections, KeepsSends
  <1>7. \A f \in {"send_buffers", "asked", "dns_resolver_", "dns_delegate", "pump", "told",
                  "already_clean_up", "ops", "overlap"} : DoSendData(c)[f] = s[f]
    BY <1>1, <1>3 DEF Connections
  <1> QED  BY <1>1, <1>5, <1>6, <1>7 DEF KeepsSends, KeepsResolver, Line

-----------------------------------------------------------------------------
(* Init, and the parts of the invariant that few steps disturb.            *)

USE DEF request, clientVars

\* A connection that nobody has used satisfies the invariant.
LEMMA InitIInv == Init => IInv
  <1> SUFFICES ASSUME Init PROVE IInv
    OBVIOUS
  <1>1. /\ conn.pump = <<>> /\ conn.asked = <<>> /\ conn.written = <<>> /\ conn.told = <<>>
        /\ conn.send_buffers = <<>> /\ ~conn.already_clean_up /\ ~conn.dns_delegate
        /\ ~conn.dns_resolver_ /\ ~conn.overlap /\ \A op \in Ops : conn.ops[op] = "none"
    BY DEF Init
  <1>2. conn \in Connections
    BY EmptySeq DEF Init, Connections
  <1>3. io \in Handlers
    BY DEF Init, Idle, Handlers, Callbacks
  <1>4. Typing
    BY <1>2, <1>3, RequestAssumption DEF Init, Typing
  <1>5. Cleared /\ CleansUp
    BY <1>1 DEF Init, Cleared, CleansUp, Idle
  <1>6. OneLine
    BY <1>1 DEF Init, OneLine, Idle, NoLine, NoStart, Line, Ops
  <1>7. Told
    BY <1>1 DEF Init, Told, Idle, CallbackOrder, NoStart, Handshake, Line, Ops
  <1>8. Distinct /\ InOrder
    BY <1>1 DEF Init, Distinct, InOrder, Taken, Wrote, Waiting,
                Queued, AllQueued, OnlyQueued, QueuedInOrder
  <1> QED  BY <1>4, <1>5, <1>6, <1>7, <1>8 DEF IInv

\* The indices of a sequence that got one more element.
LEMMA Appended ==
    ASSUME NEW S, NEW s \in Seq(S), NEW e \in S
    PROVE  /\ Append(s, e) \in Seq(S) /\ DOMAIN s = 1 .. Len(s)
           /\ DOMAIN Append(s, e) = 1 .. Len(s) + 1 /\ Len(Append(s, e)) = Len(s) + 1
           /\ Len(s) \in Nat
           /\ Append(s, e)[Len(s) + 1] = e /\ \A i \in DOMAIN s : Append(s, e)[i] = s[i]
  BY AppendProperties, LenProperties

\* A step that posts at most a clean-up keeps the queue's other runnables where
\* they are.
LEMMA PumpKept ==
    ASSUME Typing, KeepsPump(conn, conn')
    PROVE  /\ conn'.pump \in Seq(Runnables)
           /\ DOMAIN conn.pump \subseteq DOMAIN conn'.pump
           /\ \A i \in DOMAIN conn.pump : conn'.pump[i] = conn.pump[i]
           /\ \A i \in DOMAIN conn'.pump \ DOMAIN conn.pump : conn'.pump[i] \in CleanUps
           /\ DOMAIN conn.pump \subseteq Nat /\ DOMAIN conn'.pump \subseteq Nat
  <1>1. conn.pump \in Seq(Runnables) /\ CleanUps \subseteq Runnables
    BY DEF Typing, Connections, CleanUps, Runnable, Runnables, RunnableNames
  <1>2. CASE conn'.pump = conn.pump
    BY <1>1, <1>2, LenProperties
  <1>3. ASSUME NEW r \in CleanUps, conn'.pump = Append(conn.pump, r)
        PROVE  /\ conn'.pump \in Seq(Runnables) /\ DOMAIN conn.pump = 1 .. Len(conn.pump)
               /\ DOMAIN conn'.pump = 1 .. Len(conn.pump) + 1 /\ conn'.pump[Len(conn.pump) + 1] = r
               /\ \A i \in DOMAIN conn.pump : conn'.pump[i] = conn.pump[i]
               /\ Len(conn.pump) \in Nat
    BY <1>1, <1>3, Appended
  <1> QED  BY <1>2, <1>3 DEF KeepsPump

\* A runnable that is no send joins the queue.
LEMMA QueueOther ==
    ASSUME NEW asked \in Seq(Messages), NEW pump \in Seq(Runnables), NEW t \in Int, NEW r \in Runnables,
           Queued(asked, t, pump), r.run # "DoSendFromQueue"
    PROVE  Queued(asked, t, Append(pump, r))
  <1> DEFINE q == Append(pump, r)
  <1>1. /\ DOMAIN pump = 1 .. Len(pump) /\ DOMAIN q = 1 .. Len(pump) + 1 /\ Len(pump) \in Nat
        /\ q[Len(pump) + 1] = r /\ \A i \in DOMAIN pump : q[i] = pump[i]
    BY Appended
  <1>2. \A m : SendRunnable(m).run = "DoSendFromQueue"
    BY DEF SendRunnable
  <1> HIDE DEF q
  <1>3. \A i \in DOMAIN q : q[i].run = "DoSendFromQueue" => i \in DOMAIN pump /\ q[i] = pump[i]
    BY <1>1
  <1>4. AllQueued(asked, t, q)
    BY <1>1 DEF AllQueued, Queued
  <1>5. OnlyQueued(asked, t, q)
    BY <1>3 DEF OnlyQueued, Queued
  <1>6. QueuedInOrder(asked, q)
    BY <1>2, <1>3 DEF QueuedInOrder, Queued
  <1> QED  BY <1>4, <1>5, <1>6 DEF Queued, q

\* A message is asked for: its runnable joins the queue.
LEMMA QueueSend ==
    ASSUME NEW asked \in Seq(Messages), NEW pump \in Seq(Runnables), NEW t \in Int, NEW m \in Messages,
           Queued(asked, t, pump), t <= Len(asked), \A i \in DOMAIN asked : asked[i] # m
    PROVE  Queued(Append(asked, m), t, Append(pump, SendRunnable(m)))
  <1> DEFINE r == SendRunnable(m)
             p == Append(pump, r)
             a == Append(asked, m)
             n == Len(asked)
             q == Len(pump)
  <1>1. r \in Runnables /\ \A x, y : SendRunnable(x) = SendRunnable(y) => x = y
    BY DEF SendRunnable, Runnables, RunnableNames
  <1>2. /\ DOMAIN pump = 1 .. q /\ DOMAIN p = 1 .. q + 1 /\ q \in Nat
        /\ p[q + 1] = r /\ \A i \in DOMAIN pump : p[i] = pump[i]
    BY <1>1, Appended
  <1>3. /\ DOMAIN asked = 1 .. n /\ DOMAIN a = 1 .. n + 1 /\ n \in Nat
        /\ a[n + 1] = m /\ \A i \in DOMAIN asked : a[i] = asked[i]
    BY Appended
  <1> HIDE DEF p, a, n, q
  <1>4. ASSUME NEW i \in DOMAIN pump PROVE pump[i] # r
    BY <1>1 DEF Queued, OnlyQueued, SendRunnable
  <1>5. AllQueued(a, t, p)
    BY <1>2, <1>3 DEF AllQueued, Queued
  <1>6. OnlyQueued(a, t, p)
    <2> SUFFICES ASSUME NEW i \in DOMAIN p, p[i].run = "DoSendFromQueue"
                 PROVE  \E j \in DOMAIN a : j > t /\ p[i] = SendRunnable(a[j])
      BY DEF OnlyQueued
    <2>1. CASE i = q + 1
      <3>1. n + 1 \in DOMAIN a /\ n + 1 > t /\ p[i] = SendRunnable(a[n + 1])
        BY <1>2, <1>3, <2>1 DEF n
      <3> QED  BY <3>1
    <2>2. CASE i \in DOMAIN pump
      BY <1>2, <1>3, <2>2 DEF OnlyQueued, Queued
    <2> QED  BY <1>2, <2>1, <2>2
  <1>7. QueuedInOrder(a, p)
    <2> SUFFICES ASSUME NEW i \in DOMAIN p, NEW k \in DOMAIN p, NEW j \in DOMAIN a, NEW l \in DOMAIN a,
                        i < k, p[i] = SendRunnable(a[j]), p[k] = SendRunnable(a[l])
                 PROVE  j < l
      BY DEF QueuedInOrder
    <2>1. i \in DOMAIN pump
      BY <1>2
    <2>2. j \in DOMAIN asked
      BY <1>2, <1>3, <1>4, <2>1
    <2>3. CASE k \in DOMAIN pump
      <3>1. l \in DOMAIN asked
        BY <1>2, <1>3, <1>4, <2>3
      <3> QED  BY <1>2, <1>3, <2>1, <2>2, <2>3, <3>1 DEF QueuedInOrder, Queued
    <2>4. CASE k = q + 1
      <3>1. a[l] = m
        BY <1>1, <1>2, <2>4
      <3> QED  BY <1>3, <2>2, <3>1
    <2> QED  BY <1>2, <2>3, <2>4
  <1> QED  BY <1>5, <1>6, <1>7 DEF Queued, p, a

\* Another message is asked for: what waits stays in place.
LEMMA WaitingSend ==
    ASSUME NEW asked \in Seq(Messages), NEW written \in Seq(Messages), NEW buffers \in Seq(Messages),
           NEW m \in Messages, Waiting(asked, written, buffers)
    PROVE  Waiting(Append(asked, m), written, buffers)
  <1> DEFINE a == Append(asked, m)
             n == Len(asked)
             w == Len(written)
             b == Len(buffers)
             t == Taken(written, buffers)
  <1>1. /\ DOMAIN asked = 1 .. n /\ Len(a) = n + 1 /\ n \in Nat
        /\ \A i \in DOMAIN asked : a[i] = asked[i]
    BY Appended
  <1>2. DOMAIN buffers = 1 .. b /\ b \in Nat /\ w \in Nat
    BY LenProperties
  <1>3. /\ t <= n /\ (buffers # <<>> => t = w + b - 1 /\ w # 0) /\ t \in Int
        /\ \A k \in DOMAIN buffers : buffers[k] = asked[w - 1 + k]
    BY <1>2, EmptySeq DEF Waiting, Taken
  <1>4. b # 0 <=> buffers # <<>>
    BY EmptySeq
  <1> HIDE DEF a, n, w, b, t
  <1>5. ASSUME NEW k \in 1 .. b
        PROVE  buffers[k] = a[w - 1 + k]
    <2>1. w - 1 + k \in 1 .. n
      BY <1>1, <1>2, <1>3, <1>4
    <2> QED  BY <1>1, <1>2, <1>3, <2>1
  <1>6. t <= Len(a)
    BY <1>1, <1>3
  <1> QED  BY <1>2, <1>5, <1>6 DEF Waiting, t, w, b, a

\* A step that leaves the messages alone and posts at most a clean-up keeps
\* their order.
LEMMA InOrderKept ==
    ASSUME Typing, InOrder, KeepsSends(conn, conn'), KeepsPump(conn, conn'),
           conn.already_clean_up => conn'.already_clean_up
    PROVE  InOrder'
  <1>1. /\ CleanUps \subseteq Runnables /\ \A r \in CleanUps : r.run # "DoSendFromQueue"
        /\ Taken(conn.written, conn.send_buffers) \in Int
        /\ conn.pump \in Seq(Runnables) /\ conn.asked \in Seq(Messages)
    BY LenProperties DEF CleanUps, Runnable, Runnables, RunnableNames, Taken, Typing, Connections
  <1> QED  BY <1>1, QueueOther DEF InOrder, KeepsSends, KeepsPump

\* A step that posts at most a clean-up keeps the promise of the clean-up.
LEMMA CleansUpKept ==
    ASSUME Typing, CleansUp, KeepsPump(conn, conn'), UNCHANGED <<disc, held, started>>, started,
           conn.already_clean_up => conn'.already_clean_up,
           conn'.already_clean_up => conn.already_clean_up \/ NoStart,
           conn'.dns_resolver_ => conn.dns_resolver_ /\ ~conn'.already_clean_up,
           conn'.dns_delegate => conn'.dns_resolver_
    PROVE  CleansUp'
  <1>1. \A r \in CleanUps : r.run # "DoDnsResolve"
    BY DEF CleanUps, Runnable
  <1> QED  BY <1>1, PumpKept DEF CleansUp, NoStart, StartsLine

-----------------------------------------------------------------------------
(* The clients.                                                            *)

\* Posting a runnable puts it at the end of the queue.
LEMMA PostEffect ==
    ASSUME NEW c \in Connections, NEW r \in Runnables
    PROVE  LET d == Post(c, r)
           IN  /\ d \in Connections /\ KeepsSends(c, d) /\ KeepsResolver(c, d)
               /\ d.ops = c.ops /\ d.overlap = c.overlap /\ d.pump = Append(c.pump, r)
               /\ d.told = c.told /\ d.already_clean_up = c.already_clean_up
  <1>1. Append(c.pump, r) \in Seq(Runnables)
    BY Appended DEF Connections
  <1> QED  BY <1>1 DEF Post, Connections, KeepsSends, KeepsResolver

\* The runnables without a buffer are runnables.
LEMMA RunnableType ==
    ASSUME NEW n \in RunnableNames
    PROVE  Runnable(n) \in Runnables /\ Runnable(n).run = n
  BY DEF Runnable, Runnables

\* Connect posts DoDnsResolve; nothing was under way.
LEMMA ConnectInductive == ASSUME IInv, NEW c \in Clients, Connect(c) PROVE IInv'
  <1> DEFINE r == Runnable("DoDnsResolve")
  <1>1. r \in Runnables /\ r.run = "DoDnsResolve"
    BY RunnableType DEF RunnableNames
  <1> HIDE DEF r
  <1>2. /\ conn' \in Connections /\ KeepsSends(conn, conn') /\ KeepsResolver(conn, conn')
        /\ conn'.ops = conn.ops /\ conn'.overlap = conn.overlap
        /\ conn'.told = conn.told /\ conn'.already_clean_up = conn.already_clean_up
        /\ conn'.pump = Append(conn.pump, r)
    BY <1>1, PostEffect DEF Connect, IInv, Typing, r
  <1>3. conn.pump = <<>> /\ ~conn.already_clean_up /\ io.at = "idle" /\ NoLine /\ conn.told = <<>>
    BY DEF Connect, IInv, CleansUp, OneLine, Told
  <1>4. DOMAIN conn'.pump = {1} /\ conn'.pump[1] = r
    BY <1>1, <1>2, <1>3, AppendProperties, EmptySeq
  <1>5. Typing'
    BY <1>2 DEF IInv, Typing, Connect
  <1>6. Cleared'
    BY DEF IInv, Cleared, Connect
  <1>7. CleansUp'
    BY <1>1, <1>2, <1>3, <1>4 DEF IInv, Typing, CleansUp, Connect, KeepsResolver
  <1>8. OneLine'
    BY <1>2, <1>3, <1>4 DEF IInv, OneLine, Connect, NoLine, NoStart, KeepsSends
  <1>9. Told'
    BY <1>1, <1>2, <1>3, <1>4 DEF IInv, Told, Connect, KeepsSends, OkTold, CallbackOrder, Idle
  <1>10. Distinct' /\ InOrder'
    <2>1. /\ Taken(conn.written, conn.send_buffers) \in Int
          /\ conn.pump \in Seq(Runnables) /\ conn.asked \in Seq(Messages)
      BY LenProperties DEF Taken, IInv, Typing, Connections
    <2>2. Distinct'
      BY <1>2 DEF IInv, Distinct, Connect, KeepsSends
    <2>3. InOrder'
      BY <1>1, <1>2, <2>1, QueueOther DEF IInv, InOrder, KeepsSends
    <2> QED  BY <2>2, <2>3
  <1> QED  BY <1>5, <1>6, <1>7, <1>8, <1>9, <1>10 DEF IInv

\* A step that leaves conn and io alone, where at most the clients move.
LEMMA ConnUnchanged ==
    ASSUME IInv, UNCHANGED <<conn, io, started>>
    PROVE  /\ OneLine' /\ InOrder' /\ CallbackOrder'
           /\ (delegate_' => delegate_) /\ (\A d \in Clients : sending'[d] # Nothing => OkTold) => Told'
  <1>1. CallbackOrder' /\ (NoStart' <=> NoStart) /\ (OkTold' <=> OkTold)
    BY DEF IInv, Told, CallbackOrder, NoStart, OkTold
  <1>2. OneLine'
    BY DEF IInv, OneLine, NoLine, NoStart
  <1>3. InOrder'
    BY InOrderKept DEF IInv, KeepsSends, KeepsPump
  <1>4. ASSUME delegate_' => delegate_, \A d \in Clients : sending'[d] # Nothing => OkTold
        PROVE  Told'
    BY <1>1, <1>4 DEF IInv, Told
  <1> QED  BY <1>1, <1>2, <1>3, <1>4

\* A Send that begins holds a message nobody has asked to send yet.
LEMMA BeginSendInductive ==
    ASSUME IInv, NEW c \in Clients, NEW m \in Messages, BeginSend(c, m)
    PROVE  IInv'
  <1>1. OkTold /\ (\A d \in Clients : sending[d] # m) /\ \A i \in DOMAIN conn.asked : conn.asked[i] # m
    <2>1. conn.told \in Seq(Callbacks) /\ conn.asked \in Seq(Messages)
      BY DEF IInv, Typing, Connections
    <2> QED  BY <2>1, LenProperties
             DEF BeginSend, MaySend, Contains, IInv, Told, CallbackOrder, OkTold
  <1>2. Typing'
    BY DEF IInv, Typing, BeginSend
  <1>3. Cleared' /\ CleansUp'
    BY DEF IInv, Cleared, CleansUp, BeginSend
  <1>4. OneLine' /\ Told' /\ InOrder'
    BY <1>1, ConnUnchanged DEF BeginSend, IInv, Told, Typing
  <1>5. Distinct'
    BY <1>1 DEF IInv, Typing, Distinct, BeginSend
  <1> QED  BY <1>2, <1>3, <1>4, <1>5 DEF IInv

\* DisConnect's look at stoped_ changes nothing yet.
LEMMA CheckStopedInductive == ASSUME IInv, NEW c \in Clients, CheckStoped(c) PROVE IInv'
  <1>1. Typing' /\ Cleared'
    BY DEF IInv, Typing, Cleared, CheckStoped
  <1>2. CleansUp'
    BY DEF IInv, Typing, CleansUp, CheckStoped
  <1>3. OneLine' /\ Told' /\ InOrder'
    BY ConnUnchanged DEF CheckStoped, IInv, Told
  <1>4. Distinct'
    BY DEF IInv, Distinct, CheckStoped
  <1> QED  BY <1>1, <1>2, <1>3, <1>4 DEF IInv

\* stoped_ is set before the delegate is cleared.
LEMMA SetStopedInductive == ASSUME IInv, NEW c \in Clients, SetStoped(c) PROVE IInv'
  <1>1. Typing' /\ Cleared'
    BY DEF IInv, Typing, Cleared, SetStoped
  <1>2. CleansUp'
    BY DEF IInv, Typing, CleansUp, SetStoped
  <1>3. OneLine' /\ Told' /\ InOrder'
    BY ConnUnchanged DEF SetStoped, IInv, Told
  <1>4. Distinct'
    BY DEF IInv, Distinct, SetStoped
  <1> QED  BY <1>1, <1>2, <1>3, <1>4 DEF IInv

\* Clearing the delegate makes the promise of DisConnect: no callback runs.
LEMMA ClearDelegateInductive == ASSUME IInv, NEW c \in Clients, ClearDelegate(c) PROVE IInv'
  <1>1. Typing' /\ Cleared'
    BY DEF IInv, Typing, Cleared, ClearDelegate
  <1>2. CleansUp'
    BY DEF IInv, Typing, CleansUp, ClearDelegate
  <1>3. OneLine' /\ Told' /\ InOrder'
    BY ConnUnchanged DEF ClearDelegate, IInv, Told
  <1>4. Distinct'
    BY DEF IInv, Distinct, ClearDelegate
  <1> QED  BY <1>1, <1>2, <1>3, <1>4 DEF IInv

\* Dropping the last reference leaves the handlers that are still out.
LEMMA ReleaseInductive == ASSUME IInv, Release PROVE IInv'
  <1>1. Typing' /\ Cleared' /\ CleansUp'
    BY DEF IInv, Typing, Cleared, CleansUp, Release
  <1>2. OneLine' /\ Told' /\ InOrder'
    BY ConnUnchanged DEF Release, IInv, Told
  <1>3. Distinct'
    BY DEF IInv, Distinct, Release
  <1> QED  BY <1>1, <1>2, <1>3 DEF IInv

\* A step that posts at most a clean-up posts nothing that starts the line or
\* sends.
LEMMA LineKept ==
    ASSUME Typing, KeepsPump(conn, conn')
    PROVE  /\ NoStart' <=> NoStart
           /\ \A i \in DOMAIN conn'.pump :
                StartsLine(conn'.pump[i]) \/ conn'.pump[i].run = "DoSendFromQueue" =>
                    i \in DOMAIN conn.pump /\ conn'.pump[i] = conn.pump[i]
  <1>1. \A r \in CleanUps : ~StartsLine(r) /\ r.run # "DoSendFromQueue"
    BY DEF CleanUps, Runnable, StartsLine
  <1> QED  BY <1>1, PumpKept DEF NoStart

\* DisConnect posts HandleCleanUp behind everything posted before.
LEMMA PostCleanUpInductive == ASSUME IInv, NEW c \in Clients, PostCleanUp(c) PROVE IInv'
  <1> DEFINE r == Runnable("HandleCleanUp")
  <1>1. r \in Runnables /\ r.run = "HandleCleanUp"
    BY RunnableType DEF RunnableNames
  <1>2. /\ conn' \in Connections /\ KeepsSends(conn, conn') /\ KeepsResolver(conn, conn')
        /\ conn'.ops = conn.ops /\ conn'.overlap = conn.overlap
        /\ conn'.told = conn.told /\ conn'.already_clean_up = conn.already_clean_up
        /\ conn'.pump = Append(conn.pump, r)
    BY <1>1, PostEffect DEF PostCleanUp, IInv, Typing
  <1>3. KeepsPump(conn, conn')
    BY <1>2 DEF KeepsPump, CleanUps
  <1>4. Typing' /\ Cleared'
    BY <1>2 DEF IInv, Typing, Cleared, PostCleanUp
  <1>5. CleansUp'
    <2>0. /\ DOMAIN conn.pump = 1 .. Len(conn.pump) /\ DOMAIN conn'.pump = 1 .. Len(conn.pump) + 1
          /\ Len(conn.pump) \in Nat /\ conn'.pump[Len(conn.pump) + 1] = r
          /\ \A i \in DOMAIN conn.pump : conn'.pump[i] = conn.pump[i]
      BY <1>1, <1>2, Appended DEF IInv, Typing, Connections
    <2>1. /\ \E i \in DOMAIN conn'.pump : conn'.pump[i] = r
          /\ \A i \in DOMAIN conn'.pump \ DOMAIN conn.pump : conn'.pump[i] = r
          /\ DOMAIN conn.pump \subseteq DOMAIN conn'.pump
          /\ \A i \in DOMAIN conn.pump : conn'.pump[i] = conn.pump[i]
      BY <2>0
    <2>2. started
      BY DEF IInv, CleansUp, PostCleanUp
    <2> QED  BY <1>1, <1>2, <2>1, <2>2 DEF IInv, Typing, CleansUp, PostCleanUp, KeepsResolver
  <1>6. OneLine'
    BY <1>2, <1>3, LineKept DEF IInv, OneLine, PostCleanUp, NoLine, KeepsSends
  <1>7. Told'
    <2>1. (OkTold' <=> OkTold) /\ (CallbackOrder' <=> CallbackOrder)
      BY <1>2 DEF OkTold, CallbackOrder
    <2> QED  BY <1>2, <1>3, <2>1, LineKept DEF IInv, Told, PostCleanUp, KeepsSends
  <1>8. Distinct' /\ InOrder'
    BY <1>2, <1>3, InOrderKept DEF IInv, Distinct, PostCleanUp, KeepsSends
  <1> QED  BY <1>4, <1>5, <1>6, <1>7, <1>8 DEF IInv

\* What Send posts, as one step of whoever calls it.
LEMMA PostSendInductive ==
    ASSUME IInv, NEW m \in Messages, conn' = PostSend(m),
           UNCHANGED <<request, stoped_, delegate_, io, disc, started, held>>,
           OkTold, \A i \in DOMAIN conn.asked : conn.asked[i] # m,
           sending' \in [Clients -> Messages \cup {Nothing}],
           \A c \in Clients : sending'[c] # Nothing => sending'[c] = sending[c] /\ sending[c] # m
    PROVE  IInv'
  <1> DEFINE r == SendRunnable(m)
  <1>1. r \in Runnables /\ r.run = "DoSendFromQueue" /\ ~StartsLine(r)
    BY DEF SendRunnable, Runnables, RunnableNames, StartsLine
  <1>2. /\ conn' \in Connections /\ KeepsResolver(conn, conn')
        /\ conn'.send_buffers = conn.send_buffers /\ conn'.written = conn.written
        /\ conn'.asked = Append(conn.asked, m) /\ conn'.pump = Append(conn.pump, r)
        /\ conn'.ops = conn.ops /\ conn'.overlap = conn.overlap
        /\ conn'.told = conn.told /\ conn'.already_clean_up = conn.already_clean_up
    <2> DEFINE d == Post(conn, r)
    <2>1. conn' = [d EXCEPT !.asked = Append(d.asked, m)]
      BY DEF PostSend, SendRunnable
    <2>2. /\ d \in Connections /\ KeepsSends(conn, d) /\ KeepsResolver(conn, d)
          /\ d.ops = conn.ops /\ d.overlap = conn.overlap /\ d.pump = Append(conn.pump, r)
          /\ d.told = conn.told /\ d.already_clean_up = conn.already_clean_up
      BY <1>1, PostEffect DEF IInv, Typing
    <2> HIDE DEF d
    <2>3. Append(d.asked, m) \in Seq(Messages)
      BY <2>2, Appended DEF Connections
    <2> QED  BY <2>1, <2>2, <2>3 DEF Connections, KeepsSends, KeepsResolver
  <1>3. conn.pump \in Seq(Runnables) /\ conn.asked \in Seq(Messages) /\ conn.written \in Seq(Messages)
        /\ conn.send_buffers \in Seq(Messages)
    BY DEF IInv, Typing, Connections
  <1>4. /\ DOMAIN conn.pump = 1 .. Len(conn.pump) /\ DOMAIN conn'.pump = 1 .. Len(conn.pump) + 1
        /\ Len(conn.pump) \in Nat /\ conn'.pump[Len(conn.pump) + 1] = r
        /\ \A i \in DOMAIN conn.pump : conn'.pump[i] = conn.pump[i]
    BY <1>1, <1>2, <1>3, Appended
  <1>5. /\ DOMAIN conn.asked = 1 .. Len(conn.asked) /\ DOMAIN conn'.asked = 1 .. Len(conn.asked) + 1
        /\ Len(conn'.asked) = Len(conn.asked) + 1
        /\ Len(conn.asked) \in Nat /\ conn'.asked[Len(conn.asked) + 1] = m
        /\ \A i \in DOMAIN conn.asked : conn'.asked[i] = conn.asked[i]
    BY <1>2, <1>3, Appended
  <1> HIDE DEF r
  <1>6. Typing' /\ Cleared'
    BY <1>2 DEF IInv, Typing, Cleared
  <1>7. started
    BY DEF IInv, Told, OkTold
  <1>8. CleansUp'
    BY <1>1, <1>2, <1>4, <1>7 DEF IInv, CleansUp, KeepsResolver
  <1>9. OneLine'
    <2>1. NoStart' <=> NoStart
      BY <1>1, <1>4 DEF NoStart
    <2> QED  BY <1>1, <1>2, <1>4, <1>7, <2>1 DEF IInv, OneLine, NoLine
  <1>10. Told'
    <2>1. (NoStart' <=> NoStart) /\ OkTold' /\ (CallbackOrder' <=> CallbackOrder)
      BY <1>1, <1>2, <1>4 DEF NoStart, OkTold, CallbackOrder
    <2> QED  BY <1>2, <1>7, <2>1 DEF IInv, Told
  <1> DEFINE n == Len(conn.asked)
             q == Len(conn.pump)
  <1>11. Distinct'
    <2>1. ASSUME NEW i \in DOMAIN conn'.asked, NEW j \in DOMAIN conn'.asked, conn'.asked[i] = conn'.asked[j]
          PROVE  i = j
      <3>1. i \in 1 .. n + 1 /\ j \in 1 .. n + 1 /\ n \in Nat
        BY <1>5
      <3>2. CASE i = n + 1 /\ j # n + 1
        <4>1. j \in DOMAIN conn.asked
          BY <3>1, <3>2, <1>5
        <4> QED  BY <1>5, <2>1, <3>2, <4>1
      <3>3. CASE j = n + 1 /\ i # n + 1
        <4>1. i \in DOMAIN conn.asked
          BY <3>1, <3>3, <1>5
        <4> QED  BY <1>5, <2>1, <3>3, <4>1
      <3>4. CASE i # n + 1 /\ j # n + 1
        BY <1>5, <2>1, <3>1, <3>4 DEF IInv, Distinct
      <3> QED  BY <3>2, <3>3, <3>4
    <2>2. ASSUME NEW c \in Clients, sending'[c] # Nothing
          PROVE  /\ \A i \in DOMAIN conn'.asked : conn'.asked[i] # sending'[c]
                 /\ \A d \in Clients : sending'[d] = sending'[c] => d = c
      <3>1. ASSUME NEW i \in DOMAIN conn'.asked
            PROVE conn'.asked[i] # sending'[c]
       BY <1>5, <2>2 DEF IInv, Distinct
      <3>2. \A d \in Clients : sending'[d] = sending'[c] => d = c
       BY <2>2 DEF IInv, Distinct
      <3> QED BY <3>1, <3>2
    <2> QED  BY <2>1, <2>2 DEF Distinct
  <1>12. InOrder'
    <2> DEFINE w == Len(conn.written)
               b == Len(conn.send_buffers)
               t == Taken(conn.written, conn.send_buffers)
    <2>1. /\ t \in Int /\ w \in Nat /\ b \in Nat
          /\ DOMAIN conn.written = 1 .. w /\ DOMAIN conn.send_buffers = 1 .. b
      BY <1>3, LenProperties DEF Taken
    <2>2. Wrote(conn'.asked, conn'.written)
      BY <1>2, <1>5, <2>1 DEF IInv, InOrder, Wrote
    <2> SUFFICES ASSUME ~conn.already_clean_up
                 PROVE  /\ Waiting(conn'.asked, conn.written, conn.send_buffers)
                        /\ Queued(conn'.asked, t, conn'.pump)
      BY <1>2, <2>2 DEF InOrder
    <2>3. Waiting(conn.asked, conn.written, conn.send_buffers) /\ Queued(conn.asked, t, conn.pump)
      BY DEF IInv, InOrder
    <2>4. t <= n
      BY <2>3 DEF Waiting
    <2>5. Waiting(conn'.asked, conn.written, conn.send_buffers)
      BY <1>2, <1>3, <2>3, WaitingSend
    <2> QED  BY <1>2, <1>3, <2>1, <2>3, <2>4, <2>5, QueueSend DEF r
  <1> QED  BY <1>6, <1>8, <1>9, <1>10, <1>11, <1>12 DEF IInv

\* A Send that ends posts its buffer behind the earlier ones.
LEMMA EndSendInductive == ASSUME IInv, NEW c \in Clients, EndSend(c) PROVE IInv'
  <1>1. sending[c] \in Messages /\ OkTold /\ \A i \in DOMAIN conn.asked : conn.asked[i] # sending[c]
    BY DEF EndSend, IInv, Typing, Told, Distinct
  <1>2. /\ sending' \in [Clients -> Messages \cup {Nothing}]
        /\ \A d \in Clients : sending'[d] # Nothing => sending'[d] = sending[d] /\ sending[d] # sending[c]
    BY DEF EndSend, IInv, Typing, Distinct
  <1>3. conn' = PostSend(sending[c]) /\ UNCHANGED <<request, stoped_, delegate_, io, disc, started, held>>
    BY DEF EndSend
  <1> QED  BY <1>1, <1>2, <1>3, PostSendInductive

\* So does a Send from a callback.
LEMMA SendInCallbackInductive == ASSUME IInv, NEW m \in Messages, SendInCallback(m) PROVE IInv'
  <1>1. OkTold /\ (\A d \in Clients : sending[d] # m) /\ \A i \in DOMAIN conn.asked : conn.asked[i] # m
    <2>1. conn.told \in Seq(Callbacks) /\ conn.asked \in Seq(Messages)
      BY DEF IInv, Typing, Connections
    <2> QED  BY <2>1, LenProperties
             DEF SendInCallback, MaySend, Contains, IInv, Told, CallbackOrder, OkTold
  <1>2. /\ conn' = PostSend(m) /\ UNCHANGED <<request, stoped_, delegate_, io, disc, started, held>>
        /\ sending' = sending /\ sending \in [Clients -> Messages \cup {Nothing}]
    BY DEF SendInCallback, IInv, Typing
  <1> QED  BY <1>1, <1>2, PostSendInductive

-----------------------------------------------------------------------------
(* The completion handlers.                                                *)

\* What a handler makes of conn, apart from the operations.
Continues(d) ==
    /\ d \in Connections /\ KeepsSends(conn, d) /\ KeepsPump(conn, d) /\ d.told = conn.told
    /\ conn.already_clean_up => d.already_clean_up
    /\ d.dns_resolver_ => conn.dns_resolver_ /\ ~d.already_clean_up
    /\ d.dns_delegate => d.dns_resolver_

\* The functions of conn that a handler goes through.
LEMMA DoneContinues ==
    ASSUME IInv, NEW op \in Ops
    PROVE  /\ Continues(Done(op)) /\ Done(op).pump = conn.pump /\ Done(op).overlap = conn.overlap
           /\ Done(op).ops[op] = "none" /\ \A p \in Ops \ {op} : Done(op).ops[p] = conn.ops[p]
           /\ Done(op).already_clean_up = conn.already_clean_up
  BY DEF IInv, Typing, CleansUp, Connections, Done, Continues, KeepsSends, KeepsPump

\* Dropping the resolver starts and ends no operation.
LEMMA DropContinues ==
    ASSUME NEW c, Continues(c), c.pump = conn.pump
    PROVE  LET d == DropResolver(c) IN Continues(d) /\ d.ops = c.ops /\ d.overlap = c.overlap
  BY DropResolverEffect DEF Continues, KeepsSends, KeepsPump, KeepsOps

\* HandleCleanUp starts no operation; what is out completes aborted.
LEMMA CleanUpContinues ==
    ASSUME NEW c, Continues(c), c.pump = conn.pump
    PROVE  LET d == HandleCleanUp(c) IN Continues(d) /\ KeepsOps(c, d) /\ d.already_clean_up
  <1> DEFINE d == HandleCleanUp(c)
  <1>1. /\ d \in Connections /\ KeepsSends(c, d) /\ KeepsOps(c, d)
        /\ KeepsPump(c, d) /\ d.told = c.told /\ d.already_clean_up
        /\ c.already_clean_up => KeepsResolver(c, d)
        /\ ~c.already_clean_up => ~d.dns_resolver_
        /\ ~c.already_clean_up /\ d.dns_delegate => c.dns_delegate /\ ~c.dns_resolver_
    BY HandleCleanUpEffect DEF Continues
  <1> HIDE DEF d
  <1>2. KeepsSends(conn, d) /\ KeepsPump(conn, d)
    BY <1>1 DEF Continues, KeepsSends, KeepsPump
  <1>3. ~d.dns_resolver_ /\ ~d.dns_delegate
    BY <1>1 DEF Continues, KeepsResolver
  <1>4. Continues(d)
    BY <1>1, <1>2, <1>3 DEF Continues
  <1> QED  BY <1>1, <1>4 DEF d

\* Starting an operation adds that one; it overlaps only with its own kind.
LEMMA StartContinues ==
    ASSUME NEW c, Continues(c), NEW op \in Ops
    PROVE  LET d == StartOp(c, op)
           IN  /\ Continues(d) /\ d.pump = c.pump
               /\ d.ops[op] # "none" /\ \A p \in Ops \ {op} : d.ops[p] = c.ops[p]
               /\ d.overlap = (c.overlap \/ c.ops[op] # "none")
  <1> DEFINE d == StartOp(c, op)
  <1>1. /\ d \in Connections /\ KeepsSends(c, d) /\ KeepsResolver(c, d)
        /\ d.pump = c.pump /\ d.told = c.told /\ d.already_clean_up = c.already_clean_up
        /\ d.ops[op] # "none" /\ \A p \in Ops \ {op} : d.ops[p] = c.ops[p]
        /\ d.overlap = (c.overlap \/ c.ops[op] # "none")
    BY StartOpEffect DEF Continues
  <1> HIDE DEF d
  <1>2. Continues(d)
    BY <1>1 DEF Continues, KeepsSends, KeepsResolver, KeepsPump
  <1> QED  BY <1>1, <1>2 DEF d

\* Making or dropping the Socks5Client starts no operation of the connection.
LEMMA Socks5ClientContinues ==
    ASSUME NEW c, Continues(c), NEW b \in BOOLEAN
    PROVE  LET d == [c EXCEPT !.socks5_client_ = b]
           IN  /\ Continues(d) /\ d.pump = c.pump /\ d.ops = c.ops /\ d.overlap = c.overlap
               /\ d.already_clean_up = c.already_clean_up
  BY DEF Continues, Connections, KeepsSends, KeepsPump

\* What a handler leaves to prove.
LEMMA HandlerKeeps ==
    ASSUME IInv, Continues(conn'), io' \in Handlers, started,
           UNCHANGED <<request, stoped_, delegate_, clientVars>>,
           conn'.already_clean_up => conn.already_clean_up \/ NoStart
    PROVE  Typing' /\ CleansUp' /\ Distinct' /\ InOrder'
  <1>1. Typing'
    BY DEF IInv, Typing, Continues
  <1>2. CleansUp'
    BY CleansUpKept DEF IInv, Continues
  <1>3. Distinct'
    BY DEF IInv, Distinct, Continues, KeepsSends
  <1>4. InOrder'
    BY InOrderKept DEF IInv, Continues
  <1> QED  BY <1>1, <1>2, <1>3, <1>4

\* While an operation of the line is there, it is the only activity of the line.
LEMMA LineBusy ==
    ASSUME IInv, NEW op \in Line, conn.ops[op] # "none"
    PROVE  started /\ NoStart /\ \A p \in Line \ {op} : conn.ops[p] = "none"
  BY DEF IInv, OneLine, NoLine

\* While an operation of the handshake is there, nothing was told or sent.
LEMMA HandshakeQuiet ==
    ASSUME IInv, NEW op \in Handshake, conn.ops[op] # "none"
    PROVE  /\ conn.told = <<>> /\ ~OkTold /\ conn.send_buffers = <<>> /\ conn.ops["send"] = "none"
           /\ \A i \in DOMAIN conn.pump : conn.pump[i].run # "DoSendFromQueue"
           /\ \A c \in Clients : sending[c] = Nothing
  BY DEF IInv, Told, OkTold

ConnectEvents == {Notify("OnConnectOk", "StartRecvDate"),
                  Notify("OnConnectErr", "HandleCleanUp"), Notify("OnConnectErr", "Nothing")}

\* A handler of the handshake starts the next operation of it, or is about to
\* report the result.
LEMMA HandshakeStep ==
    ASSUME IInv, NEW op \in Handshake, Completes(op), Continues(conn'),
           UNCHANGED <<request, stoped_, delegate_, clientVars>>,
           conn'.ops["send"] = "none", conn'.ops["recv"] = "none", ~conn'.overlap,
           \/ io' = Idle /\ \E p \in Handshake : \A q \in Line \ {p} : conn'.ops[q] = "none"
           \/ io' \in ConnectEvents /\ \A q \in Line : conn'.ops[q] = "none"
    PROVE  IInv'
  <1>1. /\ started /\ NoStart /\ conn.told = <<>> /\ ~OkTold /\ conn.send_buffers = <<>>
        /\ \A i \in DOMAIN conn.pump : conn.pump[i].run # "DoSendFromQueue"
        /\ \A c \in Clients : sending[c] = Nothing
    BY LineBusy, HandshakeQuiet DEF Completes, Handshake
  <1>2. /\ io' \in Handlers /\ io'.at \in {"idle", "notify"}
        /\ io'.at = "notify" =>
             /\ \A q \in Line : conn'.ops[q] = "none"
             /\ io'.event \in {"OnConnectOk", "OnConnectErr"}
             /\ io'.event = "OnConnectErr" => io'.after \in {"HandleCleanUp", "Nothing"}
    BY DEF Idle, ConnectEvents, Notify, Handlers, Callbacks
  <1>3. Typing' /\ CleansUp' /\ Distinct' /\ InOrder'
    BY <1>1, <1>2, HandlerKeeps
  <1>4. Cleared'
    BY <1>2 DEF IInv, Cleared
  <1>5. NoStart' /\ \A i \in DOMAIN conn'.pump : ~StartsLine(conn'.pump[i]) /\ conn'.pump[i].run # "DoSendFromQueue"
    BY <1>1, LineKept DEF IInv, Continues, NoStart
  <1>6. OneLine'
    BY <1>1, <1>2, <1>5 DEF OneLine, NoLine
  <1>7. Told'
    <2>1. conn'.told = <<>> /\ conn'.send_buffers = <<>> /\ CallbackOrder'
      BY <1>1 DEF Continues, KeepsSends, CallbackOrder
    <2> QED  BY <1>1, <1>2, <1>5, <2>1 DEF Told
  <1> QED  BY <1>3, <1>4, <1>6, <1>7 DEF IInv

\* A handler of the handshake that has taken its result, with no operation left.
LEMMA HandshakeDone ==
    ASSUME IInv, NEW op \in Handshake, Completes(op)
    PROVE  /\ Continues(Done(op)) /\ Done(op).pump = conn.pump /\ ~Done(op).overlap
           /\ \A p \in Ops : Done(op).ops[p] = "none"
  <1>1. op \in Line /\ op \in Ops /\ conn.ops[op] # "none" /\ Ops = Line \cup {"send"}
    BY DEF Completes, Handshake, Line, Ops
  <1>2. conn.ops["send"] = "none" /\ \A p \in Line \ {op} : conn.ops[p] = "none"
    BY <1>1, LineBusy, HandshakeQuiet
  <1>3. ~conn.overlap
    BY DEF IInv, OneLine
  <1> QED  BY <1>1, <1>2, <1>3, DoneContinues

\* The step to the next operation of the handshake.
LEMMA NextOperation ==
    ASSUME IInv, NEW op \in Handshake, Completes(op), NEW p \in Handshake,
           NEW c, Continues(c), ~c.overlap, \A q \in Ops : c.ops[q] = "none",
           Handle(StartOp(c, p), Idle)
    PROVE  IInv'
  <1>1. p \in Ops /\ Line \subseteq Ops /\ "send" \in Ops \ {p} /\ "recv" \in Ops \ {p}
    BY DEF Handshake, Line, Ops
  <1>2. /\ Continues(conn') /\ ~conn'.overlap
        /\ \A q \in Ops \ {p} : conn'.ops[q] = "none"
    <2>1. conn' = StartOp(c, p)
      BY DEF Handle
    <2>2. c.ops[p] = "none"
      BY <1>1
    <2>3. /\ Continues(StartOp(c, p)) /\ \A q \in Ops \ {p} : StartOp(c, p).ops[q] = c.ops[q]
          /\ StartOp(c, p).overlap = (c.overlap \/ c.ops[p] # "none")
      BY <1>1, StartContinues
    <2> QED  BY <2>1, <2>2, <2>3
  <1>3. io' = Idle /\ UNCHANGED <<request, stoped_, delegate_, clientVars>>
    BY DEF Handle
  <1>4. \E r \in Handshake : \A q \in Line \ {r} : conn'.ops[q] = "none"
    BY <1>1, <1>2
  <1> QED  BY <1>1, <1>2, <1>3, <1>4, HandshakeStep

\* The step to the report of the result, or to the end of the line.
LEMMA LastOperation ==
    ASSUME IInv, NEW op \in Handshake, Completes(op),
           NEW c, Continues(c), ~c.overlap, \A q \in Ops : c.ops[q] = "none",
           NEW next \in ConnectEvents \cup {Idle}, Handle(c, next)
    PROVE  IInv'
  <1>1. Line \subseteq Ops /\ "send" \in Ops /\ "recv" \in Ops /\ "resolve" \in Handshake
    BY DEF Handshake, Line, Ops
  <1>2. /\ Continues(conn') /\ ~conn'.overlap /\ \A q \in Ops : conn'.ops[q] = "none"
        /\ io' \in ConnectEvents \cup {Idle} /\ UNCHANGED <<request, stoped_, delegate_, clientVars>>
    BY DEF Handle
  <1>3. \E r \in Handshake : \A q \in Line \ {r} : conn'.ops[q] = "none"
    BY <1>1, <1>2
  <1> QED  BY <1>1, <1>2, <1>3, HandshakeStep

\* The resolver's answer starts the connect, reports the failure or finds nobody.
LEMMA OnResolvedInductive == ASSUME IInv, OnResolved PROVE IInv'
  <1> DEFINE e == Done("resolve")
             c == DropResolver(e)
  <1>1. "resolve" \in Handshake /\ "connect" \in Handshake /\ Completes("resolve")
    BY DEF Handshake, Line, Ops, OnResolved
  <1>2. Continues(e) /\ e.pump = conn.pump /\ ~e.overlap /\ \A p \in Ops : e.ops[p] = "none"
    BY <1>1, HandshakeDone
  <1>3. Continues(c) /\ ~c.overlap /\ \A p \in Ops : c.ops[p] = "none"
    BY <1>2, DropContinues
  <1>4. \/ Handle(e, Idle) \/ Handle(c, Notify("OnConnectErr", "HandleCleanUp"))
        \/ Handle(StartOp(c, "connect"), Idle)
    BY DEF OnResolved, DoConnect
  <1> HIDE DEF e, c
  <1>5. CASE Handle(e, Idle)
    BY <1>1, <1>2, <1>5, LastOperation
  <1>6. CASE Handle(c, Notify("OnConnectErr", "HandleCleanUp"))
    BY <1>1, <1>3, <1>6, LastOperation DEF ConnectEvents
  <1>7. CASE Handle(StartOp(c, "connect"), Idle)
    BY <1>1, <1>3, <1>7, NextOperation
  <1> QED  BY <1>4, <1>5, <1>6, <1>7

\* DoOtherHandshake of a connection that is connected.
LEMMA OtherHandshake ==
    ASSUME IInv, NEW op \in Handshake, Completes(op),
           NEW c, Continues(c), ~c.overlap, \A q \in Ops : c.ops[q] = "none",
           DoOtherHandshake(c)
    PROVE  IInv'
  <1>1. "tls" \in Handshake /\ "ws" \in Handshake
    BY DEF Handshake, Line, Ops
  <1>2. \/ Handle(StartOp(c, "tls"), Idle) \/ Handle(StartOp(c, "ws"), Idle)
        \/ Handle(c, Notify("OnConnectOk", "StartRecvDate"))
    BY DEF DoOtherHandshake, DoTlsHandshake, DoWebsocketHandshake
  <1>3. CASE Handle(c, Notify("OnConnectOk", "StartRecvDate"))
    BY <1>3, LastOperation DEF ConnectEvents
  <1> QED  BY <1>1, <1>2, <1>3, NextOperation

\* ConnectFailed cleans up before it reports.
LEMMA Failed ==
    ASSUME IInv, NEW op \in Handshake, Completes(op),
           NEW c, Continues(c), c.pump = conn.pump, ~c.overlap, \A q \in Ops : c.ops[q] = "none",
           ConnectFailed(c)
    PROVE  IInv'
  <1>1. Continues(HandleCleanUp(c)) /\ KeepsOps(c, HandleCleanUp(c))
    BY CleanUpContinues
  <1> QED  BY <1>1, LastOperation DEF ConnectFailed, ConnectEvents, KeepsOps

\* The TCP connection leads to the next handshake or to the verdict.
LEMMA ConnectCompleteInductive == ASSUME IInv, NotifyConnectComplete PROVE IInv'
  <1> DEFINE c == Done("connect")
             s == [c EXCEPT !.socks5_client_ = TRUE]
  <1>1. "connect" \in Handshake /\ "socks5" \in Handshake /\ Completes("connect")
    BY DEF Handshake, Line, Ops, NotifyConnectComplete
  <1>2. Continues(c) /\ c.pump = conn.pump /\ ~c.overlap /\ \A p \in Ops : c.ops[p] = "none"
    BY <1>1, HandshakeDone
  <1>3. ConnectFailed(c) \/ Handle(StartOp(s, "socks5"), Idle) \/ DoOtherHandshake(c)
    BY DEF NotifyConnectComplete
  <1> HIDE DEF c
  <1>4. Continues(s) /\ ~s.overlap /\ \A p \in Ops : s.ops[p] = "none"
    BY <1>2, Socks5ClientContinues
  <1> HIDE DEF s
  <1>5. CASE ConnectFailed(c)
    BY <1>1, <1>2, <1>5, Failed
  <1>6. CASE Handle(StartOp(s, "socks5"), Idle)
    BY <1>1, <1>4, <1>6, NextOperation
  <1>7. CASE DoOtherHandshake(c)
    BY <1>1, <1>2, <1>7, OtherHandshake
  <1> QED  BY <1>3, <1>5, <1>6, <1>7

\* So does the verdict of the proxy.
LEMMA Socks5HandshakeInductive == ASSUME IInv, OnSocks5Handshake PROVE IInv'
  <1> DEFINE e == Done("socks5")
             c == [e EXCEPT !.socks5_client_ = FALSE]
  <1>1. "socks5" \in Handshake /\ Completes("socks5")
    BY DEF Handshake, Line, Ops, OnSocks5Handshake
  <1>2. Continues(e) /\ e.pump = conn.pump /\ ~e.overlap /\ \A p \in Ops : e.ops[p] = "none"
    BY <1>1, HandshakeDone
  <1>3. Handle(e, Idle) \/ ConnectFailed(c) \/ DoOtherHandshake(c)
    BY DEF OnSocks5Handshake
  <1> HIDE DEF e
  <1>4. Continues(c) /\ c.pump = conn.pump /\ ~c.overlap /\ \A p \in Ops : c.ops[p] = "none"
    BY <1>2, Socks5ClientContinues
  <1> HIDE DEF c
  <1>5. CASE Handle(e, Idle)
    BY <1>1, <1>2, <1>5, LastOperation
  <1>6. CASE ConnectFailed(c)
    BY <1>1, <1>4, <1>6, Failed
  <1>7. CASE DoOtherHandshake(c)
    BY <1>1, <1>4, <1>7, OtherHandshake
  <1> QED  BY <1>3, <1>5, <1>6, <1>7

\* So does the end of the TLS handshake.
LEMMA TlsHandshakeInductive == ASSUME IInv, NotifyTlsHandshakeComplete PROVE IInv'
  <1> DEFINE c == Done("tls")
  <1>1. "tls" \in Handshake /\ "ws" \in Handshake /\ Completes("tls")
    BY DEF Handshake, Line, Ops, NotifyTlsHandshakeComplete
  <1>2. Continues(c) /\ ~c.overlap /\ \A p \in Ops : c.ops[p] = "none"
    BY <1>1, HandshakeDone
  <1>3. \/ \E next \in ConnectEvents : Handle(c, next)
        \/ Handle(StartOp(c, "ws"), Idle)
    BY DEF NotifyTlsHandshakeComplete, DoWebsocketHandshake, ConnectEvents
  <1> HIDE DEF c
  <1> QED  BY <1>1, <1>2, <1>3, LastOperation, NextOperation

\* The websocket handshake leads to the verdict.
LEMMA WebsocketHandshakeInductive == ASSUME IInv, NotifyWebsocketHandshakeComplte PROVE IInv'
  <1> DEFINE c == Done("ws")
  <1>1. "ws" \in Handshake /\ Completes("ws")
    BY DEF Handshake, Line, Ops, NotifyWebsocketHandshakeComplte
  <1>2. Continues(c) /\ ~c.overlap /\ \A p \in Ops : c.ops[p] = "none"
    BY <1>1, HandshakeDone
  <1>3. \E next \in ConnectEvents : Handle(c, next)
    BY DEF NotifyWebsocketHandshakeComplte, ConnectEvents
  <1> HIDE DEF c
  <1> QED  BY <1>1, <1>2, <1>3, LastOperation

\* A read that completes is told to a client that has heard of the connection.
LEMMA RecvDataInductive == ASSUME IInv, NotifyRecvData PROVE IInv'
  <1>1. conn' = Done("recv") /\ UNCHANGED <<request, stoped_, delegate_, clientVars>>
        /\ io' \in {Notify("OnRecvData", "DoRecvData"), Notify("OnDisconnect", "HandleCleanUp")}
    BY DEF NotifyRecvData, Handle
  <1>2. "recv" \in Line /\ "recv" \in Ops /\ conn.ops["recv"] # "none" /\ Ops = Line \cup {"send"}
        /\ "recv" # "send"
    BY DEF NotifyRecvData, Completes, Line, Ops
  <1>3. started /\ NoStart /\ \A p \in Line \ {"recv"} : conn.ops[p] = "none"
    BY <1>2, LineBusy
  <1>4. /\ Continues(conn') /\ conn'.pump = conn.pump /\ conn'.overlap = conn.overlap
        /\ conn'.ops["recv"] = "none" /\ \A p \in Ops \ {"recv"} : conn'.ops[p] = conn.ops[p]
        /\ conn'.already_clean_up = conn.already_clean_up
    BY <1>1, <1>2, DoneContinues
  <1>5. /\ io' \in Handlers /\ io'.at = "notify" /\ io'.event \in {"OnRecvData", "OnDisconnect"}
        /\ io'.event = "OnDisconnect" => io'.after = "HandleCleanUp"
    BY <1>1 DEF Notify, Handlers, Callbacks
  <1>6. Typing' /\ CleansUp' /\ Distinct' /\ InOrder'
    BY <1>1, <1>3, <1>4, <1>5, HandlerKeeps
  <1>7. Cleared'
    BY <1>1, <1>5 DEF IInv, Cleared
  <1>8. NoStart' /\ NoLine'
    BY <1>2, <1>3, <1>4 DEF NoStart, NoLine
  <1>9. OneLine'
    BY <1>1, <1>2, <1>3, <1>4, <1>5, <1>8 DEF IInv, OneLine, NoLine, NoStart, Continues, KeepsSends
  <1>10. Told'
    <2>1. (OkTold' <=> OkTold) /\ (CallbackOrder' <=> CallbackOrder)
      BY <1>4 DEF Continues, OkTold, CallbackOrder
    <2>2. (OkTold \/ ~delegate_) /\ \A op \in Handshake : conn'.ops[op] = "none"
      BY <1>2, <1>8 DEF IInv, Told, NoLine, Handshake
    <2> QED  BY <1>1, <1>2, <1>3, <1>4, <1>5, <1>8, <2>1, <2>2 DEF IInv, Told, Continues, KeepsSends
  <1> QED  BY <1>6, <1>7, <1>9, <1>10 DEF IInv

\* The invariant does not depend on how a pending operation stands.
LEMMA NetworkInductive == ASSUME IInv, NEW op \in Ops, Network(op) PROVE IInv'
  <1>1. /\ conn' \in Connections /\ KeepsSends(conn, conn') /\ KeepsResolver(conn, conn')
        /\ KeepsOps(conn, conn') /\ conn'.pump = conn.pump /\ conn'.told = conn.told
        /\ conn'.already_clean_up = conn.already_clean_up
    <2>1. PICK outcome \in {"ok", "err"} :
            conn' = [conn EXCEPT !.ops[op] = outcome,
                                 !.ws_open = IF op = "ws" THEN outcome = "ok"
                                             ELSE conn.ws_open /\ outcome = "ok",
                                 !.recvs = IF op = "recv" /\ outcome = "ok" THEN conn.recvs + 1
                                           ELSE conn.recvs]
      BY DEF Network
    <2> DEFINE open == IF op = "ws" THEN outcome = "ok" ELSE conn.ws_open /\ outcome = "ok"
               n == IF op = "recv" /\ outcome = "ok" THEN conn.recvs + 1 ELSE conn.recvs
    <2>2. conn \in Connections /\ conn.ops[op] = "pending"
      BY DEF Network, IInv, Typing
    <2>3. open \in BOOLEAN /\ n \in Nat
      <3>1. open = (outcome = "ok") \/ open = (conn.ws_open /\ outcome = "ok")
        BY Zenon
      <3>2. open \in BOOLEAN
        BY <3>1, Zenon
      <3>3. n \in Nat
        BY <2>2 DEF Connections
      <3> QED  BY <3>2, <3>3
    <2>4. conn' = [conn EXCEPT !.ops[op] = outcome, !.ws_open = open, !.recvs = n]
      BY <2>1
    <2> HIDE DEF open, n
    <2>5. conn' \in Connections
      BY <2>2, <2>3, <2>4 DEF Connections
    <2>6. KeepsOps(conn, conn')
      BY <2>2, <2>4 DEF Connections, KeepsOps
    <2> QED  BY <2>2, <2>4, <2>5, <2>6 DEF Connections, KeepsSends, KeepsResolver
  <1>2. UNCHANGED <<net_type, proxy, stoped_, delegate_, io, disc, sending, started, held>>
    BY DEF Network
  <1>3. Typing' /\ Cleared'
    BY <1>1, <1>2 DEF IInv, Typing, Cleared
  <1>4. CleansUp'
    BY <1>1, <1>2 DEF IInv, CleansUp, KeepsResolver
  <1>5. Line \subseteq Ops /\ Handshake \subseteq Ops /\ "send" \in Ops /\ "recv" \in Ops
    BY DEF Line, Handshake, Ops
  <1>6. (NoStart' <=> NoStart) /\ (NoLine' <=> NoLine) /\ (OkTold' <=> OkTold)
        /\ (CallbackOrder' <=> CallbackOrder)
    BY <1>1, <1>5 DEF NoStart, NoLine, KeepsOps, OkTold, CallbackOrder
  <1>7. OneLine'
    BY <1>1, <1>2, <1>5, <1>6 DEF IInv, OneLine, KeepsOps, KeepsSends
  <1>8. Told'
    BY <1>1, <1>2, <1>5, <1>6 DEF IInv, Told, KeepsOps, KeepsSends
  <1>9. Distinct' /\ InOrder'
    BY <1>1, <1>2, InOrderKept DEF IInv, Distinct, KeepsSends, KeepsPump
  <1> QED  BY <1>3, <1>4, <1>7, <1>8, <1>9 DEF IInv

\* The rest of a handler, behind its callback.
LEMMA AfterCallbackInductive ==
    ASSUME IInv, io.at # "idle", io.at = "callback" \/ ~delegate_,
           Handle(AfterCallback(conn, io.after), Idle)
    PROVE  IInv'
  <1>1. conn' = AfterCallback(conn, io.after) /\ io' = Idle
        /\ UNCHANGED <<request, stoped_, delegate_, clientVars>>
    BY DEF Handle
  <1>2. io' \in Handlers /\ io'.at = "idle"
    BY <1>1 DEF Idle, Handlers, Callbacks
  <1>3. started /\ NoStart /\ Continues(conn)
    BY DEF IInv, OneLine, Continues, Typing, CleansUp, KeepsSends, KeepsPump
  <1>4. Cleared'
    BY <1>1, <1>2 DEF IInv, Cleared
  <1>5. Line \subseteq Ops /\ Handshake \subseteq Line /\ "send" \in Ops /\ "recv" \in Line
        /\ "send" \notin Line /\ "recv" \notin Handshake
    BY DEF Line, Handshake, Ops
  <1>6. CASE io.after = "HandleCleanUp" \/ conn' = conn
    <2>1. Continues(conn') /\ KeepsOps(conn, conn')
      BY <1>1, <1>3, <1>6, CleanUpContinues DEF AfterCallback, KeepsOps
    <2>2. Typing' /\ CleansUp' /\ Distinct' /\ InOrder'
      BY <1>1, <1>2, <1>3, <2>1, HandlerKeeps
    <2>3. /\ NoStart' /\ (NoLine' <=> NoLine) /\ (OkTold' <=> OkTold) /\ (CallbackOrder' <=> CallbackOrder)
          /\ \A i \in DOMAIN conn'.pump : ~StartsLine(conn'.pump[i])
          /\ \A i \in DOMAIN conn'.pump : conn'.pump[i].run = "DoSendFromQueue" =>
               \E j \in DOMAIN conn.pump : conn.pump[j].run = "DoSendFromQueue"
      BY <1>3, <1>5, <2>1, LineKept
      DEF IInv, Continues, NoStart, NoLine, KeepsOps, OkTold, CallbackOrder
    <2>4. OneLine'
      BY <1>1, <1>2, <1>3, <1>5, <2>1, <2>3 DEF IInv, OneLine, KeepsOps, Continues, KeepsSends
    <2>5. Told'
      BY <1>1, <1>2, <1>3, <1>5, <2>1, <2>3 DEF IInv, Told, KeepsOps, Continues, KeepsSends
    <2> QED  BY <1>4, <2>2, <2>4, <2>5 DEF IInv
  <1>7. CASE conn' = StartOp(conn, "recv") /\ io.after \in {"StartRecvDate", "DoRecvData"}
    <2>1. /\ Continues(conn') /\ conn'.pump = conn.pump /\ conn'.ops["recv"] # "none"
          /\ \A p \in Ops \ {"recv"} : conn'.ops[p] = conn.ops[p]
          /\ conn'.overlap = (conn.overlap \/ conn.ops["recv"] # "none")
      BY <1>3, <1>5, <1>7, StartContinues
    <2>2. Typing' /\ CleansUp' /\ Distinct' /\ InOrder'
      BY <1>1, <1>2, <1>3, <2>1, HandlerKeeps
    <2>3. NoLine /\ io.event \in {"OnConnectOk", "OnRecvData"}
      BY <1>7 DEF IInv, OneLine, Typing, Handlers, Callbacks
    <2>4. NoStart' /\ (OkTold' <=> OkTold) /\ (CallbackOrder' <=> CallbackOrder) /\ ~conn'.overlap
          /\ \A p \in Line \ {"recv"} : conn'.ops[p] = "none"
      BY <1>3, <1>5, <2>1, <2>3 DEF IInv, OneLine, Continues, NoStart, NoLine, OkTold, CallbackOrder
    <2>5. OneLine'
      BY <1>1, <1>2, <1>3, <1>5, <2>1, <2>3, <2>4 DEF IInv, OneLine, NoStart, Continues, KeepsSends
    <2>6. OkTold \/ ~delegate_
      <3>1. CASE io.event = "OnRecvData"
        BY <3>1 DEF IInv, Told
      <3>2. CASE io.event = "OnConnectOk" /\ io.at = "callback"
        <4>1. conn.told = <<"OnConnectOk">>
          BY <3>2 DEF IInv, Told
        <4> QED  BY <4>1 DEF OkTold
      <3> QED  BY <2>3, <3>1, <3>2
    <2>7. Told'
      BY <1>1, <1>2, <1>3, <1>5, <2>1, <2>4, <2>6 DEF IInv, Told, Continues, KeepsSends
    <2> QED  BY <1>4, <2>2, <2>5, <2>7 DEF IInv
  <1> QED  BY <1>1, <1>6, <1>7 DEF AfterCallback, DoRecvData

\* What follows a callback is the rest of the handler that made it.
LEMMA LeaveCallbackInductive == ASSUME IInv, LeaveCallback PROVE IInv'
  BY AfterCallbackInductive DEF LeaveCallback

\* A callback is made only while there is a delegate.
LEMMA EnterCallbackInductive == ASSUME IInv, EnterCallback PROVE IInv'
  <1>1. CASE ~delegate_
    BY <1>1, AfterCallbackInductive DEF EnterCallback, Handle
  <1>2. CASE delegate_
    <2>1. /\ io.at = "notify" /\ io' = [io EXCEPT !.at = "callback"]
          /\ conn' = [conn EXCEPT !.told = Append(conn.told, io.event)]
          /\ UNCHANGED <<request, stoped_, delegate_, clientVars>>
      BY <1>2 DEF EnterCallback
    <2>2. io \in Handlers /\ conn \in Connections /\ conn.told \in Seq(Callbacks) /\ io.event \in Callbacks
      BY DEF IInv, Typing, Connections, Handlers
    <2>3. /\ Append(conn.told, io.event) \in Seq(Callbacks) /\ DOMAIN conn.told = 1 .. Len(conn.told)
          /\ DOMAIN Append(conn.told, io.event) = 1 .. Len(conn.told) + 1
          /\ Len(Append(conn.told, io.event)) = Len(conn.told) + 1 /\ Len(conn.told) \in Nat
          /\ Append(conn.told, io.event)[Len(conn.told) + 1] = io.event
          /\ \A i \in DOMAIN conn.told : Append(conn.told, io.event)[i] = conn.told[i]
      BY <2>2, Appended
    <2>4. /\ conn' \in Connections /\ KeepsSends(conn, conn') /\ KeepsResolver(conn, conn')
          /\ conn'.ops = conn.ops /\ conn'.overlap = conn.overlap /\ conn'.pump = conn.pump
          /\ conn'.told = Append(conn.told, io.event)
          /\ conn'.already_clean_up = conn.already_clean_up
      BY <2>1, <2>2, <2>3 DEF Connections, KeepsSends, KeepsResolver
    <2>5. io' \in Handlers /\ io'.at = "callback" /\ io'.event = io.event /\ io'.after = io.after
      BY <2>1, <2>2 DEF Handlers
    <2>6. Typing'
      BY <2>1, <2>4, <2>5 DEF IInv, Typing
    <2>7. Cleared'
      BY <1>2, <2>1 DEF IInv, Cleared
    <2>8. CleansUp'
      BY <2>1, <2>4 DEF IInv, CleansUp, KeepsResolver
    <2>9. (NoStart' <=> NoStart) /\ (NoLine' <=> NoLine)
      BY <2>4 DEF NoStart, NoLine
    <2>10. OneLine'
      BY <2>1, <2>4, <2>5, <2>9 DEF IInv, OneLine, KeepsSends
    <2>11. Told'
      <3>1. started /\ NoStart
        BY <2>1 DEF IInv, OneLine
      <3>2. CASE io.event \in {"OnConnectOk", "OnConnectErr"}
        <4>1. conn.told = <<>> /\ NoLine
          BY <2>1, <3>2 DEF IInv, Told, OneLine
        <4>2. conn'.told = <<io.event>> /\ CallbackOrder'
          <5>1. conn'.told = <<io.event>>
            BY <2>3, <2>4, <4>1
          <5> QED  BY <3>2, <5>1 DEF CallbackOrder
        <4>3. /\ \A op \in Handshake : conn.ops[op] = "none"
              /\ conn.ops["recv"] = "none"
          BY <4>1 DEF NoLine, Handshake, Line, Ops
        <4>4. ~OkTold
          BY <4>1 DEF OkTold
        <4>5. /\ conn.ops["send"] = "none" /\ conn.send_buffers = <<>>
              /\ \A i \in DOMAIN conn.pump : conn.pump[i].run # "DoSendFromQueue"
              /\ \A c \in Clients : sending[c] = Nothing
          BY <4>4 DEF IInv, Told
        <4> QED  BY <2>1, <2>4, <2>5, <2>9, <3>1, <3>2, <4>2, <4>3, <4>5 DEF Told, KeepsSends
      <3>3. CASE io.event \in {"OnRecvData", "OnDisconnect"}
        <4>1. OkTold
          BY <1>2, <2>1, <3>3 DEF IInv, Told
        <4>2. 1 \in DOMAIN conn.told
          BY <2>2, <2>3, <4>1, EmptySeq DEF OkTold
        <4>3. OkTold'
          BY <2>3, <2>4, <4>1, <4>2, EmptySeq DEF OkTold
        <4>4. CallbackOrder'
          <5> SUFFICES ASSUME NEW i \in 1 .. Len(conn.told) + 1
                       PROVE  /\ conn'.told[i] \in {"OnConnectOk", "OnConnectErr"} <=> i = 1
                              /\ conn'.told[i] # "OnConnectErr"
            BY <2>3, <2>4 DEF CallbackOrder
          <5>1. CASE i \in DOMAIN conn.told
            BY <2>3, <2>4, <4>1, <5>1 DEF IInv, Told, CallbackOrder, OkTold
          <5>2. CASE i = Len(conn.told) + 1
            BY <2>3, <2>4, <3>3, <4>2, <5>2
          <5> QED  BY <2>3, <5>1, <5>2
        <4>5. \A op \in Handshake : conn.ops[op] = "none"
          BY <4>1 DEF IInv, Told, OkTold
        <4> QED  BY <2>1, <2>4, <2>5, <2>9, <3>1, <3>3, <4>3, <4>4, <4>5 DEF Told, KeepsSends
      <3> QED  BY <2>2, <3>2, <3>3 DEF Callbacks
    <2>12. Distinct' /\ InOrder'
      BY <2>1, <2>4, InOrderKept DEF IInv, Distinct, KeepsSends, KeepsPump
    <2> QED  BY <2>6, <2>7, <2>8, <2>10, <2>11, <2>12 DEF IInv
  <1> QED  BY <1>1, <1>2

\* A written message leaves send_buffers, and the next one goes out.
LEMMA WaitingNext ==
    ASSUME NEW asked \in Seq(Messages), NEW written \in Seq(Messages), NEW buffers \in Seq(Messages),
           buffers # <<>>, Wrote(asked, written), Waiting(asked, written, buffers)
    PROVE  LET rest == Tail(buffers)
               more == Append(written, Head(rest))
           IN  /\ rest = <<>> => /\ Waiting(asked, written, rest)
                                 /\ Taken(written, rest) = Taken(written, buffers)
               /\ rest # <<>> => /\ Waiting(asked, more, rest) /\ Wrote(asked, more)
                                 /\ Taken(more, rest) = Taken(written, buffers)
  <1> DEFINE rest == Tail(buffers)
             n == Len(asked)
             w == Len(written)
             b == Len(buffers)
  <1>1. /\ n \in Nat /\ w \in Nat /\ b \in Nat /\ b # 0 /\ w # 0
        /\ DOMAIN asked = 1 .. n /\ DOMAIN written = 1 .. w /\ DOMAIN buffers = 1 .. b
        /\ Taken(written, buffers) = w + b - 1 /\ w + b - 1 <= n /\ w <= n
        /\ \A k \in 1 .. b : buffers[k] = asked[w - 1 + k]
        /\ \A i \in 1 .. w : written[i] = asked[i]
    BY LenProperties, EmptySeq DEF Waiting, Wrote, Taken
  <1>2. /\ rest \in Seq(Messages) /\ Len(rest) = b - 1 /\ DOMAIN rest = 1 .. b - 1
        /\ \A k \in 1 .. b - 1 : rest[k] = buffers[k + 1]
        /\ rest = <<>> <=> b - 1 = 0
    BY HeadTailProperties, LenProperties, EmptySeq
  <1>3. CASE rest = <<>>
    BY <1>1, <1>2, <1>3 DEF Waiting, Taken
  <1>4. CASE rest # <<>>
    <2> DEFINE m == Head(rest)
               more == Append(written, m)
    <2>1. m = rest[1] /\ m \in Messages
      BY <1>2, <1>4, HeadTailProperties
    <2>2. m = asked[w + 1] /\ w + 1 <= n
      BY <1>1, <1>2, <1>4, <2>1
    <2> HIDE DEF rest, n, w, b, m
    <2>3. /\ more \in Seq(Messages) /\ DOMAIN more = 1 .. w + 1 /\ Len(more) = w + 1
          /\ more[w + 1] = m /\ \A i \in 1 .. w : more[i] = written[i]
      BY <1>1, <2>1, Appended DEF w
    <2> HIDE DEF more
    <2>4. Wrote(asked, more)
      BY <1>1, <2>2, <2>3 DEF Wrote, n
    <2>5. Taken(more, rest) = w + b - 1
      BY <1>1, <1>2, <1>4, <2>3 DEF Taken
    <2>6. ASSUME NEW k \in 1 .. b - 1 PROVE rest[k] = asked[w + 1 - 1 + k]
      BY <1>1, <1>2
    <2>7. more # <<>>
      BY <1>1, <2>3, EmptySeq
    <2>8. Waiting(asked, more, rest)
      BY <1>1, <1>2, <2>3, <2>5, <2>6, <2>7 DEF Waiting, n
    <2> QED  BY <1>1, <1>4, <2>4, <2>5, <2>8 DEF more, m, rest
  <1> QED  BY <1>3, <1>4

\* A write that completes takes its message off the queue and starts the next.
LEMMA SendCompleteInductive == ASSUME IInv, NotifySendComplete PROVE IInv'
  <1> DEFINE c == Done("send")
             rest == Tail(conn.send_buffers)
             popped == [c EXCEPT !.send_buffers = rest]
  <1>1. /\ "send" \in Ops /\ "send" \notin Line /\ Line \subseteq Ops \ {"send"} /\ Handshake \subseteq Line
        /\ "recv" \in Line /\ conn.ops["send"] # "none" /\ io.at = "idle"
    BY DEF Line, Handshake, Ops, NotifySendComplete, Completes
  <1>2. OkTold /\ NoStart /\ started /\ conn.send_buffers # <<>> /\ ~conn.overlap
        /\ \A op \in Handshake : conn.ops[op] = "none"
    BY <1>1 DEF IInv, Told, OneLine, OkTold
  <1>3. /\ Continues(c) /\ c.pump = conn.pump /\ c.overlap = conn.overlap
        /\ c.ops["send"] = "none" /\ (\A p \in Ops \ {"send"} : c.ops[p] = conn.ops[p])
        /\ c.already_clean_up = conn.already_clean_up
        /\ c.dns_resolver_ = conn.dns_resolver_ /\ c.dns_delegate = conn.dns_delegate
    BY <1>1, DoneContinues DEF Done, IInv, Typing, Connections
  <1>4. UNCHANGED <<request, stoped_, delegate_, clientVars>>
    BY DEF NotifySendComplete, Handle
  <1>5. CASE conn' = c /\ io' = Notify("OnDisconnect", "HandleCleanUp")
    <2>1. io' \in Handlers /\ io'.at = "notify" /\ io'.event = "OnDisconnect" /\ io'.after = "HandleCleanUp"
      BY <1>5 DEF Notify, Handlers, Callbacks
    <2>2. Typing' /\ CleansUp' /\ Distinct' /\ InOrder'
      BY <1>2, <1>3, <1>4, <1>5, <2>1, HandlerKeeps
    <2>3. Cleared'
      BY <1>4, <2>1 DEF IInv, Cleared
    <2>4. NoStart' /\ (NoLine' <=> NoLine) /\ OkTold' /\ (CallbackOrder' <=> CallbackOrder)
      BY <1>1, <1>2, <1>3, <1>5 DEF NoStart, NoLine, OkTold, CallbackOrder, Continues
    <2>5. OneLine'
      BY <1>1, <1>2, <1>3, <1>4, <1>5, <2>1, <2>4 DEF IInv, OneLine, NoStart
    <2>6. Told'
      BY <1>1, <1>2, <1>3, <1>4, <1>5, <2>1, <2>4 DEF IInv, Told
    <2> QED  BY <2>2, <2>3, <2>5, <2>6 DEF IInv
  <1>6. CASE conn' = SendNext(c) /\ io' = Idle
    <2> DEFINE more == rest # <<>> /\ ~conn.already_clean_up
    <2>1. c.send_buffers = conn.send_buffers /\ rest \in Seq(Messages) /\ conn.send_buffers \in Seq(Messages)
      BY <1>2, <1>3, HeadTailProperties DEF Continues, KeepsSends, Connections
    <2> HIDE DEF c, rest
    <2>2. /\ popped \in Connections /\ popped.send_buffers = rest /\ popped.written = conn.written
          /\ popped.asked = conn.asked /\ popped.ops = c.ops /\ popped.overlap = conn.overlap
          /\ popped.pump = conn.pump /\ popped.told = conn.told
          /\ popped.already_clean_up = conn.already_clean_up /\ KeepsResolver(conn, popped)
      BY <1>3, <2>1 DEF Continues, KeepsSends, KeepsResolver, Connections
    <2>3. conn' = IF more THEN DoSendData(popped) ELSE popped
      BY <1>3, <1>6, <2>1, <2>2 DEF SendNext, rest
    <2> HIDE DEF popped
    <2>4. /\ conn' \in Connections /\ conn'.send_buffers = rest
          /\ conn'.written = (IF more THEN Append(conn.written, Head(rest)) ELSE conn.written)
          /\ conn'.asked = conn.asked /\ ~conn'.overlap
          /\ \A p \in Line : conn'.ops[p] = conn.ops[p]
          /\ conn'.ops["send"] # "none" => rest # <<>>
          /\ conn'.pump = conn.pump /\ conn'.told = conn.told
          /\ conn'.already_clean_up = conn.already_clean_up /\ KeepsResolver(conn, conn')
      <3>1. CASE more
        <4>1. /\ conn' \in Connections /\ KeepsResolver(popped, conn')
              /\ conn'.send_buffers = popped.send_buffers /\ conn'.asked = popped.asked
              /\ conn'.written = Append(popped.written, Head(popped.send_buffers))
              /\ conn'.pump = popped.pump /\ conn'.told = popped.told
              /\ conn'.already_clean_up = popped.already_clean_up
              /\ \A p \in Line : conn'.ops[p] = popped.ops[p]
              /\ conn'.overlap = (popped.overlap \/ popped.ops["send"] # "none")
          BY <2>2, <2>3, <3>1, DoSendDataEffect
        <4>2. ~conn'.overlap
          BY <1>2, <1>3, <2>2, <4>1
        <4> QED  BY <1>1, <1>3, <2>2, <3>1, <4>1, <4>2 DEF KeepsResolver
      <3>2. CASE ~more
        <4>1. conn' = popped
          BY <2>3, <3>2
        <4> QED  BY <1>1, <1>2, <1>3, <2>2, <3>2, <4>1
      <3> QED  BY <3>1, <3>2
    <2>5. io' \in Handlers /\ io'.at = "idle"
      BY <1>6 DEF Idle, Handlers, Callbacks
    <2>6. Typing' /\ Cleared'
      BY <1>4, <2>4, <2>5 DEF IInv, Typing, Cleared
    <2>7. CleansUp'
      BY <1>4, <2>4 DEF IInv, CleansUp, KeepsResolver
    <2>8. NoStart' /\ OkTold' /\ (CallbackOrder' <=> CallbackOrder)
      BY <1>2, <2>4 DEF NoStart, OkTold, CallbackOrder
    <2>9. OneLine'
      BY <1>1, <1>2, <1>4, <2>4, <2>5, <2>8 DEF IInv, OneLine, NoStart
    <2>10. Told'
      BY <1>1, <1>2, <1>4, <2>4, <2>5, <2>8 DEF IInv, Told
    <2>11. Distinct'
      BY <1>4, <2>4 DEF IInv, Distinct
    <2>12. InOrder'
      <3>1. conn.asked \in Seq(Messages) /\ conn.written \in Seq(Messages)
        BY DEF IInv, Typing, Connections
      <3>2. CASE ~conn.already_clean_up
        <4>1. /\ rest = <<>> => /\ Waiting(conn.asked, conn.written, rest)
                                /\ Taken(conn.written, rest) = Taken(conn.written, conn.send_buffers)
              /\ rest # <<>> => LET w == Append(conn.written, Head(rest))
                                IN  /\ Waiting(conn.asked, w, rest) /\ Wrote(conn.asked, w)
                                    /\ Taken(w, rest) = Taken(conn.written, conn.send_buffers)
          BY <1>2, <2>1, <3>1, <3>2, WaitingNext DEF IInv, InOrder, rest
        <4> QED  BY <2>4, <3>2, <4>1 DEF IInv, InOrder
      <3>3. CASE conn.already_clean_up
        BY <2>4, <3>3 DEF IInv, InOrder
      <3> QED  BY <3>2, <3>3
    <2> QED  BY <2>6, <2>7, <2>9, <2>10, <2>11, <2>12 DEF IInv
  <1> QED  BY <1>5, <1>6 DEF NotifySendComplete, Handle

-----------------------------------------------------------------------------
(* The runnables.                                                          *)

\* What is left of a queue whose first runnable was taken.
LEMMA Popped ==
    ASSUME NEW S, NEW s \in Seq(S), s # <<>>
    PROVE  /\ Tail(s) \in Seq(S) /\ Head(s) = s[1] /\ Head(s) \in S /\ Len(s) \in Nat /\ Len(s) >= 1
           /\ DOMAIN s = 1 .. Len(s) /\ DOMAIN Tail(s) = 1 .. Len(s) - 1
           /\ \A i \in 1 .. Len(s) - 1 : Tail(s)[i] = s[i + 1]
           /\ \A i \in 2 .. Len(s) : s[i] = Tail(s)[i - 1]
  <1>1. /\ Tail(s) \in Seq(S) /\ Head(s) = s[1] /\ Head(s) \in S /\ Len(s) \in Nat /\ Len(s) >= 1
        /\ DOMAIN s = 1 .. Len(s) /\ DOMAIN Tail(s) = 1 .. Len(s) - 1
        /\ \A i \in 1 .. Len(s) - 1 : Tail(s)[i] = s[i + 1]
    BY HeadTailProperties, LenProperties, EmptySeq
  <1>2. ASSUME NEW i \in 2 .. Len(s) PROVE s[i] = Tail(s)[i - 1]
    <2>1. i - 1 \in 1 .. Len(s) - 1 /\ (i - 1) + 1 = i
      BY <1>1
    <2>2. Tail(s)[i - 1] = s[(i - 1) + 1]
      BY <1>1, <2>1
    <2> QED  BY <2>1, <2>2
  <1> QED  BY <1>1, <1>2

\* The first runnable is no send: the sends stay in order.
LEMMA PopOther ==
    ASSUME NEW asked \in Seq(Messages), NEW pump \in Seq(Runnables), NEW t \in Int,
           Queued(asked, t, pump), pump # <<>>, Head(pump).run # "DoSendFromQueue"
    PROVE  Queued(asked, t, Tail(pump))
  <1> DEFINE p == Tail(pump)
             q == Len(pump)
  <1>1. /\ q \in Nat /\ q >= 1 /\ DOMAIN pump = 1 .. q /\ DOMAIN p = 1 .. q - 1
        /\ \A i \in 1 .. q - 1 : p[i] = pump[i + 1]
        /\ \A i \in 2 .. q : pump[i] = p[i - 1]
        /\ pump[1].run # "DoSendFromQueue"
    BY Popped
  <1> HIDE DEF p, q
  <1>2. \A m : SendRunnable(m).run = "DoSendFromQueue"
    BY DEF SendRunnable
  <1>3. AllQueued(asked, t, p)
    <2> SUFFICES ASSUME NEW j \in DOMAIN asked, j > t
                 PROVE  \E i \in DOMAIN p : p[i] = SendRunnable(asked[j])
      BY DEF AllQueued
    <2>1. PICK i \in 1 .. q : pump[i] = SendRunnable(asked[j])
      BY <1>1 DEF Queued, AllQueued
    <2>2. i # 1
      BY <1>1, <1>2, <2>1
    <2>3. i \in 2 .. q /\ i - 1 \in DOMAIN p
      BY <1>1, <2>2
    <2> QED  BY <1>1, <2>1, <2>3
  <1>4. OnlyQueued(asked, t, p)
    <2> SUFFICES ASSUME NEW i \in 1 .. q - 1, p[i].run = "DoSendFromQueue"
                 PROVE  \E j \in DOMAIN asked : j > t /\ p[i] = SendRunnable(asked[j])
      BY <1>1 DEF OnlyQueued
    <2>1. i + 1 \in DOMAIN pump /\ p[i] = pump[i + 1]
      BY <1>1
    <2> QED  BY <2>1 DEF Queued, OnlyQueued
  <1>5. QueuedInOrder(asked, p)
    <2> SUFFICES ASSUME NEW i \in 1 .. q - 1, NEW k \in 1 .. q - 1,
                        NEW j \in DOMAIN asked, NEW l \in DOMAIN asked,
                        i < k, p[i] = SendRunnable(asked[j]), p[k] = SendRunnable(asked[l])
                 PROVE  j < l
      BY <1>1 DEF QueuedInOrder
    <2>1. /\ i + 1 \in DOMAIN pump /\ p[i] = pump[i + 1] /\ k + 1 \in DOMAIN pump /\ p[k] = pump[k + 1]
          /\ i + 1 < k + 1
      BY <1>1
    <2> QED  BY <2>1 DEF Queued, QueuedInOrder
  <1> QED  BY <1>3, <1>4, <1>5 DEF Queued, p

\* The first runnable is a send: it carries the next message.
LEMMA PopSend ==
    ASSUME NEW asked \in Seq(Messages), NEW pump \in Seq(Runnables), NEW t \in Nat,
           Queued(asked, t, pump), pump # <<>>, Head(pump).run = "DoSendFromQueue",
           \A i, j \in DOMAIN asked : asked[i] = asked[j] => i = j
    PROVE  /\ t + 1 \in DOMAIN asked /\ Head(pump).buffer = asked[t + 1]
           /\ Queued(asked, t + 1, Tail(pump))
  <1> DEFINE p == Tail(pump)
             q == Len(pump)
             n == Len(asked)
  <1>1. /\ q \in Nat /\ q >= 1 /\ DOMAIN pump = 1 .. q /\ DOMAIN p = 1 .. q - 1
        /\ \A i \in 1 .. q - 1 : p[i] = pump[i + 1]
        /\ \A i \in 2 .. q : pump[i] = p[i - 1]
        /\ Head(pump) = pump[1] /\ pump[1].run = "DoSendFromQueue"
    BY Popped
  <1>2. n \in Nat /\ DOMAIN asked = 1 .. n
    BY LenProperties
  <1>3. \A x, y : SendRunnable(x) = SendRunnable(y) => x = y
    BY DEF SendRunnable
  <1> HIDE DEF p, q, n
  <1>4. PICK first \in DOMAIN asked : first > t /\ pump[1] = SendRunnable(asked[first])
    BY <1>1 DEF Queued, OnlyQueued
  <1>5. t + 1 \in DOMAIN asked /\ t + 1 > t
    BY <1>2, <1>4
  <1>6. PICK at \in 1 .. q : pump[at] = SendRunnable(asked[t + 1])
    BY <1>1, <1>5 DEF Queued, AllQueued
  <1>7. at = 1
    <2>1. ASSUME at > 1 PROVE FALSE
      <3>1. first < t + 1
        <4>1. 1 \in DOMAIN pump /\ at \in DOMAIN pump /\ 1 < at /\ QueuedInOrder(asked, pump)
          BY <1>1, <2>1 DEF Queued
        <4> QED  BY <1>4, <1>5, <1>6, <4>1 DEF QueuedInOrder
      <3> QED  BY <1>2, <1>4, <3>1
    <2> QED  BY <1>1, <2>1
  <1>8. pump[1] = SendRunnable(asked[t + 1]) /\ pump[1].buffer = asked[t + 1]
    BY <1>6, <1>7 DEF SendRunnable
  <1>9. AllQueued(asked, t + 1, p)
    <2> SUFFICES ASSUME NEW j \in DOMAIN asked, j > t + 1
                 PROVE  \E i \in DOMAIN p : p[i] = SendRunnable(asked[j])
      BY DEF AllQueued
    <2>0. j > t
      BY <1>2
    <2>1. PICK i \in 1 .. q : pump[i] = SendRunnable(asked[j])
      BY <1>1, <2>0 DEF Queued, AllQueued
    <2>2. i # 1
      BY <1>2, <1>3, <1>5, <1>8, <2>1
    <2>3. i \in 2 .. q /\ i - 1 \in DOMAIN p
      BY <1>1, <2>2
    <2> QED  BY <1>1, <2>1, <2>3
  <1>10. OnlyQueued(asked, t + 1, p)
    <2> SUFFICES ASSUME NEW i \in 1 .. q - 1, p[i].run = "DoSendFromQueue"
                 PROVE  \E j \in DOMAIN asked : j > t + 1 /\ p[i] = SendRunnable(asked[j])
      BY <1>1 DEF OnlyQueued
    <2>1. i + 1 \in DOMAIN pump /\ p[i] = pump[i + 1] /\ 1 < i + 1 /\ 1 \in DOMAIN pump
      BY <1>1
    <2>2. PICK j \in DOMAIN asked : j > t /\ pump[i + 1] = SendRunnable(asked[j])
      BY <2>1 DEF Queued, OnlyQueued
    <2>3. t + 1 < j
      BY <1>5, <1>8, <2>1, <2>2 DEF Queued, QueuedInOrder
    <2> QED  BY <1>2, <2>1, <2>2, <2>3
  <1>11. QueuedInOrder(asked, p)
    <2> SUFFICES ASSUME NEW i \in 1 .. q - 1, NEW k \in 1 .. q - 1,
                        NEW j \in DOMAIN asked, NEW l \in DOMAIN asked,
                        i < k, p[i] = SendRunnable(asked[j]), p[k] = SendRunnable(asked[l])
                 PROVE  j < l
      BY <1>1 DEF QueuedInOrder
    <2>1. /\ i + 1 \in DOMAIN pump /\ p[i] = pump[i + 1] /\ k + 1 \in DOMAIN pump /\ p[k] = pump[k + 1]
          /\ i + 1 < k + 1
      BY <1>1
    <2> QED  BY <2>1 DEF Queued, QueuedInOrder
  <1> QED  BY <1>1, <1>5, <1>8, <1>9, <1>10, <1>11 DEF Queued, p

\* What the queue holds when its first runnable is taken.
LEMMA QueueRuns ==
    ASSUME IInv, conn.pump # <<>>
    PROVE  LET p == Tail(conn.pump)
               r == Head(conn.pump)
           IN  /\ started /\ r \in Runnables /\ p \in Seq(Runnables)
               /\ r.run = "DoDnsResolve" => ~conn.already_clean_up
               /\ r.run = "DoSendFromQueue" => OkTold
               /\ StartsLine(r) => NoLine /\ conn.told = <<>>
               /\ \A i \in DOMAIN p : p[i].run # "DoDnsResolve"
               /\ \A i \in DOMAIN p : StartsLine(p[i]) => ~StartsLine(r) /\ ~NoStart
               /\ \A i, j \in DOMAIN p : StartsLine(p[i]) /\ StartsLine(p[j]) => i = j
               /\ \A i \in DOMAIN p : p[i].run = "DoSendFromQueue" => OkTold
               /\ r.run # "HandleCleanUp" => \A c \in Clients : disc[c] = "done" =>
                    conn.already_clean_up \/ \E i \in DOMAIN p : p[i] = Runnable("HandleCleanUp")
  <1> DEFINE p == Tail(conn.pump)
             r == Head(conn.pump)
             q == Len(conn.pump)
  <1>1. /\ p \in Seq(Runnables) /\ r = conn.pump[1] /\ r \in Runnables /\ q \in Nat /\ q >= 1
        /\ DOMAIN conn.pump = 1 .. q /\ DOMAIN p = 1 .. q - 1
        /\ \A i \in 1 .. q - 1 : p[i] = conn.pump[i + 1]
        /\ \A i \in 2 .. q : conn.pump[i] = p[i - 1]
    BY Popped DEF IInv, Typing, Connections
  <1> HIDE DEF p, r, q
  <1>2. 1 \in DOMAIN conn.pump /\ \A i \in DOMAIN p : i \in Int /\ i + 1 \in DOMAIN conn.pump /\ i + 1 # 1
    BY <1>1
  <1>3. started /\ (r.run = "DoDnsResolve" => ~conn.already_clean_up)
    BY <1>1, <1>2 DEF IInv, CleansUp
  <1>4. StartsLine(r) => NoLine /\ conn.told = <<>> /\ ~NoStart
    BY <1>1, <1>2 DEF IInv, OneLine, Told, NoStart
  <1>5. \A i \in DOMAIN p : p[i].run # "DoDnsResolve"
    BY <1>1, <1>2 DEF IInv, CleansUp
  <1>6. \A i \in DOMAIN p : StartsLine(p[i]) => ~StartsLine(r) /\ ~NoStart
    BY <1>1, <1>2 DEF IInv, OneLine, NoStart
  <1>7. ASSUME NEW i \in DOMAIN p, NEW j \in DOMAIN p, StartsLine(p[i]), StartsLine(p[j])
        PROVE  i = j
    <2>1. i + 1 = j + 1
      BY <1>1, <1>2, <1>7 DEF IInv, OneLine
    <2> QED  BY <1>1, <2>1
  <1>8. /\ \A i \in DOMAIN p : p[i].run = "DoSendFromQueue" => OkTold
        /\ r.run = "DoSendFromQueue" => OkTold
    BY <1>1, <1>2 DEF IInv, Told
  <1>9. ASSUME r.run # "HandleCleanUp", NEW c \in Clients, disc[c] = "done", ~conn.already_clean_up
        PROVE  \E i \in DOMAIN p : p[i] = Runnable("HandleCleanUp")
    <2>1. PICK i \in DOMAIN conn.pump : conn.pump[i] = Runnable("HandleCleanUp")
      BY <1>9 DEF IInv, CleansUp
    <2>2. i # 1
      BY <1>1, <1>9, <2>1 DEF Runnable
    <2>3. i \in 2 .. q /\ i - 1 \in DOMAIN p
      BY <1>1, <2>2
    <2> QED  BY <1>1, <2>1, <2>3
  <1> QED  BY <1>1, <1>3, <1>4, <1>5, <1>6, <1>7, <1>8, <1>9 DEF p, r

\* A runnable that is no send, or one that finds the connection cleaned up.
LEMMA RunStep ==
    ASSUME IInv, io.at = "idle", conn.pump # <<>>, conn' \in Connections,
           UNCHANGED <<request, stoped_, delegate_, io, clientVars>>,
           conn'.told = conn.told, conn'.asked = conn.asked, conn'.written = conn.written,
           \/ conn'.send_buffers = conn.send_buffers
           \/ conn.already_clean_up /\ OkTold /\ conn'.send_buffers # <<>>,
           \/ conn'.pump = Tail(conn.pump)
           \/ \E x \in CleanUps : conn'.pump = Append(Tail(conn.pump), x)
           \/ /\ conn'.pump = Append(Tail(conn.pump), Runnable("DoResolver"))
              /\ Head(conn.pump).run = "DoDnsResolve"
              /\ \A op \in Line : conn'.ops[op] = conn.ops[op],
           conn.already_clean_up => conn'.already_clean_up,
           Head(conn.pump).run = "HandleCleanUp" => conn'.already_clean_up,
           Head(conn.pump).run = "DoSendFromQueue" => conn.already_clean_up,
           conn'.dns_delegate => conn'.dns_resolver_,
           conn'.dns_resolver_ => ~conn'.already_clean_up,
           ~conn'.overlap, conn'.ops["send"] = "none" <=> conn.ops["send"] = "none",
           \/ \A op \in Line : conn'.ops[op] = "none" <=> conn.ops[op] = "none"
           \/ /\ StartsLine(Head(conn.pump)) /\ conn'.pump = Tail(conn.pump)
              /\ \A op \in Line \ {"resolve"} : conn'.ops[op] = conn.ops[op]
    PROVE  IInv'
  <1> DEFINE p == Tail(conn.pump)
             r == Head(conn.pump)
  <1>1. /\ started /\ r \in Runnables /\ p \in Seq(Runnables)
        /\ r.run = "DoDnsResolve" => ~conn.already_clean_up
        /\ StartsLine(r) => NoLine /\ conn.told = <<>>
        /\ \A i \in DOMAIN p : p[i].run # "DoDnsResolve"
        /\ \A i \in DOMAIN p : StartsLine(p[i]) => ~StartsLine(r) /\ ~NoStart
        /\ \A i, j \in DOMAIN p : StartsLine(p[i]) /\ StartsLine(p[j]) => i = j
        /\ \A i \in DOMAIN p : p[i].run = "DoSendFromQueue" => OkTold
        /\ r.run # "HandleCleanUp" => \A c \in Clients : disc[c] = "done" =>
             conn.already_clean_up \/ \E i \in DOMAIN p : p[i] = Runnable("HandleCleanUp")
    BY QueueRuns
  <1>2. /\ \A x \in CleanUps : x \in Runnables /\ ~StartsLine(x) /\ x.run \notin {"DoDnsResolve", "DoSendFromQueue"}
        /\ LET x == Runnable("DoResolver") IN x \in Runnables /\ StartsLine(x) /\ x.run = "DoResolver"
        /\ \A x \in Runnables : x.run = "DoDnsResolve" => StartsLine(x)
    BY DEF CleanUps, Runnable, Runnables, RunnableNames, StartsLine
  <1> HIDE DEF p, r
  <1>3. PICK n \in Nat, x \in CleanUps \cup {Runnable("DoResolver")} :
          /\ DOMAIN p = 1 .. n /\ DOMAIN conn'.pump \subseteq 1 .. n + 1
          /\ DOMAIN p \subseteq DOMAIN conn'.pump
          /\ \A i \in DOMAIN p : conn'.pump[i] = p[i]
          /\ \A i \in DOMAIN conn'.pump \ DOMAIN p : i = n + 1 /\ conn'.pump[i] = x
          /\ x = Runnable("DoResolver") => r.run = "DoDnsResolve" /\ \A op \in Line : conn'.ops[op] = conn.ops[op]
    <2>1. CASE conn'.pump = p
      <3>1. Len(p) \in Nat /\ DOMAIN p = 1 .. Len(p)
        BY <1>1, LenProperties
      <3>2. PICK x \in CleanUps : x # Runnable("DoResolver")
        BY <1>2 DEF CleanUps
      <3>3. x \in CleanUps \cup {Runnable("DoResolver")} /\ 1 .. Len(p) \subseteq 1 .. Len(p) + 1
        BY <3>1, <3>2
      <3> WITNESS Len(p) \in Nat, x \in CleanUps \cup {Runnable("DoResolver")}
      <3> QED  BY <2>1, <3>1, <3>2, <3>3
    <2>2. ASSUME NEW x \in CleanUps \cup {Runnable("DoResolver")}, conn'.pump = Append(p, x)
          PROVE  /\ Len(p) \in Nat /\ DOMAIN p = 1 .. Len(p) /\ DOMAIN conn'.pump = 1 .. Len(p) + 1
                 /\ DOMAIN p \subseteq DOMAIN conn'.pump
                 /\ \A i \in DOMAIN p : conn'.pump[i] = p[i]
                 /\ \A i \in DOMAIN conn'.pump \ DOMAIN p : i = Len(p) + 1 /\ conn'.pump[i] = x
      BY <1>1, <1>2, <2>2, Appended
    <2>3. CASE \E x \in CleanUps : conn'.pump = Append(p, x)
      BY <1>2, <2>2, <2>3
    <2>4. CASE /\ conn'.pump = Append(p, Runnable("DoResolver")) /\ r.run = "DoDnsResolve"
               /\ \A op \in Line : conn'.ops[op] = conn.ops[op]
      BY <2>2, <2>4
    <2> QED  BY <2>1, <2>3, <2>4 DEF p, r
  <1>4. Typing' /\ Cleared' /\ Distinct'
    BY DEF IInv, Typing, Cleared, Distinct
  <1>5. \A i \in DOMAIN conn'.pump : conn'.pump[i].run # "DoDnsResolve"
    BY <1>1, <1>2, <1>3
  <1>6. CleansUp'
    BY <1>1, <1>3, <1>5 DEF IInv, CleansUp, r
  <1>7. \A i, j \in DOMAIN conn'.pump : StartsLine(conn'.pump[i]) /\ StartsLine(conn'.pump[j]) => i = j
    BY <1>1, <1>2, <1>3
  <1>8. ~NoStart' => NoLine' /\ conn.told = <<>>
    <2>1. ASSUME NEW i \in DOMAIN conn'.pump, StartsLine(conn'.pump[i])
          PROVE  NoLine' /\ conn.told = <<>>
      <3>1. CASE i \in DOMAIN p
        <4>1. StartsLine(p[i]) /\ ~StartsLine(r) /\ ~NoStart
          BY <1>1, <1>3, <2>1, <3>1
        <4>2. NoLine /\ conn.told = <<>>
          BY <4>1 DEF IInv, OneLine, Told
        <4> QED  BY <4>1, <4>2 DEF NoLine, r
      <3>2. CASE i \notin DOMAIN p
        <4>1. x = Runnable("DoResolver") /\ r.run = "DoDnsResolve" /\ \A op \in Line : conn'.ops[op] = conn.ops[op]
          BY <1>2, <1>3, <2>1, <3>2
        <4> QED  BY <1>1, <1>2, <4>1 DEF NoLine
      <3> QED  BY <3>1, <3>2
    <2> QED  BY <2>1 DEF NoStart
  <1>9. Handshake \subseteq Line /\ "resolve" \in Handshake /\ "recv" \in Line /\ "recv" \notin Handshake
    BY DEF Handshake, Line, Ops
  <1>10. OneLine'
    <2>1. \A a, b \in Line : conn'.ops[a] # "none" /\ conn'.ops[b] # "none" => a = b
      BY <1>1 DEF IInv, OneLine, NoLine, r
    <2> QED  BY <1>1, <1>7, <1>8, <2>1 DEF IInv, OneLine
  <1>11. Told'
    <2>1. (OkTold' <=> OkTold) /\ (CallbackOrder' <=> CallbackOrder)
      BY DEF OkTold, CallbackOrder
    <2>2. \A i \in DOMAIN conn'.pump : conn'.pump[i].run = "DoSendFromQueue" => OkTold
      BY <1>1, <1>2, <1>3
    <2>3. (\E op \in Handshake : conn'.ops[op] # "none") => conn.told = <<>>
      BY <1>1, <1>9 DEF IInv, Told, NoLine, r
    <2>4. conn'.ops["recv"] # "none" => OkTold \/ ~delegate_
      BY <1>1, <1>9 DEF IInv, Told, NoLine, r
    <2> QED  BY <1>1, <1>8, <2>1, <2>2, <2>3, <2>4 DEF IInv, Told
  <1>12. InOrder'
    <2>1. /\ conn.asked \in Seq(Messages) /\ conn.pump \in Seq(Runnables)
          /\ Taken(conn.written, conn.send_buffers) \in Int
      BY LenProperties DEF IInv, Typing, Connections, Taken
    <2>2. CASE ~conn'.already_clean_up
      <3>1. Queued(conn.asked, Taken(conn.written, conn.send_buffers), p)
        BY <2>1, <2>2, PopOther DEF IInv, InOrder, p
      <3>2. conn'.pump = p \/ \E y \in Runnables : y.run # "DoSendFromQueue" /\ conn'.pump = Append(p, y)
        BY <1>2 DEF p
      <3>3. Queued(conn.asked, Taken(conn.written, conn.send_buffers), conn'.pump)
        BY <1>1, <2>1, <3>1, <3>2, QueueOther
      <3> QED  BY <2>2, <3>3 DEF IInv, InOrder
    <2>3. CASE conn'.already_clean_up
      BY <2>3 DEF IInv, InOrder
    <2> QED  BY <2>2, <2>3
  <1> QED  BY <1>4, <1>6, <1>10, <1>11, <1>12 DEF IInv

\* Something has left the queue, or nothing.
LEMMA TakenType ==
    ASSUME NEW written \in Seq(Messages), NEW buffers \in Seq(Messages)
    PROVE  Taken(written, buffers) \in Nat
  <1>1. Len(written) \in Nat /\ Len(buffers) \in Nat /\ (buffers # <<>> => Len(buffers) # 0)
    BY LenProperties, EmptySeq
  <1> QED  BY <1>1 DEF Taken

\* The message of the runnable joins send_buffers, behind what waits there.
LEMMA WaitingTake ==
    ASSUME NEW asked \in Seq(Messages), NEW written \in Seq(Messages), NEW buffers \in Seq(Messages),
           NEW m \in Messages, Wrote(asked, written), Waiting(asked, written, buffers),
           LET t == Taken(written, buffers) IN t + 1 \in DOMAIN asked /\ m = asked[t + 1]
    PROVE  LET more == Append(buffers, m)
               out  == Append(written, Head(more))
           IN  /\ buffers = <<>> => /\ Wrote(asked, out) /\ Waiting(asked, out, more)
                                    /\ Taken(out, more) = Taken(written, buffers) + 1
               /\ buffers # <<>> => /\ Waiting(asked, written, more)
                                    /\ Taken(written, more) = Taken(written, buffers) + 1
  <1> DEFINE n == Len(asked)
             w == Len(written)
             b == Len(buffers)
             more == Append(buffers, m)
  <1>1. /\ n \in Nat /\ w \in Nat /\ b \in Nat /\ (b = 0 <=> buffers = <<>>)
        /\ DOMAIN asked = 1 .. n /\ DOMAIN written = 1 .. w /\ DOMAIN buffers = 1 .. b
        /\ w <= n /\ \A i \in 1 .. w : written[i] = asked[i]
        /\ \A k \in 1 .. b : buffers[k] = asked[w - 1 + k]
    BY LenProperties, EmptySeq DEF Waiting, Wrote
  <1>2. /\ more \in Seq(Messages) /\ Len(more) = b + 1 /\ DOMAIN more = 1 .. b + 1
        /\ more[b + 1] = m /\ \A k \in 1 .. b : more[k] = buffers[k]
    BY <1>1, Appended
  <1>3. more # <<>> /\ Head(more) = more[1]
    BY <1>1, <1>2, EmptySeq, HeadTailProperties
  <1>4. CASE buffers = <<>>
    <2> DEFINE out == Append(written, Head(more))
    <2>1. Taken(written, buffers) = w /\ w + 1 <= n /\ m = asked[w + 1] /\ Head(more) = m
      BY <1>1, <1>2, <1>3, <1>4 DEF Taken
    <2> HIDE DEF more, n, w, b
    <2>2. /\ out \in Seq(Messages) /\ DOMAIN out = 1 .. w + 1 /\ Len(out) = w + 1
          /\ out[w + 1] = m /\ \A i \in 1 .. w : out[i] = written[i]
      BY <1>1, <2>1, Appended DEF w
    <2> HIDE DEF out
    <2>3. Wrote(asked, out)
      BY <1>1, <2>1, <2>2 DEF Wrote, n
    <2>4. Taken(out, more) = w + 1
      BY <1>1, <1>2, <1>3, <1>4, <2>2 DEF Taken
    <2>5. ASSUME NEW k \in 1 .. b + 1 PROVE more[k] = asked[w + 1 - 1 + k]
      BY <1>1, <1>2, <1>4, <2>1
    <2>6. out # <<>>
      BY <1>1, <2>2, EmptySeq
    <2>7. Waiting(asked, out, more)
      BY <1>1, <1>2, <2>1, <2>2, <2>4, <2>5, <2>6 DEF Waiting, n
    <2> QED  BY <1>4, <2>1, <2>3, <2>4, <2>7 DEF out, more
  <1>5. CASE buffers # <<>>
    <2>1. Taken(written, buffers) = w + b - 1 /\ w + b <= n /\ m = asked[w + b] /\ written # <<>>
      BY <1>1, <1>5 DEF Taken, Waiting
    <2>2. Taken(written, more) = w + b
      BY <1>1, <1>2, <1>3 DEF Taken
    <2> HIDE DEF more, n, w, b
    <2>3. ASSUME NEW k \in 1 .. b + 1 PROVE more[k] = asked[w - 1 + k]
      <3>1. CASE k = b + 1
        <4>1. w - 1 + k = w + b
          BY <1>1, <3>1
        <4> QED  BY <1>2, <2>1, <3>1, <4>1
      <3>2. CASE k \in 1 .. b
        BY <1>1, <1>2, <3>2
      <3> QED  BY <1>1, <3>1, <3>2
    <2>4. Waiting(asked, written, more)
      BY <1>1, <1>2, <2>1, <2>2, <2>3 DEF Waiting, n, w
    <2> QED  BY <1>1, <1>5, <2>1, <2>2, <2>4 DEF more
  <1> QED  BY <1>4, <1>5

\* Until the clean-up, a posted send finds the connection alive.
LEMMA AliveUntilCleanUp ==
    ASSUME IInv, ~conn.already_clean_up
    PROVE  Alive
  <1>1. CASE held
    BY <1>1 DEF Alive
  <1>2. CASE ~held
    <2>1. PICK i \in DOMAIN conn.pump : conn.pump[i] = Runnable("HandleCleanUp")
      BY <1>2 DEF IInv, CleansUp
    <2>2. DOMAIN conn.pump = 1 .. Len(conn.pump)
      BY LenProperties DEF IInv, Typing, Connections
    <2> QED  BY <2>1, <2>2 DEF Alive, Contains
  <1> QED  BY <1>1, <1>2

\* conn without the runnable that is being run.
Rest == [conn EXCEPT !.pump = Tail(@)]

\* A send that is run before the clean-up.
LEMMA SendRuns ==
    ASSUME IInv, io.at = "idle", conn.pump # <<>>, Head(conn.pump).run = "DoSendFromQueue",
           ~conn.already_clean_up,
           UNCHANGED <<request, stoped_, delegate_, io, clientVars>>,
           conn' = DoSendFromQueue(Rest, Head(conn.pump).buffer)
    PROVE  IInv'
  <1> DEFINE p == Tail(conn.pump)
             r == Head(conn.pump)
             m == r.buffer
             t == Taken(conn.written, conn.send_buffers)
             more == Append(conn.send_buffers, m)
             q == [conn EXCEPT !.pump = p, !.send_buffers = more]
             empty == conn.send_buffers = <<>>
  <1>1. /\ started /\ r \in Runnables /\ p \in Seq(Runnables) /\ OkTold
        /\ \A i \in DOMAIN p : p[i].run # "DoDnsResolve"
        /\ \A i \in DOMAIN p : StartsLine(p[i]) => ~StartsLine(r) /\ ~NoStart
        /\ \A c \in Clients : disc[c] = "done" =>
             conn.already_clean_up \/ \E i \in DOMAIN p : p[i] = Runnable("HandleCleanUp")
    BY QueueRuns
  <1>2. /\ conn \in Connections /\ conn.asked \in Seq(Messages) /\ conn.pump \in Seq(Runnables)
        /\ conn.written \in Seq(Messages) /\ conn.send_buffers \in Seq(Messages) /\ t \in Nat
    <2> HIDE DEF q, more
    <2>1. /\ conn \in Connections /\ conn.asked \in Seq(Messages) /\ conn.pump \in Seq(Runnables)
          /\ conn.written \in Seq(Messages) /\ conn.send_buffers \in Seq(Messages)
      BY DEF IInv, Typing, Connections
    <2> QED  BY <2>1, TakenType
  <1>3. t + 1 \in DOMAIN conn.asked /\ m = conn.asked[t + 1] /\ Queued(conn.asked, t + 1, p)
    <2>1. Queued(conn.asked, t, conn.pump) /\ \A i, j \in DOMAIN conn.asked : conn.asked[i] = conn.asked[j] => i = j
      BY DEF IInv, InOrder, Distinct
    <2> HIDE DEF t
    <2> QED  BY <1>2, <2>1, PopSend
  <1>4. m \in Messages /\ more \in Seq(Messages) /\ more # <<>>
    <2>1. m \in Messages
      BY <1>2, <1>3, ElementOfSeq, LenProperties
    <2> QED  BY <1>2, <2>1, Appended, EmptySeq
  <1> HIDE DEF t, m, p, more
  <1>5. /\ q \in Connections /\ q.send_buffers = more /\ q.asked = conn.asked /\ q.written = conn.written
        /\ q.pump = p /\ q.ops = conn.ops /\ q.told = conn.told /\ q.overlap = conn.overlap
        /\ q.already_clean_up = conn.already_clean_up /\ KeepsResolver(conn, q)
    BY <1>1, <1>2, <1>4 DEF Connections, KeepsResolver
  <1>6. conn' = IF empty THEN DoSendData(q) ELSE q
    BY <1>2 DEF DoSendFromQueue, Rest, Connections, m, p, more
  <1> HIDE DEF q
  <1>7. conn.ops["send"] # "none" => ~empty
    BY DEF IInv, OneLine
  <1>8. /\ conn' \in Connections /\ conn'.send_buffers = more /\ conn'.asked = conn.asked
        /\ conn'.written = (IF empty THEN Append(conn.written, Head(more)) ELSE conn.written)
        /\ conn'.pump = p /\ (\A op \in Line : conn'.ops[op] = conn.ops[op]) /\ conn'.told = conn.told
        /\ ~conn'.overlap /\ ~conn'.already_clean_up /\ KeepsResolver(conn, conn')
    <2>1. CASE empty
      <3>1. /\ conn' \in Connections /\ KeepsResolver(q, conn')
            /\ conn'.send_buffers = q.send_buffers /\ conn'.asked = q.asked
            /\ conn'.written = Append(q.written, Head(q.send_buffers))
            /\ conn'.pump = q.pump /\ conn'.told = q.told /\ conn'.already_clean_up = q.already_clean_up
            /\ \A op \in Line : conn'.ops[op] = q.ops[op]
            /\ conn'.overlap = (q.overlap \/ q.ops["send"] # "none")
        <4>1. conn' = DoSendData(q) /\ q.send_buffers # <<>>
          BY <1>4, <1>5, <1>6, <2>1
        <4> HIDE DEF empty
        <4> QED  BY <1>5, <4>1, DoSendDataEffect
      <3>2. ~conn'.overlap
        BY <1>5, <1>7, <2>1, <3>1 DEF IInv, OneLine
      <3> QED  BY <1>5, <2>1, <3>1, <3>2 DEF KeepsResolver
    <2>2. CASE ~empty
      <3>1. conn' = q
        BY <1>6, <2>2
      <3> QED  BY <1>5, <2>2, <3>1 DEF IInv, OneLine
    <2> QED  BY <2>1, <2>2
  <1>9. Typing' /\ Cleared' /\ Distinct'
    <2>1. Typing' /\ Cleared'
      BY <1>8 DEF IInv, Typing, Cleared
    <2>2. Distinct'
      BY <1>8 DEF IInv, Distinct
    <2> QED  BY <2>1, <2>2
  <1>10. CleansUp'
    <2>1. /\ \A i \in DOMAIN conn'.pump : conn'.pump[i].run # "DoDnsResolve"
          /\ \A c \in Clients : disc[c] = "done" =>
               \E i \in DOMAIN conn'.pump : conn'.pump[i] = Runnable("HandleCleanUp")
      BY <1>1, <1>8
    <2>2. /\ conn'.dns_delegate => conn'.dns_resolver_
          /\ ~held => \E c \in Clients : disc[c] = "done"
      BY <1>8 DEF IInv, CleansUp, KeepsResolver
    <2> QED  BY <1>1, <1>8, <2>1, <2>2 DEF CleansUp
  <1>11. NoStart' /\ OkTold' /\ (CallbackOrder' <=> CallbackOrder)
    <2>1. NoStart
      BY <1>1 DEF IInv, Told, OkTold
    <2> QED  BY <1>1, <1>8, <2>1 DEF NoStart, OkTold, CallbackOrder, p
  <1>12. OneLine'
    BY <1>1, <1>4, <1>8, <1>11 DEF IInv, OneLine, NoStart
  <1>13. Told'
    <2>1. Handshake \subseteq Line /\ "recv" \in Line
      BY DEF Handshake, Line, Ops
    <2> QED  BY <1>1, <1>8, <1>11, <2>1 DEF IInv, Told
  <1>14. InOrder'
    <2>1. Wrote(conn.asked, conn.written) /\ Waiting(conn.asked, conn.written, conn.send_buffers)
      BY DEF IInv, InOrder
    <2>2. LET out == Append(conn.written, Head(more))
          IN  /\ empty => /\ Wrote(conn.asked, out) /\ Waiting(conn.asked, out, more)
                          /\ Taken(out, more) = t + 1
              /\ ~empty => Waiting(conn.asked, conn.written, more) /\ Taken(conn.written, more) = t + 1
      BY <1>2, <1>3, <1>4, <2>1, WaitingTake DEF t, more
    <2> QED  BY <1>3, <1>8, <2>1, <2>2 DEF InOrder
  <1> QED  BY <1>9, <1>10, <1>12, <1>13, <1>14 DEF IInv

\* The pump runs its first runnable, whichever it is.
LEMMA RunRunnableInductive == ASSUME IInv, RunRunnable PROVE IInv'
  <1> DEFINE p == Tail(conn.pump)
             r == Head(conn.pump)
  <1>1. io.at = "idle" /\ conn.pump # <<>> /\ UNCHANGED <<request, stoped_, delegate_, io, clientVars>>
    BY DEF RunRunnable
  <1>2. /\ started /\ r \in Runnables /\ p \in Seq(Runnables)
        /\ r.run = "DoDnsResolve" => ~conn.already_clean_up
        /\ StartsLine(r) => NoLine /\ conn.told = <<>>
    BY <1>1, QueueRuns
  <1>3. \/ r.run = "DoDnsResolve" /\ conn' = DoDnsResolve(Rest)
        \/ r.run = "DoResolver" /\ conn' = DoResolver(Rest)
        \/ r.run = "DoCancel" /\ conn' = DoCancel(Rest)
        \/ r.run = "HandleCleanUp" /\ conn' = HandleCleanUp(Rest)
        \/ r.run = "DoSendFromQueue" /\ conn' = DoSendFromQueue(Rest, r.buffer)
        \/ r.run # "HandleCleanUp" /\ (r.run = "DoSendFromQueue" => ~Alive) /\ conn' = Rest
    BY DEF RunRunnable, Rest
  <1>4. /\ Rest \in Connections /\ KeepsSends(conn, Rest) /\ KeepsResolver(conn, Rest)
        /\ Rest.ops = conn.ops /\ Rest.overlap = conn.overlap /\ Rest.told = conn.told /\ Rest.pump = p
        /\ Rest.already_clean_up = conn.already_clean_up
    BY <1>2 DEF IInv, Typing, Connections, Rest, KeepsSends, KeepsResolver
  <1>5. /\ ~conn.overlap /\ (conn.dns_delegate => conn.dns_resolver_)
        /\ conn.dns_resolver_ => ~conn.already_clean_up
    BY DEF IInv, OneLine, CleansUp
  <1>6. Line \subseteq Ops /\ "resolve" \in Line /\ "send" \in Ops /\ "send" # "resolve"
    BY DEF Line, Ops
  <1> HIDE DEF p, r
  <1>7. CASE r.run = "DoDnsResolve" /\ conn' = DoDnsResolve(Rest)
    <2> DEFINE x == Runnable("DoResolver")
               e == [Rest EXCEPT !.dns_resolver_ = TRUE, !.dns_delegate = TRUE]
    <2>1. x \in Runnables /\ StartsLine(r)
      BY <1>7, RunnableType DEF RunnableNames, StartsLine
    <2>2. /\ e \in Connections /\ KeepsSends(conn, e) /\ e.dns_resolver_
          /\ e.ops = conn.ops /\ e.overlap = conn.overlap /\ e.told = conn.told /\ e.pump = p
          /\ e.already_clean_up = conn.already_clean_up
      BY <1>4 DEF Connections, KeepsSends
    <2>3. conn' = Post(e, x)
      BY <1>7 DEF DoDnsResolve
    <2> HIDE DEF e, x
    <2>4. /\ conn' \in Connections /\ KeepsSends(e, conn') /\ KeepsResolver(e, conn')
          /\ conn'.ops = e.ops /\ conn'.overlap = e.overlap /\ conn'.pump = Append(e.pump, x)
          /\ conn'.told = e.told /\ conn'.already_clean_up = e.already_clean_up
      BY <2>1, <2>2, <2>3, PostEffect
    <2>5. conn'.dns_resolver_ /\ KeepsSends(conn, conn')
      BY <2>2, <2>4 DEF KeepsResolver, KeepsSends
    <2> QED  BY <1>1, <1>2, <1>5, <1>7, <2>1, <2>2, <2>4, <2>5, RunStep DEF p, r, x, KeepsSends
  <1>8. CASE r.run = "DoResolver" /\ conn' = DoResolver(Rest)
    <2>1. /\ conn' \in Connections /\ KeepsSends(Rest, conn') /\ KeepsResolver(Rest, conn')
          /\ conn'.pump = Rest.pump /\ conn'.told = Rest.told
          /\ conn'.already_clean_up = Rest.already_clean_up
          /\ \A q \in Ops \ {"resolve"} : conn'.ops[q] = Rest.ops[q]
          /\ conn'.overlap = (Rest.overlap \/ Rest.ops["resolve"] # "none")
      <3>1. conn' = StartOp(Rest, "resolve") /\ "resolve" \in Ops
        BY <1>6, <1>8 DEF DoResolver
      <3> QED  BY <1>4, <3>1, StartOpEffect
    <2>2. StartsLine(r)
      BY <1>8 DEF StartsLine
    <2>3. ~conn'.overlap
      BY <1>2, <1>4, <1>5, <1>6, <2>1, <2>2 DEF NoLine
    <2>4. KeepsSends(conn, conn') /\ KeepsResolver(conn, conn')
      BY <1>4, <2>1 DEF KeepsSends, KeepsResolver
    <2> QED  BY <1>1, <1>4, <1>5, <1>6, <1>8, <2>1, <2>2, <2>3, <2>4, RunStep
             DEF p, r, KeepsResolver, KeepsSends
  <1>9. CASE \/ r.run = "DoCancel" /\ conn' = DoCancel(Rest)
             \/ r.run # "HandleCleanUp" /\ (r.run = "DoSendFromQueue" => ~Alive) /\ conn' = Rest
    <2>1. /\ conn' \in Connections /\ KeepsSends(conn, conn') /\ KeepsResolver(conn, conn')
          /\ KeepsOps(conn, conn') /\ conn'.told = conn.told /\ conn'.pump = p
          /\ conn'.already_clean_up = conn.already_clean_up
      <3>1. CASE conn' = Rest
        BY <1>4, <3>1 DEF KeepsOps
      <3>2. CASE conn' = [Rest EXCEPT !.ops["resolve"] = "err"] /\ conn.ops["resolve"] = "pending"
        BY <1>4, <3>2 DEF KeepsOps, KeepsSends, KeepsResolver, Connections
      <3> QED  BY <1>4, <1>9, <3>1, <3>2 DEF DoCancel
    <2>2. r.run # "HandleCleanUp" /\ (r.run = "DoSendFromQueue" => conn.already_clean_up)
      BY <1>9, AliveUntilCleanUp
    <2> QED  BY <1>1, <1>5, <1>6, <2>1, <2>2, RunStep DEF p, r, KeepsResolver, KeepsOps, KeepsSends
  <1>10. CASE r.run = "HandleCleanUp" /\ conn' = HandleCleanUp(Rest)
    <2>1. /\ conn' \in Connections /\ KeepsSends(Rest, conn') /\ KeepsOps(Rest, conn')
          /\ KeepsPump(Rest, conn') /\ conn'.told = Rest.told /\ conn'.already_clean_up
          /\ Rest.already_clean_up => KeepsResolver(Rest, conn')
          /\ ~Rest.already_clean_up => ~conn'.dns_resolver_
          /\ ~Rest.already_clean_up /\ conn'.dns_delegate => Rest.dns_delegate /\ ~Rest.dns_resolver_
      BY <1>4, <1>10, HandleCleanUpEffect
    <2>2. KeepsSends(conn, conn') /\ KeepsOps(conn, conn')
      BY <1>4, <2>1 DEF KeepsSends, KeepsOps
    <2>3. ~conn'.dns_resolver_ /\ ~conn'.dns_delegate
      BY <1>4, <1>5, <2>1 DEF KeepsResolver
    <2>4. conn'.pump = p \/ \E x \in CleanUps : conn'.pump = Append(p, x)
      BY <1>4, <2>1 DEF KeepsPump
    <2> QED  BY <1>1, <1>4, <1>5, <1>6, <1>10, <2>1, <2>2, <2>3, <2>4, RunStep
             DEF p, r, KeepsOps, KeepsSends
  <1>11. CASE r.run = "DoSendFromQueue" /\ conn' = DoSendFromQueue(Rest, r.buffer) /\ ~conn.already_clean_up
    BY <1>1, <1>11, SendRuns DEF r
  <1>12. CASE r.run = "DoSendFromQueue" /\ conn' = DoSendFromQueue(Rest, r.buffer) /\ conn.already_clean_up
    <2> DEFINE more == Append(conn.send_buffers, r.buffer)
    <2>1. OkTold
      BY <1>1, <1>12, QueueRuns DEF r
    <2>2. conn' = [Rest EXCEPT !.send_buffers = more]
      <3>1. ASSUME NEW c, NEW m, c.already_clean_up
            PROVE  DoSendFromQueue(c, m) = [c EXCEPT !.send_buffers = Append(c.send_buffers, m)]
        BY <3>1 DEF DoSendFromQueue
      <3>2. Rest.already_clean_up /\ Rest.send_buffers = conn.send_buffers
        BY <1>4, <1>12 DEF KeepsSends
      <3>3. conn' = [Rest EXCEPT !.send_buffers = Append(Rest.send_buffers, r.buffer)]
        BY <1>12, <3>1, <3>2
      <3> QED  BY <3>2, <3>3
    <2>3. r.buffer \in Messages
      BY <1>2, <1>12 DEF Runnables, RunnableNames
    <2>4. more \in Seq(Messages) /\ more # <<>>
      <3>1. conn.send_buffers \in Seq(Messages)
        BY DEF IInv, Typing, Connections
      <3>2. more \in Seq(Messages) /\ Len(more) = Len(conn.send_buffers) + 1 /\ Len(conn.send_buffers) \in Nat
        BY <2>3, <3>1, Appended
      <3> QED  BY <3>2, EmptySeq
    <2> HIDE DEF more
    <2>5. /\ conn' \in Connections /\ conn'.asked = conn.asked /\ conn'.written = conn.written
          /\ conn'.send_buffers = more /\ KeepsResolver(conn, conn') /\ conn'.ops = conn.ops
          /\ conn'.told = conn.told /\ conn'.pump = p /\ conn'.overlap = conn.overlap
          /\ conn'.already_clean_up = conn.already_clean_up
      BY <1>4, <2>2, <2>4 DEF KeepsSends, KeepsResolver, Connections
    <2> QED  BY <1>1, <1>5, <1>6, <1>12, <2>1, <2>4, <2>5, RunStep DEF p, r, KeepsResolver
  <1> QED  BY <1>3, <1>7, <1>8, <1>9, <1>10, <1>11, <1>12

-----------------------------------------------------------------------------
(* The theorems.                                                           *)

\* Every step of the connection, its clients and the network keeps the invariant.
LEMMA NextIInv == IInv /\ [Next]_vars => IInv'
  <1> SUFFICES ASSUME IInv, [Next]_vars PROVE IInv'
    OBVIOUS
  <1>1. CASE IoStep
    BY <1>1, RunRunnableInductive, OnResolvedInductive, ConnectCompleteInductive,
       Socks5HandshakeInductive, TlsHandshakeInductive, WebsocketHandshakeInductive,
       RecvDataInductive, SendCompleteInductive, EnterCallbackInductive, LeaveCallbackInductive
    DEF IoStep
  <1>2. CASE Release
    BY <1>2, ReleaseInductive
  <1>3. ASSUME NEW op \in Ops, Network(op) PROVE IInv'
    BY <1>3, NetworkInductive
  <1>4. ASSUME NEW m \in Messages, SendInCallback(m) PROVE IInv'
    BY <1>4, SendInCallbackInductive
  <1>5. ASSUME NEW c \in Clients, Connect(c) \/ EndSend(c) \/ CheckStoped(c) \/ DisConnectStep(c)
        PROVE  IInv'
    BY <1>5, ConnectInductive, EndSendInductive, CheckStopedInductive, SetStopedInductive,
       ClearDelegateInductive, PostCleanUpInductive DEF DisConnectStep
  <1>6. ASSUME NEW c \in Clients, NEW m \in Messages, BeginSend(c, m) PROVE IInv'
    BY <1>6, BeginSendInductive
  <1>7. CASE UNCHANGED vars
    <2>1. UNCHANGED <<net_type, proxy, stoped_, delegate_, conn, io, disc, sending, started, held>>
      BY <1>7 DEF vars
    <2>2. Typing' /\ Cleared' /\ CleansUp' /\ Distinct'
      BY <2>1 DEF IInv, Typing, Cleared, CleansUp, Distinct
    <2> QED  BY <2>1, <2>2, ConnUnchanged DEF IInv, Told
  <1> QED  BY <1>1, <1>2, <1>3, <1>4, <1>5, <1>6, <1>7 DEF Next

\* The invariant that the theorems below rest on.
THEOREM Invariant == Spec => []IInv
  BY InitIInv, NextIInv, PTL DEF Spec

\* When the DisConnect that cleared delegate_ under mutex_ has returned, no
\* callback of the pump thread is running and none starts.
THEOREM QuietAfterDisConnect == Spec => []NoCallbackAfterDisConnect
  <1>1. IInv => NoCallbackAfterDisConnect
    BY DEF IInv, Cleared, NoCallbackAfterDisConnect
  <1> QED  BY <1>1, Invariant, PTL

\* The delegate hears of the connection first and once, and nothing after a
\* failed OnConnect.
THEOREM ToldInOrder == Spec => []CallbackOrder
  <1>1. IInv => CallbackOrder
    BY DEF IInv, Told
  <1> QED  BY <1>1, Invariant, PTL

\* No asynchronous operation is started while one of its kind is in flight.
THEOREM NeverOverlap == Spec => []OneOperationEach
  <1>1. IInv => OneOperationEach
    BY DEF IInv, OneLine, OneOperationEach
  <1> QED  BY <1>1, Invariant, PTL

\* Messages go to the wire in the order they were posted, each once.
THEOREM WrittenInOrder == Spec => []WireOrder
  <1>1. IInv => WireOrder
    <2> SUFFICES ASSUME IInv PROVE WireOrder
      OBVIOUS
    <2> DEFINE w == conn.written
               a == conn.asked
    <2>1. w \in Seq(Messages) /\ a \in Seq(Messages) /\ Len(w) <= Len(a)
          /\ \A i \in DOMAIN w : w[i] = a[i]
      BY DEF IInv, Typing, Connections, InOrder, Wrote
    <2> HIDE DEF w, a
    <2>2. Len(w) \in Nat /\ Len(a) \in Nat /\ DOMAIN w = 1 .. Len(w)
      BY <2>1, LenProperties
    <2>3. SubSeq(w, 1, Len(w)) = SubSeq(a, 1, Len(w))
      BY <2>1, <2>2
    <2> QED  BY <2>1, <2>3 DEF WireOrder, IsPrefix, w, a
  <1> QED  BY <1>1, Invariant, PTL

\* A resolver that can still call back finds its connection alive.
THEOREM ResolverSafe == Spec => []ResolverNotDangling
  <1>1. IInv => ResolverNotDangling
    BY AliveUntilCleanUp DEF IInv, CleansUp, ResolverNotDangling
  <1> QED  BY <1>1, Invariant, PTL
=============================================================================
