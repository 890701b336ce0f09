---------------------------- MODULE NetConnection ----------------------------
(***************************************************************************)
(* One connection of base/net: NetConnectionImpl with the stream class of  *)
(* its net_type (tcp or websocket, plain or over TLS) and its              *)
(* DnsResolverImpl, on the IO pump's single thread, used by client         *)
(* threads.  The http clients are in HttpClient.                           *)
(*                                                                         *)
(* Client threads call Connect, Send and DisConnect, which post runnables; *)
(* the pump thread runs them in order, and runs the completion handlers of *)
(* the asynchronous operations, whose outcome the network decides.  A      *)
(* delegate callback runs with mutex_ held.  The SOCKS5 dialogue is one    *)
(* operation here (Socks5Client has its steps).                            *)
(***************************************************************************)
EXTENDS Naturals, Sequences, SequencesExt

CONSTANTS
    Clients,   \* threads that use the connection
    NetTypes,  \* the net_types explored
    Proxies,   \* is proxy_host set?  a subset of BOOLEAN
    Messages,  \* buffers given to Send, each once
    MaxRecv,   \* bound on the reads that succeed
    Nothing    \* no message

StreamTypes == {"Tcp", "TcpTls", "Websocket", "WebsocketTls"}
ASSUME RequestAssumption == NetTypes \subseteq StreamTypes /\ Proxies \subseteq BOOLEAN
ASSUME BoundsAssumption == MaxRecv \in Nat /\ Nothing \notin Messages

VARIABLES
    net_type, proxy, \* the request
    stoped_,         \* atomic, set by DisConnect
    delegate_,       \* is the pointer set?  guarded by mutex_
    conn,            \* what the pump thread owns, and the runnables posted to it
    io,              \* the handler the pump thread is in
    disc,            \* where each client is in DisConnect
    sending,         \* the buffer a client's Send is about to post
    started, held    \* was Connect called; does a client hold the shared_ptr?

vars == <<net_type, proxy, stoped_, delegate_, conn, io, disc, sending, started, held>>
request == <<net_type, proxy>>
clientVars == <<disc, sending, started, held>>

Ops == {"resolve", "connect", "socks5", "tls", "ws", "recv", "send"}
SocketOps == Ops \ {"resolve"}
StrongOps == Ops \ {"resolve", "socks5"}  \* handlers that capture shared_from_this()

Runnable(name) == [run |-> name, buffer |-> Nothing]
Idle == [at |-> "idle", event |-> "OnRecvData", after |-> "Nothing"]
Notify(event, after) == [at |-> "notify", event |-> event, after |-> after]

-----------------------------------------------------------------------------
(* The asynchronous operations (external): one that is started on a closed *)
(* socket fails, except that connecting opens it again, and so does a read *)
(* or a write of a websocket that is not open; closing fails the pending   *)
(* ones; a completion that is already queued keeps its outcome.            *)

Refused(c, op) ==
    \/ c.closed /\ op \in SocketOps \ {"connect"}
    \/ ~c.ws_open /\ op \in {"recv", "send"} /\ net_type \in {"Websocket", "WebsocketTls"}

StartOp(c, op) ==
    [c EXCEPT !.ops[op] = IF Refused(c, op) THEN "err" ELSE "pending",
              !.closed = @ /\ op # "connect",
              !.overlap = @ \/ c.ops[op] # "none"]

CloseSocket(c) ==
    [c EXCEPT !.closed = TRUE,
              !.ops = [op \in Ops |-> IF op \in SocketOps /\ @[op] = "pending" THEN "err" ELSE @[op]]]

Post(c, r) == [c EXCEPT !.pump = Append(@, r)]

-----------------------------------------------------------------------------
(* NetConnectionImpl and its subclasses, as functions of conn.             *)

\* dns_resolver_->Cancel(); dns_resolver_ = nullptr.  Cancel clears the
\* resolver's delegate and posts its DoCancel.
DropResolver(c) ==
    IF c.dns_resolver_
    THEN Post([c EXCEPT !.dns_resolver_ = FALSE, !.dns_delegate = FALSE], Runnable("DoCancel"))
    ELSE c
ForgetResolver(c) == [c EXCEPT !.dns_resolver_ = FALSE]

TcpCleanUp(c) == CloseSocket(c)

\* close() works on an open websocket only, and its error is ignored.  (It
\* also waits for the peer's answer on the pump thread; the peer answers.)
WebsocketCleanUp(c) == IF c.ws_open THEN CloseSocket([c EXCEPT !.ws_open = FALSE]) ELSE c

\* Closes the stream below first; the close() above it then fails.
WebsocketTlsCleanUp(c) == CloseSocket([c EXCEPT !.ws_open = FALSE])

DoCleanUp(c) ==
    CASE net_type = "Websocket" -> WebsocketCleanUp(c)
      [] net_type = "WebsocketTls" -> WebsocketTlsCleanUp(c)
      [] OTHER -> TcpCleanUp(c)

CleanUpKeepsResolver(c) ==
    IF c.already_clean_up THEN c
    ELSE DoCleanUp(ForgetResolver([c EXCEPT !.already_clean_up = TRUE, !.socks5_client_ = FALSE]))
CleanUpKeepsSocket(c) ==
    IF c.already_clean_up THEN c
    ELSE DropResolver([c EXCEPT !.already_clean_up = TRUE, !.socks5_client_ = FALSE])
HandleCleanUp(c) ==
    IF c.already_clean_up THEN c
    ELSE DoCleanUp(DropResolver([c EXCEPT !.already_clean_up = TRUE, !.socks5_client_ = FALSE]))

DoConnect(c) == StartOp(c, "connect")
DoTlsHandshake(c) == StartOp(c, "tls")
DoWebsocketHandshake(c) == StartOp(c, "ws")

\* StartRecvDate and HandleRecvData both end in DoRecvData.
DoRecvData(c) == StartOp(c, "recv")

DoSendData(c) ==
    [StartOp(c, "send") EXCEPT !.written = Append(@, Head(c.send_buffers))]

DoSendAtOnce(c, m) == DoSendData([c EXCEPT !.send_buffers = Append(@, m)])
DoSendFromQueue(c, m) ==
    LET queued == [c EXCEPT !.send_buffers = Append(@, m)]
    IN  IF c.send_buffers = <<>> /\ ~c.already_clean_up THEN DoSendData(queued) ELSE queued

SendFrontAgain(c) ==
    IF ~c.already_clean_up THEN DoSendData(c) ELSE c
SendNext(c) ==
    LET popped == [c EXCEPT !.send_buffers = Tail(@)]
    IN  IF popped.send_buffers # <<>> /\ ~c.already_clean_up THEN DoSendData(popped) ELSE popped

\* Creates the resolver, whose Resolver() posts its DoResolver.
DoDnsResolve(c) ==
    Post([c EXCEPT !.dns_resolver_ = TRUE, !.dns_delegate = TRUE], Runnable("DoResolver"))
DoResolver(c) == StartOp(c, "resolve")
DoCancel(c) == IF c.ops["resolve"] = "pending" THEN [c EXCEPT !.ops["resolve"] = "err"] ELSE c

AfterCallback(c, after) ==
    CASE after = "HandleCleanUp" -> HandleCleanUp(c)
      [] after \in {"StartRecvDate", "DoRecvData"} -> DoRecvData(c)
      [] OTHER -> c

\* The object lives while a client, a posted HandleCleanUp, a handler that
\* captured it, or the pump thread inside such a handler refers to it.
Alive ==
    \/ held \/ io.at # "idle"
    \/ Contains(conn.pump, Runnable("HandleCleanUp"))
    \/ \E op \in StrongOps : conn.ops[op] # "none"
ResolverAlive ==
    \/ conn.dns_resolver_ \/ conn.ops["resolve"] # "none"
    \/ Contains(conn.pump, Runnable("DoCancel"))

-----------------------------------------------------------------------------
Init ==
    /\ net_type \in NetTypes /\ proxy \in Proxies
    /\ stoped_ = FALSE /\ delegate_ = TRUE
    /\ conn = [already_clean_up |-> FALSE, socks5_client_ |-> FALSE,
               dns_resolver_ |-> FALSE, dns_delegate |-> FALSE, send_buffers |-> <<>>,
               ws_open |-> FALSE, closed |-> FALSE,
               ops |-> [op \in Ops |-> "none"], pump |-> <<>>, recvs |-> 0,
               asked |-> <<>>, written |-> <<>>, told |-> <<>>, overlap |-> FALSE]
    /\ io = Idle
    /\ disc = [c \in Clients |-> "none"]
    /\ sending = [c \in Clients |-> Nothing]
    /\ started = FALSE /\ held = TRUE

-----------------------------------------------------------------------------
(* The clients.  They connect once, before anyone disconnects, send after  *)
(* OnConnect has reported success, do not disconnect from a callback, and  *)
(* drop the connection after DisConnect.                                   *)

Connect(c) ==
    /\ held /\ ~started /\ \A d \in Clients : disc[d] = "none"
    /\ started' = TRUE
    /\ conn' = Post(conn, Runnable("DoDnsResolve"))
    /\ UNCHANGED <<request, stoped_, delegate_, io, disc, sending, held>>

MaySend(m) ==
    /\ ~stoped_
    /\ Contains(conn.told, "OnConnectOk")
    /\ ~Contains(conn.asked, m) /\ \A c \in Clients : sending[c] # m

PostSend(m) == [Post(conn, [run |-> "DoSendFromQueue", buffer |-> m]) EXCEPT !.asked = Append(@, m)]

\* Send checks stoped_ first and posts later.
BeginSend(c, m) ==
    /\ held /\ disc[c] = "none" /\ sending[c] = Nothing /\ MaySend(m)
    /\ sending' = [sending EXCEPT ![c] = m]
    /\ UNCHANGED <<request, stoped_, delegate_, conn, io, disc, started, held>>

EndSend(c) ==
    /\ sending[c] # Nothing
    /\ conn' = PostSend(sending[c])
    /\ sending' = [sending EXCEPT ![c] = Nothing]
    /\ UNCHANGED <<request, stoped_, delegate_, io, disc, started, held>>

\* A delegate that calls Send from its callback.
SendInCallback(m) ==
    /\ io.at = "callback" /\ MaySend(m)
    /\ conn' = PostSend(m)
    /\ UNCHANGED <<request, stoped_, delegate_, io, clientVars>>

CheckStoped(c) ==
    /\ held /\ started /\ disc[c] = "none" /\ sending[c] = Nothing
    /\ disc' = [disc EXCEPT ![c] = IF stoped_ THEN "returned" ELSE "set"]
    /\ UNCHANGED <<request, stoped_, delegate_, conn, io, sending, started, held>>

SetStoped(c) ==
    /\ disc[c] = "set"
    /\ stoped_' = TRUE
    /\ disc' = [disc EXCEPT ![c] = "lock"]
    /\ UNCHANGED <<request, delegate_, conn, io, sending, started, held>>

\* Waits for a callback to return, which holds mutex_.
ClearDelegateUnlocked(c) ==
    /\ disc[c] = "lock"
    /\ delegate_' = FALSE
    /\ disc' = [disc EXCEPT ![c] = "post"]
    /\ UNCHANGED <<request, stoped_, conn, io, sending, started, held>>
ClearDelegate(c) ==
    /\ disc[c] = "lock" /\ io.at # "callback"
    /\ delegate_' = FALSE
    /\ disc' = [disc EXCEPT ![c] = "post"]
    /\ UNCHANGED <<request, stoped_, conn, io, sending, started, held>>

PostCleanUp(c) ==
    /\ disc[c] = "post"
    /\ conn' = Post(conn, Runnable("HandleCleanUp"))
    /\ disc' = [disc EXCEPT ![c] = "done"]
    /\ UNCHANGED <<request, stoped_, delegate_, io, sending, started, held>>

Release ==
    /\ held /\ \E c \in Clients : disc[c] = "done"
    /\ \A c \in Clients : disc[c] \in {"none", "returned", "done"} /\ sending[c] = Nothing
    /\ held' = FALSE
    /\ UNCHANGED <<request, stoped_, delegate_, conn, io, disc, sending, started>>

-----------------------------------------------------------------------------
(* The pump thread: the runnables, in the order they were posted.          *)

RunRunnable ==
    /\ io.at = "idle" /\ conn.pump # <<>>
    /\ LET r == Head(conn.pump)
           c == [conn EXCEPT !.pump = Tail(@)]
       IN  conn' = CASE r.run = "DoDnsResolve" /\ Alive -> DoDnsResolve(c)
                     [] r.run = "DoResolver" /\ ResolverAlive -> DoResolver(c)
                     [] r.run = "DoCancel" -> DoCancel(c)
                     [] r.run = "HandleCleanUp" -> HandleCleanUp(c)
                     [] r.run = "DoSendFromQueue" /\ Alive -> DoSendFromQueue(c, r.buffer)
                     [] OTHER -> c
    /\ UNCHANGED <<request, stoped_, delegate_, io, clientVars>>

(* The completion handlers.  Each one is a step up to its first callback,  *)
(* the callback, and a step for the rest.                                  *)

Completes(op) == io.at = "idle" /\ conn.ops[op] \in {"ok", "err"}
Done(op) == [conn EXCEPT !.ops[op] = "none"]

Handle(c, nextIo) ==
    /\ conn' = c /\ io' = nextIo
    /\ UNCHANGED <<request, stoped_, delegate_, clientVars>>

\* DoOtherHandshake.
DoOtherHandshake(c) ==
    CASE net_type \in {"WebsocketTls", "TcpTls"} -> Handle(DoTlsHandshake(c), Idle)
      [] net_type = "Websocket" -> Handle(DoWebsocketHandshake(c), Idle)
      [] OTHER -> Handle(c, Notify("OnConnectOk", "StartRecvDate"))

ConnectFailed(c) == Handle(HandleCleanUp(c), Notify("OnConnectErr", "Nothing"))

\* NotifyResult and OnDnsResolvered.
OnResolved ==
    /\ Completes("resolve")
    /\ LET c == DropResolver(Done("resolve"))
       IN  IF ~conn.dns_delegate THEN Handle(Done("resolve"), Idle)
           ELSE IF conn.ops["resolve"] = "err"
           THEN Handle(c, Notify("OnConnectErr", "HandleCleanUp"))
           ELSE Handle(DoConnect(c), Idle)

NotifyConnectComplete ==
    /\ Completes("connect")
    /\ LET c == Done("connect")
       IN  IF conn.ops["connect"] = "err" THEN ConnectFailed(c)
           ELSE IF proxy THEN Handle(StartOp([c EXCEPT !.socks5_client_ = TRUE], "socks5"), Idle)
           ELSE DoOtherHandshake(c)

\* The handlers of Socks5ClientImpl hold it weakly.
OnSocks5Handshake ==
    /\ Completes("socks5")
    /\ LET c == [Done("socks5") EXCEPT !.socks5_client_ = FALSE]
       IN  IF ~(conn.socks5_client_ /\ Alive) THEN Handle(Done("socks5"), Idle)
           ELSE IF conn.ops["socks5"] = "err" THEN ConnectFailed(c)
           ELSE DoOtherHandshake(c)

NotifyTlsHandshakeComplete ==
    /\ Completes("tls")
    /\ LET c == Done("tls")
       IN  IF conn.ops["tls"] = "err" THEN Handle(c, Notify("OnConnectErr", "HandleCleanUp"))
           ELSE IF net_type = "WebsocketTls" THEN Handle(DoWebsocketHandshake(c), Idle)
           ELSE Handle(c, Notify("OnConnectOk", "StartRecvDate"))

NotifyWebsocketHandshakeAlwaysReads ==
    /\ Completes("ws")
    /\ Handle(Done("ws"), Notify(IF conn.ops["ws"] = "ok" THEN "OnConnectOk" ELSE "OnConnectErr",
                                "StartRecvDate"))
NotifyWebsocketHandshakeComplte ==
    /\ Completes("ws")
    /\ IF conn.ops["ws"] = "ok"
       THEN Handle(Done("ws"), Notify("OnConnectOk", "StartRecvDate"))
       ELSE Handle(Done("ws"), Notify("OnConnectErr", "HandleCleanUp"))

NotifyRecvData ==
    /\ Completes("recv")
    /\ IF conn.ops["recv"] = "ok"
       THEN Handle(Done("recv"), Notify("OnRecvData", "DoRecvData"))
       ELSE Handle(Done("recv"), Notify("OnDisconnect", "HandleCleanUp"))

NotifySendComplete ==
    /\ Completes("send")
    /\ IF conn.ops["send"] = "ok"
       THEN Handle(SendNext(Done("send")), Idle)
       ELSE Handle(Done("send"), Notify("OnDisconnect", "HandleCleanUp"))

\* HandleConnectStatus, HandleRecvData, NotifyDisconnect: lock mutex_, call
\* the delegate if there is one, unlock, go on.
EnterCallback ==
    /\ io.at = "notify"
    /\ IF delegate_
       THEN /\ io' = [io EXCEPT !.at = "callback"]
            /\ conn' = [conn EXCEPT !.told = Append(@, io.event)]
       ELSE /\ io' = Idle
            /\ conn' = AfterCallback(conn, io.after)
    /\ UNCHANGED <<request, stoped_, delegate_, clientVars>>

LeaveCallback ==
    /\ io.at = "callback"
    /\ Handle(AfterCallback(conn, io.after), Idle)

-----------------------------------------------------------------------------
(* The network.                                                            *)

Network(op) ==
    /\ conn.ops[op] = "pending"
    /\ \E outcome \in {"ok", "err"} :
         /\ op = "recv" /\ outcome = "ok" => conn.recvs < MaxRecv
         /\ conn' = [conn EXCEPT !.ops[op] = outcome,
                                 !.ws_open = IF op = "ws" THEN outcome = "ok"
                                             ELSE @ /\ outcome = "ok",
                                 !.recvs = IF op = "recv" /\ outcome = "ok" THEN @ + 1 ELSE @]
    /\ UNCHANGED <<request, stoped_, delegate_, io, clientVars>>

IoStep ==
    \/ RunRunnable \/ OnResolved \/ NotifyConnectComplete \/ OnSocks5Handshake
    \/ NotifyTlsHandshakeComplete \/ NotifyWebsocketHandshakeComplte
    \/ NotifyRecvData \/ NotifySendComplete \/ EnterCallback \/ LeaveCallback

DisConnectStep(c) == SetStoped(c) \/ ClearDelegate(c) \/ PostCleanUp(c)

Next ==
    \/ IoStep \/ Release
    \/ \E op \in Ops : Network(op)
    \/ \E m \in Messages : SendInCallback(m)
    \/ \E c \in Clients :
         \/ Connect(c) \/ EndSend(c) \/ CheckStoped(c) \/ DisConnectStep(c)
         \/ \E m \in Messages : BeginSend(c, m)

Spec == Init /\ [][Next]_vars

\* The pump thread and the clients inside a call are scheduled; name
\* resolution and connecting end (the system's limits), and so does the TLS
\* handshake, under the 30 s timer of OnDnsResolvered.  A SOCKS5 dialogue
\* may stall (Socks5Client); a websocket handshake, a read and a write may
\* wait for the peer for ever.
Fairness ==
    /\ WF_vars(IoStep)
    /\ \A c \in Clients : WF_vars(DisConnectStep(c)) /\ WF_vars(EndSend(c))
    /\ \A op \in {"resolve", "connect", "tls"} : WF_vars(Network(op))

FairSpec == Spec /\ Fairness

-----------------------------------------------------------------------------
(* Properties.                                                             *)

(* When the DisConnect that cleared delegate_ has returned, no callback is *)
(* running and none starts any more: the delegate may be destroyed.        *)
NoCallbackAfterDisConnect ==
    \A c \in Clients : disc[c] \in {"post", "done"} => io.at # "callback"

(* The delegate hears of the connection first and once: data and the       *)
(* disconnection come only after a successful OnConnect, and nothing       *)
(* follows a failed one.                                                   *)
CallbackOrder ==
    \A i \in DOMAIN conn.told :
      /\ conn.told[i] \in {"OnConnectOk", "OnConnectErr"} <=> i = 1
      /\ conn.told[i] = "OnConnectErr" => Len(conn.told) = 1

(* Only one read and one write are ever in flight, although reads are      *)
(* restarted from three places and writes from two.                        *)
OneOperationEach == ~conn.overlap

(* Messages go to the wire once each, in the order they were given to      *)
(* Send, by however many threads.                                          *)
WireOrder == IsPrefix(conn.written, conn.asked)

(* A resolver that can still call back points to a connection that is      *)
(* alive: it holds a raw pointer, and HandleCleanUp must cut it before the *)
(* last reference goes.                                                    *)
ResolverNotDangling == conn.dns_delegate => Alive

Quiet == io.at = "idle" /\ conn.pump = <<>> /\ \A op \in Ops : conn.ops[op] = "none"

(* DisConnect of a connection whose clean-up closes the socket ends all of *)
(* its operations, whatever it was doing, and its last runnable runs.      *)
SocketsQuiesce ==
    (net_type # "Websocket" /\ \E c \in Clients : disc[c] = "done") ~> Quiet

(* DisConnect really cleans up (the comment at its PostRunable), whatever  *)
(* the net_type: all operations end.                                       *)
DisConnectQuiesces == (\E c \in Clients : disc[c] = "done") ~> Quiet
=============================================================================
