---------------------------- MODULE Socks5Client ----------------------------
(***************************************************************************)
(* The SOCKS5 dialogue of base/net/socks5_client.cc: Socks5ClientImpl on   *)
(* the IO pump's thread, its owner NetConnectionImpl, which destroys it    *)
(* from OnSocks5Handshake or from HandleCleanUp, and the proxy.            *)
(*                                                                         *)
(* The bytes of a reply matter only by their number and by the four fields *)
(* the handlers look at; received_data_ is the count of the bytes received *)
(* of the current reply.  A read returns at most ReadBuffer bytes, however *)
(* the network cut the stream.                                             *)
(***************************************************************************)
EXTENDS Integers, SequencesExt

CONSTANTS
    ConnectReplies, \* kinds of address the proxy may put in its last reply
    HostLengths,    \* lengths of the host names it may put there
    SignedChar,     \* is char signed?  it is on x86, and not on ARM
    Cuts            \* numbers of bytes the network may deliver, besides all there are

ReadBuffer == 10  \* new char[10]

\* head(4) + address + port(2); a host name comes with a length byte.
ReplyLengths ==
    [IPv4 |-> {4 + 4 + 2}, Host |-> {4 + 1 + h + 2 : h \in HostLengths}, IPv6 |-> {4 + 16 + 2}, Other |-> {8}]

ASSUME RepliesAssumption == ConnectReplies \subseteq DOMAIN ReplyLengths
ASSUME HostAssumption == HostLengths \subseteq 0..255 /\ SignedChar \in BOOLEAN
ASSUME CutsAssumption == Cuts \subseteq Nat \ {0}

VARIABLES
    socks5_status_, \* without NeedAuth and AuthSuccess, left by the handler that sets them
    received_data_, \* number of bytes received of the current reply
    reply,          \* the reply being received
    unread,         \* bytes of it not yet read
    read,           \* the outstanding async_read_some
    writes,         \* the outstanding async_writes: requests
    sent,           \* history: requests handed to async_write, in order
    owned,          \* does the connection still own the client?
    verdicts        \* history: the arguments of OnSocks5Handshake

vars == <<socks5_status_, received_data_, reply, unread, read, writes, sent, owned, verdicts>>
client == <<socks5_status_, received_data_, sent>>
proxy == <<reply, unread>>

Requests == {"hello", "auth", "connect"}
NoReply == [to |-> "none", ver |-> TRUE, code |-> "ok", atyp |-> "Other", len |-> 0]

\* ver: has the version byte the value the client expects?  code: what the
\* second byte says (for the hello, the method chosen, which the client follows
\* whether or not it was the one offered).
RepliesTo(request) ==
    CASE request = "hello" ->
           [to : {"hello"}, ver : BOOLEAN, atyp : {"Other"}, len : {2},
            code : {"noauth", "password", "unsupported"}]
      [] request = "auth" ->
           [to : {"auth"}, ver : BOOLEAN, atyp : {"Other"}, len : {2}, code : {"ok", "refused"}]
      [] OTHER ->
           UNION {[to : {"connect"}, ver : BOOLEAN, atyp : {a}, len : ReplyLengths[a],
                   code : {"ok", "refused"}] : a \in ConnectReplies}

-----------------------------------------------------------------------------
(* The client's functions, on                                              *)
(*   [status, received, read, writes, sent, verdict]                       *)

State == [status |-> socks5_status_, received |-> received_data_, read |-> read,
          writes |-> writes, sent |-> sent, verdict |-> "none"]

DoReceiveData(s) == [s EXCEPT !.read = "pending"]

DoSendData(s, request) ==
    [s EXCEPT !.writes = @ \cup {request}, !.sent = Append(@, request)]

OnSocks5Handshake(s, v) == [s EXCEPT !.verdict = v]

DoSendHello(s) ==
    DoReceiveData([DoSendData(s, "hello") EXCEPT !.status = "Hello"])

DoSocks5Auth(s) ==
    DoReceiveData([DoSendData(s, "auth") EXCEPT !.status = "AuthReq"])

DoConnectMyServer(s) ==
    DoReceiveData([DoSendData(s, "connect") EXCEPT !.status = "ConSvr"])

HandleHello(s) ==
    IF s.received < 2 THEN DoReceiveData(s)
    ELSE IF ~reply.ver THEN OnSocks5Handshake(s, "failed")
    ELSE CASE reply.code = "noauth" -> DoConnectMyServer([s EXCEPT !.received = 0])
           [] reply.code = "password" -> DoSocks5Auth([s EXCEPT !.received = 0])
           [] OTHER -> OnSocks5Handshake(s, "failed")

HandleSocks5Auth(s) ==
    IF s.received < 2 THEN DoReceiveData(s)
    ELSE IF ~reply.ver \/ reply.code # "ok" THEN OnSocks5Handshake(s, "failed")
    ELSE DoConnectMyServer([s EXCEPT !.received = 0])

\* The length byte of a host name, as a char; while it has not arrived, the
\* string's terminator is read in its place.
HostLength(received) ==
    LET byte == IF received > 4 THEN reply.len - 7 ELSE 0
    IN  IF SignedChar /\ byte > 127 THEN byte - 256 ELSE byte

\* The cast of a negative sum to size_t gives more than any reply has.
SizeT(n) == IF n < 0 THEN 2^16 + n ELSE n

\* The length the address type asks for.
Needed(received) ==
    CASE reply.atyp = "IPv4" -> 4 + 4 + 2
      [] reply.atyp = "Host" -> SizeT(4 + 1 + HostLength(received) + 2)
      [] reply.atyp = "IPv6" -> 4 + 16 + 2
      [] OTHER -> 4

ConnectTrustsHead(s) ==
    IF s.received < 4 THEN DoReceiveData(s)
    ELSE IF ~reply.ver \/ reply.code # "ok" THEN OnSocks5Handshake(s, "failed")
    ELSE OnSocks5Handshake([s EXCEPT !.status = "ConSvrSuccess"], "succeeded")
HandleConnectBussinessServer(s) ==
    IF s.received < 4 THEN DoReceiveData(s)
    ELSE IF s.received < Needed(s.received) THEN s
    ELSE IF ~reply.ver \/ reply.code # "ok" THEN OnSocks5Handshake(s, "failed")
    ELSE OnSocks5Handshake([s EXCEPT !.status = "ConSvrSuccess"], "succeeded")

LoopForgetsAuth(s) ==
    CASE s.status = "Init" -> DoSendHello(s)
      [] s.status = "Hello" -> HandleHello(s)
      [] s.status = "ConSvr" -> HandleConnectBussinessServer(s)
      [] OTHER -> s
LoopSocks5Handshake(s) ==
    CASE s.status = "Init" -> DoSendHello(s)
      [] s.status = "Hello" -> HandleHello(s)
      [] s.status = "AuthReq" -> HandleSocks5Auth(s)
      [] s.status = "ConSvr" -> HandleConnectBussinessServer(s)
      [] OTHER -> s

\* The end of a handler: the connection gives the client up after a verdict.
Becomes(s) ==
    /\ socks5_status_' = s.status /\ received_data_' = s.received
    /\ read' = s.read /\ writes' = s.writes /\ sent' = s.sent
    /\ owned' = (owned /\ s.verdict = "none")
    /\ verdicts' = IF s.verdict = "none" THEN verdicts ELSE Append(verdicts, s.verdict)

-----------------------------------------------------------------------------
Init ==
    /\ socks5_status_ = "Init" /\ received_data_ = 0
    /\ reply = NoReply /\ unread = 0
    /\ read = "none" /\ writes = {} /\ sent = <<>>
    /\ owned = TRUE /\ verdicts = <<>>

Connect ==
    /\ owned /\ socks5_status_ = "Init"
    /\ Becomes(LoopSocks5Handshake(State))
    /\ UNCHANGED proxy

\* The handler of a read that got n bytes.  It holds the client weakly.
Receive(n) ==
    /\ read = "pending" /\ n \in 1 .. Min({unread, ReadBuffer})
    /\ unread' = unread - n
    /\ IF owned
       THEN Becomes(LoopSocks5Handshake([State EXCEPT !.read = "none", !.received = @ + n]))
       ELSE read' = "none" /\ UNCHANGED <<client, writes, owned, verdicts>>
    /\ UNCHANGED reply

\* A read fails: the proxy closed, the 30 s timer ran out, or the socket was
\* closed by DoCleanUp.
ReceiveFails ==
    /\ read = "pending"
    /\ IF owned
       THEN Becomes(OnSocks5Handshake([State EXCEPT !.read = "none"], "failed"))
       ELSE read' = "none" /\ UNCHANGED <<client, writes, owned, verdicts>>
    /\ UNCHANGED proxy

WriteDone(request) ==
    /\ request \in writes
    /\ writes' = writes \ {request}
    /\ UNCHANGED <<client, proxy, read, owned, verdicts>>

WriteFailsUnowned(request) ==
    /\ request \in writes
    /\ Becomes(OnSocks5Handshake([State EXCEPT !.writes = @ \ {request}], "failed"))
    /\ UNCHANGED proxy
WriteFails(request) ==
    /\ request \in writes
    /\ IF owned
       THEN Becomes(OnSocks5Handshake([State EXCEPT !.writes = @ \ {request}], "failed"))
       ELSE writes' = writes \ {request} /\ UNCHANGED <<client, read, owned, verdicts>>
    /\ UNCHANGED proxy

\* HandleCleanUp of the connection, posted by DisConnect.
CleanUp ==
    /\ owned
    /\ owned' = FALSE
    /\ UNCHANGED <<client, proxy, read, writes, verdicts>>

\* The proxy answers the last request it was sent, which can reach it before
\* the write's handler has run.
Answer ==
    /\ sent # <<>> /\ unread = 0 /\ reply.to # sent[Len(sent)]
    /\ \E r \in RepliesTo(sent[Len(sent)]) : reply' = r /\ unread' = r.len
    /\ UNCHANGED <<client, read, writes, owned, verdicts>>

Delivery == \E n \in Cuts \cup {Min({unread, ReadBuffer})} : Receive(n)

Next ==
    \/ Connect \/ Delivery \/ ReceiveFails \/ CleanUp \/ Answer
    \/ \E r \in Requests : WriteDone(r) \/ WriteFails(r)

Spec == Init /\ [][Next]_vars

\* The pump runs the handlers, the network delivers what was sent, and the
\* proxy answers.
FairSpec == Spec /\ WF_vars(Connect) /\ WF_vars(Delivery) /\ WF_vars(Answer)

-----------------------------------------------------------------------------
(* Properties.                                                             *)

(* The connection hears one verdict at most, although the read and each    *)
(* write can fail on their own: the handlers' weak_ptr sees to it.         *)
OneVerdict == Len(verdicts) <= 1

\* A length byte of 249 or more, which as a signed char is -7 or more: the sum
\* of HandleConnectBussinessServer is then between 0 and 6, not 256 or more.
Misread == SignedChar /\ reply.atyp = "Host" /\ reply.len - 7 >= 249

(* Success means that the answer to the connect request was positive, and  *)
(* that the whole of it was taken off the stream, whatever way it was cut: *)
(* no byte of it is left to be read as the server's first one.  The        *)
(* exception is exact: a host name whose length is misread ends the        *)
(* dialogue with its own bytes unread, always.  (Of an address type the    *)
(* client does not know it takes the head alone.)                          *)
SuccessIsWhole ==
    verdicts = <<"succeeded">> =>
      /\ reply.to = "connect" /\ reply.code = "ok" /\ reply.ver
      /\ reply.atyp # "Other" => (unread > 0 <=> Misread)

\* The connect reply is there in part, with its head.
SplitReply == socks5_status_ = "ConSvr" /\ received_data_ >= 4

(* Under a proxy that answers and a network that delivers, the handshake   *)
(* ends with a verdict or a clean-up, or reaches a connect reply that      *)
(* breaks off behind its head.                                             *)
EndsOrSplits == <>(~owned \/ SplitReply)
=============================================================================
