------------------------- MODULE Socks5ClientProofs -------------------------
(***************************************************************************)
(* Proofs about Socks5Client, for every way the network cuts the replies   *)
(* and every choice of replies.                                            *)
(***************************************************************************)
EXTENDS Socks5Client, SequenceTheorems, TLAPS

Statuses == {"Init", "Hello", "AuthReq", "ConSvr", "ConSvrSuccess"}
Codes == {"ok", "noauth", "password", "unsupported", "refused"}
Kinds == {"IPv4", "Host", "IPv6", "Other"}
Replies == [to : Requests \cup {"none"}, ver : BOOLEAN, code : Codes, atyp : Kinds, len : Nat]
Verdicts == {"failed", "succeeded"}

Typing ==
    /\ socks5_status_ \in Statuses
    /\ received_data_ \in Nat /\ unread \in Nat /\ reply \in Replies
    /\ read \in {"none", "pending"} /\ writes \in SUBSET Requests /\ sent \in Seq(Requests)
    /\ owned \in BOOLEAN /\ verdicts \in Seq(Verdicts)

\* A client that has given its verdict is given up.
Once == Len(verdicts) <= 1 /\ (owned => verdicts = <<>>)

\* The last request that was sent, and the one a client in this status sent.
Asked == sent[Len(sent)]
RequestOf(status) ==
    CASE status = "Hello" -> "hello" [] status = "AuthReq" -> "auth" [] OTHER -> "connect"

\* The reply has the length its kind asks for.
Sized ==
    /\ reply.to \in {"hello", "auth"} => reply.len = 2
    /\ reply.to = "connect" => reply.len \in ReplyLengths[reply.atyp]

\* The client waits for the reply to its last request, and has counted the bytes
\* of that reply it has received, not those of an earlier one.
Counted ==
    owned =>
      /\ socks5_status_ # "ConSvrSuccess"
      /\ socks5_status_ = "Init" <=> sent = <<>>
      /\ sent = <<>> => reply.to = "none"
      /\ sent # <<>> => Asked = RequestOf(socks5_status_)
      /\ sent # <<>> /\ reply.to = Asked => received_data_ + unread = reply.len
      /\ sent = <<>> \/ reply.to # Asked => received_data_ = 0 /\ unread = 0

\* Once it has the head of the connect reply, the client reads no more.
HeadOnly == owned /\ read = "pending" /\ socks5_status_ = "ConSvr" => received_data_ < 4

\* Success came with the answer to the last request, taken to its end unless its
\* length was misread, and nothing reads on.
Whole ==
    verdicts = <<"succeeded">> =>
      /\ sent # <<>> /\ Asked = "connect" /\ reply.to = "connect" /\ reply.code = "ok" /\ reply.ver
      /\ reply.atyp # "Other" => (unread > 0 <=> Misread)
      /\ read = "none"

IInv == Typing /\ Once /\ Sized /\ Counted /\ HeadOnly /\ Whole

-----------------------------------------------------------------------------
(* The functions of the client.                                            *)

States == [status : Statuses, received : Nat, read : {"none", "pending"},
           writes : SUBSET Requests, sent : Seq(Requests), verdict : Verdicts \cup {"none"}]


\* DoReceiveData only starts a read.
LEMMA ReceiveEffect ==
    ASSUME NEW s \in States
    PROVE  LET t == DoReceiveData(s)
           IN  /\ t \in States /\ t.status = s.status /\ t.received = s.received
               /\ t.sent = s.sent /\ t.verdict = s.verdict
  BY DEF DoReceiveData, States

\* OnSocks5Handshake only tells the connection the verdict.
LEMMA VerdictEffect ==
    ASSUME NEW s \in States, NEW v \in Verdicts
    PROVE  LET t == OnSocks5Handshake(s, v)
           IN  /\ t \in States /\ t.status = s.status /\ t.received = s.received
               /\ t.sent = s.sent /\ t.verdict = v /\ t.read = s.read
  BY DEF OnSocks5Handshake, States

\* Emptying the receive buffer changes nothing else.
LEMMA ResetEffect ==
    ASSUME NEW s \in States
    PROVE  LET t == [s EXCEPT !.received = 0]
           IN  /\ t \in States /\ t.status = s.status /\ t.received = 0
               /\ t.sent = s.sent /\ t.verdict = s.verdict
  BY DEF States

\* Nor does moving to the next status.
LEMMA StatusEffect ==
    ASSUME NEW s \in States, NEW status \in Statuses
    PROVE  LET t == [s EXCEPT !.status = status]
           IN  /\ t \in States /\ t.status = status /\ t.received = s.received
               /\ t.sent = s.sent /\ t.verdict = s.verdict /\ t.read = s.read
  BY DEF States

\* DoSendData queues one request and changes no status.
LEMMA SendEffect ==
    ASSUME NEW s \in States, NEW r \in Requests
    PROVE  LET t == DoSendData(s, r)
           IN  /\ t \in States /\ t.status = s.status /\ t.received = s.received
               /\ t.sent # <<>> /\ t.sent[Len(t.sent)] = r /\ t.verdict = s.verdict
  <1> DEFINE q == Append(s.sent, r)
             w == s.writes \cup {r}
  <1>0. s.sent \in Seq(Requests) /\ s.writes \in SUBSET Requests
    BY DEF States
  <1>1. q \in Seq(Requests) /\ q # <<>> /\ q[Len(q)] = r
    BY <1>0, AppendProperties, LenProperties, EmptySeq
  <1>2. w \in SUBSET Requests
    BY <1>0
  <1>3. DoSendData(s, r) = [s EXCEPT !.writes = w, !.sent = q]
    BY DEF DoSendData, States
  <1> HIDE DEF q, w
  <1> QED  BY <1>1, <1>2, <1>3 DEF States

\* A request that is sent becomes the last one, and moves the client on.
Asks(s, t, request, status) ==
    /\ t \in States /\ t.status = status /\ t.received = s.received /\ t.verdict = s.verdict
    /\ t.sent # <<>> /\ t.sent[Len(t.sent)] = request

\* The three requests, each with the status that waits for its reply.
LEMMA Sends ==
    ASSUME NEW s \in States
    PROVE  /\ Asks(s, DoSendHello(s), "hello", "Hello")
           /\ Asks(s, DoSocks5Auth(s), "auth", "AuthReq")
           /\ Asks(s, DoConnectMyServer(s), "connect", "ConSvr")
  <1>1. ASSUME NEW r \in Requests, NEW status \in Statuses
        PROVE  Asks(s, DoReceiveData([DoSendData(s, r) EXCEPT !.status = status]), r, status)
    <2> DEFINE a == DoSendData(s, r)
               b == [a EXCEPT !.status = status]
    <2>1. /\ a \in States /\ a.received = s.received /\ a.verdict = s.verdict
          /\ a.sent # <<>> /\ a.sent[Len(a.sent)] = r
      BY SendEffect
    <2> HIDE DEF a
    <2>2. /\ b \in States /\ b.status = status /\ b.received = a.received /\ b.sent = a.sent
          /\ b.verdict = a.verdict
      BY <2>1, StatusEffect
    <2> HIDE DEF b
    <2>3. Asks(s, DoReceiveData(b), r, status)
      BY <2>1, <2>2, ReceiveEffect DEF Asks
    <2> QED  BY <2>3 DEF a, b
  <1>2. {"hello", "auth", "connect"} \subseteq Requests /\ {"Hello", "AuthReq", "ConSvr"} \subseteq Statuses
    BY DEF Requests, Statuses
  <1> QED  BY <1>1, <1>2 DEF DoSendHello, DoSocks5Auth, DoConnectMyServer

\* What a handler does with the bytes it has: it waits for more, it fails, it
\* sends the next request, or it succeeds.
Waits(s, t) ==
    /\ t.status = s.status /\ t.received = s.received /\ t.sent = s.sent /\ t.verdict = s.verdict
    /\ t.read = s.read \/ s.received < 4
Fails(s, t) == t.sent = s.sent /\ t.verdict = "failed"
AsksOn(s, t, request, status) == s.received >= 2 /\ Asks([s EXCEPT !.received = 0], t, request, status)
Succeeds(s, t) ==
    /\ s.status = "ConSvr" /\ s.received >= 4 /\ s.received >= Needed(s.received)
    /\ reply.ver /\ reply.code = "ok" /\ t.sent = s.sent /\ t.verdict = "succeeded" /\ t.read = s.read

\* The greeting's reply.
LEMMA HelloResult ==
    ASSUME NEW s \in States, NEW t, t = HandleHello(s)
    PROVE  /\ t \in States
           /\ \/ Waits(s, t) \/ Fails(s, t)
              \/ AsksOn(s, t, "connect", "ConSvr") \/ AsksOn(s, t, "auth", "AuthReq")
  <1> DEFINE z == [s EXCEPT !.received = 0]
  <1>0. s.received \in Nat
    BY DEF States
  <1>1. z \in States
    BY ResetEffect
  <1>2. "failed" \in Verdicts
    BY DEF Verdicts
  <1>3. CASE s.received < 2
    BY <1>0, <1>3, ReceiveEffect DEF HandleHello, Waits
  <1>4. CASE t = OnSocks5Handshake(s, "failed")
    BY <1>4, <1>2, VerdictEffect DEF Fails
  <1>5. CASE s.received >= 2 /\ t = DoConnectMyServer(z)
    <2>1. Asks(z, t, "connect", "ConSvr")
      BY <1>1, <1>5, Sends
    <2> QED  BY <2>1, <1>5 DEF AsksOn, Asks
  <1>6. CASE s.received >= 2 /\ t = DoSocks5Auth(z)
    <2>1. Asks(z, t, "auth", "AuthReq")
      BY <1>1, <1>6, Sends
    <2> QED  BY <2>1, <1>6 DEF AsksOn, Asks
  <1>7. \/ s.received < 2 \/ t = OnSocks5Handshake(s, "failed")
        \/ s.received >= 2 /\ t = DoConnectMyServer(z)
        \/ s.received >= 2 /\ t = DoSocks5Auth(z)
    <2>1. \/ s.received < 2 \/ t = OnSocks5Handshake(s, "failed")
          \/ t = DoConnectMyServer(z) \/ t = DoSocks5Auth(z)
      BY DEF HandleHello
    <2> HIDE DEF z
    <2> QED  BY <1>0, <2>1
  <1> QED  BY <1>3, <1>4, <1>5, <1>6, <1>7

\* The reply to the user name and the password.
LEMMA AuthResult ==
    ASSUME NEW s \in States, NEW t, t = HandleSocks5Auth(s)
    PROVE  /\ t \in States
           /\ Waits(s, t) \/ Fails(s, t) \/ AsksOn(s, t, "connect", "ConSvr")
  <1> DEFINE z == [s EXCEPT !.received = 0]
  <1>0. s.received \in Nat
    BY DEF States
  <1>1. z \in States
    BY ResetEffect
  <1>2. "failed" \in Verdicts
    BY DEF Verdicts
  <1>3. CASE s.received < 2
    BY <1>0, <1>3, ReceiveEffect DEF HandleSocks5Auth, Waits
  <1>4. CASE t = OnSocks5Handshake(s, "failed")
    BY <1>4, <1>2, VerdictEffect DEF Fails
  <1>5. CASE s.received >= 2 /\ t = DoConnectMyServer(z)
    <2>1. Asks(z, t, "connect", "ConSvr")
      BY <1>1, <1>5, Sends
    <2> QED  BY <2>1, <1>5 DEF AsksOn, Asks
  <1>7. \/ s.received < 2 \/ t = OnSocks5Handshake(s, "failed")
        \/ s.received >= 2 /\ t = DoConnectMyServer(z)
    BY <1>0 DEF HandleSocks5Auth
  <1> QED  BY <1>3, <1>4, <1>5, <1>7

\* The reply to the connect request: success needs the length its address asks for.
LEMMA ConnectResult ==
    ASSUME NEW s \in States, NEW t, t = HandleConnectBussinessServer(s), s.status = "ConSvr",
           Needed(s.received) \in Nat
    PROVE  t \in States /\ (Waits(s, t) \/ Fails(s, t) \/ Succeeds(s, t))
  <1> DEFINE z == [s EXCEPT !.status = "ConSvrSuccess"]
  <1>0. s.received \in Nat
    BY DEF States
  <1>1. z \in States /\ z.sent = s.sent /\ z.read = s.read
    BY StatusEffect DEF Statuses
  <1>2. "failed" \in Verdicts /\ "succeeded" \in Verdicts
    BY DEF Verdicts
  <1>3. CASE s.received < 4
    BY <1>3, ReceiveEffect DEF HandleConnectBussinessServer, Waits
  <1>4. CASE t = OnSocks5Handshake(s, "failed")
    BY <1>4, <1>2, VerdictEffect DEF Fails
  <1>5. CASE t = s
    BY <1>5 DEF Waits
  <1>6. CASE /\ s.received >= 4 /\ s.received >= Needed(s.received) /\ reply.ver /\ reply.code = "ok"
             /\ t = OnSocks5Handshake(z, "succeeded")
    <2> HIDE DEF z
    <2>1. t \in States /\ t.sent = z.sent /\ t.verdict = "succeeded" /\ t.read = z.read
      BY <1>1, <1>2, <1>6, VerdictEffect
    <2> QED  BY <1>1, <1>6, <2>1 DEF Succeeds
  <1>7. \/ s.received < 4 \/ t = OnSocks5Handshake(s, "failed") \/ t = s
        \/ /\ s.received >= 4 /\ s.received >= Needed(s.received) /\ reply.ver /\ reply.code = "ok"
           /\ t = OnSocks5Handshake(z, "succeeded")
    BY <1>0 DEF HandleConnectBussinessServer
  <1> QED  BY <1>3, <1>4, <1>5, <1>6, <1>7

\* The length a reply asks for is a number.
LEMMA NeededNat == ASSUME Typing, NEW n \in Nat PROVE Needed(n) \in Nat
  <1>1. reply.len \in Nat
    BY DEF Typing, Replies
  <1>2. CASE reply.atyp = "Host"
    <2>1. HostLength(n) \in Int
      BY <1>1 DEF HostLength
    <2>2. HostLength(n) >= -128
      BY <1>1 DEF HostLength
    <2> QED  BY <1>2, <2>1, <2>2 DEF Needed, SizeT
  <1> QED  BY <1>2 DEF Needed

-----------------------------------------------------------------------------
(* The invariant, action by action.                                        *)

\* A Socks5Client that was just made satisfies the invariant.
LEMMA InitIInv == Init => IInv
  <1> SUFFICES ASSUME Init PROVE IInv
    OBVIOUS
  <1>1. NoReply \in Replies /\ NoReply.to = "none"
    BY DEF NoReply, Replies, Codes, Kinds
  <1>2. Typing
    BY <1>1 DEF Init, Typing, Statuses
  <1>3. Once
    BY DEF Init, Once
  <1>6. Whole
    BY DEF Init, Whole
  <1>4. Sized
    BY <1>1 DEF Init, Sized
  <1>5. Counted
    BY <1>1 DEF Init, Counted
  <1>7. HeadOnly
    BY DEF Init, HeadOnly
  <1> QED  BY <1>2, <1>3, <1>4, <1>5, <1>6, <1>7 DEF IInv

\* The state of the client, gathered in one record.
LEMMA StateTyped ==
    ASSUME Typing
    PROVE  /\ State \in States /\ State.status = socks5_status_ /\ State.received = received_data_
           /\ State.sent = sent /\ State.verdict = "none" /\ State.writes = writes /\ State.read = read
  BY DEF Typing, State, States, Verdicts

\* The end of a handler keeps the types, and hears a verdict only of an owned client.
LEMMA BecomesTyped ==
    ASSUME Typing, Once, owned, NEW t \in States, Becomes(t), reply' \in Replies, unread' \in Nat
    PROVE  Typing' /\ Once'
  <1>1. verdicts = <<>>
    BY DEF Once
  <1>2. t.verdict = "none" \/ t.verdict \in Verdicts
    BY DEF States
  <1>3. CASE t.verdict = "none"
    BY <1>1, <1>3 DEF Becomes, Typing, Once, States
  <1>4. CASE t.verdict # "none" /\ t.verdict \in Verdicts
    <2>1. verdicts' = <<t.verdict>>
      BY <1>1, <1>4 DEF Becomes
    <2>2. Len(verdicts') = 1 /\ verdicts' \in Seq(Verdicts)
      BY <2>1, <1>4
    <2>3. owned' = FALSE
      BY <1>4 DEF Becomes
    <2>4. /\ socks5_status_' \in Statuses /\ received_data_' \in Nat /\ read' \in {"none", "pending"}
          /\ writes' \in SUBSET Requests /\ sent' \in Seq(Requests)
      BY DEF Becomes, States
    <2>5. Typing'
      BY <2>2, <2>3, <2>4 DEF Typing
    <2>6. Once'
      BY <2>2, <2>3 DEF Once
    <2> QED  BY <2>5, <2>6
  <1> QED  BY <1>2, <1>3, <1>4

\* Connect sends the hello, and begins to read.
LEMMA ConnectInductive == IInv /\ Connect => IInv'
  <1> SUFFICES ASSUME IInv, Connect PROVE IInv'
    OBVIOUS
  <1> DEFINE t == DoSendHello(State)
  <1>1. State \in States /\ State.received = received_data_ /\ State.verdict = "none" /\ State.status = "Init"
    BY StateTyped DEF IInv, Connect
  <1>2. LoopSocks5Handshake(State) = t
    BY <1>1 DEF LoopSocks5Handshake
  <1>3. Asks(State, t, "hello", "Hello")
    BY <1>1, Sends
  <1> HIDE DEF t
  <1>4. Becomes(t) /\ owned /\ socks5_status_ = "Init" /\ reply' = reply /\ unread' = unread
    BY <1>2 DEF Connect, proxy
  <1>5. /\ t \in States /\ t.verdict = "none" /\ t.received = received_data_ /\ t.status = "Hello"
        /\ t.sent # <<>> /\ t.sent[Len(t.sent)] = "hello"
    BY <1>1, <1>3 DEF Asks
  <1>6. Typing' /\ Once'
    BY <1>4, <1>5, BecomesTyped DEF IInv, Typing
  <1>7. Sized'
    BY <1>4 DEF IInv, Sized
  <1>8. verdicts' = <<>>
    BY <1>4, <1>5 DEF Becomes, IInv, Once
  <1>9. Whole'
    BY <1>8 DEF Whole
  <1>10. sent = <<>> /\ received_data_ = 0 /\ unread = 0 /\ reply.to = "none"
    BY <1>4 DEF IInv, Counted
  <1>11. Asked' = "hello" /\ sent' # <<>> /\ socks5_status_' = "Hello" /\ received_data_' = 0 /\ unread' = 0
    BY <1>4, <1>5, <1>10 DEF Becomes, Asked
  <1>12. Counted'
    BY <1>4, <1>10, <1>11 DEF Counted, RequestOf
  <1>13. HeadOnly'
    BY <1>11 DEF HeadOnly
  <1> QED  BY <1>6, <1>7, <1>9, <1>12, <1>13 DEF IInv

\* A read gets no more bytes than there are.
LEMMA MinLeq == ASSUME NEW a \in Nat, NEW b \in Nat PROVE Min({a, b}) \in Nat /\ Min({a, b}) <= a /\ Min({a, b}) <= b
  <1>1. \E x \in {a, b} : \A y \in {a, b} : x <= y
    OBVIOUS
  <1> DEFINE m == CHOOSE x \in {a, b} : \A y \in {a, b} : x <= y
  <1>2. m \in {a, b} /\ \A y \in {a, b} : m <= y
    BY <1>1
  <1> HIDE DEF m
  <1>3. Min({a, b}) = m
    BY DEF Min, m
  <1> QED  BY <1>2, <1>3

\* Bytes that arrive are counted.
LEMMA TakenEffect ==
    ASSUME NEW s \in States, NEW n \in Nat
    PROVE  LET t == [s EXCEPT !.read = "none", !.received = @ + n]
           IN  /\ t \in States /\ t.status = s.status /\ t.received = s.received + n
               /\ t.sent = s.sent /\ t.verdict = s.verdict /\ t.read = "none"
  <1> DEFINE k == s.received + n
             t == [s EXCEPT !.read = "none", !.received = k]
  <1>1. k \in Nat
    BY DEF States
  <1> HIDE DEF k
  <1>2. /\ t \in States /\ t.status = s.status /\ t.received = k
        /\ t.sent = s.sent /\ t.verdict = s.verdict /\ t.read = "none"
    BY <1>1 DEF States
  <1> QED  BY <1>2 DEF k

\* When the client, which by then has 13 bytes at most, has as many as the address
\* asks for, it has the whole reply, unless the length of a host name is misread.
LEMMA NeededExact ==
    ASSUME Typing, Sized, reply.to = "connect", reply.atyp # "Other",
           NEW n \in Nat, n >= 4, n <= 13, n >= Needed(n), n <= reply.len
    PROVE  n < reply.len <=> Misread
  <1>1. reply.atyp \in {"IPv4", "Host", "IPv6"} /\ reply.len \in ReplyLengths[reply.atyp]
    BY DEF Typing, Replies, Kinds, Sized
  <1>2. CASE reply.atyp = "IPv4"
    BY <1>1, <1>2 DEF Needed, ReplyLengths, Misread
  <1>3. CASE reply.atyp = "IPv6"
    BY <1>1, <1>3 DEF Needed, ReplyLengths, Misread
  <1>4. CASE reply.atyp = "Host"
    <2>1. PICK h \in HostLengths : reply.len = 4 + 1 + h + 2
      BY <1>1, <1>4 DEF ReplyLengths
    <2>2. h \in Nat /\ h <= 255 /\ reply.len = 7 + h
      BY <2>1, HostAssumption
    <2>3. Needed(n) = SizeT(4 + 1 + HostLength(n) + 2)
      BY <1>4 DEF Needed
    <2>4. n > 4
      <3>1. n = 4 => HostLength(n) = 0
        BY DEF HostLength
      <3> QED  BY <2>3, <3>1 DEF SizeT
    <2>5. CASE SignedChar /\ h > 127
      <3>1. HostLength(n) = h - 256
        BY <2>2, <2>4, <2>5 DEF HostLength
      <3>2. h >= 249
        BY <2>2, <2>3, <3>1 DEF SizeT
      <3> QED  BY <1>4, <2>2, <2>5, <3>2 DEF Misread
    <2>6. CASE ~(SignedChar /\ h > 127)
      <3>1. HostLength(n) = h
        BY <2>2, <2>4, <2>6 DEF HostLength
      <3>2. n = reply.len
        BY <2>2, <2>3, <3>1 DEF SizeT
      <3> QED  BY <2>2, <2>6, <3>2 DEF Misread
    <2> QED  BY <2>5, <2>6
  <1> QED  BY <1>1, <1>2, <1>3, <1>4

\* What a handler makes of the bytes that have come: the cases of the status.
LEMMA LoopResult ==
    ASSUME Typing, NEW s \in States, s.status \in {"Hello", "AuthReq", "ConSvr"},
           NEW t, t = LoopSocks5Handshake(s)
    PROVE  /\ t \in States
           /\ \/ Waits(s, t) \/ Fails(s, t) \/ Succeeds(s, t)
              \/ s.status \in {"Hello", "AuthReq"} /\ AsksOn(s, t, "connect", "ConSvr")
              \/ s.status = "Hello" /\ AsksOn(s, t, "auth", "AuthReq")
  <1>1. CASE s.status = "Hello"
    <2>1. t = HandleHello(s)
      BY <1>1 DEF LoopSocks5Handshake
    <2> QED  BY <1>1, <2>1, HelloResult
  <1>2. CASE s.status = "AuthReq"
    <2>1. t = HandleSocks5Auth(s)
      BY <1>2 DEF LoopSocks5Handshake
    <2> QED  BY <1>2, <2>1, AuthResult
  <1>3. CASE s.status = "ConSvr"
    <2>1. t = HandleConnectBussinessServer(s)
      BY <1>3 DEF LoopSocks5Handshake
    <2>2. Needed(s.received) \in Nat
      BY NeededNat DEF States
    <2> QED  BY <1>3, <2>1, <2>2, ConnectResult
  <1> QED  BY <1>1, <1>2, <1>3

\* A read that completes is judged by the status it was made in.
LEMMA ReceiveInductive == ASSUME IInv, NEW n, Receive(n) PROVE IInv'
  <1>1. unread \in Nat /\ received_data_ \in Nat /\ reply \in Replies
    BY DEF IInv, Typing
  <1>2. n \in Nat /\ n >= 1 /\ n <= unread /\ n <= 10 /\ read = "pending"
    <2>1. Min({unread, ReadBuffer}) \in Nat /\ Min({unread, ReadBuffer}) <= unread /\ Min({unread, ReadBuffer}) <= 10
      BY <1>1, MinLeq DEF ReadBuffer
    <2> QED  BY <1>1, <2>1 DEF Receive
  <1>3. unread' = unread - n /\ unread' \in Nat /\ reply' = reply
    BY <1>1, <1>2 DEF Receive
  <1>4. Sized'
    BY <1>3 DEF IInv, Sized
  <1>5. CASE ~owned
    <2>1. read' = "none" /\ UNCHANGED <<client, writes, owned, verdicts>>
      BY <1>5 DEF Receive
    <2>2. Typing' /\ Once'
      BY <1>3, <2>1 DEF IInv, Typing, Once, client
    <2>3. Counted'
      BY <2>1, <1>5 DEF Counted
    <2>4. Whole'
      BY <1>2, <2>1 DEF IInv, Whole
    <2>5. HeadOnly'
      BY <2>1 DEF HeadOnly
    <2> QED  BY <1>4, <2>2, <2>3, <2>4, <2>5 DEF IInv
  <1>6. CASE owned
    <2> DEFINE s == [State EXCEPT !.read = "none", !.received = @ + n]
               t == LoopSocks5Handshake(s)
    <2>1. /\ s \in States /\ s.status = socks5_status_ /\ s.received = received_data_ + n
          /\ s.sent = sent /\ s.verdict = "none" /\ s.read = "none"
      <3> DEFINE st == State
      <3>1. /\ st \in States /\ st.status = socks5_status_ /\ st.received = received_data_
            /\ st.sent = sent /\ st.verdict = "none"
        BY StateTyped DEF IInv
      <3>2. s = [st EXCEPT !.read = "none", !.received = @ + n]
        OBVIOUS
      <3> HIDE DEF st, s
      <3>3. /\ s \in States /\ s.status = st.status /\ s.received = st.received + n
            /\ s.sent = st.sent /\ s.verdict = st.verdict /\ s.read = "none"
        BY <1>2, <3>1, <3>2, TakenEffect
      <3> QED  BY <3>1, <3>3
    <2>2. Becomes(t)
      BY <1>6 DEF Receive
    <2> HIDE DEF s
    <2>3. /\ sent # <<>> /\ reply.to = Asked /\ Asked = RequestOf(socks5_status_)
          /\ received_data_ + unread = reply.len /\ reply.len \in Nat
          /\ socks5_status_ \in {"Hello", "AuthReq", "ConSvr"}
      BY <1>1, <1>2, <1>6 DEF IInv, Typing, Statuses, Counted, Replies
    <2>4. /\ t \in States
          /\ \/ Waits(s, t) \/ Fails(s, t) \/ Succeeds(s, t)
             \/ s.status \in {"Hello", "AuthReq"} /\ AsksOn(s, t, "connect", "ConSvr")
             \/ s.status = "Hello" /\ AsksOn(s, t, "auth", "AuthReq")
      BY <2>1, <2>3, LoopResult DEF IInv
    <2> HIDE DEF t
    <2>5. Typing' /\ Once'
      BY <1>1, <1>3, <1>6, <2>2, <2>4, BecomesTyped DEF IInv
    <2>6. verdicts = <<>>
      BY <1>6 DEF IInv, Once
    <2>7. s.received \in Nat /\ s.received + unread' = reply.len
      BY <1>1, <1>2, <1>3, <2>1, <2>3
    <2>8. CASE Waits(s, t)
      <3>1. verdicts' = <<>> /\ owned' /\ socks5_status_' = socks5_status_ /\ sent' = sent
              /\ received_data_' = s.received
        BY <2>1, <2>2, <2>6, <2>8, <1>6 DEF Waits, Becomes
      <3>2. Whole'
        BY <3>1 DEF Whole
      <3>3. Asked' = Asked
        BY <3>1 DEF Asked
      <3>4. Counted'
        BY <3>1, <3>3, <2>3, <2>7, <1>3 DEF Counted
      <3>5. HeadOnly'
        BY <2>1, <2>2, <2>8, <3>1 DEF Waits, Becomes, HeadOnly
      <3> QED  BY <1>4, <2>5, <3>2, <3>4, <3>5 DEF IInv
    <2>9. CASE Fails(s, t)
      <3>1. verdicts' = <<"failed">> /\ ~owned'
        <4>1. t.verdict = "failed" /\ verdicts' = Append(<<>>, t.verdict)
          BY <2>2, <2>6, <2>9 DEF Fails, Becomes
        <4>2. ~owned'
          BY <2>2, <4>1 DEF Becomes
        <4> QED  BY <4>1, <4>2
      <3>2. Whole' /\ Counted' /\ HeadOnly'
        BY <3>1 DEF Whole, Counted, HeadOnly
      <3> QED  BY <1>4, <2>5, <3>2 DEF IInv
    <2>10. CASE Succeeds(s, t)
      <3>1. ~owned' /\ sent' = sent /\ read' = "none"
        BY <2>1, <2>2, <2>10 DEF Succeeds, Becomes
      <3>2. Counted' /\ HeadOnly'
        BY <3>1 DEF Counted, HeadOnly
      <3>3. /\ Asked = "connect" /\ reply.to = "connect" /\ reply.ver /\ reply.code = "ok"
            /\ s.received >= 4 /\ s.received >= Needed(s.received) /\ s.received <= reply.len
        BY <2>1, <2>3, <2>7, <2>10, <1>3 DEF Succeeds, RequestOf
      <3>4. s.received <= 13
        BY <1>1, <1>2, <1>6, <2>1, <2>10 DEF IInv, HeadOnly, Succeeds
      <3>5. reply.atyp # "Other" => (s.received < reply.len <=> Misread)
        BY <2>7, <3>3, <3>4, NeededExact DEF IInv
      <3>6. reply.atyp # "Other" => (unread' > 0 <=> Misread)
        BY <2>3, <2>7, <3>5, <1>3
      <3>7. Asked' = "connect" /\ (Misread' <=> Misread)
        BY <1>3, <3>1, <3>3 DEF Asked, Misread
      <3>8. Whole'
        BY <3>1, <3>3, <3>6, <3>7, <2>3, <1>3 DEF Whole
      <3> QED  BY <1>4, <2>5, <3>2, <3>8 DEF IInv
    <2>11. ASSUME NEW r \in Requests, NEW status \in Statuses, AsksOn(s, t, r, status),
                  s.status \in {"Hello", "AuthReq"}, r # reply.to, r = RequestOf(status),
                  status \notin {"Init", "ConSvrSuccess"}
           PROVE  IInv'
      <3> DEFINE z == [s EXCEPT !.received = 0]
      <3>1. z.received = 0 /\ z.verdict = "none"
        BY <2>1, ResetEffect
      <3>2. s.received >= 2 /\ Asks(z, t, r, status)
        BY <2>11 DEF AsksOn
      <3> HIDE DEF z
      <3>3. /\ t.received = 0 /\ t.verdict = "none" /\ t.status = status
            /\ t.sent # <<>> /\ t.sent[Len(t.sent)] = r
        BY <3>1, <3>2 DEF Asks
      <3>4. /\ verdicts' = <<>> /\ owned' /\ received_data_' = 0 /\ socks5_status_' = status
            /\ sent' # <<>>
        BY <2>2, <2>6, <1>6, <3>3 DEF Becomes
      <3>5. Asked' = r
        BY <2>2, <3>3 DEF Becomes, Asked
      <3>6. reply.len = 2
        <4>1. reply.to \in {"hello", "auth"}
          BY <2>1, <2>3, <2>11 DEF RequestOf
        <4> QED  BY <4>1 DEF IInv, Sized
      <3>7. unread' = 0
        BY <3>2, <3>6, <2>7, <1>3
      <3>8. Counted'
        BY <3>4, <3>5, <3>7, <2>11, <1>3 DEF Counted
      <3>9. Whole' /\ HeadOnly'
        BY <3>4 DEF Whole, HeadOnly
      <3> QED  BY <1>4, <2>5, <3>8, <3>9 DEF IInv
    <2>12. CASE s.status \in {"Hello", "AuthReq"} /\ AsksOn(s, t, "connect", "ConSvr")
      <3>1. "connect" # reply.to /\ "connect" = RequestOf("ConSvr")
        BY <2>1, <2>3, <2>12 DEF RequestOf
      <3> QED  BY <2>11, <2>12, <3>1 DEF Requests, Statuses
    <2>13. CASE s.status = "Hello" /\ AsksOn(s, t, "auth", "AuthReq")
      <3>1. "auth" # reply.to /\ "auth" = RequestOf("AuthReq")
        BY <2>1, <2>3, <2>13 DEF RequestOf
      <3> QED  BY <2>11, <2>13, <3>1 DEF Requests, Statuses
    <2> QED  BY <2>4, <2>8, <2>9, <2>10, <2>12, <2>13
  <1> QED  BY <1>5, <1>6 DEF IInv, Typing

\* A handler that ends in a failure keeps the invariant, whoever called it.
LEMMA FailureInductive ==
    ASSUME IInv, owned, NEW s \in States, Becomes(OnSocks5Handshake(s, "failed")),
           reply' = reply, unread' = unread
    PROVE  IInv'
  <1> DEFINE t == OnSocks5Handshake(s, "failed")
  <1>1. t \in States /\ t.verdict = "failed"
    BY VerdictEffect DEF Verdicts
  <1>2. Becomes(t)
    OBVIOUS
  <1> HIDE DEF t
  <1>3. Typing' /\ Once'
    BY <1>1, <1>2, BecomesTyped DEF IInv, Typing
  <1>4. Sized'
    BY DEF IInv, Sized
  <1>5. verdicts' = <<"failed">>
    <2>1. verdicts' = Append(<<>>, t.verdict)
      BY <1>1, <1>2 DEF Becomes, IInv, Once
    <2> QED  BY <1>1, <2>1
  <1>6. ~owned'
    BY <1>1, <1>2 DEF Becomes
  <1>7. Whole' /\ Counted' /\ HeadOnly'
    BY <1>5, <1>6 DEF Whole, Counted, HeadOnly
  <1> QED  BY <1>3, <1>4, <1>7 DEF IInv

\* The steps that touch neither the client nor the reply.
LEMMA FramedInductive ==
    ASSUME IInv, UNCHANGED <<client, proxy, verdicts>>, owned' \in {owned, FALSE},
           read' \in {read, "none"}, writes' \in SUBSET Requests
    PROVE  IInv'
  <1>0. owned' \in BOOLEAN /\ (owned' => owned)
    <2>0. owned \in BOOLEAN
      BY DEF IInv, Typing
    <2>1. CASE owned' = owned
      BY <2>0, <2>1
    <2>2. CASE owned' = FALSE
      BY <2>2
    <2> QED  BY <2>1, <2>2
  <1>1. Typing' /\ Once'
    <2>1. Typing'
      BY <1>0 DEF IInv, Typing, client, proxy
    <2>2. Once'
      BY <1>0 DEF IInv, Once
    <2> QED  BY <2>1, <2>2
  <1>2. Sized'
    BY DEF IInv, Sized, proxy
  <1>3. Asked' = Asked
    BY DEF Asked, client
  <1>4. Counted'
    BY <1>3 DEF IInv, Counted, client, proxy
  <1>5. Misread' <=> Misread
    BY DEF Misread, proxy
  <1>6. Whole'
    BY <1>3, <1>5 DEF IInv, Whole, client, proxy
  <1>7. HeadOnly'
    BY <1>0 DEF IInv, HeadOnly, client
  <1> QED  BY <1>1, <1>2, <1>4, <1>6, <1>7 DEF IInv

\* A read that fails ends the handshake with a failure.
LEMMA ReceiveFailsInductive == IInv /\ ReceiveFails => IInv'
  <1> SUFFICES ASSUME IInv, ReceiveFails PROVE IInv'
    OBVIOUS
  <1>1. CASE owned
    <2>1. [State EXCEPT !.read = "none"] \in States
      BY StateTyped DEF IInv, States
    <2> QED  BY <1>1, <2>1, FailureInductive DEF ReceiveFails, proxy
  <1>2. CASE ~owned
    BY <1>2, FramedInductive DEF ReceiveFails, IInv, Typing
  <1> QED  BY <1>1, <1>2

\* So does a write that fails, once.
LEMMA WriteFailsInductive == ASSUME IInv, NEW r \in Requests, WriteFails(r) PROVE IInv'
  <1>0. writes \ {r} \in SUBSET Requests
    BY DEF IInv, Typing
  <1>1. CASE owned
    <2> DEFINE w == writes \ {r}
    <2>1. [State EXCEPT !.writes = @ \ {r}] = [State EXCEPT !.writes = w]
      BY DEF State
    <2> HIDE DEF w
    <2>2. [State EXCEPT !.writes = w] \in States
      BY <1>0, StateTyped DEF IInv, States, w
    <2> QED  BY <1>1, <2>1, <2>2, FailureInductive DEF WriteFails, proxy
  <1>2. CASE ~owned
    BY <1>0, <1>2, FramedInductive DEF WriteFails, IInv, Typing
  <1> QED  BY <1>1, <1>2

\* A write that succeeds changes nothing else.
LEMMA WriteDoneInductive == ASSUME IInv, NEW r \in Requests, WriteDone(r) PROVE IInv'
  BY FramedInductive DEF WriteDone, IInv, Typing

\* After CleanUp the client is told nothing.
LEMMA CleanUpInductive == ASSUME IInv, CleanUp PROVE IInv'
  BY FramedInductive DEF CleanUp, IInv, Typing

\* A reply has its kind's length.
LEMMA ReplySized ==
    ASSUME NEW request \in Requests, NEW r \in RepliesTo(request)
    PROVE  /\ r \in Replies /\ r.to = request
           /\ request \in {"hello", "auth"} => r.len = 2
           /\ request = "connect" => r.len \in ReplyLengths[r.atyp]
  <1>1. CASE request = "hello"
    BY <1>1 DEF RepliesTo, Replies, Requests, Codes, Kinds
  <1>2. CASE request = "auth"
    BY <1>2 DEF RepliesTo, Replies, Requests, Codes, Kinds
  <1>3. CASE request = "connect"
    <2>1. PICK a \in ConnectReplies :
             r \in [to : {"connect"}, ver : BOOLEAN, atyp : {a}, len : ReplyLengths[a],
                    code : {"ok", "refused"}]
      BY <1>3 DEF RepliesTo
    <2>2. a \in Kinds /\ ReplyLengths[a] \subseteq Nat
      <3>1. {4 + 1 + h + 2 : h \in HostLengths} \subseteq Nat
        BY HostAssumption
      <3> QED  BY <3>1, RepliesAssumption DEF ReplyLengths, Kinds
    <2> QED  BY <1>3, <2>1, <2>2 DEF Replies, Requests, Codes
  <1> QED  BY <1>1, <1>2, <1>3 DEF Requests

\* The server replies to what it was asked last.
LEMMA AnswerInductive == ASSUME IInv, Answer PROVE IInv'
  <1>1. PICK r \in RepliesTo(Asked) : reply' = r /\ unread' = r.len
    BY DEF Answer, Asked
  <1>2. sent # <<>> /\ unread = 0 /\ reply.to # Asked
    BY DEF Answer, Asked
  <1>3. Asked \in Requests
    <2>1. sent \in Seq(Requests)
      BY DEF IInv, Typing
    <2>2. Len(sent) \in 1 .. Len(sent)
      BY <1>2, <2>1, EmptySeq, LenProperties
    <2> QED  BY <2>1, <2>2, ElementOfSeq DEF Asked
  <1>4. /\ r \in Replies /\ r.to = Asked /\ r.len \in Nat
        /\ Asked \in {"hello", "auth"} => r.len = 2
        /\ Asked = "connect" => r.len \in ReplyLengths[r.atyp]
    BY <1>1, <1>3, ReplySized DEF Replies
  <1>5. UNCHANGED <<client, read, writes, owned, verdicts>>
    BY DEF Answer
  <1>6. Asked' = Asked
    BY <1>5 DEF Asked, client
  <1>7. Typing' /\ Once'
    BY <1>1, <1>4, <1>5 DEF IInv, Typing, Once, client
  <1>8. Sized'
    BY <1>1, <1>3, <1>4 DEF Sized
  <1>9. Counted'
    BY <1>1, <1>2, <1>4, <1>5, <1>6 DEF IInv, Typing, Counted, client
  <1>10. verdicts # <<"succeeded">>
    BY <1>2 DEF IInv, Whole
  <1>11. Whole' /\ HeadOnly'
    BY <1>5, <1>10 DEF Whole, HeadOnly, IInv, client
  <1> QED  BY <1>7, <1>8, <1>9, <1>11 DEF IInv

-----------------------------------------------------------------------------
(* The theorems.                                                           *)

(* The count of received bytes belongs to the reply of the last request,   *)
(* whatever the network cuts, and a client with a verdict is given up.     *)
THEOREM Invariant == Spec => []IInv
  <1>1. ASSUME IInv, [Next]_vars PROVE IInv'
    <2>1. CASE Connect
      BY <1>1, <2>1, ConnectInductive
    <2>2. CASE Delivery
      BY <1>1, <2>2, ReceiveInductive DEF Delivery
    <2>3. CASE ReceiveFails
      BY <1>1, <2>3, ReceiveFailsInductive
    <2>4. CASE CleanUp
      BY <1>1, <2>4, CleanUpInductive
    <2>5. CASE Answer
      BY <1>1, <2>5, AnswerInductive
    <2>6. ASSUME NEW r \in Requests, WriteDone(r) \/ WriteFails(r) PROVE IInv'
      BY <1>1, <2>6, WriteDoneInductive, WriteFailsInductive
    <2>7. CASE UNCHANGED vars
      BY <1>1, <2>7, FramedInductive DEF vars, client, proxy, IInv, Typing
    <2> QED  BY <1>1, <2>1, <2>2, <2>3, <2>4, <2>5, <2>6, <2>7 DEF Next
  <1> QED  BY <1>1, InitIInv, PTL DEF Spec

(* OneVerdict: the failures of the read and of up to three writes race with  *)
(* the verdict of a handler, and one of them at most is told the connection. *)
THEOREM VerdictOnce == Spec => []OneVerdict
  <1>1. IInv => OneVerdict
    BY DEF IInv, Once, OneVerdict
  <1> QED  BY <1>1, Invariant, PTL

(* SuccessIsWhole: however the replies are cut and whatever the lengths of  *)
(* their host names, the client says "succeeded" of a positive connect reply *)
(* only, and has then taken it to its last byte if and only if its length    *)
(* byte was not misread by HandleConnectBussinessServer.                     *)
THEOREM WholeReply == Spec => []SuccessIsWhole
  <1>1. IInv => SuccessIsWhole
    BY DEF IInv, Whole, SuccessIsWhole
  <1> QED  BY <1>1, Invariant, PTL
=============================================================================
