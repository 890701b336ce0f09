SPECIFICATION FairSpec
CONSTANTS
    Clients = {c1, c2}
    NetTypes = {"Tcp", "TcpTls", "Websocket", "WebsocketTls"}
    Proxies = {TRUE, FALSE}
    Messages = {m1, m2}
    MaxRecv = 1
    Nothing = Nothing
INVARIANTS NoCallbackAfterDisConnect CallbackOrder OneOperationEach WireOrder ResolverNotDangling
PROPERTIES SocketsQuiesce
CHECK_DEADLOCK FALSE
