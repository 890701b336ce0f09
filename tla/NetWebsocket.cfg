SPECIFICATION FairSpec
CONSTANTS
    Clients = {c1}
    NetTypes = {"Websocket"}
    Proxies = {FALSE}
    Messages = {m1}
    MaxRecv = 1
    Nothing = Nothing
PROPERTIES DisConnectQuiesces
CHECK_DEADLOCK FALSE
