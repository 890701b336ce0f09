------------------------------ MODULE MCHttpUrl ------------------------------
(* URLs for model checking HttpUrl: every short server part, and longer     *)
(* ones with an address in brackets, a zone, a user and a port.             *)
EXTENDS HttpUrl

Schemas == {<<>>, <<"a", ":", "/", "/">>, <<"s", ":", "/", "/">>, <<"a", ":", "/">>}

ServerChars == {"a", "z", "1", ":", "@", "[", "]", "%"}

Ports == {<<>>, <<":">>, <<":", "0">>, <<":", "6", "5", "5", "3", "5">>, <<":", "6", "5", "5", "3", "6">>}

LongServers ==
    {user \o host \o port :
        user \in {<<>>, <<"@">>, <<"a", ":", "1", "@">>},
        host \in {<<"a", ".", "1">>, <<"[", "1", ":", "a", "]">>, <<"[", "1", "%", "z", "]">>, <<"[", "1", "%", "]">>,
                  <<"[", "]">>, <<"[", "1">>},
        port \in Ports}

Servers == UNION {[1..n -> ServerChars] : n \in 0..3} \cup LongServers

Tails == {<<>>} \cup {<<"/">> \o t : t \in UNION {[1..n -> {"a", "?", "#"}] : n \in 0..2}}
         \cup {<<"?">>, <<"?", "a">>, <<"?", "a", "#", "a">>, <<"?", "#">>, <<"#">>, <<"/", "#", "#", "a">>, <<"*">>, <<"/", SP>>}

MCUrls == {schema \o server \o tail : schema \in Schemas, server \in Servers, tail \in Tails}
=============================================================================
