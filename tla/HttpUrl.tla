------------------------------- MODULE HttpUrl -------------------------------
(***************************************************************************)
(* How net.cc's CreateHttpClient turns a URL into a NetConnectionRequest:  *)
(* http_parser_parse_url cuts the URL into fields by offset and length,    *)
(* http_parse_host cuts the server part again, and CreateHttpClient copies *)
(* the fields it needs.                                                    *)
(***************************************************************************)
EXTENDS HttpChars, FiniteSetsExt

CONSTANTS
    Urls,     \* the URLs a request may carry, sequences of characters
    OffMod,   \* offsets and lengths are uint16_t: 2^16
    PortMax   \* 0xffff

ASSUME UrlsAssumption == \A url \in Urls : url \in Seq(Char)
ASSUME WidthAssumption == OffMod \in Nat \ {0} /\ PortMax \in Nat \ {0}

VARIABLES url, is_connect, u, conn

vars == <<url, is_connect, u, conn>>

UF == {"SCHEMA", "HOST", "PORT", "PATH", "QUERY", "FRAGMENT", "USERINFO"}

\* http_parser_url_init: memset of the whole record.
NoUrl == [code |-> 0, field_set |-> {}, port |-> 0, off |-> [f \in UF |-> 0], len |-> [f \in UF |-> 0]]
NoConn == [net_type |-> "none", host |-> <<>>, port |-> 0, path |-> <<>>]

Failed(v) == [v EXCEPT !.code = 1]
Wrap(n) == n % OffMod

\* Field f starts at offset i, or grows by one character.
StartField(v, f, i, n) ==
    [v EXCEPT !.off[f] = Wrap(i), !.len[f] = n, !.field_set = @ \cup {f}]
GrowField(v, f) == [v EXCEPT !.len[f] = Wrap(@ + 1)]

-----------------------------------------------------------------------------

\* One round of http_parse_host's loop; h is [s, v], i the offset of ch.
HostRound(h, i, ch) ==
    LET new == http_parse_host_char(h.s, ch)
        mark(f) == IF new = h.s THEN GrowField(h.v, f) ELSE StartField(h.v, f, i, 1)
    IN  [s |-> new,
         v |-> CASE new = "s_http_host_dead" -> Failed(h.v)
                 [] new \in {"s_http_host", "s_http_host_v6"} ->
                      [h.v EXCEPT !.off["HOST"] = IF new = h.s THEN @ ELSE Wrap(i),
                                  !.len["HOST"] = Wrap(@ + 1)]
                 [] new \in {"s_http_host_v6_zone_start", "s_http_host_v6_zone"} ->
                      GrowField(h.v, "HOST")
                 [] new = "s_http_host_port" -> mark("PORT")
                 [] new = "s_http_userinfo" -> mark("USERINFO")
                 [] OTHER -> h.v]

\* Mutant: a server part may be a user and no host.
HostUnfinishedNoStart ==
    {"s_http_host_v6_start", "s_http_host_v6", "s_http_host_v6_zone_start", "s_http_host_v6_zone",
     "s_http_host_port_start"}

\* The states a server part may not end in.
HostUnfinished ==
    {"s_http_host_start", "s_http_host_v6_start", "s_http_host_v6", "s_http_host_v6_zone_start",
     "s_http_host_v6_zone", "s_http_host_port_start", "s_http_userinfo", "s_http_userinfo_start"}

\* Mutant: the loop runs over the server part without its last character.
http_parse_host_short(buf, v, found_at) ==
    LET first == v.off["HOST"]
        n     == v.len["HOST"]
        start == [s |-> IF found_at THEN "s_http_userinfo_start" ELSE "s_http_host_start",
                  v |-> [v EXCEPT !.len["HOST"] = 0]]
        loop[k \in 0..n] ==
            IF k = 0 THEN start
            ELSE LET h == loop[k - 1]
                 IN  IF h.v.code # 0 \/ k = n THEN h ELSE HostRound(h, first + k - 1, buf[first + k])
    IN  IF loop[n].s \in HostUnfinished THEN Failed(loop[n].v) ELSE loop[n].v

http_parse_host(buf, v, found_at) ==
    LET first == v.off["HOST"]
        n     == v.len["HOST"]
        start == [s |-> IF found_at THEN "s_http_userinfo_start" ELSE "s_http_host_start",
                  v |-> [v EXCEPT !.len["HOST"] = 0]]
        loop[k \in 0..n] ==
            IF k = 0 THEN start
            ELSE LET h == loop[k - 1]
                 IN  IF h.v.code # 0 THEN h ELSE HostRound(h, first + k - 1, buf[first + k])
    IN  IF loop[n].s \in HostUnfinished THEN Failed(loop[n].v) ELSE loop[n].v

-----------------------------------------------------------------------------
\* The field a state of parse_url_char belongs to; delimiters have none.
FieldOf(s) ==
    CASE s = "s_req_schema" -> "SCHEMA"
      [] s \in {"s_req_server", "s_req_server_with_at"} -> "HOST"
      [] s = "s_req_path" -> "PATH"
      [] s = "s_req_query_string" -> "QUERY"
      [] s = "s_req_fragment" -> "FRAGMENT"
      [] OTHER -> "none"

\* One round of http_parser_parse_url's loop.
UrlRound(r, i, ch) ==
    LET new == parse_url_char(r.s, ch)
        f   == FieldOf(new)
    IN  [s        |-> new,
         found_at |-> r.found_at \/ new = "s_req_server_with_at",
         old_uf   |-> IF f = "none" THEN r.old_uf ELSE f,
         v        |-> IF new = "s_dead" THEN Failed(r.v)
                      ELSE IF f = "none" THEN r.v
                      ELSE IF f = r.old_uf THEN GrowField(r.v, f) ELSE StartField(r.v, f, i, 1)]

\* strtoul from the port's offset: it stops at the first character that is
\* no digit, wherever the field ends.
PortValue(buf, v) ==
    LET first == v.off["PORT"]
        n     == Max({k \in 0..(Len(buf) - first) : \A j \in 1..k : buf[first + j] \in IS_NUM})
        value[k \in 0..n] == IF k = 0 THEN 0 ELSE 10 * value[k - 1] + DigitValue[buf[first + k]]
    IN  value[n]

http_parser_parse_url(buf, connect) ==
    LET start == [s |-> IF connect THEN "s_req_server_start" ELSE "s_req_spaces_before_url",
                  found_at |-> FALSE, old_uf |-> "none", v |-> NoUrl]
        loop[k \in 0..Len(buf)] ==
            IF k = 0 THEN start
            ELSE LET r == loop[k - 1] IN IF r.v.code # 0 THEN r ELSE UrlRound(r, k - 1, buf[k])
        end  == loop[Len(buf)]
        host == IF "HOST" \in end.v.field_set THEN http_parse_host(buf, end.v, end.found_at) ELSE end.v
    IN  IF end.v.code # 0 THEN end.v
        ELSE IF "SCHEMA" \in end.v.field_set /\ "HOST" \notin end.v.field_set THEN Failed(end.v)
        ELSE IF host.code # 0 THEN host
        ELSE IF connect /\ host.field_set # {"HOST", "PORT"} THEN Failed(host)
        ELSE IF "PORT" \notin host.field_set THEN host
        ELSE IF PortValue(buf, host) > PortMax THEN Failed(host)
        ELSE [host EXCEPT !.port = PortValue(buf, host)]

-----------------------------------------------------------------------------
\* std::string::substr; the scheme "https" is the one letter s.
Substr(buf, off, len) == SubSeq(buf, off + 1, off + len)
Https == <<"s">>

\* A URL that does not parse leaves the request as it was constructed, and
\* every type but kNetTypeHttp gets a HttpsClientImpl.
CreateHttpClient ==
    /\ conn.net_type = "none" /\ ~is_connect
    /\ u' = http_parser_parse_url(url, FALSE)
    /\ LET field(f) == Substr(url, u'.off[f], u'.len[f])
           https    == field("SCHEMA") = Https
           rest     == Substr(url, u'.off["PATH"], Len(url) - u'.off["PATH"])
       IN  conn' = IF u'.code # 0 THEN [NoConn EXCEPT !.net_type = "Tcp"]
                   ELSE [net_type |-> IF https THEN "Https" ELSE "Http",
                         port     |-> IF u'.port # 0 THEN u'.port ELSE IF https THEN 443 ELSE 80,
                         host     |-> field("HOST"),
                         path     |-> IF rest = <<>> THEN <<"/">> ELSE rest]
    /\ UNCHANGED <<url, is_connect>>

\* The other use http_parser.h offers: the target of a CONNECT.
ParseConnect ==
    /\ conn.net_type = "none" /\ is_connect
    /\ u' = http_parser_parse_url(url, TRUE)
    /\ conn' = [NoConn EXCEPT !.net_type = "Connect"]
    /\ UNCHANGED <<url, is_connect>>

Init ==
    /\ url \in Urls
    /\ is_connect \in BOOLEAN
    /\ u = NoUrl
    /\ conn = NoConn

Next == CreateHttpClient \/ ParseConnect

Spec == Init /\ [][Next]_vars

-----------------------------------------------------------------------------
Accepted == conn.net_type # "none" /\ u.code = 0

\* The offsets of a field, as http_parser.h describes field_data.
Run(f) == IF f \in u.field_set THEN u.off[f]..(u.off[f] + u.len[f] - 1) ELSE {}
FieldOrder == <<"SCHEMA", "USERINFO", "HOST", "PORT", "PATH", "QUERY", "FRAGMENT">>

\* The fields of an accepted URL (http_parser_parse_url returned 0) are not
\* empty, lie in the URL in the order of the grammar, do not overlap, and
\* between them stand only delimiters: nothing of the URL is lost.
FieldsPartition ==
    Accepted /\ Len(url) < OffMod =>
        /\ \A f \in u.field_set : u.len[f] > 0 /\ Run(f) \subseteq 0..(Len(url) - 1)
        /\ \A i, j \in DOMAIN FieldOrder : i < j =>
              \A a \in Run(FieldOrder[i]), b \in Run(FieldOrder[j]) : a < b
        /\ \A k \in (0..(Len(url) - 1)) \ UNION {Run(f) : f \in UF} :
              url[k + 1] \in {":", "/", "@", "[", "]", "?", "#"}

\* What the grammar of URLs says of the characters behind "//": the server part
\* ends at the first of / ? #, a user ends at its '@', an address may stand in
\* brackets, and the port follows the colon behind the host.
Named ==
    LET start == Min({i \in 1..(Len(url) - 1) : url[i] = "/" /\ url[i + 1] = "/"}) + 1
        end   == Min({i \in (start + 1)..Len(url) : url[i] \in {"/", "?", "#"}} \cup {Len(url) + 1})
        user  == Max({i \in (start + 1)..(end - 1) : url[i] = "@"} \cup {start})
        close == Max({i \in (user + 1)..(end - 1) : url[i] = "]"} \cup {user})
        colon == Min({i \in (close + 1)..(end - 1) : url[i] = ":"} \cup {end})
        port  == FoldLeft(LAMBDA n, d : 10 * n + DigitValue[d], 0, SubSeq(url, colon + 1, end - 1))
    IN  [host |-> SelectSeq(SubSeq(url, user + 1, colon - 1), LAMBDA ch : ch \notin {"[", "]"}), port |-> port]

\* CreateHttpClient connects to the server an accepted URL with a scheme names:
\* to its host, without user and brackets, and to the port that is written
\* there, or, if none or 0 is, to the scheme's; a port beyond 65535 is refused.
ConnectsToHost ==
    Accepted /\ "SCHEMA" \in u.field_set /\ Len(url) < OffMod /\ ~is_connect =>
        /\ conn.host # <<>> /\ conn.host = Named.host
        /\ Named.port <= PortMax
        /\ conn.port = IF Named.port # 0 THEN Named.port ELSE IF url[1] = "s" /\ url[2] = ":" THEN 443 ELSE 80
=============================================================================
