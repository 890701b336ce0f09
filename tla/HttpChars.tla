------------------------------ MODULE HttpChars ------------------------------
(***************************************************************************)
(* The characters of base/net/http/http_parser.c and the two automata that *)
(* look at nothing but a state and a character: parse_url_char and         *)
(* http_parse_host_char.  HTTP_PARSER_STRICT is 1, the default the build   *)
(* leaves alone.                                                           *)
(*                                                                         *)
(* A character is a member of Char, a small set with at least one member   *)
(* of every class the code tells apart.  The keywords of the header parser *)
(* are cut into syllables: each syllable is one character of the model, so *)
(* that a buffer may still end inside a keyword.                           *)
(***************************************************************************)
EXTENDS Integers, SequencesExt

CR == "CR"
LF == "LF"
SP == "SP"
HT == "HT"

UpperCase == <<"A","B","C","D","E","F","G","H","I","J","K","L","M",
               "N","O","P","Q","R","S","T","U","V","W","X","Y","Z">>
LowerCase == <<"a","b","c","d","e","f","g","h","i","j","k","l","m",
               "n","o","p","q","r","s","t","u","v","w","x","y","z">>

Digits == <<"0","1","2","3","4","5","6","7","8","9">>

CONNECTION == <<"c", "o", "n", "n", "ect", "ion">>
CONTENT_LENGTH == <<"c", "o", "n", "t", "ent-", "length">>
PROXY_CONNECTION == <<"p", "roxy-", "connection">>
TRANSFER_ENCODING == <<"t", "ransfer-", "encoding">>
UPGRADE == <<"u", "pgr", "ade">>
CHUNKED == <<"c", "hunk", "ed">>
KEEP_ALIVE == <<"k", "eep-", "alive">>
CLOSE == <<"c", "lo", "se">>

Keywords == {CONNECTION, CONTENT_LENGTH, PROXY_CONNECTION, TRANSFER_ENCODING,
             UPGRADE, CHUNKED, KEEP_ALIVE, CLOSE}
Syllables == UNION {ToSet(k) : k \in Keywords} \ ToSet(LowerCase)

IS_ALPHA == ToSet(UpperCase) \cup ToSet(LowerCase)
IS_NUM == ToSet(Digits)
IS_ALPHANUM == IS_ALPHA \cup IS_NUM
HexLetters == {"a", "b", "c", "d", "e", "f", "A", "B", "C", "D", "E", "F"}
IS_HEX == IS_NUM \cup HexLetters
IS_MARK == {"-", "_", ".", "~", "*", ")"}
IS_USERINFO_CHAR == IS_ALPHANUM \cup IS_MARK \cup {"%", ";", ":", "&", "=", ","}
IS_HOST_CHAR == IS_ALPHANUM \cup {".", "-"}

\* tokens[]: the characters a header name may have.
IS_TOKEN == IS_ALPHANUM \cup Syllables \cup (IS_MARK \ {")"}) \cup {"#", "%", "&", "grave"}

\* normal_url_char[]
IS_URL_CHAR == IS_ALPHANUM \cup Syllables \cup IS_MARK
               \cup {"%", ";", ":", "&", "=", ",", "/", "@", "[", "]", "grave"}

Char == IS_TOKEN \cup IS_URL_CHAR \cup {CR, LF, SP, HT, "?", "BEL"}

\* IS_HEADER_CHAR: what a header value may have; BEL stands for a control character.
IS_HEADER_CHAR == Char \ {"BEL"}

LowerOf == [c \in ToSet(UpperCase) |-> LowerCase[SelectInSeq(UpperCase, LAMBDA u : u = c)]]

\* LOWER(c) is c | 0x20, whatever c is: it makes a letter lower case, it
\* leaves digits, blanks and commas alone, and it turns a tab into a ')', '@'
\* into a grave accent, which is a token, and '_' into DEL, which is none.  What it makes of
\* brackets is, like them, no token.
LOWER(ch) ==
    CASE ch \in DOMAIN LowerOf -> LowerOf[ch]
      [] ch = HT -> ")"
      [] ch = "@" -> "grave"
      [] ch = "_" -> "DEL"
      [] OTHER -> ch

\* TOKEN(c): the lower case form of a token character, none for the others.
TOKEN(ch) ==
    IF ch \notin IS_TOKEN THEN "none" ELSE IF ch \in DOMAIN LowerOf THEN LowerOf[ch] ELSE ch

DigitValue == [d \in IS_NUM |-> CHOOSE v \in 0..9 : Digits[v + 1] = d]
HexValue == [a |-> 10, b |-> 11, c |-> 12, d |-> 13, e |-> 14, f |-> 15,
             A |-> 10, B |-> 11, C |-> 12, D |-> 13, E |-> 14, F |-> 15]

\* unhex[]; -1 for what is no hexadecimal digit.
unhex(ch) == IF ch \in IS_NUM THEN DigitValue[ch]
             ELSE IF ch \in HexLetters THEN HexValue[ch] ELSE -1

\* A blank ends a URL: the callers look for it, the automaton rejects it.
parse_url_char(s, ch) ==
    CASE s = "s_req_spaces_before_url" /\ ch \in {"/", "*"} -> "s_req_path"
      [] s \in {"s_req_spaces_before_url", "s_req_schema"} /\ ch \in IS_ALPHA -> "s_req_schema"
      [] s = "s_req_schema" /\ ch = ":" -> "s_req_schema_slash"
      [] s = "s_req_schema_slash" /\ ch = "/" -> "s_req_schema_slash_slash"
      [] s = "s_req_schema_slash_slash" /\ ch = "/" -> "s_req_server_start"
      [] s \in {"s_req_server_start", "s_req_server", "s_req_server_with_at"} ->
           CASE ch = "/" -> "s_req_path"
             [] ch = "?" -> "s_req_query_string_start"
             [] ch = "@" /\ s # "s_req_server_with_at" -> "s_req_server_with_at"
             [] ch \in IS_USERINFO_CHAR \cup {"[", "]"} -> "s_req_server"
             [] OTHER -> "s_dead"
      [] s = "s_req_path" /\ ch \in IS_URL_CHAR -> "s_req_path"
      [] s = "s_req_path" /\ ch = "?" -> "s_req_query_string_start"
      [] s \in {"s_req_query_string_start", "s_req_query_string"}
           /\ ch \in IS_URL_CHAR \cup {"?"} -> "s_req_query_string"
      [] s \in {"s_req_path", "s_req_query_string_start", "s_req_query_string"}
           /\ ch = "#" -> "s_req_fragment_start"
      [] s \in {"s_req_fragment_start", "s_req_fragment"}
           /\ ch \in IS_URL_CHAR \cup {"?"} -> "s_req_fragment"
      [] s \in {"s_req_fragment_start", "s_req_fragment"} /\ ch = "#" -> s
      [] OTHER -> "s_dead"

http_parse_host_char(s, ch) ==
    CASE s \in {"s_http_userinfo", "s_http_userinfo_start"} /\ ch = "@" -> "s_http_host_start"
      [] s \in {"s_http_userinfo", "s_http_userinfo_start"} /\ ch \in IS_USERINFO_CHAR ->
           "s_http_userinfo"
      [] s = "s_http_host_start" /\ ch = "[" -> "s_http_host_v6_start"
      [] s \in {"s_http_host_start", "s_http_host"} /\ ch \in IS_HOST_CHAR -> "s_http_host"
      [] s \in {"s_http_host", "s_http_host_v6_end"} /\ ch = ":" -> "s_http_host_port_start"
      [] s \in {"s_http_host_v6", "s_http_host_v6_zone"} /\ ch = "]" -> "s_http_host_v6_end"
      [] s \in {"s_http_host_v6", "s_http_host_v6_start"}
           /\ ch \in IS_HEX \cup {":", "."} -> "s_http_host_v6"
      [] s = "s_http_host_v6" /\ ch = "%" -> "s_http_host_v6_zone_start"
      [] s \in {"s_http_host_v6_zone", "s_http_host_v6_zone_start"}
           /\ ch \in IS_ALPHANUM \cup {"%", ".", "-", "_", "~"} -> "s_http_host_v6_zone"
      [] s \in {"s_http_host_port", "s_http_host_port_start"} /\ ch \in IS_NUM ->
           "s_http_host_port"
      [] OTHER -> "s_http_host_dead"
=============================================================================
