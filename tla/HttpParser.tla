----------------------------- MODULE HttpParser -----------------------------
(***************************************************************************)
(* http_parser_execute of base/net/http/http_parser.c, byte by byte.       *)
(*                                                                         *)
(* A parse is a record: the fields of struct http_parser, the locals of a  *)
(* call of http_parser_execute, the answer the application's callbacks     *)
(* give, and histories.  The operators below are the cases of its switch;  *)
(* a goto reexecute is a use of the operator of the state it goes to.      *)
(*                                                                         *)
(* Two parsers read the same bytes: one gets them in buffers that may end  *)
(* anywhere and may be paused by a callback (cut), one gets them in a      *)
(* single buffer (whole).                                                  *)
(***************************************************************************)
EXTENDS HttpChars

CONSTANTS
    Types,                 \* the http_parser_types to start with
    StartLines,            \* what may arrive at the start of a message,
    FieldLines,            \*   where a header or a trailer may stand,
    ChunkLines,            \*   where a chunk size must stand,
    BodyBytes,             \*   and in a body: sequences of characters
    ULLONG_MAX,            \* 2^64 - 1: content_length is not known
    HTTP_MAX_HEADER_SIZE,
    Answers,               \* what a callback may answer, apart from 0
    MaxLines, MaxParts, MaxCuts, MaxAnswers, MaxMessages  \* bounds on the input

ASSUME TypesAssumption == Types \subseteq {"REQUEST", "RESPONSE", "BOTH"}
ASSUME WidthAssumption == ULLONG_MAX \in Nat /\ ULLONG_MAX >= 16

\* A callback and what it does: it fails, it pauses the parser, or, for
\* headers_complete only, it returns 1 or 2.
NoAnswer == [at |-> "none", r |-> "OK"]
ASSUME AnswersAssumption == Answers \subseteq [at : STRING, r : {"CB", "PAUSED", "1", "2"}]

Datum == {"header_field", "header_value", "url", "body", "status"}

UrlStates == {"s_req_path", "s_req_schema", "s_req_schema_slash", "s_req_schema_slash_slash",
              "s_req_server_start", "s_req_server", "s_req_server_with_at", "s_req_query_string_start",
              "s_req_query_string", "s_req_fragment_start", "s_req_fragment"}
BodyStates == {"s_chunk_data", "s_chunk_data_almost_done", "s_chunk_data_done",
               "s_body_identity", "s_body_identity_eof", "s_message_done"}

PARSING_HEADER(state) == state \notin BodyStates

method_strings ==
    [DELETE |-> <<"D","E","L","E","T","E">>, GET |-> <<"G","E","T">>, HEAD |-> <<"H","E","A","D">>,
     POST |-> <<"P","O","S","T">>, PUT |-> <<"P","U","T">>, CONNECT |-> <<"C","O","N","N","E","C","T">>,
     OPTIONS |-> <<"O","P","T","I","O","N","S">>, TRACE |-> <<"T","R","A","C","E">>,
     COPY |-> <<"C","O","P","Y">>, LOCK |-> <<"L","O","C","K">>, MKCOL |-> <<"M","K","C","O","L">>,
     MOVE |-> <<"M","O","V","E">>, PROPFIND |-> <<"P","R","O","P","F","I","N","D">>,
     PROPPATCH |-> <<"P","R","O","P","P","A","T","C","H">>, SEARCH |-> <<"S","E","A","R","C","H">>,
     UNLOCK |-> <<"U","N","L","O","C","K">>, BIND |-> <<"B","I","N","D">>,
     REBIND |-> <<"R","E","B","I","N","D">>, UNBIND |-> <<"U","N","B","I","N","D">>, ACL |-> <<"A","C","L">>,
     REPORT |-> <<"R","E","P","O","R","T">>, MKACTIVITY |-> <<"M","K","A","C","T","I","V","I","T","Y">>,
     CHECKOUT |-> <<"C","H","E","C","K","O","U","T">>, MERGE |-> <<"M","E","R","G","E">>,
     MSEARCH |-> <<"M","-","S","E","A","R","C","H">>, NOTIFY |-> <<"N","O","T","I","F","Y">>,
     SUBSCRIBE |-> <<"S","U","B","S","C","R","I","B","E">>,
     UNSUBSCRIBE |-> <<"U","N","S","U","B","S","C","R","I","B","E">>, PATCH |-> <<"P","A","T","C","H">>,
     PURGE |-> <<"P","U","R","G","E">>, MKCALENDAR |-> <<"M","K","C","A","L","E","N","D","A","R">>,
     LINK |-> <<"L","I","N","K">>, UNLINK |-> <<"U","N","L","I","N","K">>]

\* http_parser_init; index, http_major and the rest are memset to 0, and 0 is HTTP_DELETE.
StartState == [REQUEST |-> "s_start_req", RESPONSE |-> "s_start_res", BOTH |-> "s_start_req_or_res"]

http_parser_init(t) ==
    [type |-> t, state |-> StartState[t], header_state |-> "h_general", index |-> 0, flags |-> {}, nread |-> 0,
     content_length |-> 0, http_major |-> 0, http_minor |-> 0, status_code |-> 0, method |-> "DELETE",
     http_errno |-> "OK", upgrade |-> FALSE,
     \* locals: bytes since each mark (-1: not set), bytes of an inner loop not
     \* yet counted, whether memchr passes over the bytes
     marks |-> [d \in Datum |-> -1], run |-> 0, skip |-> FALSE,
     \* how the call ended: without the byte at p, or for another protocol
     held |-> FALSE, exit |-> FALSE,
     answer |-> NoAnswer,
     \* histories: last datum delivered, notifications of this byte, the last
     \* one, are they in order, body bytes delivered and announced, the number
     \* being read, failed assertions
     sent |-> [d |-> "none", n |-> 0], out |-> <<>>, last |-> "message_complete", ordered |-> TRUE,
     body |-> 0, due |-> 0, num |-> 0, asserts |-> TRUE]

-----------------------------------------------------------------------------
\* The macros.

SET_ERRNO(s, e) == [s EXCEPT !.http_errno = e]
UPDATE_STATE(s, st) == [s EXCEPT !.state = st]
assert(s, holds) == [s EXCEPT !.asserts = @ /\ holds]

\* The statements after a callback or a check run if it left the parser OK.
Then(s, Op(_)) == IF s.http_errno = "OK" THEN Op(s) ELSE s

\* What the callback named cb answers; 1 and 2 are no errors.
Answered(s, cb, noadvance) ==
    IF s.answer.at = cb /\ s.answer.r \in {"CB", "PAUSED"}
    THEN [s EXCEPT !.http_errno = s.answer.r, !.held = noadvance, !.marks = [d \in Datum |-> -1],
                   !.run = 0, !.skip = FALSE]
    ELSE s

\* The notifications that may follow one another.
Follows ==
    [message_begin |-> {"message_begin", "headers_complete"},
     headers_complete |-> {"chunk_header", "message_complete"},
     chunk_header |-> {"chunk_complete"},
     chunk_complete |-> {"chunk_header", "message_complete"},
     message_complete |-> {"message_begin"}]

Noted(s, cb) == [s EXCEPT !.out = Append(@, cb), !.last = cb, !.ordered = @ /\ cb \in Follows[s.last],
                          !.asserts = @ /\ s.http_errno = "OK"]

CALLBACK_NOTIFY_(s, cb, noadvance) ==
    LET t == Noted(s, cb)
    IN  Answered(IF cb = "message_begin" THEN [t EXCEPT !.body = 0, !.due = 0, !.sent = [d |-> "none", n |-> 0]]
                 ELSE t, cb, noadvance)
CALLBACK_NOTIFY(s, cb) == CALLBACK_NOTIFY_(s, cb, FALSE)
CALLBACK_NOTIFY_NOADVANCE(s, cb) == CALLBACK_NOTIFY_(s, cb, TRUE)

\* n more bytes of datum d reach the application.
Delivered(s, d, n) ==
    [s EXCEPT !.sent = [d |-> d, n |-> IF @.d = d THEN @.n + n ELSE n],
              !.body = IF d = "body" THEN @ + n ELSE @]

CALLBACK_DATA_(s, d, n, noadvance) ==
    IF s.marks[d] < 0 THEN assert(s, s.http_errno = "OK")
    ELSE Answered([Delivered(assert(s, s.http_errno = "OK"), d, n) EXCEPT !.marks[d] = -1], d, noadvance)
CALLBACK_DATA(s, d) == CALLBACK_DATA_(s, d, s.marks[d], FALSE)
CALLBACK_DATA_NOADVANCE(s, d) == CALLBACK_DATA_(s, d, s.marks[d], TRUE)

MARK(s, d) == IF s.marks[d] < 0 THEN [s EXCEPT !.marks[d] = 0] ELSE s

COUNT_HEADER_SIZE(s, n) ==
    LET t == [s EXCEPT !.nread = @ + n, !.run = 0, !.skip = FALSE]
    IN  IF t.nread > HTTP_MAX_HEADER_SIZE THEN SET_ERRNO(t, "HEADER_OVERFLOW") ELSE t

\* STRICT_CHECK(ch != wanted)
STRICT_CHECK(s, ch, wanted) == IF ch # wanted THEN SET_ERRNO(s, "STRICT") ELSE s

http_message_needs_eof(s) ==
    /\ s.type # "REQUEST"
    /\ s.status_code \div 100 # 1 /\ s.status_code \notin {204, 304} /\ "F_SKIPBODY" \notin s.flags
    /\ "F_CHUNKED" \notin s.flags /\ s.content_length = ULLONG_MAX

http_should_keep_alive(s) ==
    /\ IF s.http_major > 0 /\ s.http_minor > 0 THEN "F_CONNECTION_CLOSE" \notin s.flags
       ELSE "F_CONNECTION_KEEP_ALIVE" \in s.flags
    /\ ~http_message_needs_eof(s)

NEW_MESSAGE(s) ==
    UPDATE_STATE(s, IF ~http_should_keep_alive(s) THEN "s_dead"
                    ELSE IF s.type = "REQUEST" THEN "s_start_req" ELSE "s_start_res")

\* Mutant: the check leaves no room for the next digit.
NextDigitTooLate(s, b, d) ==
    IF ULLONG_MAX \div b < s.content_length THEN SET_ERRNO(s, "INVALID_CONTENT_LENGTH")
    ELSE [s EXCEPT !.content_length = (@ * b + d) % (ULLONG_MAX + 1), !.num = @ * b + d]

\* The next digit of a number in base b; t is a uint64_t.
NextDigit(s, b, d) ==
    IF (ULLONG_MAX - b) \div b < s.content_length THEN SET_ERRNO(s, "INVALID_CONTENT_LENGTH")
    ELSE [s EXCEPT !.content_length = (@ * b + d) % (ULLONG_MAX + 1), !.num = @ * b + d]
FirstDigit(s, d) == [s EXCEPT !.content_length = d, !.num = d]

-----------------------------------------------------------------------------
\* The start line.

Fresh(s) == [s EXCEPT !.flags = {}, !.content_length = ULLONG_MAX]

\* case s_start_req: the first letter stands for the first method of the list that has it.
FirstMethod ==
    [A |-> "ACL", B |-> "BIND", C |-> "CONNECT", D |-> "DELETE", G |-> "GET", H |-> "HEAD", L |-> "LOCK",
     M |-> "MKCOL", N |-> "NOTIFY", O |-> "OPTIONS", P |-> "POST", R |-> "REPORT", S |-> "SUBSCRIBE",
     T |-> "TRACE", U |-> "UNLOCK"]

StartReq(s, ch) ==
    CASE ch \in {CR, LF} -> s
      [] ch \in DOMAIN FirstMethod ->
           CALLBACK_NOTIFY([Fresh(s) EXCEPT !.method = FirstMethod[ch], !.index = 1, !.state = "s_req_method"],
                           "message_begin")
      [] OTHER -> SET_ERRNO(Fresh(s), "INVALID_METHOD")

\* The letter that tells another method from the one assumed so far.
MethodSwitch ==
    {<<"POST", 1, "U", "PUT">>, <<"POST", 1, "A", "PATCH">>, <<"CONNECT", 1, "H", "CHECKOUT">>,
     <<"CONNECT", 2, "P", "COPY">>, <<"MKCOL", 1, "O", "MOVE">>, <<"MKCOL", 1, "E", "MERGE">>,
     <<"MKCOL", 2, "A", "MKACTIVITY">>, <<"MKCOL", 3, "A", "MKCALENDAR">>, <<"SUBSCRIBE", 1, "E", "SEARCH">>,
     <<"REPORT", 2, "B", "REBIND">>, <<"POST", 1, "R", "PROPFIND">>, <<"PROPFIND", 4, "P", "PROPPATCH">>,
     <<"PUT", 2, "R", "PURGE">>, <<"LOCK", 1, "I", "LINK">>, <<"UNLOCK", 2, "S", "UNSUBSCRIBE">>,
     <<"UNLOCK", 2, "B", "UNBIND">>, <<"UNLOCK", 3, "I", "UNLINK">>, <<"MKCOL", 1, "-", "MSEARCH">>}

ReqMethod(s, ch) ==
    LET matcher == method_strings[s.method]
        rows    == {row \in MethodSwitch : row[1] = s.method /\ row[2] = s.index /\ row[3] = ch}
        t       == [s EXCEPT !.index = @ + 1]
    IN  IF ch = SP /\ s.index = Len(matcher) THEN UPDATE_STATE(t, "s_req_spaces_before_url")
        ELSE IF s.index < Len(matcher) /\ ch = matcher[s.index + 1] THEN t
        ELSE IF rows # {} THEN [t EXCEPT !.method = (CHOOSE row \in rows : TRUE)[4]]
        ELSE SET_ERRNO(s, "INVALID_METHOD")

UrlByte(s, ch) ==
    LET t == UPDATE_STATE(s, parse_url_char(s.state, ch))
    IN  IF t.state = "s_dead" THEN SET_ERRNO(t, "INVALID_URL") ELSE t

SpacesBeforeUrl(s, ch) ==
    IF ch = SP THEN s
    ELSE UrlByte(MARK(IF s.method = "CONNECT" THEN UPDATE_STATE(s, "s_req_server_start") ELSE s, "url"), ch)

\* A URL may end where a server or a path may; a line end there means HTTP/0.9.
UrlStateByte(s, ch) ==
    LET ends == s.state \notin {"s_req_schema", "s_req_schema_slash", "s_req_schema_slash_slash", "s_req_server_start"}
        http09 == [s EXCEPT !.http_major = 0, !.http_minor = 9]
    IN  IF ch \notin {SP, CR, LF} THEN UrlByte(s, ch)
        ELSE IF ~ends THEN SET_ERRNO(s, "INVALID_URL")
        ELSE CASE ch = SP -> CALLBACK_DATA(UPDATE_STATE(s, "s_req_http_start"), "url")
               [] ch = CR -> CALLBACK_DATA(UPDATE_STATE(http09, "s_req_line_almost_done"), "url")
               [] ch = LF -> CALLBACK_DATA(UPDATE_STATE(http09, "s_header_field_start"), "url")

\* The letters of "HTTP/": state, letter, next state.
Letters ==
    [s_res_H |-> <<"T", "s_res_HT">>, s_res_HT |-> <<"T", "s_res_HTT">>, s_res_HTT |-> <<"P", "s_res_HTTP">>,
     s_res_HTTP |-> <<"/", "s_res_first_http_major">>,
     s_req_http_H |-> <<"T", "s_req_http_HT">>, s_req_http_HT |-> <<"T", "s_req_http_HTT">>,
     s_req_http_HTT |-> <<"P", "s_req_http_HTTP">>, s_req_http_HTTP |-> <<"/", "s_req_first_http_major">>]
Letter(s, ch) == Then(STRICT_CHECK(s, ch, Letters[s.state][1]), LAMBDA t : UPDATE_STATE(t, Letters[s.state][2]))

\* The version numbers, alike in requests and responses but for the first
\* digit of a request's major version, which is not 0, and for what ends them.
FirstMajor(s, ch, next, lowest) ==
    IF ch \notin IS_NUM \/ (ch \in IS_NUM /\ DigitValue[ch] < lowest) THEN SET_ERRNO(s, "INVALID_VERSION")
    ELSE [s EXCEPT !.http_major = DigitValue[ch], !.state = next]

Major(s, ch, next) ==
    CASE ch = "." -> UPDATE_STATE(s, next)
      [] ch \in IS_NUM -> LET t == [s EXCEPT !.http_major = @ * 10 + DigitValue[ch]]
                          IN  IF t.http_major > 999 THEN SET_ERRNO(t, "INVALID_VERSION") ELSE t
      [] OTHER -> SET_ERRNO(s, "INVALID_VERSION")

FirstMinor(s, ch, next) ==
    IF ch \notin IS_NUM THEN SET_ERRNO(s, "INVALID_VERSION")
    ELSE [s EXCEPT !.http_minor = DigitValue[ch], !.state = next]

\* ends: the characters that end the minor version, with the state they lead to.
Minor(s, ch, ends) ==
    CASE ch \in DOMAIN ends -> UPDATE_STATE(s, ends[ch])
      [] ch \in IS_NUM -> LET t == [s EXCEPT !.http_minor = @ * 10 + DigitValue[ch]]
                          IN  IF t.http_minor > 999 THEN SET_ERRNO(t, "INVALID_VERSION") ELSE t
      [] OTHER -> SET_ERRNO(s, "INVALID_VERSION")

ResVersionStates == {"s_res_first_http_major", "s_res_http_major", "s_res_first_http_minor", "s_res_http_minor"}
ResVersion(s, ch) ==
    CASE s.state = "s_res_first_http_major" -> FirstMajor(s, ch, "s_res_http_major", 0)
      [] s.state = "s_res_http_major" -> Major(s, ch, "s_res_first_http_minor")
      [] s.state = "s_res_first_http_minor" -> FirstMinor(s, ch, "s_res_http_minor")
      [] s.state = "s_res_http_minor" -> Minor(s, ch, [SP |-> "s_res_first_status_code"])

ReqVersionStates == {"s_req_first_http_major", "s_req_http_major", "s_req_first_http_minor", "s_req_http_minor"}
ReqVersion(s, ch) ==
    CASE s.state = "s_req_first_http_major" -> FirstMajor(s, ch, "s_req_http_major", 1)
      [] s.state = "s_req_http_major" -> Major(s, ch, "s_req_first_http_minor")
      [] s.state = "s_req_first_http_minor" -> FirstMinor(s, ch, "s_req_http_minor")
      [] s.state = "s_req_http_minor" -> Minor(s, ch, [CR |-> "s_req_line_almost_done", LF |-> "s_header_field_start"])

ReqHttpStart(s, ch) ==
    CASE ch = "H" -> UPDATE_STATE(s, "s_req_http_H")
      [] ch = SP -> s
      [] OTHER -> SET_ERRNO(s, "INVALID_CONSTANT")

\* The LF after a CR; next is where it leads.
LineAlmostDone(s, ch, next) == IF ch = LF THEN UPDATE_STATE(s, next) ELSE SET_ERRNO(s, "LF_EXPECTED")

\* A leading line end counts as the begin of a message here.
StartRes(s, ch) ==
    CASE ch = "H" -> CALLBACK_NOTIFY(UPDATE_STATE(Fresh(s), "s_res_H"), "message_begin")
      [] ch \in {CR, LF} -> CALLBACK_NOTIFY(Fresh(s), "message_begin")
      [] OTHER -> SET_ERRNO(Fresh(s), "INVALID_CONSTANT")

StartReqOrRes(s, ch) ==
    CASE ch \in {CR, LF} -> s
      [] ch = "H" -> CALLBACK_NOTIFY(UPDATE_STATE(Fresh(s), "s_res_or_resp_H"), "message_begin")
      [] OTHER -> StartReq([Fresh(s) EXCEPT !.type = "REQUEST", !.state = "s_start_req"], ch)

ResOrRespH(s, ch) ==
    CASE ch = "T" -> [s EXCEPT !.type = "RESPONSE", !.state = "s_res_HT"]
      [] ch = "E" -> [s EXCEPT !.type = "REQUEST", !.method = "HEAD", !.index = 2,
                               !.state = "s_req_method"]
      [] OTHER -> SET_ERRNO(s, "INVALID_CONSTANT")

StatusCode(s, ch) ==
    CASE s.state = "s_res_first_status_code" /\ ch \in IS_NUM ->
           [s EXCEPT !.status_code = DigitValue[ch], !.state = "s_res_status_code"]
      [] s.state = "s_res_first_status_code" /\ ch = SP -> s
      [] s.state = "s_res_status_code" /\ ch \in IS_NUM ->
           LET t == [s EXCEPT !.status_code = @ * 10 + DigitValue[ch]]
           IN  IF t.status_code > 999 THEN SET_ERRNO(t, "INVALID_STATUS") ELSE t
      [] s.state = "s_res_status_code" /\ ch = SP -> UPDATE_STATE(s, "s_res_status_start")
      [] s.state = "s_res_status_code" /\ ch = CR -> UPDATE_STATE(s, "s_res_line_almost_done")
      [] s.state = "s_res_status_code" /\ ch = LF -> UPDATE_STATE(s, "s_header_field_start")
      [] OTHER -> SET_ERRNO(s, "INVALID_STATUS")

StatusText(s, ch) ==
    CASE ch = CR -> CALLBACK_DATA(UPDATE_STATE(s, "s_res_line_almost_done"), "status")
      [] ch = LF -> CALLBACK_DATA(UPDATE_STATE(s, "s_header_field_start"), "status")
      [] ch \notin {CR, LF} -> IF s.state = "s_res_status" THEN s
                               ELSE [MARK(s, "status") EXCEPT !.state = "s_res_status", !.index = 0]

-----------------------------------------------------------------------------
\* The end of the headers, and of the message.

MessageDone(s) ==
    [CALLBACK_NOTIFY(NEW_MESSAGE(s), "message_complete") EXCEPT !.exit = s.upgrade]

\* Mutant: nread is not reset after the headers.
HeadersDoneKeepsNread(s, ch) ==
    IF ch = LF /\ "F_CHUNKED" \in s.flags THEN UPDATE_STATE(s, "s_chunk_size_start") ELSE SET_ERRNO(s, "STRICT")

HeadersDone(s, ch) ==
    LET t       == [s EXCEPT !.nread = 0]
        hasBody == "F_CHUNKED" \in s.flags \/ s.content_length \notin {0, ULLONG_MAX}
        nobody  == s.content_length = 0 \/ (s.content_length = ULLONG_MAX /\ ~http_message_needs_eof(s))
        complete == CALLBACK_NOTIFY(NEW_MESSAGE(t), "message_complete")
    IN  IF ch # LF THEN SET_ERRNO(s, "STRICT")
        ELSE IF s.upgrade /\ (s.method = "CONNECT" \/ "F_SKIPBODY" \in s.flags \/ ~hasBody)
             THEN [complete EXCEPT !.exit = TRUE]
        ELSE IF "F_SKIPBODY" \in s.flags THEN complete
        ELSE IF "F_CHUNKED" \in s.flags THEN UPDATE_STATE(t, "s_chunk_size_start")
        ELSE IF nobody THEN complete
        ELSE IF s.content_length # ULLONG_MAX THEN [t EXCEPT !.state = "s_body_identity", !.due = s.content_length]
        ELSE UPDATE_STATE(t, "s_body_identity_eof")

\* headers_complete may say that there is no body (1), or none of this protocol (2).
HeadersComplete(s) ==
    LET t == Answered(Noted(s, "headers_complete"), "headers_complete", TRUE)
    IN  IF s.answer.at # "headers_complete" \/ s.answer.r \notin {"1", "2"} THEN t
        ELSE [t EXCEPT !.flags = @ \cup {"F_SKIPBODY"}, !.upgrade = @ \/ s.answer.r = "2"]

HeadersAlmostDone(s, ch) ==
    IF ch # LF THEN SET_ERRNO(s, "STRICT")
    ELSE IF "F_TRAILING" \in s.flags
         THEN Then(CALLBACK_NOTIFY_NOADVANCE(UPDATE_STATE(s, "s_message_done"), "chunk_complete"), MessageDone)
    ELSE IF {"F_CHUNKED", "F_CONTENTLENGTH"} \subseteq s.flags THEN SET_ERRNO(s, "UNEXPECTED_CONTENT_LENGTH")
    ELSE Then(HeadersComplete([s EXCEPT !.state = "s_headers_done",
                  !.upgrade = {"F_UPGRADE", "F_CONNECTION_UPGRADE"} \subseteq s.flags \/ s.method = "CONNECT"]),
              LAMBDA t : HeadersDone(t, ch))

-----------------------------------------------------------------------------
\* The headers.

FirstLetter == [c |-> "h_C", p |-> "h_matching_proxy_connection", t |-> "h_matching_transfer_encoding",
                u |-> "h_matching_upgrade"]

HeaderFieldStart(s, ch) ==
    LET c == TOKEN(ch)
    IN  CASE ch = CR -> UPDATE_STATE(s, "s_headers_almost_done")
          [] ch = LF -> HeadersAlmostDone(UPDATE_STATE(s, "s_headers_almost_done"), ch)
          [] ch \notin {CR, LF} ->
               IF c = "none" THEN SET_ERRNO(s, "INVALID_HEADER_TOKEN")
               ELSE [MARK(s, "header_field") EXCEPT !.index = 0, !.state = "s_header_field",
                        !.header_state = IF c \in DOMAIN FirstLetter THEN FirstLetter[c] ELSE "h_general"]

\* The keyword a header state matches, and the state of the whole match.
FieldMatcher ==
    [h_matching_connection |-> <<CONNECTION, "h_connection">>,
     h_matching_proxy_connection |-> <<PROXY_CONNECTION, "h_connection">>,
     h_matching_content_length |-> <<CONTENT_LENGTH, "h_content_length">>,
     h_matching_transfer_encoding |-> <<TRANSFER_ENCODING, "h_transfer_encoding">>,
     h_matching_upgrade |-> <<UPGRADE, "h_upgrade">>]
ValueMatcher ==
    [h_matching_transfer_encoding_chunked |-> <<CHUNKED, "h_transfer_encoding_chunked">>,
     h_matching_connection_keep_alive |-> <<KEEP_ALIVE, "h_connection_keep_alive">>,
     h_matching_connection_close |-> <<CLOSE, "h_connection_close">>,
     h_matching_connection_upgrade |-> <<UPGRADE, "h_connection_upgrade">>]

\* One more character of a keyword: on, done, or a mismatch.
Match(s, c, matcher, otherwise) ==
    LET i == s.index + 1
    IN  [s EXCEPT !.index = i,
                  !.header_state = IF i >= Len(matcher[1]) \/ c # matcher[1][i + 1] THEN otherwise
                                   ELSE IF i = Len(matcher[1]) - 1 THEN matcher[2] ELSE @]

FieldChar(s, c) ==
    CASE s.header_state = "h_general" -> s
      [] s.header_state = "h_C" ->
           [s EXCEPT !.index = @ + 1, !.header_state = IF c = "o" THEN "h_CO" ELSE "h_general"]
      [] s.header_state = "h_CO" ->
           [s EXCEPT !.index = @ + 1, !.header_state = IF c = "n" THEN "h_CON" ELSE "h_general"]
      [] s.header_state = "h_CON" ->
           [s EXCEPT !.index = @ + 1, !.header_state = CASE c = "n" -> "h_matching_connection"
                                                         [] c = "t" -> "h_matching_content_length"
                                                         [] OTHER -> "h_general"]
      [] s.header_state \in DOMAIN FieldMatcher ->
           LET t == Match(s, c, FieldMatcher[s.header_state], "h_general")
           IN  IF t.header_state # "h_content_length" THEN t
               ELSE IF "F_CONTENTLENGTH" \in s.flags THEN SET_ERRNO(t, "UNEXPECTED_CONTENT_LENGTH")
               ELSE [t EXCEPT !.flags = @ \cup {"F_CONTENTLENGTH"}]
      [] s.header_state \in {"h_connection", "h_content_length", "h_transfer_encoding", "h_upgrade"} ->
           [s EXCEPT !.header_state = "h_general"]
      [] OTHER -> assert(s, FALSE)

\* The bytes of the loop are counted where it ends.
HeaderField(s, ch) ==
    IF TOKEN(ch) # "none" THEN FieldChar([s EXCEPT !.run = @ + 1], TOKEN(ch))
    ELSE Then(COUNT_HEADER_SIZE(s, s.run),
              LAMBDA t : IF ch = ":" THEN CALLBACK_DATA(UPDATE_STATE(t, "s_header_value_discard_ws"), "header_field")
                         ELSE SET_ERRNO(t, "INVALID_HEADER_TOKEN"))

ConnectionToken(c) ==
    CASE c = "k" -> "h_matching_connection_keep_alive"
      [] c = "c" -> "h_matching_connection_close"
      [] c = "u" -> "h_matching_connection_upgrade"
      [] OTHER -> "h_matching_connection_token"

HeaderValueStart(s, ch) ==
    LET c == LOWER(ch)
        t == [MARK(s, "header_value") EXCEPT !.state = "s_header_value", !.index = 0]
    IN  CASE s.header_state = "h_upgrade" -> [t EXCEPT !.flags = @ \cup {"F_UPGRADE"}, !.header_state = "h_general"]
          [] s.header_state = "h_transfer_encoding" ->
               [t EXCEPT !.header_state = IF c = "c" THEN "h_matching_transfer_encoding_chunked" ELSE "h_general"]
          [] s.header_state = "h_content_length" ->
               IF ch \in IS_NUM THEN FirstDigit(t, DigitValue[ch]) ELSE SET_ERRNO(t, "INVALID_CONTENT_LENGTH")
          [] s.header_state = "h_connection" -> [t EXCEPT !.header_state = ConnectionToken(c)]
          [] s.header_state = "h_matching_connection_token_start" -> t
          [] OTHER -> [t EXCEPT !.header_state = "h_general"]

DiscardWs(s, ch) ==
    CASE ch \in {SP, HT} -> s
      [] ch = CR -> UPDATE_STATE(s, "s_header_value_discard_ws_almost_done")
      [] ch = LF -> UPDATE_STATE(s, "s_header_value_discard_lws")
      [] OTHER -> HeaderValueStart(s, ch)

\* The flag a complete value stands for.
ValueFlag ==
    [h_connection_keep_alive |-> "F_CONNECTION_KEEP_ALIVE", h_connection_close |-> "F_CONNECTION_CLOSE",
     h_connection_upgrade |-> "F_CONNECTION_UPGRADE", h_transfer_encoding_chunked |-> "F_CHUNKED"]
Flagged(s) == IF s.header_state \in DOMAIN ValueFlag
              THEN [s EXCEPT !.flags = @ \cup {ValueFlag[s.header_state]}] ELSE s

ValueChar(s, ch) ==
    LET c == LOWER(ch)
    IN  CASE s.header_state \in {"h_connection", "h_transfer_encoding"} -> assert(s, FALSE)
          [] s.header_state = "h_content_length" ->
               CASE ch = SP -> s
                 [] ch \in IS_NUM -> NextDigit(s, 10, DigitValue[ch])
                 [] OTHER -> SET_ERRNO(s, "INVALID_CONTENT_LENGTH")
          [] s.header_state \in DOMAIN ValueMatcher ->
               Match(s, c, ValueMatcher[s.header_state],
                     IF s.header_state = "h_matching_transfer_encoding_chunked" THEN "h_general"
                     ELSE "h_matching_connection_token")
          [] s.header_state = "h_matching_connection_token_start" ->
               IF TOKEN(c) # "none" THEN [s EXCEPT !.header_state = ConnectionToken(c)]
               ELSE IF c = SP THEN s ELSE [s EXCEPT !.header_state = "h_general"]
          [] s.header_state = "h_matching_connection_token" /\ ch = "," ->
               [s EXCEPT !.header_state = "h_matching_connection_token_start", !.index = 0]
          [] s.header_state = "h_transfer_encoding_chunked" /\ ch # SP -> [s EXCEPT !.header_state = "h_general"]
          [] s.header_state \in DOMAIN ValueFlag \ {"h_transfer_encoding_chunked"} /\ ch = "," ->
               [Flagged(s) EXCEPT !.header_state = "h_matching_connection_token_start", !.index = 0]
          [] s.header_state \in DOMAIN ValueFlag \ {"h_transfer_encoding_chunked"} /\ ch \notin {",", SP} ->
               [s EXCEPT !.header_state = "h_matching_connection_token"]
          [] OTHER -> s

\* A CR delivers the value and then counts the bytes, an LF the other way round.
\* In h_general memchr passes over all that is left up to the line end; it looks
\* no further than HTTP_MAX_HEADER_SIZE, beyond which the count is an overflow
\* anyway.  Nobody sets lenient_http_headers.
HeaderValue(s, ch) ==
    LET almost == UPDATE_STATE(s, "s_header_almost_done")
    IN  CASE ch = CR -> Then(CALLBACK_DATA(almost, "header_value"), LAMBDA t : COUNT_HEADER_SIZE(t, t.run))
          [] ch = LF -> Then(Then(COUNT_HEADER_SIZE(almost, s.run),
                                  LAMBDA t : CALLBACK_DATA_NOADVANCE(t, "header_value")),
                             LAMBDA t : UPDATE_STATE(t, "s_header_value_lws"))
          [] ~s.skip /\ ch \notin IS_HEADER_CHAR -> SET_ERRNO(s, "INVALID_HEADER_TOKEN")
          [] OTHER -> [ValueChar(s, ch) EXCEPT !.run = @ + 1, !.skip = s.header_state = "h_general"]

HeaderValueLws(s, ch) ==
    IF ch \in {SP, HT} THEN HeaderValueStart(s, ch)
    ELSE HeaderFieldStart(UPDATE_STATE(Flagged(s), "s_header_field_start"), ch)

\* An empty value.
DiscardLws(s, ch) ==
    IF ch \in {SP, HT} THEN UPDATE_STATE(s, "s_header_value_discard_ws")
    ELSE Then(CALLBACK_DATA_NOADVANCE(UPDATE_STATE(MARK(Flagged(s), "header_value"), "s_header_field_start"),
                                      "header_value"),
              LAMBDA t : HeaderFieldStart(t, ch))

-----------------------------------------------------------------------------
\* The body.  A step takes one byte; the code takes all the buffer has of the
\* body at once, and calls back where a mark ends in either case.

\* Mutant: the last byte is not counted as part of the datum (p - body_mark).
BodyIdentityShort(s) ==
    LET t == [MARK(assert(s, s.content_length \notin {0, ULLONG_MAX}), "body") EXCEPT !.content_length = @ - 1]
    IN  IF t.content_length > 0 THEN t
        ELSE Then(CALLBACK_DATA_(UPDATE_STATE(t, "s_message_done"), "body", t.marks["body"], TRUE), MessageDone)

BodyIdentity(s) ==
    LET t == [MARK(assert(s, s.content_length \notin {0, ULLONG_MAX}), "body") EXCEPT !.content_length = @ - 1]
    IN  IF t.content_length > 0 THEN t
        ELSE Then(CALLBACK_DATA_(UPDATE_STATE(t, "s_message_done"), "body", t.marks["body"] + 1, TRUE), MessageDone)

\* nread was 0 and has counted this byte.
ChunkSizeStart(s0, ch) ==
    LET s == assert(s0, s0.nread = 1 /\ "F_CHUNKED" \in s0.flags)
    IN  IF unhex(ch) = -1 THEN SET_ERRNO(s, "INVALID_CHUNK_SIZE")
        ELSE UPDATE_STATE(FirstDigit(s, unhex(ch)), "s_chunk_size")

ChunkSize(s0, ch) ==
    LET s == assert(s0, "F_CHUNKED" \in s0.flags)
    IN  CASE ch = CR -> UPDATE_STATE(s, "s_chunk_size_almost_done")
          [] ch \in {";", SP} -> UPDATE_STATE(s, "s_chunk_parameters")
          [] ch \in IS_HEX -> NextDigit(s, 16, unhex(ch))
          [] OTHER -> SET_ERRNO(s, "INVALID_CHUNK_SIZE")

ChunkParameters(s0, ch) ==
    LET s == assert(s0, "F_CHUNKED" \in s0.flags)
    IN  IF ch = CR THEN UPDATE_STATE(s, "s_chunk_size_almost_done") ELSE s

\* Mutant: the last chunk is not remembered.
ChunkSizeAlmostDoneNoTrailing(s, ch) ==
    Then(STRICT_CHECK(assert(s, "F_CHUNKED" \in s.flags), ch, LF), LAMBDA t :
        CALLBACK_NOTIFY(IF t.content_length = 0 THEN [t EXCEPT !.nread = 0, !.state = "s_header_field_start"]
                        ELSE [t EXCEPT !.nread = 0, !.due = @ + t.content_length, !.state = "s_chunk_data"],
                        "chunk_header"))

ChunkSizeAlmostDone(s, ch) ==
    Then(STRICT_CHECK(assert(s, "F_CHUNKED" \in s.flags), ch, LF), LAMBDA t :
        CALLBACK_NOTIFY(IF t.content_length = 0
                        THEN [t EXCEPT !.nread = 0, !.flags = @ \cup {"F_TRAILING"}, !.state = "s_header_field_start"]
                        ELSE [t EXCEPT !.nread = 0, !.due = @ + t.content_length, !.state = "s_chunk_data"],
                        "chunk_header"))

ChunkData(s) ==
    LET t == [MARK(assert(s, "F_CHUNKED" \in s.flags /\ s.content_length \notin {0, ULLONG_MAX}), "body") EXCEPT !.content_length = @ - 1]
    IN  IF t.content_length > 0 THEN t ELSE UPDATE_STATE(t, "s_chunk_data_almost_done")

ChunkDataAlmostDone(s, ch) ==
    Then(STRICT_CHECK(assert(s, "F_CHUNKED" \in s.flags /\ s.content_length = 0), ch, CR), LAMBDA t :
        CALLBACK_DATA(UPDATE_STATE(t, "s_chunk_data_done"), "body"))

ChunkDataDone(s, ch) ==
    Then(STRICT_CHECK(assert(s, "F_CHUNKED" \in s.flags), ch, LF), LAMBDA t :
        CALLBACK_NOTIFY([t EXCEPT !.nread = 0, !.state = "s_chunk_size_start"], "chunk_complete"))

-----------------------------------------------------------------------------
\* http_parser_execute.

\* switch (CURRENT_STATE())
Switch(s, ch) ==
    CASE s.state = "s_dead" -> IF ch \in {CR, LF} THEN s ELSE SET_ERRNO(s, "CLOSED_CONNECTION")
      [] s.state = "s_start_req_or_res" -> StartReqOrRes(s, ch)
      [] s.state = "s_res_or_resp_H" -> ResOrRespH(s, ch)
      [] s.state = "s_start_res" -> StartRes(s, ch)
      [] s.state \in DOMAIN Letters -> Letter(s, ch)
      [] s.state \in ResVersionStates -> ResVersion(s, ch)
      [] s.state \in ReqVersionStates -> ReqVersion(s, ch)
      [] s.state \in {"s_res_first_status_code", "s_res_status_code"} -> StatusCode(s, ch)
      [] s.state \in {"s_res_status_start", "s_res_status"} -> StatusText(s, ch)
      [] s.state = "s_res_line_almost_done" ->
           Then(STRICT_CHECK(s, ch, LF), LAMBDA t : UPDATE_STATE(t, "s_header_field_start"))
      [] s.state = "s_start_req" -> StartReq(s, ch)
      [] s.state = "s_req_method" -> ReqMethod(s, ch)
      [] s.state = "s_req_spaces_before_url" -> SpacesBeforeUrl(s, ch)
      [] s.state \in UrlStates -> UrlStateByte(s, ch)
      [] s.state = "s_req_http_start" -> ReqHttpStart(s, ch)
      [] s.state = "s_req_line_almost_done" -> LineAlmostDone(s, ch, "s_header_field_start")
      [] s.state = "s_header_field_start" -> HeaderFieldStart(s, ch)
      [] s.state = "s_header_field" -> HeaderField(s, ch)
      [] s.state = "s_header_value_discard_ws" -> DiscardWs(s, ch)
      [] s.state = "s_header_value_discard_ws_almost_done" ->
           Then(STRICT_CHECK(s, ch, LF), LAMBDA t : UPDATE_STATE(t, "s_header_value_discard_lws"))
      [] s.state = "s_header_value_discard_lws" -> DiscardLws(s, ch)
      [] s.state = "s_header_value" -> HeaderValue(s, ch)
      [] s.state = "s_header_almost_done" -> LineAlmostDone(s, ch, "s_header_value_lws")
      [] s.state = "s_header_value_lws" -> HeaderValueLws(s, ch)
      [] s.state = "s_headers_almost_done" -> HeadersAlmostDone(s, ch)
      [] s.state = "s_headers_done" -> HeadersDone(s, ch)
      [] s.state = "s_chunk_size_start" -> ChunkSizeStart(s, ch)
      [] s.state = "s_chunk_size" -> ChunkSize(s, ch)
      [] s.state = "s_chunk_parameters" -> ChunkParameters(s, ch)
      [] s.state = "s_chunk_size_almost_done" -> ChunkSizeAlmostDone(s, ch)
      [] s.state = "s_chunk_data" -> ChunkData(s)
      [] s.state = "s_chunk_data_almost_done" -> ChunkDataAlmostDone(s, ch)
      [] s.state = "s_chunk_data_done" -> ChunkDataDone(s, ch)
      [] s.state = "s_body_identity" -> BodyIdentity(s)
      [] s.state = "s_body_identity_eof" -> MARK(s, "body")
      [] s.state = "s_message_done" -> MessageDone(s)
      [] OTHER -> assert(SET_ERRNO(s, "INVALID_INTERNAL_STATE"), FALSE)

\* One round of the loop over the buffer.
ParseByte(s0, ch, answer) ==
    LET s == [s0 EXCEPT !.answer = answer, !.held = FALSE, !.out = IF s0.held THEN @ ELSE <<>>]
        counted == IF PARSING_HEADER(s.state) /\ s.run = 0 THEN COUNT_HEADER_SIZE(s, 1) ELSE s
        t == Then(counted, LAMBDA r : Switch(r, ch))
    IN  IF s0.http_errno # "OK" THEN s0 ELSE
        [t EXCEPT !.answer = NoAnswer, !.marks = [d \in Datum |-> IF @[d] < 0 THEN -1 ELSE @[d] + 1]]

\* Mutant: a URL does not go on in the next buffer.
BeginBufferNoUrl(s) ==
    LET at == CASE s.state = "s_header_field" -> "header_field"
                [] s.state = "s_header_value" -> "header_value"
                [] s.state = "s_res_status" -> "status"
                [] OTHER -> "none"
    IN  [s EXCEPT !.marks = [d \in Datum |-> IF d = at THEN 0 ELSE -1]]

\* The marks a call sets before the loop: a datum goes on from the last buffer.
BeginBuffer(s) ==
    LET at == CASE s.state = "s_header_field" -> "header_field"
                [] s.state = "s_header_value" -> "header_value"
                [] s.state \in UrlStates -> "url"
                [] s.state = "s_res_status" -> "status"
                [] OTHER -> "none"
    IN  [s EXCEPT !.marks = [d \in Datum |-> IF d = at THEN 0 ELSE -1]]

\* The end of a buffer: an inner loop counts its bytes (and the first of them a
\* second time), and what is marked is delivered.
EndBuffer(s0, answer) ==
    LET marked  == {d \in Datum : s0.marks[d] >= 0}
        s       == assert([s0 EXCEPT !.answer = answer], \A d, e \in marked : d = e)
        counted == IF s.run > 0 THEN COUNT_HEADER_SIZE(s, s.run) ELSE s
        t       == Then(counted, LAMBDA r : IF marked = {} THEN r
                                             ELSE CALLBACK_DATA(r, CHOOSE d \in marked : TRUE))
    IN  IF s0.http_errno # "OK" THEN s0 ELSE [t EXCEPT !.answer = NoAnswer]

\* http_parser_execute with len 0.
EndOfInput(s0) ==
    LET s == [s0 EXCEPT !.out = <<>>, !.exit = TRUE]
    IN  IF s.http_errno # "OK" THEN s0
        ELSE CASE s.state = "s_body_identity_eof" -> CALLBACK_NOTIFY_NOADVANCE(s, "message_complete")
               [] s.state \in {"s_dead", "s_start_req_or_res", "s_start_res", "s_start_req"} -> s
               [] OTHER -> SET_ERRNO(s, "INVALID_EOF_STATE")

-----------------------------------------------------------------------------
VARIABLES
    cut,    \* the parser that gets the bytes in buffers
    whole,  \* the parser that gets them in one
    rest,   \* what the peer has sent and cut has not read
    fed,    \* has this buffer had a byte yet?
    count   \* what the bounds count

vars == <<cut, whole, rest, fed, count>>

Init ==
    /\ \E t \in Types : cut = http_parser_init(t) /\ whole = http_parser_init(t)
    /\ rest = <<>>
    /\ fed = FALSE
    /\ count = [lines |-> 0, parts |-> 0, cuts |-> 0, answers |-> 0, messages |-> 0]

Running == cut.http_errno = "OK" /\ ~cut.exit

\* The peer sends something that may, or may not, stand at this place.
Arrive ==
    /\ Running /\ rest = <<>> /\ ~cut.held
    /\ \/ /\ cut.state \in {"s_dead", "s_start_req_or_res", "s_start_res", "s_start_req"}
          /\ count.messages < MaxMessages
          /\ rest' \in StartLines
          /\ count' = [count EXCEPT !.messages = @ + 1]
       \/ /\ cut.state \in {"s_header_field_start", "s_header_value_lws"}
          /\ rest' \in FieldLines
          /\ rest' # <<CR, LF>> => count.lines < MaxLines
          /\ count' = [count EXCEPT !.lines = @ + 1]
       \/ /\ cut.state = "s_chunk_size_start" \/ cut.state \in BodyStates
          /\ count.parts < MaxParts
          /\ rest' \in (IF cut.state \in BodyStates THEN BodyBytes ELSE ChunkLines)
          /\ count' = [count EXCEPT !.parts = @ + 1]
    /\ UNCHANGED <<cut, whole, fed>>

\* What the application may do at one step.
MayAnswer == IF count.answers < MaxAnswers THEN Answers \cup {NoAnswer} ELSE {NoAnswer}
Spent(a) == IF a = NoAnswer THEN 0 ELSE 1

\* The single buffer is never paused.
Unpaused(a) == IF a.r = "PAUSED" THEN NoAnswer ELSE a

\* The loop takes the next byte; a callback that stops the parser before the
\* byte is used up leaves it to the next call.
Byte ==
    /\ Running /\ rest # <<>>
    /\ \E a \in MayAnswer :
          /\ cut' = ParseByte(cut, Head(rest), a)
          /\ a # NoAnswer => cut' # ParseByte(cut, Head(rest), NoAnswer)
          /\ IF cut'.held THEN UNCHANGED <<rest, whole>>
             ELSE rest' = Tail(rest) /\ whole' = ParseByte(whole, Head(rest), Unpaused(a))
          /\ count' = [count EXCEPT !.answers = @ + Spent(a)]
    /\ fed' = TRUE

\* The buffer ends here and the rest comes with the next call.
Cut ==
    /\ Running /\ fed /\ count.cuts < MaxCuts
    /\ \E a \in MayAnswer :
          /\ LET s == EndBuffer(cut, a) IN cut' = IF s.http_errno = "OK" THEN BeginBuffer(s) ELSE s
          /\ a # NoAnswer => cut'.http_errno = a.r
          /\ count' = [count EXCEPT !.cuts = @ + 1, !.answers = @ + Spent(a)]
    /\ fed' = FALSE
    /\ UNCHANGED <<whole, rest>>

\* http_parser_pause(parser, 0), and a call with what was not used up.
Resume ==
    /\ cut.http_errno = "PAUSED"
    /\ cut' = BeginBuffer(SET_ERRNO(cut, "OK"))
    /\ fed' = FALSE
    /\ UNCHANGED <<whole, rest, count>>

\* The connection ends: the last buffer ends, then a call with len 0.
Eof ==
    /\ Running /\ rest = <<>> /\ ~cut.held
    /\ cut' = EndOfInput(EndBuffer(cut, NoAnswer))
    /\ whole' = EndOfInput(EndBuffer(whole, NoAnswer))
    /\ UNCHANGED <<rest, fed, count>>

Next == Arrive \/ Byte \/ Cut \/ Resume \/ Eof

Spec == Init /\ [][Next]_vars

-----------------------------------------------------------------------------
\* No assert() of http_parser.c fails, however the input is cut and paused: at
\* most one mark is set at the end of a buffer, nread is 1 at a chunk size, a
\* body has bytes left, no header state is met where it is not expected.
AssertsHold == cut.asserts /\ whole.asserts

\* What the application and the next byte can tell of a parser: all but how the
\* bytes of the current datum were divided over callbacks, and nread.
Seen(s) ==
    LET marked == {d \in Datum : s.marks[d] >= 0}
        t == IF marked = {} THEN s ELSE Delivered(s, CHOOSE d \in marked : TRUE, s.marks[CHOOSE d \in marked : TRUE])
    IN  <<s.state, s.header_state, s.index, s.flags, s.content_length, s.http_major, s.http_minor, s.status_code,
          s.method, s.upgrade, s.exit, s.out, t.sent, t.body>>

\* Where the buffers end, and where a callback pauses the parser, changes
\* nothing of what is parsed (http_parser_execute keeps in struct http_parser
\* all that a next call needs), unless the header limit or the application stops
\* it; and both meet the same error, which what is still marked does not outlive.
\* One thing shows: memchr passes over a control character in a header value,
\* and a call that begins just before that character looks at it and refuses it.
CutsDoNotShow ==
    \/ cut.held
    \/ cut.http_errno \in {"HEADER_OVERFLOW", "CB"} \/ whole.http_errno \in {"HEADER_OVERFLOW", "CB"}
    \/ cut.http_errno = "INVALID_HEADER_TOKEN" /\ cut.state = "s_header_value" /\ whole.state = "s_header_value" /\ whole.skip
    \/ /\ cut.http_errno = whole.http_errno \/ (cut.http_errno = "PAUSED" /\ whole.http_errno = "OK")
       /\ IF whole.http_errno = "OK" THEN Seen(cut) = Seen(whole) ELSE cut.state = whole.state

\* A length read from a header or a chunk is the number its digits write: the
\* checks before content_length is replaced keep it from wrapping around and
\* from being ULLONG_MAX, which means that no length is known.
LengthIsExact ==
    cut.http_errno = "OK" /\ (\/ cut.state = "s_header_value" /\ cut.header_state = "h_content_length"
                             \/ cut.state = "s_chunk_size") =>
        cut.content_length = cut.num /\ cut.num < ULLONG_MAX

\* The body bytes handed over are those the headers or the chunks announced:
\* none is missing or extra when message_complete is called.
BodyIsWhole ==
    LET seen == cut.body + (IF cut.marks["body"] < 0 THEN 0 ELSE cut.marks["body"])
    IN  /\ cut.http_errno = "OK" /\ cut.state \in {"s_body_identity", "s_chunk_data"} =>
              seen + cut.content_length = cut.due
        /\ cut.last = "message_complete" /\ cut.state # "s_body_identity_eof" => seen = cut.due

\* The notifications come in the order begin, headers_complete, for every chunk
\* chunk_header and chunk_complete, message_complete.
NotificationsInOrder == cut.ordered

=============================================================================
