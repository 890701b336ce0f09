---------------------------- MODULE HttpParserInv ----------------------------
(***************************************************************************)
(* The invariants of HttpParser that its proofs rest on, and the relations *)
(* between a parser before and after a step.                               *)
(*                                                                         *)
(* Live is the invariant of one parser: what holds in each state of the    *)
(* switch.  A step of the loop counts the byte it is at in the marks only  *)
(* when it is done, so Live has a parameter k, 0 between steps and 1       *)
(* inside one.                                                             *)
(*                                                                         *)
(* CutInv relates the two parsers.  Level is the relation: the same        *)
(* fields, and the same data once what is marked is counted in.  Two       *)
(* parsers that are level and take the same byte (Twin) are level again    *)
(* (Paired), or one is stopped, or the one that is cut was paused within   *)
(* the byte: then the other one passes through the point where it waits    *)
(* (Through, Awaits), and the two meet there on resuming.                  *)
(***************************************************************************)
EXTENDS HttpParser

\* The fields of a parser and the states of the switch, by the part of a message.
Fields == {"type", "state", "header_state", "index", "flags", "nread", "content_length", "http_major",
           "http_minor", "status_code", "method", "http_errno", "upgrade", "marks", "run", "skip", "held",
           "exit", "answer", "sent", "out", "last", "ordered", "body", "due", "num", "asserts"}
StartStates == {"s_dead", "s_start_req_or_res", "s_start_res", "s_start_req"}
LineStates ==
    {"s_res_or_resp_H", "s_res_H", "s_res_HT", "s_res_HTT", "s_res_HTTP", "s_res_first_http_major",
     "s_res_http_major", "s_res_first_http_minor", "s_res_http_minor", "s_res_first_status_code",
     "s_res_status_code", "s_res_status_start", "s_res_status", "s_res_line_almost_done", "s_req_method",
     "s_req_spaces_before_url", "s_req_path", "s_req_schema", "s_req_schema_slash", "s_req_schema_slash_slash",
     "s_req_server_start", "s_req_server", "s_req_server_with_at", "s_req_query_string_start",
     "s_req_query_string", "s_req_fragment_start", "s_req_fragment", "s_req_http_start", "s_req_http_H",
     "s_req_http_HT", "s_req_http_HTT", "s_req_http_HTTP", "s_req_first_http_major", "s_req_http_major",
     "s_req_first_http_minor", "s_req_http_minor", "s_req_line_almost_done"}
HeaderStates ==
    {"s_header_field_start", "s_header_field", "s_header_value_discard_ws",
     "s_header_value_discard_ws_almost_done", "s_header_value_discard_lws", "s_header_value",
     "s_header_almost_done", "s_header_value_lws", "s_headers_almost_done"}
SizeStates == {"s_chunk_size_start", "s_chunk_size", "s_chunk_parameters", "s_chunk_size_almost_done"}
ChunkStates == {"s_chunk_data", "s_chunk_data_almost_done", "s_chunk_data_done"}

\* The header states met while a name is read.
NameStates ==
    {"h_general", "h_C", "h_CO", "h_CON", "h_matching_connection", "h_matching_proxy_connection",
     "h_matching_content_length", "h_matching_transfer_encoding", "h_matching_upgrade", "h_connection",
     "h_content_length", "h_transfer_encoding", "h_upgrade"}

\* Where a mark may be set.
MarkPlaces ==
    [header_field |-> {"s_header_field"}, header_value |-> {"s_header_value"}, url |-> UrlStates,
     status |-> {"s_res_status"},
     body |-> {"s_chunk_data", "s_chunk_data_almost_done", "s_body_identity", "s_body_identity_eof"}]

\* The body bytes of this message that were handed over or are marked.
SeenIn(s, k) == s.body + (IF s.marks["body"] < 0 THEN 0 ELSE s.marks["body"] + k)

\* The types the argument needs.
Shape(s) ==
    /\ DOMAIN s = Fields
    /\ s.marks \in [Datum -> Int]
    /\ s.content_length \in 0..ULLONG_MAX
    /\ s.body \in Int /\ s.due \in Int

\* What the start line and the headers have come to.
InHead(s) ==
    /\ s.state \in LineStates =>
          s.last = "message_begin" /\ "F_TRAILING" \notin s.flags /\ s.body = 0 /\ s.due = 0
    /\ s.state \in HeaderStates =>
          IF "F_TRAILING" \in s.flags THEN s.last = "chunk_header" /\ s.body = s.due
          ELSE s.last = "message_begin" /\ s.body = 0 /\ s.due = 0
    /\ s.state = "s_header_field" => s.header_state \in NameStates
    /\ s.state = "s_header_value" =>
          /\ s.header_state \notin {"h_connection", "h_transfer_encoding"}
          /\ s.header_state = "h_content_length" => s.content_length = s.num /\ s.num < ULLONG_MAX
    /\ s.state = "s_headers_done" => s.last = "headers_complete" /\ s.body = 0 /\ s.due = 0

\* What the chunks have come to.
InChunks(s, k) ==
    /\ s.state \in SizeStates =>
          s.last \in {"headers_complete", "chunk_complete"} /\ "F_CHUNKED" \in s.flags /\ s.body = s.due
    /\ s.state = "s_chunk_size" => s.content_length = s.num /\ s.num < ULLONG_MAX
    /\ s.state \in {"s_chunk_parameters", "s_chunk_size_almost_done"} => s.content_length < ULLONG_MAX
    /\ s.state \in ChunkStates => s.last = "chunk_header" /\ "F_CHUNKED" \in s.flags
    /\ s.state = "s_chunk_data" => s.content_length \notin {0, ULLONG_MAX} /\ SeenIn(s, k) + s.content_length = s.due
    /\ s.state = "s_chunk_data_almost_done" => s.content_length = 0 /\ SeenIn(s, k) = s.due
    /\ s.state = "s_chunk_data_done" => s.body = s.due

\* What is left of the message.
InBody(s, k) ==
    /\ s.state \in StartStates =>
          /\ s.last = "message_complete" \/ (s.state = "s_start_res" /\ s.last = "message_begin")
          /\ s.body = s.due
    /\ s.state = "s_body_identity" =>
          /\ s.last = "headers_complete" /\ s.content_length \notin {0, ULLONG_MAX}
          /\ SeenIn(s, k) + s.content_length = s.due
    /\ s.state = "s_body_identity_eof" => s.exit \/ s.last = "headers_complete"
    /\ s.state = "s_message_done" => s.last \in {"headers_complete", "chunk_complete"} /\ s.body = s.due

Asserted(s) == s.asserts = TRUE
InOrder(s) == s.ordered = TRUE
Going(s) == s.http_errno \in {"OK", "PAUSED"}
Unmarked(s) == \A d \in Datum : s.marks[d] < 0
Skips(s) == s.skip = TRUE

\* In an inner loop; memchr passes only over values of which nothing is wanted.
Looping(s) ==
    /\ s.run \in Nat
    /\ s.state = "s_header_field" \/ (s.state = "s_header_value" /\ (Skips(s) => s.header_state = "h_general"))

\* Marks and bytes not yet counted are where they belong, and a pause leaves no mark.
Tidy(s) ==
    /\ \A d \in Datum : s.marks[d] >= 0 => s.state \in MarkPlaces[d]
    /\ s.run = 0 \/ Looping(s)
    /\ s.http_errno = "PAUSED" => Unmarked(s)

\* What holds while the parser goes on or may go on.
Place(s, k) ==
    /\ s.state \in StartStates \cup LineStates \cup HeaderStates \cup SizeStates \cup ChunkStates
                     \cup {"s_headers_done", "s_body_identity", "s_body_identity_eof", "s_message_done"}
    /\ Tidy(s) /\ InHead(s) /\ InChunks(s, k) /\ InBody(s, k)

\* o: are the notifications known to be in order?
Live(s, k, o) ==
    /\ Shape(s)
    /\ Asserted(s)
    /\ o => InOrder(s)
    /\ s.last = "message_complete" /\ s.state # "s_body_identity_eof" => s.marks["body"] < 0 /\ s.body = s.due
    /\ Going(s) => Place(s, k)

\* After a step nread is 0 where a chunk size starts; the next byte is counted
\* before the switch.
Rested(s, k, o) == Live(s, k, o) /\ (Going(s) /\ s.state = "s_chunk_size_start" => s.nread = 0)

\* The invariant of both parsers: the order of notifications is claimed of the one that is cut.
ParsersInv == Rested(cut, 0, TRUE) /\ Rested(whole, 0, FALSE)

-----------------------------------------------------------------------------
\* What a step of one parser does.

\* What a parser keeps unless a step says otherwise.
Kept(s, t) ==
    /\ DOMAIN t = Fields
    /\ t.flags = s.flags /\ t.content_length = s.content_length /\ t.num = s.num
    /\ t.last = s.last /\ t.ordered = s.ordered /\ t.asserts = s.asserts
    /\ t.body = s.body /\ t.due = s.due /\ t.exit = s.exit

\* No mark is set but those set before.
MarksIn(s, t) ==
    /\ t.marks \in [Datum -> Int]
    /\ \A d \in Datum : t.marks[d] < 0 \/ t.marks[d] = s.marks[d]

\* How a parser is after a callback: it goes on, or it has stopped.
Called(s, t) ==
    /\ t.http_errno \in {"OK", "PAUSED", "CB"}
    /\ t.http_errno = "OK" => t.run = s.run
    /\ t.http_errno # "OK" => t.run = 0 /\ Unmarked(t)

\* Where a step that ends no message part may lead.
HeadStep(s, t) ==
    /\ DOMAIN t = Fields /\ t.marks \in [Datum -> Int] /\ t.content_length \in 0..ULLONG_MAX
    /\ t.last = s.last /\ t.ordered = s.ordered /\ t.asserts = s.asserts /\ t.body = s.body /\ t.due = s.due
    /\ "F_TRAILING" \in t.flags <=> "F_TRAILING" \in s.flags
    /\ Going(t) =>
          /\ t.state \in HeaderStates \/ (t.state \in LineStates /\ s.state \in LineStates)
          /\ Tidy(t)
          /\ t.state = "s_header_field" => t.header_state \in NameStates
          /\ t.state = "s_header_value" =>
                /\ t.header_state \notin {"h_connection", "h_transfer_encoding"}
                /\ t.header_state = "h_content_length" => t.content_length = t.num /\ t.num < ULLONG_MAX

\* A step that changes at most the state and the error.
PlainStep(s, t) == Kept(s, t) /\ t.marks = s.marks /\ t.run = s.run

\* The states of the start line and the headers where nothing is marked.
PlainStates ==
    (LineStates \cup HeaderStates) \ ({"s_header_field", "s_header_value", "s_res_status"} \cup UrlStates)

\* Only d may be marked.
OnlyMarked(s, d) == \A e \in Datum : e # d => s.marks[e] < 0

\* The parser t is s after the notification cb.
Told(s, t, cb) ==
    /\ DOMAIN t = Fields /\ MarksIn(s, t) /\ Called(s, t)
    /\ t.content_length = s.content_length /\ t.num = s.num /\ t.flags = s.flags /\ t.exit = s.exit
    /\ t.state = s.state /\ t.header_state = s.header_state /\ t.nread = s.nread /\ t.upgrade = s.upgrade
    /\ t.last = cb /\ Asserted(t)
    /\ InOrder(s) /\ cb \in Follows[s.last] => InOrder(t)
    /\ IF cb = "message_begin" THEN t.body = 0 /\ t.due = 0 ELSE t.body = s.body /\ t.due = s.due

\* What a step within the headers keeps.
HeadKept(s, t) ==
    /\ DOMAIN t = Fields /\ t.content_length \in 0..ULLONG_MAX
    /\ t.last = s.last /\ t.ordered = s.ordered /\ t.asserts = s.asserts /\ t.body = s.body /\ t.due = s.due
    /\ "F_TRAILING" \in t.flags <=> "F_TRAILING" \in s.flags

\* What a header value may be read in.
ValueStateOk(t) ==
    /\ t.header_state \notin {"h_connection", "h_transfer_encoding"}
    /\ t.header_state = "h_content_length" => t.content_length = t.num /\ t.num < ULLONG_MAX

\* What a character of a value may do.
ValueStep(s, t) ==
    /\ HeadKept(s, t) /\ t.state = s.state /\ t.marks = s.marks /\ t.run = s.run /\ t.http_errno # "PAUSED"
    /\ Going(t) => ValueStateOk(t)

\* The end of a round: the byte is counted in what is marked.
Passed(t) == [t EXCEPT !.answer = NoAnswer, !.marks = [d \in Datum |-> IF @[d] < 0 THEN -1 ELSE @[d] + 1]]

-----------------------------------------------------------------------------
\* Two parsers of the same bytes.

\* What the switch looks at and the application sees, but for data.
Same(s, t) ==
    /\ t.type = s.type /\ t.state = s.state /\ t.header_state = s.header_state /\ t.index = s.index
    /\ t.flags = s.flags /\ t.content_length = s.content_length /\ t.http_major = s.http_major
    /\ t.http_minor = s.http_minor /\ t.status_code = s.status_code /\ t.method = s.method
    /\ t.upgrade = s.upgrade /\ t.exit = s.exit /\ t.out = s.out

\* n more bytes of d after what r says was delivered.
With(r, d, n) == [d |-> d, n |-> IF r.d = d THEN r.n + n ELSE n]

\* The data: x is the last datum and y the body, what is marked counted in.
Reads(s, x, y) ==
    /\ Unmarked(s) => s.sent = x /\ s.body = y
    /\ \A d \in Datum : s.marks[d] >= 0 =>
          With(s.sent, d, s.marks[d]) = x /\ s.body + (IF d = "body" THEN s.marks[d] ELSE 0) = y
Read(s, t) == \E x, y : Reads(s, x, y) /\ Reads(t, x, y)

Unheld(s) == s.held # TRUE
Record(r) == r = [d |-> r.d, n |-> r.n] /\ r.n \in Int

\* The types that a comparison needs; memchr passes over characters only within a value.
Ready(s) ==
    /\ DOMAIN s = Fields /\ s.marks \in [Datum -> Int] /\ s.body \in Int /\ Record(s.sent)
    /\ s.run \in Nat /\ s.skip \in BOOLEAN
    /\ Skips(s) => s.run > 0

\* Marks are set only where they belong, and the marks of the head are set there.
Placed(s) == \A d \in Datum : s.marks[d] >= 0 => s.state \in MarkPlaces[d]
Marked(s) == \A d \in Datum \ {"body"} : s.state \in MarkPlaces[d] => s.marks[d] >= 0
NoDatum(x) == \A d \in Datum \ {"body"} : x \notin MarkPlaces[d]
Alike(s, t) == \A d \in Datum : s.marks[d] >= 0 <=> t.marks[d] >= 0

Unpausing(s) == s.answer.r # "PAUSED"

\* s, which may be cut and paused, and t, which may not, are at the same point.
Level(s, t) ==
    /\ Ready(s) /\ Ready(t) /\ Same(s, t) /\ Read(s, t)
    /\ Skips(s) => Skips(t)
    /\ Unheld(t) /\ Unpausing(t)

\* They are about to take the same byte.
Twin(s, t) ==
    /\ Level(s, t) /\ s.http_errno = "OK" /\ t.http_errno = "OK" /\ Unheld(s)
    /\ Placed(s) /\ Placed(t) /\ Marked(s) /\ Marked(t)
    /\ t.state = "s_header_value" /\ Skips(t) => t.header_state = "h_general"

\* The ends that are not compared.
Stops == {"HEADER_OVERFLOW", "CB"}

\* The character that memchr passes over.
Missed(s, t) ==
    s.http_errno = "INVALID_HEADER_TOKEN" /\ s.state = "s_header_value" /\ t.state = "s_header_value" /\ Skips(t)

\* They have taken it.
Paired(s, t) ==
    /\ Going(s) => Unheld(s)
    /\ \/ s.http_errno \in Stops \/ t.http_errno \in Stops
       \/ Missed(s, t)
       \/ s.http_errno = t.http_errno /\ ~Going(s) /\ s.state = t.state
       \/ Going(s) /\ t.http_errno = "OK" /\ Level(s, t) /\ Alike(s, t) /\ Marked(s) /\ Marked(t)

\* What a step keeps that has to do with neither marks nor callbacks.
Quiet(s, t) ==
    /\ DOMAIN t = Fields /\ t.marks = s.marks /\ t.run = s.run /\ t.skip = s.skip /\ t.held = s.held
    /\ t.answer = s.answer /\ t.sent = s.sent /\ t.body = s.body

\* A notification changes the record of them, which w has, and, where a message begins, the data.
Announced(s, t, w, cb, b) ==
    /\ Ready(t) /\ Unmarked(t) /\ Same(w, t) /\ t.answer = s.answer
    /\ t.http_errno \in {"OK", "PAUSED", "CB"} /\ (Skips(t) => Skips(s))
    /\ t.http_errno = "OK" => t.held = s.held /\ t.run = s.run /\ t.skip = s.skip
    /\ t.http_errno = "PAUSED" => t.held = b /\ s.answer.r = "PAUSED" /\ ~Skips(t)
    /\ cb # "message_begin" => t.sent = s.sent /\ t.body = s.body
    /\ cb = "message_begin" => t.sent = [d |-> "none", n |-> 0] /\ t.body = 0

\* How a callback leaves the two: b says whether it would hold the byte.
Met(s, t, b) ==
    /\ s.http_errno \in {"OK", "PAUSED", "CB"} /\ t.http_errno \in {"OK", "CB"}
    /\ s.http_errno = "OK" => Unheld(s)
    /\ s.http_errno = "PAUSED" => s.held = b /\ ~Skips(s)
    /\ s.http_errno # "CB" /\ t.http_errno = "OK" => Level(s, t) /\ Unmarked(s) /\ Unmarked(t)

\* A quiet step of both that ends outside a datum of the head.
Along(c, u, s, t) ==
    /\ Quiet(c, s) /\ Quiet(u, t) /\ s.http_errno = t.http_errno /\ s.http_errno # "PAUSED" /\ s.state = t.state
    /\ s.http_errno = "OK" => Same(s, t) /\ NoDatum(s.state)

\* The states outside a datum of the head.
Bare == {"s_dead", "s_start_req_or_res", "s_start_res", "s_start_req", "s_res_or_resp_H", "s_res_H", "s_res_HT",
         "s_res_HTT", "s_res_HTTP", "s_res_first_http_major", "s_res_http_major", "s_res_first_http_minor",
         "s_res_http_minor", "s_res_first_status_code", "s_res_status_code", "s_res_status_start",
         "s_res_line_almost_done", "s_req_method", "s_req_spaces_before_url", "s_req_http_start", "s_req_http_H",
         "s_req_http_HT", "s_req_http_HTT", "s_req_http_HTTP", "s_req_first_http_major", "s_req_http_major",
         "s_req_first_http_minor", "s_req_http_minor", "s_req_line_almost_done", "s_header_field_start",
         "s_header_value_discard_ws", "s_header_value_discard_ws_almost_done", "s_header_value_discard_lws",
         "s_header_almost_done", "s_header_value_lws", "s_headers_almost_done", "s_headers_done",
         "s_chunk_size_start", "s_chunk_size", "s_chunk_parameters", "s_chunk_size_almost_done",
         "s_chunk_data_done", "s_message_done"}

\* How a character of a name or a value changes both: in the same way.
Abreast(c, u, s, t) ==
    /\ Quiet(c, s) /\ Quiet(u, t) /\ Same(s, t) /\ s.http_errno = t.http_errno /\ s.http_errno # "PAUSED"
    /\ s.state = c.state

\* headers_complete says that there is no body: the one answer that is no error.
Skip(a) == a.at = "headers_complete" /\ a.r \in {"1", "2"}

\* Two answers to the same step.
Linked(a, b) == Skip(a) \/ Skip(b) => a = b

\* Where a callback leaves a parser that has not used up the byte.
HoldStates == {"s_message_done", "s_headers_done", "s_header_almost_done", "s_header_field_start"}
Rests(s) == Going(s) /\ ~Unheld(s) => s.http_errno = "PAUSED" /\ s.state \in HoldStates

\* The parser that was not paused is there too, and takes the same byte.
Waits(s, m) == Level(s, m) /\ m.http_errno = "OK" /\ Unmarked(s) /\ Unmarked(m)
Passes(s, t, b, ch) == t.http_errno \in Stops \/ \E m : t = Switch(m, ch) /\ m.answer = b /\ Waits(s, m)

\* How the switch leaves two parsers: paired, or the first one has stopped on the way of the second.
Through(c, u, s, t, ch) ==
    /\ Rests(s)
    /\ Unheld(s) /\ Linked(c.answer, u.answer) => Paired(s, t)
    /\ ~Unheld(s) /\ Going(s) /\ (s.state = "s_headers_done" => ~Skip(u.answer)) =>
          c.state # "s_headers_done" /\ Passes(s, t, u.answer, ch)

-----------------------------------------------------------------------------
\* Between two bytes.

\* A datum of the head that has begun is marked, or was handed over by the call that was paused.
Begun(s) ==
    \A d \in Datum \ {"body"} :
        s.state \in MarkPlaces[d] => s.marks[d] >= 0 \/ (s.http_errno = "PAUSED" /\ s.sent.d = d)

\* The first parser is at the point where the second one is.
Agree(c, u) == Going(c) /\ Unheld(c) /\ u.http_errno = "OK" /\ Level(c, u) /\ Marked(u) /\ Begun(c)

\* The comparison has come to an end.
Ended(c, u) ==
    \/ c.http_errno \in Stops \/ u.http_errno \in Stops
    \/ Missed(c, u)
    \/ c.http_errno = u.http_errno /\ ~Going(c) /\ c.state = u.state
    \/ ~Unheld(c) /\ ~Going(c)

\* The first parser is within the byte that the second one has still to take.
Awaits(c, w, ch) ==
    \A b : b.r # "PAUSED" /\ (c.state = "s_headers_done" => ~Skip(b)) =>
        \/ ParseByte(w, ch, b).http_errno \in Stops
        \/ \E m : ParseByte(w, ch, b) = Passed(Switch(m, ch)) /\ m.answer = b /\ Waits(c, m)

\* The start of a round: what is left of the last one is forgotten, and a byte of the head is counted.
Begins(s, a) == [s EXCEPT !.answer = a, !.held = FALSE, !.out = IF s.held THEN @ ELSE <<>>]
Counted(s) == IF PARSING_HEADER(s.state) /\ s.run = 0 THEN COUNT_HEADER_SIZE(s, 1) ELSE s

\* The states that the switch knows.
KnownStates == StartStates \cup LineStates \cup HeaderStates \cup SizeStates \cup ChunkStates
                   \cup {"s_headers_done", "s_body_identity", "s_body_identity_eof", "s_message_done"}

\* Where memchr passes over a header value, nothing of it is wanted.
Careless(s) == s.state = "s_header_value" /\ Skips(s) => s.header_state = "h_general"

\* The first parser has begun the byte and the second one meets it there, whatever a callback answers.
Meeting(c, w, ch) ==
    \A b : b.r # "PAUSED" /\ (c.state = "s_headers_done" => ~Skip(b)) =>
        \/ ParseByte(w, ch, b).http_errno \in Stops
        \/ \E m : ParseByte(w, ch, b) = Passed(Switch(m, ch)) /\ m.answer = b /\ Twin(c, m)

\* They differ in nothing but what a callback is to answer.
Hushed(s, t) == DOMAIN s = Fields /\ DOMAIN t = Fields /\ \A f \in Fields : f # "answer" => t[f] = s[f]

\* The datum that goes on in the next buffer.
AtOf(x) == CASE x = "s_header_field" -> "header_field"
             [] x = "s_header_value" -> "header_value"
             [] x \in UrlStates -> "url"
             [] x = "s_res_status" -> "status"
             [] OTHER -> "none"

\* What is left when a buffer has ended.
Handed(s, t, a) ==
    /\ t.http_errno \in {"OK", "PAUSED"} /\ (t.http_errno = "PAUSED" => a.r = "PAUSED")
    /\ Ready(t) /\ Unmarked(t) /\ Same(s, t) /\ ~Skips(t) /\ t.answer = NoAnswer
    /\ Unheld(s) => Unheld(t)
    /\ \A x, y : Reads(s, x, y) => Reads(t, x, y)
    /\ \A d \in Datum \ {"body"} : s.marks[d] >= 0 => t.sent.d = d

\* The parser that is cut has been left within a byte: r is what it has still to read and f whether the buffer has begun.
Waiting(c, w, r, f) ==
    /\ Going(c) /\ ~Unheld(c) /\ c.state \in HoldStates
    /\ c.http_errno = "OK" => f # TRUE
    /\ r # <<>> /\ Awaits(c, w, Head(r))

\* The two parsers keep together until the comparison ends.
Together(c, w, r, f) == Ended(c, w) \/ Agree(c, w) \/ Waiting(c, w, r, f)

\* The invariant of the comparison.
CutInv == Together(cut, whole, rest, fed)

=============================================================================
