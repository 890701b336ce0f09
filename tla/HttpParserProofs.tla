-------------------------- MODULE HttpParserProofs --------------------------
(***************************************************************************)
(* Proofs about HttpParser: for every input, however it is cut into        *)
(* buffers and whatever the callbacks answer, no assert() of http_parser.c *)
(* fails, a length is the number its digits write, the body handed over is *)
(* the one announced, the notifications come in order, and what is parsed  *)
(* does not depend on where the buffers end or the parser is paused.  The  *)
(* invariants they rest on are in HttpParserInv.                           *)
(***************************************************************************)
EXTENDS HttpParserInv, TLAPS

-----------------------------------------------------------------------------
\* What the macros do to a parser.

\* SET_ERRNO changes the error.
LEMMA ErrnoEffect ==
  ASSUME NEW s, DOMAIN s = Fields, NEW e
  PROVE  LET t == SET_ERRNO(s, e)
         IN  Kept(s, t) /\ t.http_errno = e /\ t.state = s.state /\ t.header_state = s.header_state
             /\ t.marks = s.marks /\ t.run = s.run /\ t.nread = s.nread /\ t.answer = s.answer /\ t.skip = s.skip
  BY DEF SET_ERRNO, Kept, Fields

\* UPDATE_STATE changes the state.
LEMMA StateEffect ==
  ASSUME NEW s, DOMAIN s = Fields, NEW x
  PROVE  LET t == UPDATE_STATE(s, x)
         IN  Kept(s, t) /\ t.state = x /\ t.http_errno = s.http_errno /\ t.header_state = s.header_state
             /\ t.marks = s.marks /\ t.run = s.run /\ t.nread = s.nread /\ t.answer = s.answer
             /\ t.method = s.method /\ t.upgrade = s.upgrade
  BY DEF UPDATE_STATE, Kept, Fields

\* An assertion that holds changes nothing.
LEMMA AssertEffect ==
  ASSUME NEW s, DOMAIN s = Fields, Asserted(s), NEW h, h = TRUE
  PROVE  LET t == assert(s, h)
         IN  Kept(s, t) /\ t.state = s.state /\ t.http_errno = s.http_errno /\ t.header_state = s.header_state
             /\ t.marks = s.marks /\ t.run = s.run /\ t.nread = s.nread /\ t.answer = s.answer
             /\ t.upgrade = s.upgrade /\ t.method = s.method
  BY DEF assert, Kept, Fields, Asserted

\* The answer of a callback: the parser goes on as it is or stops without marks.
LEMMA AnsweredEffect ==
  ASSUME NEW s, NEW cb, NEW b, DOMAIN s = Fields, s.marks \in [Datum -> Int], s.http_errno = "OK"
  PROVE  LET t == Answered(s, cb, b)
         IN  Kept(s, t) /\ MarksIn(s, t) /\ Called(s, t) /\ t.state = s.state
             /\ t.header_state = s.header_state /\ t.nread = s.nread /\ t.answer = s.answer
             /\ t.upgrade = s.upgrade /\ t.method = s.method /\ (t.http_errno = "OK" => t = s)
<1>1. CASE s.answer.at = cb /\ s.answer.r \in {"CB", "PAUSED"}
  <2>1. Answered(s, cb, b) = [s EXCEPT !.http_errno = s.answer.r, !.held = b, !.marks = [d \in Datum |-> -1],
                                       !.run = 0, !.skip = FALSE]
    BY <1>1 DEF Answered
  <2>2. PICK t : t = Answered(s, cb, b)  OBVIOUS
  <2>3. t.marks = [d \in Datum |-> -1]  BY <2>1, <2>2 DEF Fields
  <2>4. /\ Kept(s, t) /\ t.http_errno \in {"CB", "PAUSED"} /\ t.run = 0 /\ t.state = s.state
        /\ t.header_state = s.header_state /\ t.nread = s.nread /\ t.answer = s.answer
        /\ t.upgrade = s.upgrade /\ t.method = s.method
    BY <1>1, <2>1, <2>2 DEF Fields, Kept
  <2> QED BY <2>2, <2>3, <2>4 DEF MarksIn, Called, Unmarked
<1>2. CASE ~(s.answer.at = cb /\ s.answer.r \in {"CB", "PAUSED"})  BY <1>2 DEF Answered, Kept, MarksIn, Called
<1> QED BY <1>1, <1>2

\* A callback with data other than the body ends its mark.
LEMMA DataEffect ==
  ASSUME NEW s, NEW d, NEW n, NEW b, DOMAIN s = Fields, s.marks \in [Datum -> Int], s.http_errno = "OK",
         Asserted(s), d \in Datum \ {"body"}
  PROVE  LET t == CALLBACK_DATA_(s, d, n, b)
         IN  Kept(s, t) /\ MarksIn(s, t) /\ Called(s, t) /\ t.state = s.state /\ t.marks[d] < 0
             /\ t.header_state = s.header_state /\ t.nread = s.nread /\ t.answer = s.answer
<1>1. PICK a : a = assert(s, s.http_errno = "OK")  OBVIOUS
<1>2. /\ Kept(s, a) /\ a.state = s.state /\ a.http_errno = "OK" /\ a.header_state = s.header_state
      /\ a.marks = s.marks /\ a.run = s.run /\ a.nread = s.nread /\ a.answer = s.answer
  BY <1>1, AssertEffect
<1>3. CASE s.marks[d] < 0  BY <1>1, <1>2, <1>3 DEF CALLBACK_DATA_, Kept, MarksIn, Called
<1>4. CASE ~(s.marks[d] < 0)
  <2>1. PICK u : u = [Delivered(a, d, n) EXCEPT !.marks[d] = -1]  OBVIOUS
  <2>2. /\ DOMAIN u = Fields /\ Kept(s, u) /\ u.marks = [s.marks EXCEPT ![d] = -1]
        /\ u.http_errno = "OK" /\ u.run = s.run /\ u.state = s.state /\ u.header_state = s.header_state
        /\ u.nread = s.nread /\ u.answer = s.answer
    BY <1>2, <2>1 DEF Delivered, Kept, Fields
  <2>3. u.marks \in [Datum -> Int] /\ MarksIn(s, u) /\ u.marks[d] < 0  BY <2>2 DEF MarksIn
  <2>4. CALLBACK_DATA_(s, d, n, b) = Answered(u, d, b)  BY <1>1, <1>4, <2>1 DEF CALLBACK_DATA_
  <2>5. PICK t : t = Answered(u, d, b)  OBVIOUS
  <2>6. Kept(u, t) /\ MarksIn(u, t) /\ Called(u, t) /\ t.state = u.state
        /\ t.header_state = u.header_state /\ t.nread = u.nread /\ t.answer = u.answer
    BY <2>2, <2>3, <2>5, AnsweredEffect
  <2>7. MarksIn(s, t) /\ t.marks[d] < 0  BY <2>3, <2>6 DEF MarksIn
  <2> QED BY <2>2, <2>4, <2>5, <2>6, <2>7 DEF Kept, Called
<1> QED BY <1>3, <1>4

\* MARK sets a mark at the byte.
LEMMA MarkEffect ==
  ASSUME NEW s, NEW d, DOMAIN s = Fields, s.marks \in [Datum -> Int], d \in Datum
  PROVE  LET t == MARK(s, d)
         IN  Kept(s, t) /\ t.state = s.state /\ t.header_state = s.header_state /\ t.nread = s.nread
             /\ t.run = s.run /\ t.http_errno = s.http_errno /\ t.answer = s.answer /\ t.method = s.method
             /\ t.marks = [s.marks EXCEPT ![d] = IF @ < 0 THEN 0 ELSE @]
  BY DEF MARK, Kept, Fields

\* COUNT_HEADER_SIZE counts and ends an inner loop.
LEMMA CountEffect ==
  ASSUME NEW s, DOMAIN s = Fields, NEW n
  PROVE  LET t == COUNT_HEADER_SIZE(s, n)
         IN  Kept(s, t) /\ t.state = s.state /\ t.header_state = s.header_state /\ t.nread = s.nread + n
             /\ t.run = 0 /\ t.http_errno \in {s.http_errno, "HEADER_OVERFLOW"} /\ t.marks = s.marks
             /\ t.answer = s.answer /\ t.upgrade = s.upgrade /\ t.method = s.method /\ ~Skips(t)
  BY DEF COUNT_HEADER_SIZE, SET_ERRNO, Kept, Fields, Skips

\* A check that fails is an error, one that holds changes nothing.
LEMMA StrictEffect ==
  ASSUME NEW s, s.http_errno = "OK", NEW ch, NEW wanted
  PROVE  STRICT_CHECK(s, ch, wanted) = s \/ STRICT_CHECK(s, ch, wanted) = SET_ERRNO(s, "STRICT")
  BY DEF STRICT_CHECK

-----------------------------------------------------------------------------
\* Steps within the start line and the headers.

\* The classes of states have no state in common.
LEMMA StatesApart ==
  ASSUME NEW x, x \in LineStates \cup HeaderStates
  PROVE  /\ x \notin StartStates \cup SizeStates \cup ChunkStates
         /\ x \notin {"s_headers_done", "s_body_identity", "s_body_identity_eof", "s_message_done"}
         /\ x \in LineStates => x \notin HeaderStates
  BY DEF LineStates, HeaderStates, StartStates, SizeStates, ChunkStates

\* Such a step leaves the parser in order.
LEMMA HeadLands ==
  ASSUME NEW s, NEW t, NEW o, NEW j, NEW k, Live(s, j, o), s.http_errno = "OK",
         s.state \in LineStates \cup HeaderStates, HeadStep(s, t)
  PROVE  Rested(t, k, o) /\ (Going(t) => t.state \in LineStates \cup HeaderStates)
<1>1. Place(s, j) /\ s.last # "message_complete"  BY StatesApart DEF Live, Going, Place, InHead
<1>2. Shape(t) /\ Asserted(t) /\ (o => InOrder(t)) /\ t.last # "message_complete"
  BY <1>1 DEF Live, Shape, HeadStep, Asserted, InOrder
<1>3. ASSUME Going(t) PROVE Place(t, k) /\ t.state \in LineStates \cup HeaderStates
  <2>1. t.state \in LineStates \cup HeaderStates /\ Tidy(t)  BY <1>3 DEF HeadStep
  <2>2. InHead(t)  BY <1>1, <1>3, <2>1, StatesApart DEF HeadStep, Place, InHead
  <2>3. InChunks(t, k) /\ InBody(t, k)  BY <2>1, StatesApart DEF InChunks, InBody, SizeStates, ChunkStates
  <2> QED BY <2>1, <2>2, <2>3 DEF Place
<1>4. Going(t) => t.state # "s_chunk_size_start"  BY <1>3 DEF LineStates, HeaderStates
<1> QED BY <1>2, <1>3, <1>4 DEF Rested, Live

\* Without marks and outside the inner loops nothing else need be known.
LEMMA PlainLands ==
  ASSUME NEW s, NEW t, Shape(s), Unmarked(s), s.run = 0, PlainStep(s, t),
         Going(t) => /\ t.state \in HeaderStates \/ (t.state \in LineStates /\ s.state \in LineStates)
                     /\ t.state \notin {"s_header_field", "s_header_value"}
  PROVE  HeadStep(s, t)
<1>1. Unmarked(t) /\ t.run = 0 /\ t.marks \in [Datum -> Int]  BY DEF PlainStep, Unmarked, Shape
<1>2. Tidy(t)  BY <1>1 DEF Tidy, Unmarked, Datum
<1> QED BY <1>1, <1>2 DEF HeadStep, PlainStep, Kept, Shape

\* In a start line or a header a mark is set only where its datum is read.
LEMMA LivePlain ==
  ASSUME NEW s, NEW o, NEW k, Live(s, k, o), s.http_errno = "OK",
         s.state \notin {"s_header_field", "s_header_value", "s_res_status"} \cup UrlStates,
         s.state \notin {"s_chunk_data", "s_chunk_data_almost_done", "s_body_identity", "s_body_identity_eof"}
  PROVE  Shape(s) /\ Asserted(s) /\ Unmarked(s) /\ s.run = 0
<1>1. Tidy(s) /\ Shape(s) /\ Asserted(s)  BY DEF Live, Going, Place
<1>2. ASSUME NEW d \in Datum PROVE s.marks[d] < 0
  <2>1. MarkPlaces[d] \subseteq {"s_header_field", "s_header_value", "s_res_status"} \cup UrlStates
             \cup {"s_chunk_data", "s_chunk_data_almost_done", "s_body_identity", "s_body_identity_eof"}
    BY DEF MarkPlaces, Datum
  <2>2. s.marks[d] \in Int /\ ~(s.marks[d] >= 0)  BY <1>1, <2>1 DEF Tidy, Shape
  <2> QED BY <2>2
<1> QED BY <1>1, <1>2 DEF Unmarked, Tidy, Looping

-----------------------------------------------------------------------------
\* The start line.

\* A digit has a value below 10, a hexadecimal digit one below 16.
LEMMA DigitRange ==
  ASSUME NEW ch, ch \in IS_NUM
  PROVE  DigitValue[ch] \in 0..9
<1>1. \E v \in 0..9 : Digits[v + 1] = ch
  <2>1. PICK i \in DOMAIN Digits : Digits[i] = ch  BY DEF IS_NUM, ToSet
  <2>2. i \in 1..10  BY <2>1 DEF Digits
  <2> QED BY <2>1, <2>2
<1> QED BY <1>1 DEF DigitValue

\* The table unhex gives every hexadecimal digit its value.
LEMMA HexRange ==
  ASSUME NEW ch, ch \in IS_HEX
  PROVE  unhex(ch) \in 0..15
<1>1. CASE ch \in IS_NUM  BY <1>1, DigitRange DEF unhex
<1>2. CASE ch \notin IS_NUM  BY <1>2 DEF unhex, IS_HEX, HexLetters, HexValue
<1> QED BY <1>1, <1>2

\* parse_url_char leads to a state of a URL or refuses the character.
LEMMA UrlCharStates ==
  ASSUME NEW x, NEW ch
  PROVE  parse_url_char(x, ch) \in UrlStates \cup {"s_dead"}
  BY DEF parse_url_char, UrlStates

\* In a state that takes its byte outside a datum nothing is marked.
LEMMA PlainReady ==
  ASSUME NEW s, NEW o, NEW k, Live(s, k, o), s.http_errno = "OK", s.state \in PlainStates
  PROVE  Shape(s) /\ DOMAIN s = Fields /\ Asserted(s) /\ Unmarked(s) /\ s.run = 0
         /\ s.state \in LineStates \cup HeaderStates
<1>1. s.state \in LineStates \cup HeaderStates  BY DEF PlainStates
<1>2. s.state \notin ChunkStates \cup {"s_body_identity", "s_body_identity_eof"}  BY <1>1, StatesApart
<1>3. s.state \notin {"s_chunk_data", "s_chunk_data_almost_done", "s_body_identity", "s_body_identity_eof"}
  BY <1>2 DEF ChunkStates
<1>4. s.state \notin {"s_header_field", "s_header_value", "s_res_status"} \cup UrlStates  BY DEF PlainStates
<1> QED BY <1>1, <1>3, <1>4, LivePlain DEF Shape

\* There a step that changes the state or stops the parser leaves it in order.
LEMMA PlainSwitch ==
  ASSUME NEW s, NEW t, NEW o, NEW j, NEW k, Live(s, j, o), s.http_errno = "OK", s.state \in PlainStates,
         PlainStep(s, t),
         Going(t) => /\ t.state \in HeaderStates \/ (t.state \in LineStates /\ s.state \in LineStates)
                     /\ t.state \notin {"s_header_field", "s_header_value"}
  PROVE  Rested(t, k, o)
  BY PlainReady, PlainLands, HeadLands

\* The letters of HTTP/.
LEMMA LetterStep ==
  ASSUME NEW s, NEW ch, NEW o, NEW k, NEW j, Live(s, j, o), s.http_errno = "OK", s.state \in DOMAIN Letters
  PROVE  Rested(Letter(s, ch), k, o)
<1>1. s.state \in PlainStates /\ s.state \in LineStates /\ Letters[s.state][2] \in LineStates
  BY DEF Letters, LineStates, UrlStates, PlainStates
<1>2. DOMAIN s = Fields  BY <1>1, PlainReady
<1>3. PlainStep(s, Letter(s, ch)) /\ (Going(Letter(s, ch)) => Letter(s, ch).state \in LineStates)
  BY <1>1, <1>2, StrictEffect, ErrnoEffect, StateEffect DEF Letter, Then, PlainStep, Going
<1>4. \A x \in LineStates : x \notin {"s_header_field", "s_header_value"}  BY DEF LineStates
<1> QED BY <1>1, <1>3, <1>4, PlainSwitch

\* The version of a response.
LEMMA ResVersionStep ==
  ASSUME NEW s, NEW ch, NEW o, NEW k, NEW j, Live(s, j, o), s.http_errno = "OK", s.state \in ResVersionStates
  PROVE  Rested(ResVersion(s, ch), k, o)
<1>1. s.state \in PlainStates /\ s.state \in LineStates  BY DEF ResVersionStates, LineStates, UrlStates, PlainStates
<1>2. DOMAIN s = Fields  BY <1>1, PlainReady
<1>3. PlainStep(s, ResVersion(s, ch)) /\ (Going(ResVersion(s, ch)) => ResVersion(s, ch).state \in LineStates)
  <2>1. CASE s.state = "s_res_first_http_major"
    BY <1>2, <2>1, ErrnoEffect DEF ResVersion, FirstMajor, Kept, PlainStep, Going, LineStates, Fields
  <2>2. CASE s.state = "s_res_http_major"
    BY <1>2, <2>2 DEF ResVersion, Major, UPDATE_STATE, SET_ERRNO, Kept, PlainStep, Going, LineStates, Fields
  <2>3. CASE s.state = "s_res_first_http_minor"
    BY <1>2, <2>3, ErrnoEffect DEF ResVersion, FirstMinor, Kept, PlainStep, Going, LineStates, Fields
  <2>4. CASE s.state = "s_res_http_minor"
    BY <1>2, <2>4 DEF ResVersion, Minor, UPDATE_STATE, SET_ERRNO, Kept, PlainStep, Going, LineStates, Fields
  <2> QED BY <2>1, <2>2, <2>3, <2>4 DEF ResVersionStates
<1>4. \A x \in LineStates : x \notin {"s_header_field", "s_header_value"}  BY DEF LineStates
<1> QED BY <1>1, <1>3, <1>4, PlainSwitch

\* The version of a request.
LEMMA ReqVersionStep ==
  ASSUME NEW s, NEW ch, NEW o, NEW k, NEW j, Live(s, j, o), s.http_errno = "OK", s.state \in ReqVersionStates
  PROVE  Rested(ReqVersion(s, ch), k, o)
<1>1. s.state \in PlainStates /\ s.state \in LineStates  BY DEF ReqVersionStates, LineStates, UrlStates, PlainStates
<1>2. DOMAIN s = Fields  BY <1>1, PlainReady
<1>3. /\ PlainStep(s, ReqVersion(s, ch))
      /\ Going(ReqVersion(s, ch)) => ReqVersion(s, ch).state \in LineStates \cup {"s_header_field_start"}
  <2>1. CASE s.state = "s_req_first_http_major"
    BY <1>2, <2>1, ErrnoEffect DEF ReqVersion, FirstMajor, Kept, PlainStep, Going, LineStates, Fields
  <2>2. CASE s.state = "s_req_http_major"
    BY <1>2, <2>2 DEF ReqVersion, Major, UPDATE_STATE, SET_ERRNO, Kept, PlainStep, Going, LineStates, Fields
  <2>3. CASE s.state = "s_req_first_http_minor"
    BY <1>2, <2>3, ErrnoEffect DEF ReqVersion, FirstMinor, Kept, PlainStep, Going, LineStates, Fields
  <2>4. CASE s.state = "s_req_http_minor"
    BY <1>2, <2>4 DEF ReqVersion, Minor, UPDATE_STATE, SET_ERRNO, Kept, PlainStep, Going, LineStates, Fields
  <2> QED BY <2>1, <2>2, <2>3, <2>4 DEF ReqVersionStates
<1>4. /\ \A x \in LineStates : x \notin {"s_header_field", "s_header_value"}
      /\ "s_header_field_start" \in HeaderStates
  BY DEF LineStates, HeaderStates
<1> QED BY <1>1, <1>3, <1>4, PlainSwitch

\* The status code.
LEMMA StatusCodeStep ==
  ASSUME NEW s, NEW ch, NEW o, NEW k, NEW j, Live(s, j, o), s.http_errno = "OK",
         s.state \in {"s_res_first_status_code", "s_res_status_code"}
  PROVE  Rested(StatusCode(s, ch), k, o)
<1>1. s.state \in PlainStates /\ s.state \in LineStates  BY DEF LineStates, UrlStates, PlainStates
<1>2. DOMAIN s = Fields  BY <1>1, PlainReady
<1>3. /\ PlainStep(s, StatusCode(s, ch))
      /\ Going(StatusCode(s, ch)) => StatusCode(s, ch).state \in LineStates \cup {"s_header_field_start"}
  BY <1>1, <1>2 DEF StatusCode, UPDATE_STATE, SET_ERRNO, Kept, PlainStep, Going, LineStates, Fields, CR, LF, SP
<1>4. /\ \A x \in LineStates : x \notin {"s_header_field", "s_header_value"}
      /\ "s_header_field_start" \in HeaderStates
  BY DEF LineStates, HeaderStates
<1> QED BY <1>1, <1>3, <1>4, PlainSwitch

\* The method, and the byte that tells a request from a response.
LEMMA ReqMethodStep ==
  ASSUME NEW s, NEW ch, NEW o, NEW k, NEW j, Live(s, j, o), s.http_errno = "OK", s.state = "s_req_method"
  PROVE  Rested(ReqMethod(s, ch), k, o)
<1>1. s.state \in PlainStates /\ s.state \in LineStates  BY DEF LineStates, UrlStates, PlainStates
<1>2. DOMAIN s = Fields  BY <1>1, PlainReady
<1>3. /\ PlainStep(s, ReqMethod(s, ch))
      /\ Going(ReqMethod(s, ch)) => ReqMethod(s, ch).state \in LineStates
  <2>1. PICK t : t = [s EXCEPT !.index = @ + 1]  OBVIOUS
  <2>2. DOMAIN t = Fields /\ Kept(s, t) /\ t.marks = s.marks /\ t.run = s.run /\ t.state = s.state
    BY <1>2, <2>1 DEF Kept, Fields
  <2>3. \/ ReqMethod(s, ch) = UPDATE_STATE(t, "s_req_spaces_before_url")
        \/ ReqMethod(s, ch) = t
        \/ \E m : ReqMethod(s, ch) = [t EXCEPT !.method = m]
        \/ ReqMethod(s, ch) = SET_ERRNO(s, "INVALID_METHOD")
    BY <2>1 DEF ReqMethod
  <2>4. CASE ReqMethod(s, ch) = UPDATE_STATE(t, "s_req_spaces_before_url")
    BY <2>2, <2>4, StateEffect DEF Kept, PlainStep, LineStates
  <2>5. CASE ReqMethod(s, ch) = t  BY <1>1, <2>2, <2>5 DEF PlainStep
  <2>6. CASE \E m : ReqMethod(s, ch) = [t EXCEPT !.method = m]  BY <1>1, <2>2, <2>6 DEF PlainStep, Kept, Fields
  <2>7. CASE ReqMethod(s, ch) = SET_ERRNO(s, "INVALID_METHOD")  BY <1>1, <1>2, <2>7, ErrnoEffect DEF PlainStep
  <2> QED BY <2>3, <2>4, <2>5, <2>6, <2>7
<1>4. \A x \in LineStates : x \notin {"s_header_field", "s_header_value"}  BY DEF LineStates
<1> QED BY <1>1, <1>3, <1>4, PlainSwitch

\* The other bytes of a start line that mark nothing.
LEMMA ResOrRespHStep ==
  ASSUME NEW s, NEW ch, NEW o, NEW k, NEW j, Live(s, j, o), s.http_errno = "OK", s.state = "s_res_or_resp_H"
  PROVE  Rested(ResOrRespH(s, ch), k, o)
<1>1. s.state \in PlainStates /\ s.state \in LineStates  BY DEF LineStates, UrlStates, PlainStates
<1>2. DOMAIN s = Fields  BY <1>1, PlainReady
<1>3. PlainStep(s, ResOrRespH(s, ch)) /\ (Going(ResOrRespH(s, ch)) => ResOrRespH(s, ch).state \in LineStates)
  BY <1>1, <1>2 DEF ResOrRespH, SET_ERRNO, Kept, PlainStep, Going, LineStates, Fields
<1>4. \A x \in LineStates : x \notin {"s_header_field", "s_header_value"}  BY DEF LineStates
<1> QED BY <1>1, <1>3, <1>4, PlainSwitch

\* s_req_http_start: the byte after the URL's space keeps the promises.
LEMMA ReqHttpStartStep ==
  ASSUME NEW s, NEW ch, NEW o, NEW k, NEW j, Live(s, j, o), s.http_errno = "OK", s.state = "s_req_http_start"
  PROVE  Rested(ReqHttpStart(s, ch), k, o)
<1>1. s.state \in PlainStates /\ s.state \in LineStates  BY DEF LineStates, UrlStates, PlainStates
<1>2. DOMAIN s = Fields  BY <1>1, PlainReady
<1>3. PlainStep(s, ReqHttpStart(s, ch)) /\ (Going(ReqHttpStart(s, ch)) => ReqHttpStart(s, ch).state \in LineStates)
  BY <1>1, <1>2 DEF ReqHttpStart, UPDATE_STATE, SET_ERRNO, Kept, PlainStep, Going, LineStates, Fields, SP
<1>4. \A x \in LineStates : x \notin {"s_header_field", "s_header_value"}  BY DEF LineStates
<1> QED BY <1>1, <1>3, <1>4, PlainSwitch

\* The LF of a line, checked in one way or the other.
LEMMA LineEndStep ==
  ASSUME NEW s, NEW ch, NEW o, NEW k, NEW j, Live(s, j, o), s.http_errno = "OK", s.state \in PlainStates,
         NEW next \in HeaderStates \ {"s_header_field", "s_header_value"}
  PROVE  /\ Rested(LineAlmostDone(s, ch, next), k, o)
         /\ Rested(Then(STRICT_CHECK(s, ch, LF), LAMBDA t : UPDATE_STATE(t, next)), k, o)
<1>2. DOMAIN s = Fields  BY PlainReady
<1>3. PICK t : t = LineAlmostDone(s, ch, next)  OBVIOUS
<1>4. PICK u : u = Then(STRICT_CHECK(s, ch, LF), LAMBDA t_1 : UPDATE_STATE(t_1, next))  OBVIOUS
<1>5. PlainStep(s, t) /\ (Going(t) => t.state = next)
  BY <1>2, <1>3, ErrnoEffect, StateEffect DEF LineAlmostDone, PlainStep, Going
<1>6. PlainStep(s, u) /\ (Going(u) => u.state = next)
  BY <1>2, <1>4, ErrnoEffect, StateEffect DEF STRICT_CHECK, Then, PlainStep, Going
<1>7. Rested(t, k, o) /\ Rested(u, k, o)  BY <1>5, <1>6, PlainSwitch
<1> QED BY <1>3, <1>4, <1>7

\* In a state that belongs to one datum no other is marked.
LEMMA DatumReady ==
  ASSUME NEW s, NEW o, NEW k, Live(s, k, o), s.http_errno = "OK", NEW d \in Datum \ {"body"},
         s.state \in MarkPlaces[d]
  PROVE  Shape(s) /\ DOMAIN s = Fields /\ Asserted(s) /\ OnlyMarked(s, d)
         /\ s.state \in LineStates \cup HeaderStates
         /\ (s.run = 0 \/ s.state \in {"s_header_field", "s_header_value"})
<1>1. Shape(s) /\ Tidy(s) /\ Asserted(s)  BY DEF Live, Going, Place
<1>2. s.state \in LineStates \cup HeaderStates  BY DEF MarkPlaces, LineStates, HeaderStates, UrlStates, Datum
<1>3. \A e \in Datum : e # d => s.state \notin MarkPlaces[e]  BY DEF MarkPlaces, UrlStates, Datum
<1>4. \A e \in Datum : s.marks[e] \in Int  BY <1>1 DEF Shape
<1> QED BY <1>1, <1>2, <1>3, <1>4 DEF Tidy, Looping, OnlyMarked, Shape

\* The callback at the end of a datum of the head.
LEMMA DatumEnds ==
  ASSUME NEW s, NEW u, Shape(s), Asserted(s), s.run = 0, NEW d \in Datum \ {"body"}, OnlyMarked(s, d),
         PlainStep(s, u), u.http_errno = "OK",
         u.state \in HeaderStates \/ (u.state \in LineStates /\ s.state \in LineStates),
         u.state \notin {"s_header_field", "s_header_value"}, NEW n, NEW b
  PROVE  LET t == CALLBACK_DATA_(u, d, n, b)
         IN  HeadStep(s, t) /\ t.state = u.state /\ t.header_state = u.header_state /\ t.run = 0
             /\ t.http_errno \in {"OK", "PAUSED", "CB"}
<1>1. DOMAIN u = Fields /\ u.marks \in [Datum -> Int] /\ Asserted(u) /\ u.run = 0 /\ OnlyMarked(u, d)
  BY DEF PlainStep, Kept, Shape, OnlyMarked, Asserted
<1>2. PICK t : t = CALLBACK_DATA_(u, d, n, b)  OBVIOUS
<1>3. /\ Kept(u, t) /\ MarksIn(u, t) /\ Called(u, t) /\ t.state = u.state /\ t.marks[d] < 0
      /\ t.header_state = u.header_state
  BY <1>1, <1>2, DataEffect
<1>4. Unmarked(t) /\ t.run = 0  BY <1>1, <1>3 DEF MarksIn, Unmarked, OnlyMarked, Called
<1>5. Tidy(t)  BY <1>3, <1>4 DEF Tidy, Unmarked, Datum, MarksIn
<1>6. HeadStep(s, t)  BY <1>3, <1>5 DEF HeadStep, Kept, PlainStep, Shape, MarksIn
<1> QED BY <1>2, <1>3, <1>4, <1>6 DEF Called

\* One character of a URL.
LEMMA UrlByteEffect ==
  ASSUME NEW s, DOMAIN s = Fields, s.http_errno = "OK", NEW ch
  PROVE  LET t == UrlByte(s, ch)
         IN  PlainStep(s, t) /\ (Going(t) => t.state \in UrlStates) /\ t.http_errno # "PAUSED"
<1>1. PICK x : x = parse_url_char(s.state, ch)  OBVIOUS
<1>2. x \in UrlStates \cup {"s_dead"}  BY <1>1, UrlCharStates
<1> QED BY <1>1, <1>2, StateEffect, ErrnoEffect DEF UrlByte, PlainStep, Kept, Going

\* The states of a URL are of the start line and no loops of a header.
LEMMA UrlStatesApart == UrlStates \subseteq LineStates \ {"s_header_field", "s_header_value", "s_res_status"}
  BY DEF UrlStates, LineStates

\* s_req_spaces_before_url: the first character of the URL sets its mark.
LEMMA SpacesBeforeUrlStep ==
  ASSUME NEW s, NEW ch, NEW o, NEW k, NEW j, Live(s, j, o), s.http_errno = "OK", s.state = "s_req_spaces_before_url"
  PROVE  Rested(SpacesBeforeUrl(s, ch), k, o)
<1>1. s.state \in PlainStates /\ s.state \in LineStates  BY DEF LineStates, UrlStates, PlainStates
<1>2. Shape(s) /\ DOMAIN s = Fields /\ Unmarked(s) /\ s.run = 0  BY <1>1, PlainReady
<1>3. CASE ch = SP
  <2>1. SpacesBeforeUrl(s, ch) = s  BY <1>3 DEF SpacesBeforeUrl
  <2>2. PlainStep(s, s)  BY <1>2 DEF PlainStep, Kept
  <2> QED BY <1>1, <2>1, <2>2, PlainSwitch
<1>4. CASE ch # SP
  <2>1. PICK u : u = IF s.method = "CONNECT" THEN UPDATE_STATE(s, "s_req_server_start") ELSE s  OBVIOUS
  <2>2. PICK m : m = MARK(u, "url")  OBVIOUS
  <2>3. PICK t : t = UrlByte(m, ch)  OBVIOUS
  <2>4. Kept(s, u) /\ u.marks = s.marks /\ u.run = 0 /\ u.http_errno = "OK"  BY <1>2, <2>1, StateEffect DEF Kept
  <2>10. /\ Kept(u, m) /\ m.run = 0 /\ m.http_errno = "OK"
        /\ m.marks = [u.marks EXCEPT !["url"] = IF @ < 0 THEN 0 ELSE @]
    BY <1>2, <2>2, <2>4, MarkEffect DEF Kept, Shape, Datum
  <2>5. Kept(s, m) /\ m.marks \in [Datum -> Int] /\ OnlyMarked(m, "url")
    BY <1>2, <2>4, <2>10 DEF Kept, Shape, OnlyMarked, Unmarked, Datum
  <2>6. PlainStep(m, t) /\ (Going(t) => t.state \in UrlStates) /\ t.http_errno # "PAUSED"
    BY <2>3, <2>5, <2>10, UrlByteEffect DEF Kept
  <2>7. Going(t) => Tidy(t)  BY <2>5, <2>6, <2>10 DEF Tidy, PlainStep, OnlyMarked, Datum, MarkPlaces
  <2>8. HeadStep(s, t)  BY <1>1, <1>2, <2>5, <2>6, <2>7, UrlStatesApart DEF HeadStep, PlainStep, Kept, Shape
  <2>9. SpacesBeforeUrl(s, ch) = t  BY <1>4, <2>1, <2>2, <2>3 DEF SpacesBeforeUrl
  <2> QED BY <1>1, <2>8, <2>9, HeadLands
<1> QED BY <1>3, <1>4

\* The URL states: a space or an end of line hands the URL over, any other
\* character stays within it.
LEMMA UrlStateByteStep ==
  ASSUME NEW s, NEW ch, NEW o, NEW k, NEW j, Live(s, j, o), s.http_errno = "OK", s.state \in UrlStates
  PROVE  Rested(UrlStateByte(s, ch), k, o)
<1>1. s.state \in LineStates \ {"s_header_field", "s_header_value", "s_res_status"}  BY UrlStatesApart
<1>2. "url" \in Datum \ {"body"} /\ s.state \in MarkPlaces["url"]  BY DEF Datum, MarkPlaces
<1>3. Shape(s) /\ DOMAIN s = Fields /\ Asserted(s) /\ OnlyMarked(s, "url") /\ s.run = 0  BY <1>1, <1>2, DatumReady
<1>4. SUFFICES HeadStep(s, UrlStateByte(s, ch))  BY <1>1, HeadLands
<1>5. CASE ch \notin {SP, CR, LF}
  <2>1. PICK t : t = UrlByte(s, ch)  OBVIOUS
  <2>2. PlainStep(s, t) /\ (Going(t) => t.state \in UrlStates) /\ t.http_errno # "PAUSED"
    BY <1>3, <2>1, UrlByteEffect
  <2>3. t.marks = s.marks /\ t.marks \in [Datum -> Int] /\ t.run = 0  BY <1>3, <2>2 DEF PlainStep, Shape
  <2>4. Going(t) => Tidy(t)  BY <1>3, <2>2, <2>3 DEF Tidy, OnlyMarked, Datum, MarkPlaces
  <2>5. HeadStep(s, t)  BY <1>1, <1>3, <2>2, <2>3, <2>4, UrlStatesApart DEF HeadStep, PlainStep, Kept, Shape
  <2> QED BY <1>5, <2>1, <2>5 DEF UrlStateByte
<1>6. CASE UrlStateByte(s, ch) = SET_ERRNO(s, "INVALID_URL")
  BY <1>3, <1>6, ErrnoEffect DEF HeadStep, Kept, Shape, Going
<1>7. CASE ch \in {SP, CR, LF} /\ UrlStateByte(s, ch) # SET_ERRNO(s, "INVALID_URL")
  <2>1. \E u : /\ \/ u = UPDATE_STATE(s, "s_req_http_start")
                  \/ u = UPDATE_STATE([s EXCEPT !.http_major = 0, !.http_minor = 9], "s_req_line_almost_done")
                  \/ u = UPDATE_STATE([s EXCEPT !.http_major = 0, !.http_minor = 9], "s_header_field_start")
               /\ UrlStateByte(s, ch) = CALLBACK_DATA(u, "url")
    BY <1>7 DEF UrlStateByte, SP, CR, LF
  <2>2. PICK u : /\ \/ u = UPDATE_STATE(s, "s_req_http_start")
                    \/ u = UPDATE_STATE([s EXCEPT !.http_major = 0, !.http_minor = 9], "s_req_line_almost_done")
                    \/ u = UPDATE_STATE([s EXCEPT !.http_major = 0, !.http_minor = 9], "s_header_field_start")
                 /\ UrlStateByte(s, ch) = CALLBACK_DATA(u, "url")
    BY <2>1
  <2>3. PlainStep(s, u) /\ u.http_errno = "OK"
        /\ u.state \in {"s_req_http_start", "s_req_line_almost_done", "s_header_field_start"}
    <3>1. CASE u = UPDATE_STATE(s, "s_req_http_start")  BY <1>3, <3>1 DEF UPDATE_STATE, PlainStep, Kept, Fields
    <3>2. CASE u = UPDATE_STATE([s EXCEPT !.http_major = 0, !.http_minor = 9], "s_req_line_almost_done")
      BY <1>3, <3>2 DEF UPDATE_STATE, PlainStep, Kept, Fields
    <3>3. CASE u = UPDATE_STATE([s EXCEPT !.http_major = 0, !.http_minor = 9], "s_header_field_start")
      BY <1>3, <3>3 DEF UPDATE_STATE, PlainStep, Kept, Fields
    <3> QED BY <2>2, <3>1, <3>2, <3>3
  <2>4. /\ u.state \in HeaderStates \/ (u.state \in LineStates /\ s.state \in LineStates)
        /\ u.state \notin {"s_header_field", "s_header_value"}
    BY <1>1, <2>3 DEF HeaderStates, LineStates
  <2>5. HeadStep(s, CALLBACK_DATA_(u, "url", u.marks["url"], FALSE))  BY <1>2, <1>3, <2>3, <2>4, DatumEnds
  <2> QED BY <2>2, <2>5 DEF CALLBACK_DATA
<1> QED BY <1>5, <1>6, <1>7

\* s_res_status: the reason phrase is marked, and handed over at its end of line.
LEMMA StatusTextStep ==
  ASSUME NEW s, NEW ch, NEW o, NEW k, NEW j, Live(s, j, o), s.http_errno = "OK",
         s.state \in {"s_res_status_start", "s_res_status"}
  PROVE  Rested(StatusText(s, ch), k, o)
<1>1. s.state \in LineStates /\ s.state \notin {"s_header_field", "s_header_value"} \cup UrlStates
      /\ (s.state = "s_res_status_start" => s.state \in PlainStates)
  BY DEF LineStates, UrlStates, PlainStates
<1>2. "status" \in Datum \ {"body"} /\ (s.state = "s_res_status" => s.state \in MarkPlaces["status"])
  BY DEF Datum, MarkPlaces
<1>3. Shape(s) /\ DOMAIN s = Fields /\ Asserted(s) /\ OnlyMarked(s, "status") /\ s.run = 0
  <2>1. CASE s.state = "s_res_status_start"  BY <1>1, <2>1, PlainReady DEF OnlyMarked, Unmarked
  <2>2. CASE s.state = "s_res_status"  BY <1>1, <1>2, <2>2, DatumReady
  <2> QED BY <2>1, <2>2
<1>4. SUFFICES HeadStep(s, StatusText(s, ch))  BY <1>1, HeadLands
<1>5. CASE ch \in {CR, LF}
  <2>1. \E u : /\ \/ u = UPDATE_STATE(s, "s_res_line_almost_done")
                  \/ u = UPDATE_STATE(s, "s_header_field_start")
               /\ StatusText(s, ch) = CALLBACK_DATA(u, "status")
    BY <1>5 DEF StatusText, CR, LF
  <2>2. PICK u : /\ \/ u = UPDATE_STATE(s, "s_res_line_almost_done")
                    \/ u = UPDATE_STATE(s, "s_header_field_start")
                 /\ StatusText(s, ch) = CALLBACK_DATA(u, "status")
    BY <2>1
  <2>3. PlainStep(s, u) /\ u.http_errno = "OK" /\ u.state \in {"s_res_line_almost_done", "s_header_field_start"}
    BY <1>3, <2>2, StateEffect DEF PlainStep
  <2>4. /\ u.state \in HeaderStates \/ (u.state \in LineStates /\ s.state \in LineStates)
        /\ u.state \notin {"s_header_field", "s_header_value"}
    BY <1>1, <2>3 DEF HeaderStates, LineStates
  <2>5. HeadStep(s, CALLBACK_DATA_(u, "status", u.marks["status"], FALSE))  BY <1>2, <1>3, <2>3, <2>4, DatumEnds
  <2> QED BY <2>2, <2>5 DEF CALLBACK_DATA
<1>6. CASE ch \notin {CR, LF}
  <2>1. PICK m : m = MARK(s, "status")  OBVIOUS
  <2>2. Kept(s, m) /\ m.run = 0 /\ m.http_errno = "OK" /\ m.marks = [s.marks EXCEPT !["status"] = IF @ < 0 THEN 0 ELSE @]
    BY <1>2, <1>3, <2>1, MarkEffect DEF Shape
  <2>3. PICK t : t = StatusText(s, ch)  OBVIOUS
  <2>4. t = IF s.state = "s_res_status" THEN s ELSE [m EXCEPT !.state = "s_res_status", !.index = 0]
    BY <1>6, <2>1, <2>3 DEF StatusText
  <2>5. Kept(s, t) /\ t.run = 0 /\ t.http_errno = "OK" /\ t.state = "s_res_status" /\ t.marks \in {s.marks, m.marks}
    BY <1>3, <2>2, <2>4 DEF Kept, Fields
  <2>6. t.marks \in [Datum -> Int] /\ OnlyMarked(t, "status")  BY <1>3, <2>2, <2>5 DEF Shape, OnlyMarked, Datum
  <2>7. Tidy(t)  BY <2>5, <2>6 DEF Tidy, OnlyMarked, Datum, MarkPlaces
  <2>8. HeadStep(s, t)  BY <1>1, <1>3, <2>5, <2>6, <2>7 DEF HeadStep, Kept, Shape, LineStates
  <2> QED BY <2>3, <2>8
<1> QED BY <1>5, <1>6

-----------------------------------------------------------------------------
\* The notifications.

\* Recording a notification touches nothing but the record of it.
LEMMA NotedEffect ==
  ASSUME NEW s, NEW cb, DOMAIN s = Fields, s.http_errno = "OK", Asserted(s)
  PROVE  LET t == Noted(s, cb)
         IN  /\ DOMAIN t = Fields /\ t.marks = s.marks /\ t.run = s.run /\ t.http_errno = "OK"
             /\ t.content_length = s.content_length /\ t.num = s.num /\ t.flags = s.flags /\ t.exit = s.exit
             /\ t.state = s.state /\ t.header_state = s.header_state /\ t.nread = s.nread
             /\ t.upgrade = s.upgrade /\ t.body = s.body /\ t.due = s.due /\ t.answer = s.answer
             /\ t.last = cb /\ Asserted(t) /\ (InOrder(s) /\ cb \in Follows[s.last] => InOrder(t))
  BY DEF Noted, Fields, Asserted, InOrder

\* CALLBACK_NOTIFY does what Told says, whatever the application answers.
LEMMA NotifyEffect ==
  ASSUME NEW s, NEW cb, NEW b, DOMAIN s = Fields, s.marks \in [Datum -> Int], s.http_errno = "OK", Asserted(s)
  PROVE  Told(s, CALLBACK_NOTIFY_(s, cb, b), cb)
<1>1. PICK n : n = Noted(s, cb)  OBVIOUS
<1>2. /\ DOMAIN n = Fields /\ n.marks = s.marks /\ n.run = s.run /\ n.http_errno = "OK"
      /\ n.content_length = s.content_length /\ n.num = s.num /\ n.flags = s.flags /\ n.exit = s.exit
      /\ n.state = s.state /\ n.header_state = s.header_state /\ n.nread = s.nread
      /\ n.upgrade = s.upgrade /\ n.body = s.body /\ n.due = s.due
      /\ n.last = cb /\ Asserted(n) /\ (InOrder(s) /\ cb \in Follows[s.last] => InOrder(n))
  BY <1>1, NotedEffect
<1>3. PICK u : u = IF cb = "message_begin" THEN [n EXCEPT !.body = 0, !.due = 0, !.sent = [d |-> "none", n |-> 0]]
                   ELSE n
  OBVIOUS
<1>4. /\ DOMAIN u = Fields /\ u.marks = s.marks /\ u.run = s.run /\ u.http_errno = "OK"
      /\ u.content_length = s.content_length /\ u.num = s.num /\ u.flags = s.flags /\ u.exit = s.exit
      /\ u.state = s.state /\ u.header_state = s.header_state /\ u.nread = s.nread
      /\ u.upgrade = s.upgrade /\ u.last = cb /\ u.asserts = n.asserts /\ u.ordered = n.ordered
      /\ IF cb = "message_begin" THEN u.body = 0 /\ u.due = 0 ELSE u.body = s.body /\ u.due = s.due
  BY <1>2, <1>3 DEF Fields
<1>5. PICK t : t = Answered(u, cb, b)  OBVIOUS
<1>6. Kept(u, t) /\ MarksIn(u, t) /\ Called(u, t) /\ t.state = u.state
      /\ t.header_state = u.header_state /\ t.nread = u.nread /\ t.upgrade = u.upgrade
  BY <1>4, <1>5, AnsweredEffect
<1>7. CALLBACK_NOTIFY_(s, cb, b) = t  BY <1>1, <1>3, <1>5 DEF CALLBACK_NOTIFY_
<1>8. Told(s, t, cb)
  <2>1. MarksIn(s, t) /\ Called(s, t)  BY <1>4, <1>6 DEF MarksIn, Called
  <2>2. Asserted(t)  BY <1>2, <1>4, <1>6 DEF Kept, Asserted
  <2>3. InOrder(s) /\ cb \in Follows[s.last] => InOrder(t)  BY <1>2, <1>4, <1>6 DEF Kept, InOrder
  <2> QED BY <1>4, <1>6, <2>1, <2>2, <2>3 DEF Told, Kept
<1> QED BY <1>7, <1>8

\* Where a message starts nothing is marked.
LEMMA StartReady ==
  ASSUME NEW s, NEW o, NEW k, Live(s, k, o), s.http_errno = "OK", s.state \in StartStates
  PROVE  /\ Shape(s) /\ DOMAIN s = Fields /\ Asserted(s) /\ Unmarked(s) /\ s.run = 0
         /\ s.last = "message_complete" \/ (s.state = "s_start_res" /\ s.last = "message_begin")
         /\ s.body = s.due /\ (o => InOrder(s))
<1>1. /\ s.state \notin {"s_header_field", "s_header_value", "s_res_status"} \cup UrlStates
      /\ s.state \notin {"s_chunk_data", "s_chunk_data_almost_done", "s_body_identity", "s_body_identity_eof"}
  BY DEF StartStates, UrlStates
<1>2. Shape(s) /\ Asserted(s) /\ Unmarked(s) /\ s.run = 0  BY <1>1, LivePlain
<1>3. InBody(s, k) /\ (o => InOrder(s))  BY DEF Live, Going, Place
<1> QED BY <1>2, <1>3 DEF InBody, Shape

\* A byte that a message does not start with: the parser stays or stops.
LEMMA NotStarted ==
  ASSUME NEW s, NEW t, NEW o, NEW k, NEW j, Live(s, j, o), s.http_errno = "OK", s.state \in StartStates,
         DOMAIN t = Fields, t.marks = s.marks, t.run = s.run, t.content_length \in 0..ULLONG_MAX,
         t.last = s.last, t.ordered = s.ordered, t.asserts = s.asserts, t.body = s.body, t.due = s.due,
         t.http_errno # "PAUSED", Going(t) => t.state = s.state,
         t.state \in StartStates
  PROVE  Rested(t, k, o)
<1>1. /\ Shape(s) /\ DOMAIN s = Fields /\ Asserted(s) /\ Unmarked(s) /\ s.run = 0
      /\ s.last = "message_complete" \/ (s.state = "s_start_res" /\ s.last = "message_begin")
      /\ s.body = s.due /\ (o => InOrder(s))
  BY StartReady
<1>2. Shape(t) /\ Asserted(t) /\ (o => InOrder(t)) /\ Unmarked(t)  BY <1>1 DEF Shape, Asserted, InOrder, Unmarked
<1>3. t.marks["body"] < 0 /\ t.body = t.due  BY <1>1, <1>2 DEF Unmarked, Datum
<1>4. ASSUME Going(t) PROVE Place(t, k)
  <2>1. Tidy(t)  BY <1>1, <1>2 DEF Tidy, Unmarked, Shape
  <2>2. InBody(t, k)  BY <1>1, <1>4 DEF InBody, StartStates
  <2>3. InHead(t) /\ InChunks(t, k)
    BY DEF InHead, InChunks, StartStates, LineStates, HeaderStates, SizeStates, ChunkStates
  <2> QED BY <2>1, <2>2, <2>3 DEF Place
<1> QED BY <1>2, <1>3, <1>4 DEF Rested, Live, StartStates

\* A message starts: message_begin is told, and the start line is read on.
LEMMA Started ==
  ASSUME NEW s, NEW u, NEW o, NEW k, NEW j, Live(s, j, o), s.http_errno = "OK", s.state \in StartStates,
         DOMAIN u = Fields, u.marks = s.marks, u.run = s.run, u.content_length \in 0..ULLONG_MAX,
         u.last = s.last, u.ordered = s.ordered, u.asserts = s.asserts, u.http_errno = "OK", u.flags = {},
         u.state \in (LineStates \ ({"s_res_status"} \cup UrlStates)) \cup {"s_start_res"}
  PROVE  Rested(CALLBACK_NOTIFY(u, "message_begin"), k, o)
<1>1. /\ Shape(s) /\ DOMAIN s = Fields /\ Asserted(s) /\ Unmarked(s) /\ s.run = 0
      /\ s.last = "message_complete" \/ (s.state = "s_start_res" /\ s.last = "message_begin")
      /\ (o => InOrder(s))
  BY StartReady
<1>2. u.marks \in [Datum -> Int] /\ Asserted(u)  BY <1>1 DEF Shape, Asserted
<1>3. PICK t : t = CALLBACK_NOTIFY(u, "message_begin")  OBVIOUS
<1>4. Told(u, t, "message_begin")  BY <1>2, <1>3, NotifyEffect DEF CALLBACK_NOTIFY
<1>5. "message_begin" \in Follows[u.last]  BY <1>1 DEF Follows
<1>6. Unmarked(t) /\ t.marks \in [Datum -> Int] /\ t.run = 0  BY <1>1, <1>4 DEF Told, MarksIn, Called, Unmarked
<1>7. Shape(t) /\ Asserted(t) /\ (o => InOrder(t))  BY <1>1, <1>4, <1>5, <1>6 DEF Told, Shape, InOrder
<1>8. Tidy(t)  BY <1>6 DEF Tidy, Unmarked
<1>9. Place(t, k)
  <2>1. InHead(t)  BY <1>4 DEF Told, InHead, LineStates, HeaderStates
  <2>2. InChunks(t, k)  BY <1>4 DEF Told, InChunks, SizeStates, ChunkStates, LineStates
  <2>3. InBody(t, k)  BY <1>4 DEF Told, InBody, StartStates, LineStates
  <2> QED BY <1>4, <1>8, <2>1, <2>2, <2>3 DEF Place, Told, StartStates
<1>10. t.state # "s_chunk_size_start" /\ t.last # "message_complete"  BY <1>4 DEF Told, LineStates
<1> QED BY <1>3, <1>7, <1>9, <1>10 DEF Rested, Live

\* s_start_res: a response starts with H, and message_begin is told.
LEMMA StartResStep ==
  ASSUME NEW s, NEW ch, NEW o, NEW k, NEW j, Live(s, j, o), s.http_errno = "OK", s.state = "s_start_res"
  PROVE  Rested(StartRes(s, ch), k, o)
<1>1. s.state \in StartStates /\ DOMAIN s = Fields /\ ULLONG_MAX \in 0..ULLONG_MAX
  BY StartReady, WidthAssumption DEF StartStates
<1>2. CASE ch = "H"
  <2>1. PICK u : u = UPDATE_STATE(Fresh(s), "s_res_H")  OBVIOUS
  <2>2. /\ DOMAIN u = Fields /\ u.marks = s.marks /\ u.run = s.run /\ u.content_length = ULLONG_MAX
        /\ u.last = s.last /\ u.ordered = s.ordered /\ u.asserts = s.asserts /\ u.http_errno = "OK"
        /\ u.flags = {} /\ u.state = "s_res_H"
    BY <1>1, <2>1 DEF UPDATE_STATE, Fresh, Fields
  <2>3. u.state \in (LineStates \ ({"s_res_status"} \cup UrlStates)) \cup {"s_start_res"}
    BY <2>2 DEF LineStates, UrlStates
  <2>4. Rested(CALLBACK_NOTIFY(u, "message_begin"), k, o)  BY <1>1, <2>2, <2>3, Started
  <2> QED BY <1>2, <2>1, <2>4 DEF StartRes, CR, LF
<1>3. CASE ch \in {CR, LF}
  <2>1. PICK u : u = Fresh(s)  OBVIOUS
  <2>2. /\ DOMAIN u = Fields /\ u.marks = s.marks /\ u.run = s.run /\ u.content_length = ULLONG_MAX
        /\ u.last = s.last /\ u.ordered = s.ordered /\ u.asserts = s.asserts /\ u.http_errno = "OK"
        /\ u.flags = {} /\ u.state = "s_start_res"
    BY <1>1, <2>1 DEF Fresh, Fields
  <2>3. u.state \in (LineStates \ ({"s_res_status"} \cup UrlStates)) \cup {"s_start_res"}  BY <2>2
  <2>4. Rested(CALLBACK_NOTIFY(u, "message_begin"), k, o)  BY <1>1, <2>2, <2>3, Started
  <2> QED BY <1>3, <2>1, <2>4 DEF StartRes, CR, LF
<1>4. CASE ch \notin {"H", CR, LF}
  <2>1. PICK t : t = SET_ERRNO(Fresh(s), "INVALID_CONSTANT")  OBVIOUS
  <2>2. /\ DOMAIN t = Fields /\ t.marks = s.marks /\ t.run = s.run /\ t.content_length = ULLONG_MAX
        /\ t.last = s.last /\ t.ordered = s.ordered /\ t.asserts = s.asserts /\ t.body = s.body
        /\ t.due = s.due /\ t.http_errno = "INVALID_CONSTANT" /\ t.state = s.state
    BY <1>1, <2>1 DEF SET_ERRNO, Fresh, Fields
  <2>3. Rested(t, k, o)  BY <1>1, <2>2, NotStarted DEF Going
  <2> QED BY <1>4, <2>1, <2>3 DEF StartRes
<1> QED BY <1>2, <1>3, <1>4

\* s0 is the parser before a byte of s_start_req_or_res made it one of a request.
LEMMA StartReqStep ==
  ASSUME NEW s0, NEW s, NEW ch, NEW o, NEW k, NEW j, Live(s0, j, o), s0.http_errno = "OK", s0.state \in StartStates,
         DOMAIN s = Fields, s.marks = s0.marks, s.run = s0.run, s.content_length \in 0..ULLONG_MAX,
         s.last = s0.last, s.ordered = s0.ordered, s.asserts = s0.asserts, s.body = s0.body, s.due = s0.due,
         s.http_errno = "OK", s.state = "s_start_req", ch \in {CR, LF} => s = s0
  PROVE  Rested(StartReq(s, ch), k, o)
<1>1. ULLONG_MAX \in 0..ULLONG_MAX  BY WidthAssumption
<1>2. CASE ch \in {CR, LF}
  <2>1. StartReq(s, ch) = s0  BY <1>2 DEF StartReq, FirstMethod, CR, LF
  <2>2. Rested(s0, k, o)  BY <1>2, NotStarted DEF Going
  <2> QED BY <2>1, <2>2
<1>3. CASE ch \notin {CR, LF} /\ ch \in DOMAIN FirstMethod
  <2>1. PICK u : u = [Fresh(s) EXCEPT !.method = FirstMethod[ch], !.index = 1, !.state = "s_req_method"]  OBVIOUS
  <2>2. /\ DOMAIN u = Fields /\ u.marks = s.marks /\ u.run = s.run /\ u.content_length = ULLONG_MAX
        /\ u.last = s.last /\ u.ordered = s.ordered /\ u.asserts = s.asserts /\ u.http_errno = "OK"
        /\ u.flags = {} /\ u.state = "s_req_method"
    BY <2>1 DEF Fresh, Fields
  <2>3. u.state \in (LineStates \ ({"s_res_status"} \cup UrlStates)) \cup {"s_start_res"}
    BY <2>2 DEF LineStates, UrlStates
  <2>4. Rested(CALLBACK_NOTIFY(u, "message_begin"), k, o)  BY <1>1, <2>2, <2>3, Started
  <2> QED BY <1>3, <2>1, <2>4 DEF StartReq
<1>4. CASE ch \notin {CR, LF} /\ ch \notin DOMAIN FirstMethod
  <2>1. PICK t : t = SET_ERRNO(Fresh(s), "INVALID_METHOD")  OBVIOUS
  <2>2. /\ DOMAIN t = Fields /\ t.marks = s.marks /\ t.run = s.run /\ t.content_length = ULLONG_MAX
        /\ t.last = s.last /\ t.ordered = s.ordered /\ t.asserts = s.asserts /\ t.body = s.body
        /\ t.due = s.due /\ t.http_errno = "INVALID_METHOD" /\ t.state = "s_start_req"
    BY <2>1 DEF SET_ERRNO, Fresh, Fields
  <2>3. Rested(t, k, o)  BY <1>1, <2>2, NotStarted DEF Going, StartStates
  <2> QED BY <1>4, <2>1, <2>3 DEF StartReq
<1> QED BY <1>2, <1>3, <1>4

\* s_start_req_or_res: the type is settled by the first byte, or after the H.
LEMMA StartReqOrResStep ==
  ASSUME NEW s, NEW ch, NEW o, NEW k, NEW j, Live(s, j, o), s.http_errno = "OK", s.state = "s_start_req_or_res"
  PROVE  Rested(StartReqOrRes(s, ch), k, o)
<1>1. s.state \in StartStates /\ DOMAIN s = Fields /\ ULLONG_MAX \in 0..ULLONG_MAX
  BY StartReady, WidthAssumption DEF StartStates
<1>2. CASE ch \in {CR, LF}
  <2>1. StartReqOrRes(s, ch) = s  BY <1>2 DEF StartReqOrRes, CR, LF
  <2>2. s.content_length \in 0..ULLONG_MAX  BY DEF Live, Shape
  <2>3. Rested(s, k, o)  BY <1>1, <2>2, NotStarted DEF Going
  <2> QED BY <2>1, <2>3
<1>3. CASE ch = "H"
  <2>1. PICK u : u = UPDATE_STATE(Fresh(s), "s_res_or_resp_H")  OBVIOUS
  <2>2. /\ DOMAIN u = Fields /\ u.marks = s.marks /\ u.run = s.run /\ u.content_length = ULLONG_MAX
        /\ u.last = s.last /\ u.ordered = s.ordered /\ u.asserts = s.asserts /\ u.http_errno = "OK"
        /\ u.flags = {} /\ u.state = "s_res_or_resp_H"
    BY <1>1, <2>1 DEF UPDATE_STATE, Fresh, Fields
  <2>3. u.state \in (LineStates \ ({"s_res_status"} \cup UrlStates)) \cup {"s_start_res"}
    BY <2>2 DEF LineStates, UrlStates
  <2>4. Rested(CALLBACK_NOTIFY(u, "message_begin"), k, o)  BY <1>1, <2>2, <2>3, Started
  <2> QED BY <1>3, <2>1, <2>4 DEF StartReqOrRes, CR, LF
<1>4. CASE ch \notin {"H", CR, LF}
  <2>1. PICK u : u = [Fresh(s) EXCEPT !.type = "REQUEST", !.state = "s_start_req"]  OBVIOUS
  <2>2. /\ DOMAIN u = Fields /\ u.marks = s.marks /\ u.run = s.run /\ u.content_length = ULLONG_MAX
        /\ u.last = s.last /\ u.ordered = s.ordered /\ u.asserts = s.asserts /\ u.body = s.body
        /\ u.due = s.due /\ u.http_errno = "OK" /\ u.state = "s_start_req"
    BY <1>1, <2>1 DEF Fresh, Fields
  <2>3. Rested(StartReq(u, ch), k, o)  BY <1>1, <1>4, <2>2, StartReqStep
  <2> QED BY <1>4, <2>1, <2>3 DEF StartReqOrRes
<1> QED BY <1>2, <1>3, <1>4

\* After the last message of a connection only line ends are let through.
LEMMA DeadStep ==
  ASSUME NEW s, NEW ch, NEW o, NEW k, NEW j, Live(s, j, o), s.http_errno = "OK", s.state = "s_dead"
  PROVE  Rested(s, k, o) /\ Rested(SET_ERRNO(s, "CLOSED_CONNECTION"), k, o)
<1>1. s.state \in StartStates /\ DOMAIN s = Fields /\ s.content_length \in 0..ULLONG_MAX
  BY DEF StartStates, Live, Shape
<1>2. Rested(s, k, o)  BY <1>1, NotStarted DEF Going
<1>3. PICK t : t = SET_ERRNO(s, "CLOSED_CONNECTION")  OBVIOUS
<1>4. Kept(s, t) /\ t.http_errno = "CLOSED_CONNECTION" /\ t.state = s.state /\ t.marks = s.marks /\ t.run = s.run
  BY <1>1, <1>3, ErrnoEffect
<1>5. Rested(t, k, o)  BY <1>1, <1>4, NotStarted DEF Going, Kept
<1> QED BY <1>2, <1>3, <1>5

-----------------------------------------------------------------------------
\* The end of the headers and of a message.

\* A message is complete once all of its body was handed over.
LEMMA Completed ==
  ASSUME NEW s, NEW o, NEW k, NEW x, DOMAIN s = Fields, s.marks \in [Datum -> Int], Unmarked(s), s.run = 0,
         s.http_errno = "OK", Asserted(s), s.content_length \in 0..ULLONG_MAX, s.body \in Int, s.body = s.due,
         s.last \in {"headers_complete", "chunk_complete"}, o => InOrder(s), s.state \in StartStates
  PROVE  LET t == CALLBACK_NOTIFY(s, "message_complete")
         IN  Rested(t, k, o) /\ Rested([t EXCEPT !.exit = x], k, o)
<1>1. PICK t : t = CALLBACK_NOTIFY(s, "message_complete")  OBVIOUS
<1>2. Told(s, t, "message_complete")  BY <1>1, NotifyEffect DEF CALLBACK_NOTIFY
<1>3. "message_complete" \in Follows[s.last]  BY DEF Follows
<1>4. Unmarked(t) /\ t.marks \in [Datum -> Int] /\ t.run = 0  BY <1>2 DEF Told, MarksIn, Called, Unmarked
<1>5. \A r : /\ DOMAIN r = Fields
             /\ \A f \in Fields : f # "exit" => r[f] = t[f]
             => Rested(r, k, o)
  <2> SUFFICES ASSUME NEW r, DOMAIN r = Fields, \A f \in Fields : f # "exit" => r[f] = t[f]
               PROVE  Rested(r, k, o)
    OBVIOUS
  <2>1. /\ r.marks = t.marks /\ r.run = t.run /\ r.content_length = t.content_length /\ r.body = t.body
        /\ r.due = t.due /\ r.last = t.last /\ r.ordered = t.ordered /\ r.asserts = t.asserts
        /\ r.state = t.state /\ r.http_errno = t.http_errno
    BY DEF Fields
  <2>2. Shape(r) /\ Asserted(r) /\ (o => InOrder(r)) /\ Unmarked(r)
    BY <1>2, <1>3, <1>4, <2>1 DEF Told, Shape, Asserted, InOrder, Unmarked
  <2>3. r.state \in StartStates /\ r.last = "message_complete" /\ r.body = r.due  BY <1>2, <2>1 DEF Told
  <2>4. Tidy(r)  BY <1>4, <2>1, <2>2 DEF Tidy, Unmarked
  <2>5. InBody(r, k)  BY <2>3 DEF InBody, StartStates
  <2>6. InHead(r) /\ InChunks(r, k)
    BY <2>3 DEF InHead, InChunks, StartStates, LineStates, HeaderStates, SizeStates, ChunkStates
  <2>7. Place(r, k)  BY <2>3, <2>4, <2>5, <2>6 DEF Place
  <2>8. r.marks["body"] < 0 /\ r.state # "s_chunk_size_start"  BY <2>2, <2>3 DEF Unmarked, Datum, StartStates
  <2> QED BY <2>2, <2>3, <2>7, <2>8 DEF Rested, Live
<1>6. DOMAIN t = Fields /\ Rested(t, k, o)  BY <1>2, <1>5 DEF Told
<1>7. PICK r : r = [t EXCEPT !.exit = x]  OBVIOUS
<1>8. DOMAIN r = Fields /\ \A f \in Fields : f # "exit" => r[f] = t[f]  BY <1>6, <1>7
<1> QED BY <1>1, <1>5, <1>6, <1>7, <1>8

\* NEW_MESSAGE leads to a state a message starts in.
LEMMA NewMessageEffect ==
  ASSUME NEW s, DOMAIN s = Fields
  PROVE  LET t == NEW_MESSAGE(s)
         IN  Kept(s, t) /\ t.state \in StartStates /\ t.http_errno = s.http_errno
             /\ t.marks = s.marks /\ t.run = s.run
  BY StateEffect DEF NEW_MESSAGE, StartStates

\* s_message_done
LEMMA MessageDoneStep ==
  ASSUME NEW s, NEW o, NEW k, NEW j, Live(s, j, o), s.http_errno = "OK", s.state = "s_message_done"
  PROVE  Rested(MessageDone(s), k, o)
<1>1. Shape(s) /\ Asserted(s) /\ Unmarked(s) /\ s.run = 0  BY LivePlain DEF UrlStates
<1>2. s.last \in {"headers_complete", "chunk_complete"} /\ s.body = s.due /\ (o => InOrder(s))
  BY DEF Live, Going, Place, InBody
<1>3. PICK u : u = NEW_MESSAGE(s)  OBVIOUS
<1>4. Kept(s, u) /\ u.state \in StartStates /\ u.http_errno = "OK" /\ u.marks = s.marks /\ u.run = 0
  BY <1>1, <1>3, NewMessageEffect DEF Shape
<1>5. /\ DOMAIN u = Fields /\ u.marks \in [Datum -> Int] /\ Unmarked(u) /\ u.run = 0
      /\ Asserted(u) /\ u.content_length \in 0..ULLONG_MAX /\ u.body \in Int /\ u.body = u.due
      /\ u.last \in {"headers_complete", "chunk_complete"} /\ (o => InOrder(u))
  BY <1>1, <1>2, <1>4 DEF Kept, Shape, Unmarked, Asserted, InOrder
<1>6. Rested([CALLBACK_NOTIFY(u, "message_complete") EXCEPT !.exit = s.upgrade], k, o)  BY <1>4, <1>5, Completed
<1> QED BY <1>3, <1>6 DEF MessageDone

\* Of a parser that an error stopped inside a message nothing more is asked.
LEMMA Stopped ==
  ASSUME NEW s, NEW t, NEW o, NEW j, NEW k, Live(s, j, o), s.last # "message_complete", Kept(s, t),
         t.marks = s.marks, ~Going(t)
  PROVE  Rested(t, k, o)
<1>1. Shape(t) /\ Asserted(t) /\ (o => InOrder(t)) /\ t.last # "message_complete"
  BY DEF Live, Shape, Kept, Asserted, InOrder
<1> QED BY <1>1 DEF Rested, Live

\* s_headers_done
LEMMA HeadersDoneReady ==
  ASSUME NEW s, NEW o, NEW j, Live(s, j, o), s.http_errno = "OK", s.state = "s_headers_done"
  PROVE  /\ Shape(s) /\ DOMAIN s = Fields /\ Asserted(s) /\ Unmarked(s) /\ s.run = 0 /\ (o => InOrder(s))
         /\ s.last = "headers_complete" /\ s.body = 0 /\ s.due = 0
<1>1. Shape(s) /\ Asserted(s) /\ Unmarked(s) /\ s.run = 0  BY LivePlain DEF UrlStates
<1>2. s.last = "headers_complete" /\ s.body = 0 /\ s.due = 0 /\ (o => InOrder(s))  BY DEF Live, Going, Place, InHead
<1> QED BY <1>1, <1>2 DEF Shape

\* s_headers_done: what is due is settled before the first body state.
LEMMA HeadersDoneStep ==
  ASSUME NEW s, NEW ch, NEW o, NEW k, NEW j, Live(s, j, o), s.http_errno = "OK", s.state = "s_headers_done"
  PROVE  Rested(HeadersDone(s, ch), k, o)
<1>1. /\ Shape(s) /\ DOMAIN s = Fields /\ Asserted(s) /\ Unmarked(s) /\ s.run = 0 /\ (o => InOrder(s))
      /\ s.last = "headers_complete" /\ s.body = 0 /\ s.due = 0
  BY HeadersDoneReady
<1>2. PICK t : t = [s EXCEPT !.nread = 0]  OBVIOUS
<1>3. /\ Kept(s, t) /\ t.nread = 0 /\ t.marks = s.marks /\ t.run = 0 /\ t.http_errno = "OK"
  BY <1>1, <1>2 DEF Kept, Fields
<1>4. PICK c : c = CALLBACK_NOTIFY(NEW_MESSAGE(t), "message_complete")  OBVIOUS
<1>5. Rested(c, k, o) /\ Rested([c EXCEPT !.exit = TRUE], k, o)
  <2>1. PICK u : u = NEW_MESSAGE(t)  OBVIOUS
  <2>2. Kept(t, u) /\ u.state \in StartStates /\ u.http_errno = "OK" /\ u.marks = s.marks /\ u.run = 0
    BY <1>3, <2>1, NewMessageEffect DEF Kept
  <2>3. /\ DOMAIN u = Fields /\ u.marks \in [Datum -> Int] /\ Unmarked(u)
        /\ Asserted(u) /\ u.content_length \in 0..ULLONG_MAX /\ u.body \in Int /\ u.body = u.due
        /\ u.last \in {"headers_complete", "chunk_complete"} /\ (o => InOrder(u))
    BY <1>1, <1>3, <2>2 DEF Kept, Shape, Unmarked, Asserted, InOrder
  <2> QED BY <1>4, <2>1, <2>2, <2>3, Completed
<1>6. PICK d : d = HeadersDone(s, ch)  OBVIOUS
<1>7. \/ d = SET_ERRNO(s, "STRICT")
      \/ d = c \/ d = [c EXCEPT !.exit = TRUE]
      \/ "F_CHUNKED" \in s.flags /\ d = UPDATE_STATE(t, "s_chunk_size_start")
      \/ s.content_length \notin {0, ULLONG_MAX} /\ d = [t EXCEPT !.state = "s_body_identity", !.due = s.content_length]
      \/ d = UPDATE_STATE(t, "s_body_identity_eof")
  BY <1>2, <1>4, <1>6 DEF HeadersDone
<1>8. CASE d = SET_ERRNO(s, "STRICT")
  <2>1. Kept(s, d) /\ d.marks = s.marks /\ ~Going(d) /\ s.last # "message_complete"
    BY <1>1, <1>8, ErrnoEffect DEF Going
  <2> QED BY <1>6, <2>1, Stopped
<1>9. CASE d = c \/ d = [c EXCEPT !.exit = TRUE]  BY <1>5, <1>6, <1>9
<1>10. CASE \/ "F_CHUNKED" \in s.flags /\ d = UPDATE_STATE(t, "s_chunk_size_start")
            \/ s.content_length \notin {0, ULLONG_MAX}
               /\ d = [t EXCEPT !.state = "s_body_identity", !.due = s.content_length]
            \/ d = UPDATE_STATE(t, "s_body_identity_eof")
  <2>1. /\ DOMAIN d = Fields /\ d.marks = s.marks /\ d.run = 0 /\ d.http_errno = "OK" /\ d.nread = 0
        /\ d.content_length = s.content_length /\ d.flags = s.flags /\ d.last = "headers_complete"
        /\ d.asserts = s.asserts /\ d.ordered = s.ordered /\ d.body = 0
        /\ \/ "F_CHUNKED" \in s.flags /\ d.state = "s_chunk_size_start" /\ d.due = 0
           \/ s.content_length \notin {0, ULLONG_MAX} /\ d.state = "s_body_identity" /\ d.due = s.content_length
           \/ d.state = "s_body_identity_eof" /\ d.due = 0
    <3>1. CASE "F_CHUNKED" \in s.flags /\ d = UPDATE_STATE(t, "s_chunk_size_start")
      BY <1>1, <1>3, <3>1 DEF UPDATE_STATE, Kept, Fields
    <3>2. CASE /\ s.content_length \notin {0, ULLONG_MAX}
               /\ d = [t EXCEPT !.state = "s_body_identity", !.due = s.content_length]
      BY <1>1, <1>3, <3>2 DEF Kept, Fields
    <3>3. CASE d = UPDATE_STATE(t, "s_body_identity_eof")  BY <1>1, <1>3, <3>3 DEF UPDATE_STATE, Kept, Fields
    <3> QED BY <1>10, <3>1, <3>2, <3>3
  <2>2. Shape(d) /\ Asserted(d) /\ (o => InOrder(d)) /\ Unmarked(d)
    BY <1>1, <2>1 DEF Shape, Asserted, InOrder, Unmarked
  <2>3. Tidy(d)  BY <2>1, <2>2 DEF Tidy, Unmarked, Shape
  <2>4. SeenIn(d, k) = 0  BY <2>1, <2>2 DEF SeenIn, Unmarked, Datum
  <2>5. InHead(d)  BY <2>1 DEF InHead, LineStates, HeaderStates
  <2>6. InChunks(d, k)  BY <2>1, <2>4 DEF InChunks, SizeStates, ChunkStates
  <2>7. InBody(d, k)  BY <1>1, <2>1, <2>4 DEF InBody, StartStates, Shape
  <2>8. Place(d, k)  BY <2>1, <2>3, <2>5, <2>6, <2>7 DEF Place, SizeStates
  <2> QED BY <1>6, <2>1, <2>2, <2>8 DEF Rested, Live
<1> QED BY <1>6, <1>7, <1>8, <1>9, <1>10

\* What headers_complete does; its answers 1 and 2 are flags of the message.
LEMMA HeadersCompleteEffect ==
  ASSUME NEW s, DOMAIN s = Fields, s.marks \in [Datum -> Int], s.http_errno = "OK", Asserted(s)
  PROVE  LET t == HeadersComplete(s)
         IN  /\ DOMAIN t = Fields /\ MarksIn(s, t) /\ Called(s, t)
             /\ t.content_length = s.content_length /\ t.body = s.body /\ t.due = s.due /\ t.state = s.state
             /\ t.last = "headers_complete" /\ Asserted(t)
             /\ InOrder(s) /\ "headers_complete" \in Follows[s.last] => InOrder(t)
<1>1. PICK n : n = Noted(s, "headers_complete")  OBVIOUS
<1>2. /\ DOMAIN n = Fields /\ n.marks = s.marks /\ n.run = s.run /\ n.http_errno = "OK"
      /\ n.content_length = s.content_length /\ n.state = s.state /\ n.body = s.body /\ n.due = s.due
      /\ n.last = "headers_complete" /\ Asserted(n)
      /\ (InOrder(s) /\ "headers_complete" \in Follows[s.last] => InOrder(n))
  BY <1>1, NotedEffect
<1>10. PICK b : b = TRUE  OBVIOUS
<1>3. PICK a : a = Answered(n, "headers_complete", b)  OBVIOUS
<1>4. Kept(n, a) /\ MarksIn(n, a) /\ Called(n, a) /\ a.state = n.state  BY <1>2, <1>3, AnsweredEffect
<1>5. PICK t : t = HeadersComplete(s)  OBVIOUS
<1>6. t = a \/ \E x : t = [a EXCEPT !.flags = @ \cup {"F_SKIPBODY"}, !.upgrade = x]
  BY <1>1, <1>3, <1>5, <1>10 DEF HeadersComplete
<1>7. /\ DOMAIN t = Fields /\ t.marks = a.marks /\ t.run = a.run /\ t.http_errno = a.http_errno
      /\ t.content_length = a.content_length /\ t.body = a.body /\ t.due = a.due /\ t.state = a.state
      /\ t.last = a.last /\ t.asserts = a.asserts /\ t.ordered = a.ordered
  <2>1. DOMAIN a = Fields  BY <1>4 DEF Kept
  <2>2. CASE t = a  BY <2>1, <2>2
  <2>3. ASSUME NEW x, t = [a EXCEPT !.flags = @ \cup {"F_SKIPBODY"}, !.upgrade = x]
        PROVE  /\ DOMAIN t = Fields /\ t.marks = a.marks /\ t.run = a.run /\ t.http_errno = a.http_errno
               /\ t.content_length = a.content_length /\ t.body = a.body /\ t.due = a.due /\ t.state = a.state
               /\ t.last = a.last /\ t.asserts = a.asserts /\ t.ordered = a.ordered
    BY <2>1, <2>3 DEF Fields
  <2> QED BY <1>6, <2>2, <2>3
<1>8. MarksIn(s, t) /\ Called(s, t)  BY <1>2, <1>4, <1>7 DEF MarksIn, Called, Unmarked
<1>9. Asserted(t) /\ (InOrder(n) => InOrder(t))  BY <1>2, <1>4, <1>7 DEF Kept, Asserted, InOrder
<1> QED BY <1>2, <1>4, <1>5, <1>7, <1>8, <1>9 DEF Kept

\* s_headers_almost_done: the trailer of a chunked message ends it, other
\* headers lead to the body.
LEMMA HeadersAlmostDoneStep ==
  ASSUME NEW s, NEW ch, NEW o, NEW k, NEW j, Live(s, j, o), s.http_errno = "OK", s.state = "s_headers_almost_done"
  PROVE  Rested(HeadersAlmostDone(s, ch), k, o)
<1>1. s.state \in PlainStates /\ s.state \in HeaderStates  BY DEF PlainStates, HeaderStates, UrlStates
<1>2. Shape(s) /\ DOMAIN s = Fields /\ Asserted(s) /\ Unmarked(s) /\ s.run = 0  BY <1>1, PlainReady
<1>3. /\ o => InOrder(s)
      /\ IF "F_TRAILING" \in s.flags THEN s.last = "chunk_header" /\ s.body = s.due
         ELSE s.last = "message_begin" /\ s.body = 0 /\ s.due = 0
  BY <1>1 DEF Live, Going, Place, InHead
<1>4. CASE HeadersAlmostDone(s, ch) \in {SET_ERRNO(s, "STRICT"), SET_ERRNO(s, "UNEXPECTED_CONTENT_LENGTH")}
  <2>1. PICK t : t = HeadersAlmostDone(s, ch)  OBVIOUS
  <2>2. Kept(s, t) /\ t.marks = s.marks /\ ~Going(t) /\ s.last # "message_complete"
    BY <1>2, <1>3, <1>4, <2>1, ErrnoEffect DEF Going
  <2> QED BY <2>1, <2>2, Stopped
<1>5. CASE ch = LF /\ "F_TRAILING" \in s.flags
  <2>1. PICK u : u = UPDATE_STATE(s, "s_message_done")  OBVIOUS
  <2>2. Kept(s, u) /\ u.marks = s.marks /\ u.run = 0 /\ u.http_errno = "OK" /\ u.state = "s_message_done"
    BY <1>2, <2>1, StateEffect
  <2>3. PICK t : t = CALLBACK_NOTIFY_NOADVANCE(u, "chunk_complete")  OBVIOUS
  <2>4. Told(u, t, "chunk_complete")
    <3>1. DOMAIN u = Fields /\ u.marks \in [Datum -> Int] /\ Asserted(u)  BY <1>2, <2>2 DEF Kept, Shape, Asserted
    <3>2. PICK b : b = TRUE  OBVIOUS
    <3>3. Told(u, CALLBACK_NOTIFY_(u, "chunk_complete", b), "chunk_complete")  BY <2>2, <3>1, NotifyEffect
    <3> QED BY <2>3, <3>2, <3>3 DEF CALLBACK_NOTIFY_NOADVANCE
  <2>5. Unmarked(t) /\ t.marks \in [Datum -> Int] /\ t.run = 0
    BY <1>2, <2>2, <2>4 DEF Told, MarksIn, Called, Unmarked
  <2>6. "chunk_complete" \in Follows[u.last] /\ (o => InOrder(u))  BY <1>3, <1>5, <2>2 DEF Follows, Kept, InOrder
  <2>7. Shape(t) /\ Asserted(t) /\ (o => InOrder(t)) /\ t.body = t.due
        /\ t.last = "chunk_complete" /\ t.state = "s_message_done"
    BY <1>2, <1>3, <1>5, <2>2, <2>4, <2>5, <2>6 DEF Told, Kept, Shape, InOrder
  <2>8. Tidy(t)  BY <2>5 DEF Tidy, Unmarked
  <2>9. InHead(t) /\ InChunks(t, k) /\ InBody(t, k)
    BY <2>7 DEF InHead, InChunks, InBody, StartStates, LineStates, HeaderStates, SizeStates, ChunkStates
  <2>10. Rested(t, k, o)  BY <2>7, <2>8, <2>9 DEF Rested, Live, Place
  <2>11. HeadersAlmostDone(s, ch) = IF t.http_errno = "OK" THEN MessageDone(t) ELSE t
    BY <1>5, <2>1, <2>3 DEF HeadersAlmostDone, Then
  <2>12. t.http_errno = "OK" => Rested(MessageDone(t), k, o)  BY <2>7, <2>10, MessageDoneStep DEF Rested
  <2> QED BY <2>10, <2>11, <2>12
<1>6. CASE ch = LF /\ "F_TRAILING" \notin s.flags
           /\ HeadersAlmostDone(s, ch) # SET_ERRNO(s, "UNEXPECTED_CONTENT_LENGTH")
  <2>1. PICK u : u = [s EXCEPT !.state = "s_headers_done",
                        !.upgrade = {"F_UPGRADE", "F_CONNECTION_UPGRADE"} \subseteq s.flags \/ s.method = "CONNECT"]
    OBVIOUS
  <2>2. Kept(s, u) /\ u.marks = s.marks /\ u.run = 0 /\ u.http_errno = "OK" /\ u.state = "s_headers_done"
    BY <1>2, <2>1 DEF Kept, Fields
  <2>3. PICK t : t = HeadersComplete(u)  OBVIOUS
  <2>4. /\ DOMAIN t = Fields /\ MarksIn(u, t) /\ Called(u, t)
        /\ t.content_length = u.content_length /\ t.body = u.body /\ t.due = u.due /\ t.state = u.state
        /\ t.last = "headers_complete" /\ Asserted(t)
        /\ InOrder(u) /\ "headers_complete" \in Follows[u.last] => InOrder(t)
    <3>1. DOMAIN u = Fields /\ u.marks \in [Datum -> Int] /\ Asserted(u)  BY <1>2, <2>2 DEF Kept, Shape, Asserted
    <3> QED BY <2>2, <2>3, <3>1, HeadersCompleteEffect
  <2>5. Unmarked(t) /\ t.marks \in [Datum -> Int] /\ t.run = 0  BY <1>2, <2>2, <2>4 DEF MarksIn, Called, Unmarked
  <2>6. "headers_complete" \in Follows[u.last] /\ (o => InOrder(u))  BY <1>3, <1>6, <2>2 DEF Follows, Kept, InOrder
  <2>7. Shape(t) /\ Asserted(t) /\ (o => InOrder(t)) /\ t.body = 0 /\ t.due = 0
        /\ t.last = "headers_complete" /\ t.state = "s_headers_done"
    BY <1>2, <1>3, <1>6, <2>2, <2>4, <2>5, <2>6 DEF Kept, Shape
  <2>8. Tidy(t)  BY <2>5 DEF Tidy, Unmarked
  <2>9. InHead(t) /\ InChunks(t, k) /\ InBody(t, k)
    BY <2>7 DEF InHead, InChunks, InBody, StartStates, LineStates, HeaderStates, SizeStates, ChunkStates
  <2>10. Rested(t, k, o)  BY <2>7, <2>8, <2>9 DEF Rested, Live, Place
  <2>11. HeadersAlmostDone(s, ch) = IF t.http_errno = "OK" THEN HeadersDone(t, ch) ELSE t
    BY <1>6, <2>1, <2>3 DEF HeadersAlmostDone, Then
  <2>12. t.http_errno = "OK" => Rested(HeadersDone(t, ch), k, o)  BY <2>7, <2>10, HeadersDoneStep DEF Rested
  <2> QED BY <2>10, <2>11, <2>12
<1>7. ch # LF => HeadersAlmostDone(s, ch) = SET_ERRNO(s, "STRICT")  BY DEF HeadersAlmostDone
<1> QED BY <1>4, <1>5, <1>6, <1>7

-----------------------------------------------------------------------------
\* The headers.

\* s_header_field_start: a name is marked, or the headers end.
LEMMA HeaderFieldStartStep ==
  ASSUME NEW s, NEW ch, NEW o, NEW k, NEW j, Live(s, j, o), s.http_errno = "OK", s.state = "s_header_field_start"
  PROVE  Rested(HeaderFieldStart(s, ch), k, o)
<1>1. s.state \in PlainStates /\ s.state \in HeaderStates  BY DEF PlainStates, HeaderStates, UrlStates
<1>2. Shape(s) /\ DOMAIN s = Fields /\ Asserted(s) /\ Unmarked(s) /\ s.run = 0  BY <1>1, PlainReady
<1>3. PICK u : u = UPDATE_STATE(s, "s_headers_almost_done")  OBVIOUS
<1>4. /\ PlainStep(s, u) /\ u.http_errno = "OK" /\ u.state = "s_headers_almost_done"
      /\ u.state \in HeaderStates /\ u.state \notin {"s_header_field", "s_header_value"}
  BY <1>2, <1>3, StateEffect DEF PlainStep, HeaderStates
<1>5. Rested(u, k, o)  BY <1>1, <1>4, PlainSwitch
<1>6. CASE ch = CR  BY <1>3, <1>5, <1>6 DEF HeaderFieldStart, CR, LF
<1>7. CASE ch = LF
  <2>1. Rested(HeadersAlmostDone(u, ch), k, o)  BY <1>4, <1>5, HeadersAlmostDoneStep DEF Rested
  <2> QED BY <1>3, <1>7, <2>1 DEF HeaderFieldStart, CR, LF
<1>8. CASE ch \notin {CR, LF} /\ TOKEN(ch) = "none"
  <2>1. PICK t : t = SET_ERRNO(s, "INVALID_HEADER_TOKEN")  OBVIOUS
  <2>2. PlainStep(s, t) /\ ~Going(t)  BY <1>2, <2>1, ErrnoEffect DEF PlainStep, Going
  <2>3. Rested(t, k, o)  BY <1>1, <2>2, PlainSwitch
  <2> QED BY <1>8, <2>1, <2>3 DEF HeaderFieldStart
<1>9. CASE ch \notin {CR, LF} /\ TOKEN(ch) # "none"
  <2>1. PICK m : m = MARK(s, "header_field")  OBVIOUS
  <2>2. /\ Kept(s, m) /\ m.run = 0 /\ m.http_errno = "OK"
        /\ m.marks = [s.marks EXCEPT !["header_field"] = IF @ < 0 THEN 0 ELSE @]
    BY <1>2, <2>1, MarkEffect DEF Shape, Datum
  <2>3. PICK h : h = IF TOKEN(ch) \in DOMAIN FirstLetter THEN FirstLetter[TOKEN(ch)] ELSE "h_general"  OBVIOUS
  <2>4. h \in NameStates  BY <2>3 DEF FirstLetter, NameStates
  <2>5. PICK t : t = [m EXCEPT !.index = 0, !.state = "s_header_field", !.header_state = h]  OBVIOUS
  <2>6. Kept(s, t) /\ t.run = 0 /\ t.http_errno = "OK" /\ t.state = "s_header_field" /\ t.header_state = h
        /\ t.marks = m.marks
    BY <2>2, <2>5 DEF Kept, Fields
  <2>7. t.marks \in [Datum -> Int] /\ OnlyMarked(t, "header_field")
    BY <1>2, <2>2, <2>6 DEF Shape, OnlyMarked, Unmarked, Datum
  <2>8. Tidy(t)  BY <2>6, <2>7 DEF Tidy, OnlyMarked, Datum, MarkPlaces
  <2>9. HeadStep(s, t)  BY <1>2, <2>4, <2>6, <2>7, <2>8 DEF HeadStep, Kept, Shape, HeaderStates
  <2>10. HeaderFieldStart(s, ch) = t  BY <1>9, <2>1, <2>3, <2>5 DEF HeaderFieldStart
  <2> QED BY <1>1, <2>9, <2>10, HeadLands
<1> QED BY <1>6, <1>7, <1>8, <1>9

\* One more character of a keyword.
LEMMA MatchEffect ==
  ASSUME NEW s, NEW c, NEW m, NEW h, DOMAIN s = Fields
  PROVE  LET t == Match(s, c, m, h)
         IN  Kept(s, t) /\ t.state = s.state /\ t.marks = s.marks /\ t.run = s.run
             /\ t.http_errno = s.http_errno /\ t.header_state \in {h, m[2], s.header_state}
<1>1. PICK i : i = s.index + 1  OBVIOUS
<1>2. PICK x : x = IF i >= Len(m[1]) \/ c # m[1][i + 1] THEN h
                   ELSE IF i = Len(m[1]) - 1 THEN m[2] ELSE s.header_state
  OBVIOUS
<1>3. x \in {h, m[2], s.header_state}  BY <1>2
<1>4. Match(s, c, m, h) = [s EXCEPT !.index = i, !.header_state = x]  BY <1>1, <1>2 DEF Match, Fields
<1> QED BY <1>3, <1>4 DEF Kept, Fields

\* A character of a header name: the switch of s_header_field knows the state
\* it finds.
LEMMA FieldCharEffect ==
  ASSUME NEW s, NEW c, Shape(s), DOMAIN s = Fields, s.http_errno = "OK", s.header_state \in NameStates
  PROVE  LET t == FieldChar(s, c)
         IN  HeadKept(s, t) /\ t.state = s.state /\ t.marks = s.marks /\ t.run = s.run
             /\ t.http_errno # "PAUSED" /\ t.header_state \in NameStates
<1>0. HeadKept(s, s)  BY DEF HeadKept, Shape
<1>7. DOMAIN FieldMatcher = {"h_matching_connection", "h_matching_proxy_connection", "h_matching_content_length",
                             "h_matching_transfer_encoding", "h_matching_upgrade"}
  BY DEF FieldMatcher
<1>1. CASE s.header_state = "h_general"
  <2>1. FieldChar(s, c) = s  BY <1>1, <1>7 DEF FieldChar
  <2> QED BY <1>0, <2>1
<1>2. CASE s.header_state = "h_C"
  <2>1. PICK y : y = IF c = "o" THEN "h_CO" ELSE "h_general"  OBVIOUS
  <2>2. y \in NameStates  BY <2>1 DEF NameStates
  <2>3. FieldChar(s, c) = [s EXCEPT !.index = @ + 1, !.header_state = y]  BY <1>2, <1>7, <2>1 DEF FieldChar
  <2> QED BY <2>2, <2>3 DEF HeadKept, Shape, Fields
<1>3. CASE s.header_state = "h_CO"
  <2>1. PICK y : y = IF c = "n" THEN "h_CON" ELSE "h_general"  OBVIOUS
  <2>2. y \in NameStates  BY <2>1 DEF NameStates
  <2>3. FieldChar(s, c) = [s EXCEPT !.index = @ + 1, !.header_state = y]  BY <1>3, <1>7, <2>1 DEF FieldChar
  <2> QED BY <2>2, <2>3 DEF HeadKept, Shape, Fields
<1>4. CASE s.header_state = "h_CON"
  <2>1. PICK y : y = CASE c = "n" -> "h_matching_connection" [] c = "t" -> "h_matching_content_length" [] OTHER -> "h_general"
    OBVIOUS
  <2>2. y \in NameStates  BY <2>1 DEF NameStates
  <2>3. FieldChar(s, c) = [s EXCEPT !.index = @ + 1, !.header_state = y]  BY <1>4, <1>7, <2>1 DEF FieldChar
  <2> QED BY <2>2, <2>3 DEF HeadKept, Shape, Fields
<1>5. CASE s.header_state \in DOMAIN FieldMatcher
  <2>1. PICK m : m = FieldMatcher[s.header_state]  OBVIOUS
  <2>2. m[2] \in NameStates  BY <1>5, <2>1 DEF FieldMatcher, NameStates
  <2>3. PICK t : t = Match(s, c, m, "h_general")  OBVIOUS
  <2>4. /\ Kept(s, t) /\ t.state = s.state /\ t.marks = s.marks /\ t.run = s.run
        /\ t.http_errno = "OK" /\ t.header_state \in {"h_general", m[2], s.header_state}
    BY <2>3, MatchEffect
  <2>5. t.header_state \in NameStates  BY <2>2, <2>4 DEF NameStates
  <2>6. FieldChar(s, c) \in {t, SET_ERRNO(t, "UNEXPECTED_CONTENT_LENGTH"),
                             [t EXCEPT !.flags = @ \cup {"F_CONTENTLENGTH"}]}
    BY <1>5, <2>1, <2>3 DEF FieldChar, FieldMatcher
  <2>7. CASE FieldChar(s, c) = t  BY <2>4, <2>5, <2>7 DEF HeadKept, Kept, Shape
  <2>8. CASE FieldChar(s, c) = SET_ERRNO(t, "UNEXPECTED_CONTENT_LENGTH")
    BY <2>4, <2>5, <2>8, ErrnoEffect DEF HeadKept, Kept, Shape
  <2>9. CASE FieldChar(s, c) = [t EXCEPT !.flags = @ \cup {"F_CONTENTLENGTH"}]
    BY <2>4, <2>5, <2>9 DEF HeadKept, Kept, Shape, Fields
  <2> QED BY <2>6, <2>7, <2>8, <2>9
<1>6. CASE s.header_state \in {"h_connection", "h_content_length", "h_transfer_encoding", "h_upgrade"}
  <2>1. FieldChar(s, c) = [s EXCEPT !.header_state = "h_general"]  BY <1>6 DEF FieldChar, FieldMatcher
  <2> QED BY <2>1 DEF HeadKept, Shape, Fields, NameStates
<1> QED BY <1>1, <1>2, <1>3, <1>4, <1>5, <1>6 DEF NameStates, FieldMatcher

\* s_header_field
LEMMA HeaderFieldStep ==
  ASSUME NEW s, NEW ch, NEW o, NEW k, NEW j, Live(s, j, o), s.http_errno = "OK", s.state = "s_header_field"
  PROVE  Rested(HeaderField(s, ch), k, o)
<1>1. s.state \in HeaderStates /\ "header_field" \in Datum \ {"body"} /\ s.state \in MarkPlaces["header_field"]
  BY DEF HeaderStates, Datum, MarkPlaces
<1>2. Shape(s) /\ DOMAIN s = Fields /\ Asserted(s) /\ OnlyMarked(s, "header_field")  BY <1>1, DatumReady
<1>3. s.header_state \in NameStates  BY DEF Live, Going, Place, InHead
<1>4. CASE TOKEN(ch) # "none"
  <2>1. PICK u : u = [s EXCEPT !.run = @ + 1]  OBVIOUS
  <2>2. Kept(s, u) /\ u.marks = s.marks /\ u.http_errno = "OK" /\ u.state = s.state /\ u.header_state = s.header_state
        /\ u.run = s.run + 1
    BY <1>2, <2>1 DEF Kept, Fields
  <2>9. s.run \in Nat  BY DEF Live, Going, Place, Tidy, Looping
  <2>3. Shape(u) /\ DOMAIN u = Fields  BY <1>2, <2>2 DEF Shape, Kept
  <2>4. PICK t : t = FieldChar(u, TOKEN(ch))  OBVIOUS
  <2>5. HeadKept(u, t) /\ t.state = "s_header_field" /\ t.marks = s.marks /\ t.run = u.run
        /\ t.http_errno # "PAUSED" /\ t.header_state \in NameStates
    BY <1>3, <2>2, <2>3, <2>4, FieldCharEffect
  <2>6. t.marks \in [Datum -> Int] /\ Tidy(t)
    <3>1. t.run \in Nat  BY <2>2, <2>5, <2>9
    <3> QED BY <1>2, <2>5, <3>1 DEF Tidy, Looping, OnlyMarked, Shape, Datum, MarkPlaces
  <2>7. HeadStep(s, t)  BY <1>1, <2>2, <2>5, <2>6 DEF HeadStep, HeadKept, Kept
  <2>8. HeaderField(s, ch) = t  BY <1>4, <2>1, <2>4 DEF HeaderField
  <2> QED BY <1>1, <2>7, <2>8, HeadLands
<1>5. CASE TOKEN(ch) = "none"
  <2>1. PICK v : v = COUNT_HEADER_SIZE(s, s.run)  OBVIOUS
  <2>2. Kept(s, v) /\ v.state = s.state /\ v.run = 0 /\ v.http_errno \in {"OK", "HEADER_OVERFLOW"} /\ v.marks = s.marks
    BY <1>2, <2>1, CountEffect
  <2>3. CASE v.http_errno # "OK"
    <3>1. HeadStep(s, v)  BY <1>2, <2>2, <2>3 DEF HeadStep, Kept, Going, Shape
    <3>2. HeaderField(s, ch) = v  BY <1>5, <2>1, <2>3 DEF HeaderField, Then
    <3> QED BY <1>1, <3>1, <3>2, HeadLands
  <2>4. CASE v.http_errno = "OK" /\ ch = ":"
    <3>1. Shape(v) /\ Asserted(v) /\ OnlyMarked(v, "header_field") /\ DOMAIN v = Fields
      BY <1>2, <2>2 DEF Shape, Kept, Asserted, OnlyMarked
    <3>2. PICK u : u = UPDATE_STATE(v, "s_header_value_discard_ws")  OBVIOUS
    <3>3. PlainStep(v, u) /\ u.http_errno = "OK" /\ u.state = "s_header_value_discard_ws"
          /\ u.state \in HeaderStates /\ u.state \notin {"s_header_field", "s_header_value"}
      BY <2>4, <3>1, <3>2, StateEffect DEF PlainStep, HeaderStates
    <3>4. PICK t : t = CALLBACK_DATA(u, "header_field")  OBVIOUS
    <3>8. HeadStep(v, CALLBACK_DATA_(u, "header_field", u.marks["header_field"], FALSE))
      BY <1>1, <2>2, <3>1, <3>3, DatumEnds
    <3>5. HeadStep(v, t)  BY <3>4, <3>8 DEF CALLBACK_DATA
    <3>6. HeadStep(s, t)  BY <2>2, <3>5 DEF HeadStep, Kept
    <3>7. HeaderField(s, ch) = t  BY <1>5, <2>1, <2>4, <3>2, <3>4 DEF HeaderField, Then
    <3> QED BY <1>1, <3>6, <3>7, HeadLands
  <2>5. CASE v.http_errno = "OK" /\ ch # ":"
    <3>1. PICK t : t = SET_ERRNO(v, "INVALID_HEADER_TOKEN")  OBVIOUS
    <3>2. Kept(v, t) /\ ~Going(t) /\ t.marks = s.marks  BY <2>2, <3>1, ErrnoEffect DEF Going, Kept
    <3>3. HeadStep(s, t)  BY <1>2, <2>2, <3>2 DEF HeadStep, Kept, Shape
    <3>4. HeaderField(s, ch) = t  BY <1>5, <2>1, <2>5, <3>1 DEF HeaderField, Then
    <3> QED BY <1>1, <3>3, <3>4, HeadLands
  <2> QED BY <2>3, <2>4, <2>5
<1> QED BY <1>4, <1>5

\* The first character of a value.
LEMMA HeaderValueStartStep ==
  ASSUME NEW s, NEW ch, NEW o, NEW k, NEW j, Live(s, j, o), s.http_errno = "OK",
         s.state \in {"s_header_value_discard_ws", "s_header_value_lws"}
  PROVE  Rested(HeaderValueStart(s, ch), k, o)
<1>1. s.state \in PlainStates /\ s.state \in HeaderStates  BY DEF PlainStates, HeaderStates, UrlStates
<1>2. Shape(s) /\ DOMAIN s = Fields /\ Asserted(s) /\ Unmarked(s) /\ s.run = 0  BY <1>1, PlainReady
<1>3. PICK m : m = MARK(s, "header_value")  OBVIOUS
<1>4. /\ Kept(s, m) /\ m.run = 0 /\ m.http_errno = "OK" /\ m.header_state = s.header_state
      /\ m.marks = [s.marks EXCEPT !["header_value"] = IF @ < 0 THEN 0 ELSE @]
  BY <1>2, <1>3, MarkEffect DEF Shape, Datum
<1>5. PICK v : v = [m EXCEPT !.state = "s_header_value", !.index = 0]  OBVIOUS
<1>6. /\ Kept(s, v) /\ v.run = 0 /\ v.http_errno = "OK" /\ v.state = "s_header_value" /\ v.header_state = s.header_state
      /\ v.marks = m.marks /\ v.marks \in [Datum -> Int] /\ OnlyMarked(v, "header_value")
  <2>1. Kept(s, v) /\ v.run = 0 /\ v.http_errno = "OK" /\ v.state = "s_header_value"
        /\ v.header_state = s.header_state /\ v.marks = m.marks
    BY <1>4, <1>5 DEF Kept, Fields
  <2>2. v.marks \in [Datum -> Int] /\ OnlyMarked(v, "header_value")
    BY <1>2, <1>4, <2>1 DEF Shape, OnlyMarked, Unmarked, Datum
  <2> QED BY <2>1, <2>2
<1>7. PICK t : t = HeaderValueStart(s, ch)  OBVIOUS
<1>8. /\ HeadKept(s, t) /\ t.run = 0 /\ t.marks = v.marks /\ t.state = "s_header_value" /\ t.http_errno # "PAUSED"
      /\ (Going(t) => ValueStateOk(t))
  <2>1. CASE s.header_state = "h_upgrade"
    <3>1. t = [v EXCEPT !.flags = @ \cup {"F_UPGRADE"}, !.header_state = "h_general"]
      BY <1>3, <1>5, <1>7, <2>1 DEF HeaderValueStart
    <3> QED BY <1>2, <1>6, <3>1 DEF HeadKept, Kept, Shape, ValueStateOk, Fields
  <2>2. CASE s.header_state = "h_content_length" /\ ch \in IS_NUM
    <3>1. t = FirstDigit(v, DigitValue[ch])  BY <1>3, <1>5, <1>7, <2>2 DEF HeaderValueStart
    <3>2. DigitValue[ch] \in 0..9  BY <2>2, DigitRange
    <3>3. t.content_length = DigitValue[ch] /\ t.num = DigitValue[ch]  BY <1>6, <3>1 DEF FirstDigit, Kept, Fields
    <3>4. t.content_length \in 0..ULLONG_MAX /\ ValueStateOk(t)
      BY <3>2, <3>3, WidthAssumption, <1>6, <2>2, <3>1 DEF ValueStateOk, FirstDigit, Kept, Fields
    <3> QED BY <1>6, <3>1, <3>4 DEF FirstDigit, HeadKept, Kept, Fields
  <2>3. CASE s.header_state = "h_content_length" /\ ch \notin IS_NUM
    <3>1. t = SET_ERRNO(v, "INVALID_CONTENT_LENGTH")  BY <1>3, <1>5, <1>7, <2>3 DEF HeaderValueStart
    <3> QED BY <1>2, <1>6, <3>1, ErrnoEffect DEF HeadKept, Kept, Shape, Going
  <2>4. CASE s.header_state \notin {"h_upgrade", "h_content_length", "h_matching_connection_token_start"}
    <3>1. PICK x : x = IF s.header_state = "h_transfer_encoding"
                       THEN IF LOWER(ch) = "c" THEN "h_matching_transfer_encoding_chunked" ELSE "h_general"
                       ELSE IF s.header_state = "h_connection" THEN ConnectionToken(LOWER(ch)) ELSE "h_general"
      OBVIOUS
    <3>2. x \notin {"h_connection", "h_transfer_encoding", "h_content_length"}  BY <3>1 DEF ConnectionToken
    <3>3. t = [v EXCEPT !.header_state = x]  BY <1>3, <1>5, <1>7, <2>4, <3>1 DEF HeaderValueStart
    <3> QED BY <1>2, <1>6, <3>2, <3>3 DEF HeadKept, Kept, Shape, ValueStateOk, Fields
  <2>5. CASE s.header_state = "h_matching_connection_token_start"
    <3>1. t = v  BY <1>3, <1>5, <1>7, <2>5 DEF HeaderValueStart
    <3> QED BY <1>2, <1>6, <2>5, <3>1 DEF HeadKept, Kept, Shape, ValueStateOk
  <2> QED BY <2>1, <2>2, <2>3, <2>4, <2>5
<1>9. t.marks \in [Datum -> Int] /\ Tidy(t)  BY <1>6, <1>8 DEF Tidy, OnlyMarked, Datum, MarkPlaces
<1>10. HeadStep(s, t)  BY <1>1, <1>8, <1>9 DEF HeadStep, HeadKept, ValueStateOk, HeaderStates
<1> QED BY <1>1, <1>7, <1>10, HeadLands

\* s_header_value_discard_ws
LEMMA DiscardWsStep ==
  ASSUME NEW s, NEW ch, NEW o, NEW k, NEW j, Live(s, j, o), s.http_errno = "OK", s.state = "s_header_value_discard_ws"
  PROVE  Rested(DiscardWs(s, ch), k, o)
<1>1. s.state \in PlainStates /\ s.state \in HeaderStates  BY DEF PlainStates, HeaderStates, UrlStates
<1>2. DOMAIN s = Fields  BY <1>1, PlainReady
<1>3. CASE ch \in {SP, HT, CR, LF}
  <2>1. DiscardWs(s, ch) \in {s, UPDATE_STATE(s, "s_header_value_discard_ws_almost_done"),
                              UPDATE_STATE(s, "s_header_value_discard_lws")}
    BY <1>3 DEF DiscardWs, SP, HT, CR, LF
  <2>2. PICK t : t = DiscardWs(s, ch)  OBVIOUS
  <2>3. /\ PlainStep(s, t) /\ t.state \in HeaderStates /\ t.state \notin {"s_header_field", "s_header_value"}
    BY <1>2, <2>1, <2>2, StateEffect DEF PlainStep, HeaderStates, Kept
  <2> QED BY <1>1, <2>2, <2>3, PlainSwitch
<1>4. CASE ch \notin {SP, HT, CR, LF}
  <2>1. DiscardWs(s, ch) = HeaderValueStart(s, ch)  BY <1>4 DEF DiscardWs
  <2> QED BY <2>1, HeaderValueStartStep
<1> QED BY <1>3, <1>4

\* The next digit of a number: it is refused, or the number stays exact and
\* below ULLONG_MAX.
LEMMA NextDigitEffect ==
  ASSUME NEW s, NEW b, NEW d, DOMAIN s = Fields, b \in {10, 16}, d \in 0..(b - 1), s.http_errno = "OK",
         s.content_length \in 0..ULLONG_MAX, s.content_length = s.num
  PROVE  LET t == NextDigit(s, b, d)
         IN  /\ DOMAIN t = Fields /\ t.flags = s.flags /\ t.last = s.last /\ t.ordered = s.ordered
             /\ t.asserts = s.asserts /\ t.body = s.body /\ t.due = s.due /\ t.exit = s.exit /\ t.state = s.state
             /\ t.header_state = s.header_state /\ t.marks = s.marks /\ t.run = s.run
             /\ t.content_length \in 0..ULLONG_MAX
             /\ \/ t.http_errno = "INVALID_CONTENT_LENGTH"
                \/ t.http_errno = "OK" /\ t.content_length = t.num /\ t.num < ULLONG_MAX
<1>1. CASE (ULLONG_MAX - b) \div b < s.content_length  BY <1>1, ErrnoEffect DEF NextDigit, Kept
<1>2. CASE ~((ULLONG_MAX - b) \div b < s.content_length)
  <2>1. PICK n : n = s.content_length * b + d  OBVIOUS
  <2>2. n \in Nat /\ n < ULLONG_MAX
    <3>1. CASE b = 10  BY <1>2, <2>1, <3>1, WidthAssumption
    <3>2. CASE b = 16  BY <1>2, <2>1, <3>2, WidthAssumption
    <3> QED BY <3>1, <3>2
  <2>3. n % (ULLONG_MAX + 1) = n  BY <2>2, WidthAssumption
  <2>4. NextDigit(s, b, d) = [s EXCEPT !.content_length = n % (ULLONG_MAX + 1), !.num = n]
    BY <1>2, <2>1 DEF NextDigit, Fields
  <2>5. NextDigit(s, b, d) = [s EXCEPT !.content_length = n, !.num = n]  BY <2>3, <2>4
  <2> QED BY <2>2, <2>5, WidthAssumption DEF Fields
<1> QED BY <1>1, <1>2

\* It changes the header state, if at all, to one that a value is read in.
LEMMA ValueStateStep ==
  ASSUME NEW s, NEW t, NEW x, NEW y, Shape(s), DOMAIN s = Fields, s.http_errno = "OK",
         x \notin {"h_connection", "h_transfer_encoding", "h_content_length"},
         t = [s EXCEPT !.header_state = x, !.index = y] \/ t = [s EXCEPT !.header_state = x]
  PROVE  ValueStep(s, t)
<1>1. CASE t = [s EXCEPT !.header_state = x, !.index = y]
  BY <1>1 DEF ValueStep, HeadKept, ValueStateOk, Shape, Fields
<1>2. CASE t = [s EXCEPT !.header_state = x]  BY <1>2 DEF ValueStep, HeadKept, ValueStateOk, Shape, Fields
<1> QED BY <1>1, <1>2

\* The flag a value's match earns is never F_TRAILING.
LEMMA FlaggedEffect ==
  ASSUME NEW s, Shape(s), DOMAIN s = Fields
  PROVE  LET t == Flagged(s)
         IN  HeadKept(s, t) /\ Shape(t) /\ t.state = s.state /\ t.marks = s.marks /\ t.run = s.run
             /\ t.http_errno = s.http_errno /\ t.header_state = s.header_state
<1>1. CASE s.header_state \in DOMAIN ValueFlag
  <2>1. PICK f : f = ValueFlag[s.header_state]  OBVIOUS
  <2>2. f # "F_TRAILING"  BY <1>1, <2>1 DEF ValueFlag
  <2>3. Flagged(s) = [s EXCEPT !.flags = @ \cup {f}]  BY <1>1, <2>1 DEF Flagged
  <2> QED BY <2>2, <2>3 DEF HeadKept, Shape, Fields
<1>2. CASE s.header_state \notin DOMAIN ValueFlag  BY <1>2 DEF Flagged, HeadKept, Shape
<1> QED BY <1>1, <1>2

\* A character of a header value leads the match of the value on, or refuses
\* the message.
LEMMA ValueCharEffect ==
  ASSUME NEW s, NEW ch, Shape(s), DOMAIN s = Fields, s.http_errno = "OK", ValueStateOk(s)
  PROVE  ValueStep(s, ValueChar(s, ch))
<1>1. DOMAIN ValueMatcher = {"h_matching_transfer_encoding_chunked", "h_matching_connection_keep_alive",
                             "h_matching_connection_close", "h_matching_connection_upgrade"}
  BY DEF ValueMatcher
<1>2. DOMAIN ValueFlag = {"h_connection_keep_alive", "h_connection_close", "h_connection_upgrade",
                          "h_transfer_encoding_chunked"}
  BY DEF ValueFlag
<1>3. s.header_state \notin {"h_connection", "h_transfer_encoding"}  BY DEF ValueStateOk
<1>4. ValueStep(s, s)  BY DEF ValueStep, HeadKept, Shape
<1>5. PICK t : t = ValueChar(s, ch)  OBVIOUS
<1>6. CASE s.header_state = "h_content_length"
  <2>1. CASE ch = SP
    <3>1. SP \notin IS_NUM  BY DEF SP, IS_NUM, ToSet, Digits
    <3>2. t = s  BY <1>1, <1>2, <1>5, <1>6, <2>1, <3>1 DEF ValueChar
    <3> QED BY <1>4, <1>5, <3>2
  <2>2. CASE ch # SP /\ ch \in IS_NUM
    <3>1. DigitValue[ch] \in 0..9  BY <2>2, DigitRange
    <3>2. PICK d : d = DigitValue[ch]  OBVIOUS
    <3>3. d \in 0..(10 - 1) /\ 10 \in {10, 16} /\ s.content_length = s.num /\ s.content_length \in 0..ULLONG_MAX
      BY <1>6, <3>1, <3>2 DEF ValueStateOk, Shape
    <3>4. t = NextDigit(s, 10, d)  BY <1>1, <1>2, <1>5, <1>6, <2>2, <3>2 DEF ValueChar
    <3>5. /\ DOMAIN t = Fields /\ t.flags = s.flags /\ t.last = s.last /\ t.ordered = s.ordered
          /\ t.asserts = s.asserts /\ t.body = s.body /\ t.due = s.due /\ t.exit = s.exit /\ t.state = s.state
          /\ t.header_state = s.header_state /\ t.marks = s.marks /\ t.run = s.run
          /\ t.content_length \in 0..ULLONG_MAX
          /\ \/ t.http_errno = "INVALID_CONTENT_LENGTH"
             \/ t.http_errno = "OK" /\ t.content_length = t.num /\ t.num < ULLONG_MAX
      BY <3>3, <3>4, NextDigitEffect
    <3> QED BY <1>5, <1>6, <3>5 DEF ValueStep, HeadKept, ValueStateOk, Going
  <2>3. CASE ch # SP /\ ch \notin IS_NUM
    <3>1. t = SET_ERRNO(s, "INVALID_CONTENT_LENGTH")  BY <1>1, <1>2, <1>5, <1>6, <2>3 DEF ValueChar
    <3> QED BY <1>5, <3>1, ErrnoEffect DEF ValueStep, HeadKept, Kept, Shape, Going
  <2> QED BY <2>1, <2>2, <2>3
<1>7. CASE s.header_state \in DOMAIN ValueMatcher
  <2>1. PICK m : m = ValueMatcher[s.header_state]  OBVIOUS
  <2>2. m[2] \notin {"h_connection", "h_transfer_encoding", "h_content_length"}  BY <1>7, <2>1 DEF ValueMatcher
  <2>3. PICK h : h = IF s.header_state = "h_matching_transfer_encoding_chunked" THEN "h_general"
                     ELSE "h_matching_connection_token"
    OBVIOUS
  <2>4. t = Match(s, LOWER(ch), m, h)  BY <1>1, <1>2, <1>5, <1>7, <2>1, <2>3 DEF ValueChar
  <2>5. /\ Kept(s, t) /\ t.state = s.state /\ t.marks = s.marks /\ t.run = s.run
        /\ t.http_errno = "OK" /\ t.header_state \in {h, m[2], s.header_state}
    BY <2>4, MatchEffect
  <2>6. ValueStateOk(t)  BY <1>1, <1>7, <2>2, <2>3, <2>5 DEF ValueStateOk
  <2> QED BY <1>5, <2>5, <2>6 DEF ValueStep, HeadKept, Kept, Shape
<1>8. CASE s.header_state = "h_matching_connection_token_start"
  <2>1. t \in {[s EXCEPT !.header_state = ConnectionToken(LOWER(ch))], s, [s EXCEPT !.header_state = "h_general"]}
    BY <1>1, <1>2, <1>5, <1>8 DEF ValueChar
  <2>2. ConnectionToken(LOWER(ch)) \notin {"h_connection", "h_transfer_encoding", "h_content_length"}
    BY DEF ConnectionToken
  <2> QED BY <1>4, <1>5, <2>1, <2>2, ValueStateStep
<1>9. CASE s.header_state = "h_matching_connection_token"
  <2>1. PICK x, y : x = "h_matching_connection_token_start" /\ y = 0  OBVIOUS
  <2>2. t = s \/ t = [s EXCEPT !.header_state = x, !.index = y]  BY <1>1, <1>2, <1>5, <1>9, <2>1 DEF ValueChar
  <2>3. x \notin {"h_connection", "h_transfer_encoding", "h_content_length"}  BY <2>1
  <2> QED BY <1>4, <1>5, <2>2, <2>3, ValueStateStep
<1>10. CASE s.header_state = "h_transfer_encoding_chunked"
  <2>1. t \in {s, [s EXCEPT !.header_state = "h_general"]}  BY <1>1, <1>2, <1>5, <1>10 DEF ValueChar
  <2> QED BY <1>4, <1>5, <2>1, ValueStateStep
<1>11. CASE s.header_state \in {"h_connection_keep_alive", "h_connection_close", "h_connection_upgrade"}
  <2>1. PICK f : f = Flagged(s)  OBVIOUS
  <2>2. HeadKept(s, f) /\ Shape(f) /\ f.state = s.state /\ f.marks = s.marks /\ f.run = s.run
        /\ f.http_errno = "OK" /\ DOMAIN f = Fields
    BY <2>1, FlaggedEffect DEF Shape
  <2>3. t \in {s, [s EXCEPT !.header_state = "h_matching_connection_token"],
               [f EXCEPT !.header_state = "h_matching_connection_token_start", !.index = 0]}
    BY <1>1, <1>2, <1>5, <1>11, <2>1 DEF ValueChar
  <2>4. CASE t \in {s, [s EXCEPT !.header_state = "h_matching_connection_token"]}  BY <1>4, <1>5, <2>4, ValueStateStep
  <2>5. CASE t = [f EXCEPT !.header_state = "h_matching_connection_token_start", !.index = 0]
    <3>1. ValueStep(f, t)
      <4>1. PICK x, y : x = "h_matching_connection_token_start" /\ y = 0  OBVIOUS
      <4>2. t = [f EXCEPT !.header_state = x, !.index = y]
            /\ x \notin {"h_connection", "h_transfer_encoding", "h_content_length"}
        BY <2>5, <4>1
      <4>3. Shape(f) /\ DOMAIN f = Fields /\ f.http_errno = "OK"  BY <2>2
      <4> QED BY <4>2, <4>3, ValueStateStep
    <3> QED BY <1>5, <2>2, <3>1 DEF ValueStep, HeadKept
  <2> QED BY <2>3, <2>4, <2>5
<1>12. CASE s.header_state \notin {"h_content_length", "h_matching_connection_token_start",
                                   "h_matching_connection_token"} \cup DOMAIN ValueMatcher \cup DOMAIN ValueFlag
  <2>1. t = s  BY <1>2, <1>3, <1>5, <1>12 DEF ValueChar
  <2> QED BY <1>4, <1>5, <2>1
<1> QED BY <1>2, <1>6, <1>7, <1>8, <1>9, <1>10, <1>11, <1>12

\* s_header_value
LEMMA HeaderValueStep ==
  ASSUME NEW s, NEW ch, NEW o, NEW k, NEW j, Live(s, j, o), s.http_errno = "OK", s.state = "s_header_value"
  PROVE  Rested(HeaderValue(s, ch), k, o)
<1>1. s.state \in HeaderStates /\ "header_value" \in Datum \ {"body"} /\ s.state \in MarkPlaces["header_value"]
  BY DEF HeaderStates, Datum, MarkPlaces
<1>2. Shape(s) /\ DOMAIN s = Fields /\ Asserted(s) /\ OnlyMarked(s, "header_value")  BY <1>1, DatumReady
<1>3. ValueStateOk(s)  BY DEF Live, Going, Place, InHead, ValueStateOk
<1>4. SUFFICES HeadStep(s, HeaderValue(s, ch))  BY <1>1, HeadLands
<1>5. PICK a : a = UPDATE_STATE(s, "s_header_almost_done")  OBVIOUS
<1>6. /\ Kept(s, a) /\ a.state = "s_header_almost_done" /\ a.http_errno = "OK" /\ a.marks = s.marks /\ a.run = s.run
      /\ DOMAIN a = Fields /\ a.marks \in [Datum -> Int] /\ Asserted(a)
  BY <1>2, <1>5, StateEffect DEF Kept, Shape, Asserted
<1>7. CASE ch = CR
  <2>1. PICK n, b : n = a.marks["header_value"] /\ b = FALSE  OBVIOUS
  <2>2. PICK c : c = CALLBACK_DATA_(a, "header_value", n, b)  OBVIOUS
  <2>3. Kept(a, c) /\ MarksIn(a, c) /\ Called(a, c) /\ c.state = a.state /\ c.marks["header_value"] < 0
    BY <1>1, <1>6, <2>2, DataEffect
  <2>4. Unmarked(c) /\ c.marks \in [Datum -> Int]  BY <1>2, <1>6, <2>3 DEF MarksIn, Unmarked, OnlyMarked
  <2>5. PICK t : t = IF c.http_errno = "OK" THEN COUNT_HEADER_SIZE(c, c.run) ELSE c  OBVIOUS
  <2>6. /\ Kept(c, t) /\ t.state = c.state /\ t.marks = c.marks /\ t.run = 0
    <3>1. CASE c.http_errno = "OK"  BY <2>3, <2>5, <3>1, CountEffect DEF Kept
    <3>2. CASE c.http_errno # "OK"  BY <2>3, <2>5, <3>2 DEF Kept, Called
    <3> QED BY <3>1, <3>2
  <2>7. Tidy(t) /\ t.marks \in [Datum -> Int]  BY <2>4, <2>6 DEF Tidy, Unmarked
  <2>8. HeadStep(s, t)  BY <1>2, <1>6, <2>3, <2>6, <2>7 DEF HeadStep, Kept, Shape, HeaderStates
  <2>9. HeaderValue(s, ch) = t
    <3>1. Then(CALLBACK_DATA(a, "header_value"), LAMBDA t_1 : COUNT_HEADER_SIZE(t_1, t_1.run)) = t
      BY <2>1, <2>2, <2>5 DEF Then, CALLBACK_DATA
    <3> QED BY <1>5, <1>7, <3>1 DEF HeaderValue, CR, LF, IS_HEADER_CHAR, Char
  <2> QED BY <2>8, <2>9
<1>8. CASE ch = LF
  <2>1. PICK v : v = COUNT_HEADER_SIZE(a, s.run)  OBVIOUS
  <2>2. Kept(a, v) /\ v.state = a.state /\ v.run = 0 /\ v.http_errno \in {"OK", "HEADER_OVERFLOW"} /\ v.marks = a.marks
    BY <1>6, <2>1, CountEffect
  <2>3. PICK c : c = Then(v, LAMBDA t_1 : CALLBACK_DATA_NOADVANCE(t_1, "header_value"))  OBVIOUS
  <2>4. PICK t : t = IF c.http_errno = "OK" THEN UPDATE_STATE(c, "s_header_value_lws") ELSE c  OBVIOUS
  <2>5. HeaderValue(s, ch) = t
    <3>1. Then(Then(v, LAMBDA t_1 : CALLBACK_DATA_NOADVANCE(t_1, "header_value")),
               LAMBDA t_1 : UPDATE_STATE(t_1, "s_header_value_lws")) = t
      BY <2>3, <2>4 DEF Then
    <3> QED BY <1>5, <1>8, <2>1, <3>1 DEF HeaderValue, CR, LF, IS_HEADER_CHAR, Char
  <2>6. CASE v.http_errno # "OK"
    <3>1. t = v  BY <2>3, <2>4, <2>6 DEF Then
    <3>2. HeadStep(s, t)  BY <1>2, <1>6, <2>2, <2>6, <3>1 DEF HeadStep, Kept, Shape, Going
    <3> QED BY <2>5, <3>2
  <2>7. CASE v.http_errno = "OK"
    <3>1. PICK n, b : n = v.marks["header_value"] /\ b = TRUE  OBVIOUS
    <3>2. c = CALLBACK_DATA_(v, "header_value", n, b)  BY <2>3, <2>7, <3>1 DEF Then, CALLBACK_DATA_NOADVANCE
    <3>3. DOMAIN v = Fields /\ v.marks \in [Datum -> Int] /\ Asserted(v)  BY <1>6, <2>2 DEF Kept, Asserted
    <3>4. Kept(v, c) /\ MarksIn(v, c) /\ Called(v, c) /\ c.state = v.state /\ c.marks["header_value"] < 0
      BY <1>1, <2>7, <3>2, <3>3, DataEffect
    <3>5. Unmarked(c) /\ c.marks \in [Datum -> Int] /\ c.run = 0
      BY <1>2, <1>6, <2>2, <3>4 DEF MarksIn, Unmarked, OnlyMarked, Called
    <3>6. Kept(c, t) /\ t.state \in {"s_header_almost_done", "s_header_value_lws"} /\ t.marks = c.marks /\ t.run = 0
      BY <1>6, <2>2, <2>4, <3>4, <3>5, StateEffect DEF Kept
    <3>7. Tidy(t) /\ t.marks \in [Datum -> Int]  BY <3>5, <3>6 DEF Tidy, Unmarked
    <3>8. HeadStep(s, t)  BY <1>2, <1>6, <2>2, <3>4, <3>6, <3>7 DEF HeadStep, Kept, Shape, HeaderStates
    <3> QED BY <2>5, <3>8
  <2> QED BY <2>6, <2>7
<1>9. CASE ch \notin {CR, LF} /\ (~s.skip /\ ch \notin IS_HEADER_CHAR)
  <2>1. HeaderValue(s, ch) = SET_ERRNO(s, "INVALID_HEADER_TOKEN")  BY <1>9 DEF HeaderValue
  <2> QED BY <1>2, <2>1, ErrnoEffect DEF HeadStep, Kept, Shape, Going
<1>10. CASE ch \notin {CR, LF} /\ ~(~s.skip /\ ch \notin IS_HEADER_CHAR)
  <2>1. PICK v : v = ValueChar(s, ch)  OBVIOUS
  <2>2. ValueStep(s, v)  BY <1>2, <1>3, <2>1, ValueCharEffect
  <2>3. PICK t : t = [v EXCEPT !.run = @ + 1, !.skip = s.header_state = "h_general"]  OBVIOUS
  <2>4. /\ HeadKept(s, t) /\ t.state = "s_header_value" /\ t.marks = s.marks /\ t.http_errno # "PAUSED"
        /\ t.header_state = v.header_state /\ t.content_length = v.content_length /\ t.num = v.num
        /\ t.http_errno = v.http_errno /\ t.run = v.run + 1 /\ (Skips(t) => s.header_state = "h_general")
    BY <2>2, <2>3 DEF ValueStep, HeadKept, Fields, Skips
  <2>8. s.header_state = "h_general" => v.header_state = "h_general"
    <3>1. "h_general" \notin DOMAIN ValueMatcher \cup DOMAIN ValueFlag  BY DEF ValueMatcher, ValueFlag
    <3> QED BY <2>1, <3>1 DEF ValueChar
  <2>10. s.run \in Nat  BY DEF Live, Going, Place, Tidy, Looping
  <2>11. t.run \in Nat  BY <2>2, <2>4, <2>10 DEF ValueStep
  <2>9. Looping(t)  BY <2>4, <2>8, <2>11 DEF Looping
  <2>5. t.marks \in [Datum -> Int] /\ Tidy(t)  BY <1>2, <2>4, <2>9 DEF Tidy, OnlyMarked, Shape, Datum, MarkPlaces
  <2>6. HeadStep(s, t)  BY <1>1, <2>2, <2>4, <2>5 DEF HeadStep, HeadKept, ValueStep, ValueStateOk, Going
  <2>7. HeaderValue(s, ch) = t  BY <1>10, <2>1, <2>3 DEF HeaderValue
  <2> QED BY <2>6, <2>7
<1> QED BY <1>7, <1>8, <1>9, <1>10

\* s_header_value_lws: the value goes on in the next line, or the line is a
\* header of its own.
LEMMA HeaderValueLwsStep ==
  ASSUME NEW s, NEW ch, NEW o, NEW k, NEW j, Live(s, j, o), s.http_errno = "OK", s.state = "s_header_value_lws"
  PROVE  Rested(HeaderValueLws(s, ch), k, o)
<1>1. s.state \in PlainStates /\ s.state \in HeaderStates  BY DEF PlainStates, HeaderStates, UrlStates
<1>2. Shape(s) /\ DOMAIN s = Fields /\ Unmarked(s) /\ s.run = 0  BY <1>1, PlainReady
<1>3. CASE ch \in {SP, HT}  BY <1>3, HeaderValueStartStep DEF HeaderValueLws
<1>4. CASE ch \notin {SP, HT}
  <2>1. PICK f : f = Flagged(s)  OBVIOUS
  <2>2. HeadKept(s, f) /\ DOMAIN f = Fields /\ f.marks = s.marks /\ f.run = 0 /\ f.http_errno = "OK"
    BY <1>2, <2>1, FlaggedEffect DEF HeadKept
  <2>3. PICK t : t = UPDATE_STATE(f, "s_header_field_start")  OBVIOUS
  <2>4. /\ Kept(f, t) /\ t.state = "s_header_field_start" /\ t.http_errno = "OK" /\ t.marks = s.marks /\ t.run = 0
    BY <2>2, <2>3, StateEffect
  <2>5. Tidy(t) /\ t.marks \in [Datum -> Int]  BY <1>2, <2>4 DEF Tidy, Unmarked, Shape
  <2>6. HeadStep(s, t)  BY <2>2, <2>4, <2>5 DEF HeadStep, HeadKept, Kept, HeaderStates
  <2>7. Rested(t, k, o)  BY <1>1, <2>6, HeadLands
  <2>8. Rested(HeaderFieldStart(t, ch), k, o)  BY <2>4, <2>7, HeaderFieldStartStep DEF Rested
  <2> QED BY <1>4, <2>1, <2>3, <2>8 DEF HeaderValueLws
<1> QED BY <1>3, <1>4

\* s_header_value_discard_lws
LEMMA DiscardLwsStep ==
  ASSUME NEW s, NEW ch, NEW o, NEW k, NEW j, Live(s, j, o), s.http_errno = "OK", s.state = "s_header_value_discard_lws"
  PROVE  Rested(DiscardLws(s, ch), k, o)
<1>1. s.state \in PlainStates /\ s.state \in HeaderStates  BY DEF PlainStates, HeaderStates, UrlStates
<1>2. Shape(s) /\ DOMAIN s = Fields /\ Asserted(s) /\ Unmarked(s) /\ s.run = 0  BY <1>1, PlainReady
<1>3. CASE ch \in {SP, HT}
  <2>1. PICK t : t = UPDATE_STATE(s, "s_header_value_discard_ws")  OBVIOUS
  <2>2. PlainStep(s, t) /\ t.state \in HeaderStates /\ t.state \notin {"s_header_field", "s_header_value"}
    BY <1>2, <2>1, StateEffect DEF PlainStep, HeaderStates
  <2>3. Rested(t, k, o)  BY <1>1, <2>2, PlainSwitch
  <2> QED BY <1>3, <2>1, <2>3 DEF DiscardLws
<1>4. CASE ch \notin {SP, HT}
  <2>1. PICK f : f = Flagged(s)  OBVIOUS
  <2>2. HeadKept(s, f) /\ DOMAIN f = Fields /\ f.marks = s.marks /\ f.run = 0 /\ f.http_errno = "OK"
    BY <1>2, <2>1, FlaggedEffect DEF HeadKept
  <2>3. PICK m : m = MARK(f, "header_value")  OBVIOUS
  <2>4. /\ Kept(f, m) /\ m.run = 0 /\ m.http_errno = "OK"
        /\ m.marks = [s.marks EXCEPT !["header_value"] = IF @ < 0 THEN 0 ELSE @]
    BY <1>2, <2>2, <2>3, MarkEffect DEF Shape, Datum
  <2>5. PICK u : u = UPDATE_STATE(m, "s_header_field_start")  OBVIOUS
  <2>6. /\ Kept(m, u) /\ u.state = "s_header_field_start" /\ u.http_errno = "OK" /\ u.marks = m.marks /\ u.run = 0
    BY <2>4, <2>5, StateEffect DEF Kept
  <2>7. /\ u.marks \in [Datum -> Int] /\ OnlyMarked(u, "header_value") /\ DOMAIN u = Fields /\ Asserted(u)
        /\ "header_value" \in Datum \ {"body"}
    BY <1>2, <2>2, <2>4, <2>6 DEF Shape, OnlyMarked, Unmarked, Datum, HeadKept, Kept, Asserted
  <2>8. PICK n, b : n = u.marks["header_value"] /\ b = TRUE  OBVIOUS
  <2>9. PICK t : t = CALLBACK_DATA_(u, "header_value", n, b)  OBVIOUS
  <2>10. Kept(u, t) /\ MarksIn(u, t) /\ Called(u, t) /\ t.state = u.state /\ t.marks["header_value"] < 0
    BY <2>6, <2>7, <2>9, DataEffect
  <2>11. Unmarked(t) /\ t.marks \in [Datum -> Int] /\ t.run = 0
    BY <2>6, <2>7, <2>10 DEF MarksIn, Unmarked, OnlyMarked, Called
  <2>12. Tidy(t)  BY <2>11 DEF Tidy, Unmarked
  <2>13. HeadStep(s, t)  BY <2>2, <2>4, <2>6, <2>10, <2>11, <2>12 DEF HeadStep, HeadKept, Kept, HeaderStates
  <2>14. Rested(t, k, o)  BY <1>1, <2>13, HeadLands
  <2>15. t.http_errno = "OK" => Rested(HeaderFieldStart(t, ch), k, o)
    BY <2>6, <2>10, <2>14, HeaderFieldStartStep DEF Rested
  <2>16. DiscardLws(s, ch) = IF t.http_errno = "OK" THEN HeaderFieldStart(t, ch) ELSE t
    BY <1>4, <2>1, <2>3, <2>5, <2>8, <2>9 DEF DiscardLws, Then, CALLBACK_DATA_NOADVANCE
  <2> QED BY <2>14, <2>15, <2>16
<1> QED BY <1>3, <1>4

-----------------------------------------------------------------------------
\* The chunks and the body.

\* unhex answers -1 or the value of a hexadecimal digit.
LEMMA UnhexRange ==
  ASSUME NEW ch, unhex(ch) # -1
  PROVE  unhex(ch) \in 0..15
<1>1. CASE ch \in IS_NUM  BY <1>1, DigitRange DEF unhex
<1>2. CASE ch \notin IS_NUM  BY <1>2 DEF unhex, HexLetters, HexValue
<1> QED BY <1>1, <1>2

\* While a chunk size is read nothing is marked.
LEMMA SizeReady ==
  ASSUME NEW s, NEW o, NEW j, Live(s, j, o), s.http_errno = "OK",
         s.state \in SizeStates \cup {"s_chunk_data_done"}
  PROVE  /\ Shape(s) /\ DOMAIN s = Fields /\ Asserted(s) /\ Unmarked(s) /\ s.run = 0 /\ (o => InOrder(s))
         /\ s.last # "message_complete" /\ "F_CHUNKED" \in s.flags /\ s.body = s.due
         /\ s.state \in SizeStates => s.last \in {"headers_complete", "chunk_complete"}
         /\ s.state = "s_chunk_data_done" => s.last = "chunk_header"
         /\ s.state = "s_chunk_size" => s.content_length = s.num /\ s.num < ULLONG_MAX
         /\ s.state \in {"s_chunk_parameters", "s_chunk_size_almost_done"} => s.content_length < ULLONG_MAX
<1>1. /\ s.state \notin {"s_header_field", "s_header_value", "s_res_status"} \cup UrlStates
      /\ s.state \notin {"s_chunk_data", "s_chunk_data_almost_done", "s_body_identity", "s_body_identity_eof"}
  BY DEF SizeStates, UrlStates
<1>2. Shape(s) /\ Asserted(s) /\ Unmarked(s) /\ s.run = 0  BY <1>1, LivePlain
<1>3. InChunks(s, j) /\ (o => InOrder(s))  BY DEF Live, Going, Place
<1> QED BY <1>2, <1>3 DEF InChunks, SizeStates, ChunkStates, Shape

\* A step within a chunk size.
LEMMA SizeLands ==
  ASSUME NEW s, NEW t, NEW o, NEW j, NEW k, Live(s, j, o), s.http_errno = "OK", s.state \in SizeStates,
         DOMAIN t = Fields, t.marks = s.marks, t.run = s.run, t.content_length \in 0..ULLONG_MAX,
         t.flags = s.flags, t.last = s.last, t.ordered = s.ordered, t.asserts = s.asserts, t.body = s.body,
         t.due = s.due,
         Going(t) =>
             \/ t.state = "s_chunk_size" /\ t.content_length = t.num /\ t.num < ULLONG_MAX
             \/ t.state \in {"s_chunk_parameters", "s_chunk_size_almost_done"} /\ t.content_length < ULLONG_MAX
  PROVE  Rested(t, k, o)
<1>1. /\ Shape(s) /\ Asserted(s) /\ Unmarked(s) /\ s.run = 0 /\ (o => InOrder(s))
      /\ s.last # "message_complete" /\ "F_CHUNKED" \in s.flags /\ s.body = s.due
      /\ s.last \in {"headers_complete", "chunk_complete"}
  BY SizeReady
<1>2. Shape(t) /\ Asserted(t) /\ (o => InOrder(t)) /\ Unmarked(t)  BY <1>1 DEF Shape, Asserted, InOrder, Unmarked
<1>3. ASSUME Going(t) PROVE Place(t, k) /\ t.state # "s_chunk_size_start"
  <2>1. Tidy(t)  BY <1>1, <1>2 DEF Tidy, Unmarked, Shape
  <2>2. InHead(t)  BY <1>3 DEF InHead, LineStates, HeaderStates
  <2>3. InBody(t, k)  BY <1>3 DEF InBody, StartStates
  <2>4. InChunks(t, k)  BY <1>1, <1>3 DEF InChunks, SizeStates, ChunkStates
  <2> QED BY <1>3, <2>1, <2>2, <2>3, <2>4 DEF Place, SizeStates
<1> QED BY <1>1, <1>2, <1>3 DEF Rested, Live

\* s_chunk_size_start: nread is 1, as the code asserts.
LEMMA ChunkSizeStartStep ==
  ASSUME NEW s, NEW ch, NEW o, NEW k, NEW j, Live(s, j, o), s.http_errno = "OK", s.state = "s_chunk_size_start",
         s.nread = 1
  PROVE  Rested(ChunkSizeStart(s, ch), k, o)
<1>1. s.state \in SizeStates  BY DEF SizeStates
<1>2. Shape(s) /\ DOMAIN s = Fields /\ Asserted(s) /\ "F_CHUNKED" \in s.flags  BY <1>1, SizeReady
<1>3. PICK a : a = assert(s, s.nread = 1 /\ "F_CHUNKED" \in s.flags)  OBVIOUS
<1>4. Kept(s, a) /\ a.state = s.state /\ a.http_errno = "OK" /\ a.marks = s.marks /\ a.run = s.run
  BY <1>2, <1>3, AssertEffect
<1>5. CASE unhex(ch) = -1
  <2>1. PICK t : t = SET_ERRNO(a, "INVALID_CHUNK_SIZE")  OBVIOUS
  <2>2. Kept(a, t) /\ t.marks = s.marks /\ t.run = s.run /\ ~Going(t)  BY <1>4, <2>1, ErrnoEffect DEF Kept, Going
  <2>3. Rested(t, k, o)  BY <1>1, <1>2, <1>4, <2>2, SizeLands DEF Kept, Shape
  <2> QED BY <1>3, <1>5, <2>1, <2>3 DEF ChunkSizeStart
<1>6. CASE unhex(ch) # -1
  <2>1. PICK d : d = unhex(ch)  OBVIOUS
  <2>2. d \in 0..15 /\ d \in 0..ULLONG_MAX /\ d < ULLONG_MAX  BY <1>6, <2>1, UnhexRange, WidthAssumption
  <2>3. PICK t : t = UPDATE_STATE(FirstDigit(a, d), "s_chunk_size")  OBVIOUS
  <2>4. /\ DOMAIN t = Fields /\ t.marks = s.marks /\ t.run = s.run /\ t.content_length = d /\ t.num = d
        /\ t.flags = s.flags /\ t.last = s.last /\ t.ordered = s.ordered /\ t.asserts = s.asserts
        /\ t.body = s.body /\ t.due = s.due /\ t.state = "s_chunk_size"
    BY <1>4, <2>3 DEF UPDATE_STATE, FirstDigit, Kept, Fields
  <2>5. Rested(t, k, o)  BY <1>1, <2>2, <2>4, SizeLands
  <2> QED BY <1>3, <1>6, <2>1, <2>3, <2>5 DEF ChunkSizeStart
<1> QED BY <1>5, <1>6

\* s_chunk_size
LEMMA ChunkSizeStep ==
  ASSUME NEW s, NEW ch, NEW o, NEW k, NEW j, Live(s, j, o), s.http_errno = "OK", s.state = "s_chunk_size"
  PROVE  Rested(ChunkSize(s, ch), k, o)
<1>1. s.state \in SizeStates  BY DEF SizeStates
<1>2. /\ Shape(s) /\ DOMAIN s = Fields /\ Asserted(s) /\ "F_CHUNKED" \in s.flags
      /\ s.content_length = s.num /\ s.num < ULLONG_MAX
  BY <1>1, SizeReady
<1>3. PICK a : a = assert(s, "F_CHUNKED" \in s.flags)  OBVIOUS
<1>4. Kept(s, a) /\ a.state = s.state /\ a.http_errno = "OK" /\ a.marks = s.marks /\ a.run = s.run
  BY <1>2, <1>3, AssertEffect
<1>5. PICK t : t = ChunkSize(s, ch)  OBVIOUS
<1>6. CASE ch \in IS_HEX /\ ch \notin {CR, ";", SP}
  <2>1. PICK d : d = unhex(ch)  OBVIOUS
  <2>2. t = NextDigit(a, 16, d)  BY <1>3, <1>5, <1>6, <2>1 DEF ChunkSize
  <2>6. d \in 0..15  BY <1>6, <2>1, HexRange
  <2>3. d \in 0..(16 - 1)  BY <2>6
  <2>4. /\ DOMAIN t = Fields /\ t.flags = a.flags /\ t.last = a.last /\ t.ordered = a.ordered
        /\ t.asserts = a.asserts /\ t.body = a.body /\ t.due = a.due /\ t.state = a.state
        /\ t.marks = a.marks /\ t.run = a.run
        /\ t.content_length \in 0..ULLONG_MAX
        /\ \/ t.http_errno = "INVALID_CONTENT_LENGTH"
           \/ t.http_errno = "OK" /\ t.content_length = t.num /\ t.num < ULLONG_MAX
    <3>1. DOMAIN a = Fields /\ a.content_length \in 0..ULLONG_MAX /\ a.content_length = a.num
      BY <1>2, <1>4 DEF Kept, Shape
    <3> QED BY <1>4, <2>2, <2>3, <3>1, NextDigitEffect
  <2>5. Rested(t, k, o)  BY <1>1, <1>4, <2>4, SizeLands DEF Kept, Going
  <2> QED BY <1>5, <2>5
<1>7. CASE ~(ch \in IS_HEX /\ ch \notin {CR, ";", SP})
  <2>4. {CR, ";", SP} \cap IS_HEX = {} /\ CR \notin {";", SP}
    <3>1. CR \notin IS_NUM  BY DEF CR, IS_NUM, ToSet, Digits
    <3>4. SP \notin IS_NUM  BY DEF SP, IS_NUM, ToSet, Digits
    <3>6. IS_NUM \subseteq {"0", "1", "2", "3", "4", "5", "6", "7", "8", "9"}  BY DEF IS_NUM, ToSet, Digits
    <3>5. ";" \notin IS_NUM  BY <3>6, Zenon
    <3>2. CR \notin HexLetters /\ SP \notin HexLetters /\ ";" \notin HexLetters  BY DEF HexLetters, CR, SP
    <3>3. CR # ";" /\ CR # SP  BY DEF CR, SP
    <3> QED BY <3>1, <3>2, <3>3, <3>4, <3>5 DEF IS_HEX
  <2>1. \/ t = UPDATE_STATE(a, "s_chunk_size_almost_done") \/ t = UPDATE_STATE(a, "s_chunk_parameters")
        \/ t = SET_ERRNO(a, "INVALID_CHUNK_SIZE")
    BY <1>3, <1>5, <1>7, <2>4 DEF ChunkSize
  <2>2. /\ Kept(a, t) /\ t.marks = a.marks /\ t.run = a.run
        /\ Going(t) => t.state \in {"s_chunk_parameters", "s_chunk_size_almost_done"}
    BY <1>4, <2>1, StateEffect, ErrnoEffect DEF Kept, Going
  <2>3. Rested(t, k, o)  BY <1>1, <1>2, <1>4, <2>2, SizeLands DEF Kept, Shape
  <2> QED BY <1>5, <2>3
<1> QED BY <1>6, <1>7

\* s_chunk_parameters
LEMMA ChunkParametersStep ==
  ASSUME NEW s, NEW ch, NEW o, NEW k, NEW j, Live(s, j, o), s.http_errno = "OK", s.state = "s_chunk_parameters"
  PROVE  Rested(ChunkParameters(s, ch), k, o)
<1>1. s.state \in SizeStates  BY DEF SizeStates
<1>2. /\ Shape(s) /\ DOMAIN s = Fields /\ Asserted(s) /\ "F_CHUNKED" \in s.flags /\ s.content_length < ULLONG_MAX
  BY <1>1, SizeReady
<1>3. PICK t, a : t = ChunkParameters(s, ch) /\ a = assert(s, "F_CHUNKED" \in s.flags)  OBVIOUS
<1>7. Kept(s, a) /\ a.state = s.state /\ a.marks = s.marks /\ a.run = s.run  BY <1>2, <1>3, AssertEffect
<1>4. t = a \/ t = UPDATE_STATE(a, "s_chunk_size_almost_done")  BY <1>3 DEF ChunkParameters
<1>5. Kept(s, t) /\ t.marks = s.marks /\ t.run = s.run /\ t.state \in {"s_chunk_parameters", "s_chunk_size_almost_done"}
  BY <1>2, <1>4, <1>7, StateEffect DEF Kept
<1>6. Rested(t, k, o)  BY <1>1, <1>2, <1>5, SizeLands DEF Kept, Shape
<1> QED BY <1>3, <1>6

\* s_chunk_size_almost_done: the last chunk leads to the trailer, another one to
\* its data.
LEMMA ChunkSizeAlmostDoneStep ==
  ASSUME NEW s, NEW ch, NEW o, NEW k, NEW j, Live(s, j, o), s.http_errno = "OK", s.state = "s_chunk_size_almost_done"
  PROVE  Rested(ChunkSizeAlmostDone(s, ch), k, o)
<1>1. s.state \in SizeStates  BY DEF SizeStates
<1>2. /\ Shape(s) /\ DOMAIN s = Fields /\ Asserted(s) /\ Unmarked(s) /\ s.run = 0 /\ (o => InOrder(s))
      /\ s.last # "message_complete" /\ "F_CHUNKED" \in s.flags /\ s.body = s.due
      /\ s.last \in {"headers_complete", "chunk_complete"} /\ s.content_length < ULLONG_MAX
  BY <1>1, SizeReady
<1>3. PICK a : a = assert(s, "F_CHUNKED" \in s.flags)  OBVIOUS
<1>4. Kept(s, a) /\ a.state = s.state /\ a.http_errno = "OK" /\ a.marks = s.marks /\ a.run = s.run
  BY <1>2, <1>3, AssertEffect
<1>5. PICK t : t = ChunkSizeAlmostDone(s, ch)  OBVIOUS
<1>6. CASE ch # LF
  <2>1. t = SET_ERRNO(a, "STRICT")
    BY <1>3, <1>4, <1>5, <1>6, ErrnoEffect DEF ChunkSizeAlmostDone, STRICT_CHECK, Then, Kept
  <2>2. Kept(s, t) /\ t.marks = s.marks /\ ~Going(t)  BY <1>4, <2>1, ErrnoEffect DEF Kept, Going
  <2> QED BY <1>2, <1>5, <2>2, Stopped
<1>7. CASE ch = LF
  <2>1. PICK u : u = IF a.content_length = 0
                     THEN [a EXCEPT !.nread = 0, !.flags = @ \cup {"F_TRAILING"}, !.state = "s_header_field_start"]
                     ELSE [a EXCEPT !.nread = 0, !.due = @ + a.content_length, !.state = "s_chunk_data"]
    OBVIOUS
  <2>2. t = CALLBACK_NOTIFY(u, "chunk_header")
    BY <1>3, <1>4, <1>5, <1>7, <2>1 DEF ChunkSizeAlmostDone, STRICT_CHECK, Then
  <2>3. /\ DOMAIN u = Fields /\ u.marks = s.marks /\ u.run = 0 /\ u.http_errno = "OK"
        /\ u.content_length = s.content_length /\ u.last = s.last /\ u.ordered = s.ordered
        /\ u.asserts = s.asserts /\ u.body = s.body /\ "F_CHUNKED" \in u.flags
        /\ IF s.content_length = 0
           THEN u.state = "s_header_field_start" /\ u.due = s.due /\ "F_TRAILING" \in u.flags
           ELSE u.state = "s_chunk_data" /\ u.due = s.due + s.content_length
    <3>1. CASE a.content_length = 0  BY <1>2, <1>4, <2>1, <3>1 DEF Kept, Fields
    <3>2. CASE a.content_length # 0  BY <1>2, <1>4, <2>1, <3>2 DEF Kept, Fields
    <3> QED BY <3>1, <3>2
  <2>4. Told(u, t, "chunk_header")
    <3>1. u.marks \in [Datum -> Int] /\ Asserted(u)  BY <1>2, <2>3 DEF Shape, Asserted
    <3>2. PICK b : b = FALSE  OBVIOUS
    <3>3. Told(u, CALLBACK_NOTIFY_(u, "chunk_header", b), "chunk_header")  BY <2>3, <3>1, NotifyEffect
    <3> QED BY <2>2, <3>2, <3>3 DEF CALLBACK_NOTIFY
  <2>5. "chunk_header" \in Follows[u.last] /\ (o => InOrder(u))  BY <1>2, <2>3 DEF Follows, InOrder
  <2>6. Unmarked(t) /\ t.marks \in [Datum -> Int] /\ t.run = 0
    BY <1>2, <2>3, <2>4 DEF Told, MarksIn, Called, Unmarked
  <2>7. Shape(t) /\ Asserted(t) /\ (o => InOrder(t)) /\ t.last = "chunk_header" /\ "F_CHUNKED" \in t.flags
    BY <1>2, <2>3, <2>4, <2>5, <2>6 DEF Told, Shape
  <2>8. Tidy(t)  BY <2>6 DEF Tidy, Unmarked
  <2>9. CASE s.content_length = 0
    <3>1. t.state = "s_header_field_start" /\ "F_TRAILING" \in t.flags /\ t.body = t.due
      BY <1>2, <2>3, <2>4, <2>9 DEF Told
    <3>2. InHead(t) /\ InChunks(t, k) /\ InBody(t, k)
      BY <2>7, <3>1 DEF InHead, InChunks, InBody, StartStates, LineStates, HeaderStates, SizeStates, ChunkStates
    <3> QED BY <1>5, <2>7, <2>8, <3>1, <3>2 DEF Rested, Live, Place, HeaderStates
  <2>10. CASE s.content_length # 0
    <3>1. t.state = "s_chunk_data" /\ t.due = t.body + t.content_length /\ t.content_length \notin {0, ULLONG_MAX}
      BY <1>2, <2>3, <2>4, <2>10 DEF Told, Shape
    <3>2. SeenIn(t, k) + t.content_length = t.due  BY <2>6, <2>7, <3>1 DEF SeenIn, Unmarked, Datum, Shape
    <3>3. InHead(t) /\ InBody(t, k)  BY <2>7, <3>1 DEF InHead, InBody, StartStates, LineStates, HeaderStates
    <3>4. InChunks(t, k)  BY <2>7, <3>1, <3>2 DEF InChunks, SizeStates, ChunkStates
    <3> QED BY <1>5, <2>7, <2>8, <3>1, <3>3, <3>4 DEF Rested, Live, Place, ChunkStates
  <2> QED BY <2>9, <2>10
<1> QED BY <1>6, <1>7

\* s_chunk_data_done
LEMMA ChunkDataDoneStep ==
  ASSUME NEW s, NEW ch, NEW o, NEW k, NEW j, Live(s, j, o), s.http_errno = "OK", s.state = "s_chunk_data_done"
  PROVE  Rested(ChunkDataDone(s, ch), k, o)
<1>1. s.state \in SizeStates \cup {"s_chunk_data_done"}  OBVIOUS
<1>2. /\ Shape(s) /\ DOMAIN s = Fields /\ Asserted(s) /\ Unmarked(s) /\ s.run = 0 /\ (o => InOrder(s))
      /\ s.last = "chunk_header" /\ "F_CHUNKED" \in s.flags /\ s.body = s.due
  BY <1>1, SizeReady
<1>3. PICK a : a = assert(s, "F_CHUNKED" \in s.flags)  OBVIOUS
<1>4. Kept(s, a) /\ a.state = s.state /\ a.http_errno = "OK" /\ a.marks = s.marks /\ a.run = s.run
  BY <1>2, <1>3, AssertEffect
<1>5. PICK t : t = ChunkDataDone(s, ch)  OBVIOUS
<1>6. CASE ch # LF
  <2>1. t = SET_ERRNO(a, "STRICT")  BY <1>3, <1>4, <1>5, <1>6, ErrnoEffect DEF ChunkDataDone, STRICT_CHECK, Then, Kept
  <2>2. Kept(s, t) /\ t.marks = s.marks /\ ~Going(t) /\ s.last # "message_complete"
    BY <1>2, <1>4, <2>1, ErrnoEffect DEF Kept, Going
  <2> QED BY <1>5, <2>2, Stopped
<1>7. CASE ch = LF
  <2>1. PICK u : u = [a EXCEPT !.nread = 0, !.state = "s_chunk_size_start"]  OBVIOUS
  <2>2. t = CALLBACK_NOTIFY(u, "chunk_complete")
    BY <1>3, <1>4, <1>5, <1>7, <2>1 DEF ChunkDataDone, STRICT_CHECK, Then
  <2>3. Kept(a, u) /\ u.marks = s.marks /\ u.run = 0 /\ u.http_errno = "OK" /\ u.nread = 0
        /\ u.state = "s_chunk_size_start"
    BY <1>2, <1>4, <2>1 DEF Kept, Fields
  <2>4. Told(u, t, "chunk_complete")
    <3>1. DOMAIN u = Fields /\ u.marks \in [Datum -> Int] /\ Asserted(u)
      BY <1>2, <1>4, <2>3 DEF Kept, Shape, Asserted
    <3>2. PICK b : b = FALSE  OBVIOUS
    <3>3. Told(u, CALLBACK_NOTIFY_(u, "chunk_complete", b), "chunk_complete")  BY <2>3, <3>1, NotifyEffect
    <3> QED BY <2>2, <3>2, <3>3 DEF CALLBACK_NOTIFY
  <2>5. "chunk_complete" \in Follows[u.last] /\ (o => InOrder(u))  BY <1>2, <1>4, <2>3 DEF Follows, InOrder, Kept
  <2>6. Unmarked(t) /\ t.marks \in [Datum -> Int] /\ t.run = 0
    BY <1>2, <2>3, <2>4 DEF Told, MarksIn, Called, Unmarked
  <2>7. /\ Shape(t) /\ Asserted(t) /\ (o => InOrder(t)) /\ t.last = "chunk_complete" /\ "F_CHUNKED" \in t.flags
        /\ t.state = "s_chunk_size_start" /\ t.nread = 0 /\ t.body = t.due
    BY <1>2, <1>4, <2>3, <2>4, <2>5, <2>6 DEF Told, Shape, Kept
  <2>8. Tidy(t)  BY <2>6 DEF Tidy, Unmarked
  <2>9. InHead(t) /\ InChunks(t, k) /\ InBody(t, k)
    BY <2>7 DEF InHead, InChunks, InBody, StartStates, LineStates, HeaderStates, SizeStates, ChunkStates
  <2> QED BY <1>5, <2>7, <2>8, <2>9 DEF Rested, Live, Place, SizeStates
<1> QED BY <1>6, <1>7

\* The callback for the body: what is marked is handed over.
LEMMA BodyEffect ==
  ASSUME NEW s, NEW n, NEW b, DOMAIN s = Fields, s.marks \in [Datum -> Int], s.http_errno = "OK", Asserted(s)
  PROVE  LET t == CALLBACK_DATA_(s, "body", n, b)
         IN  /\ DOMAIN t = Fields /\ MarksIn(s, t) /\ Called(s, t) /\ t.state = s.state /\ t.marks["body"] < 0
             /\ t.flags = s.flags /\ t.content_length = s.content_length /\ t.num = s.num /\ t.exit = s.exit
             /\ t.last = s.last /\ t.ordered = s.ordered /\ t.asserts = s.asserts /\ t.due = s.due
             /\ t.nread = s.nread /\ t.upgrade = s.upgrade
             /\ t.body = IF s.marks["body"] < 0 THEN s.body ELSE s.body + n
<1>1. PICK a : a = assert(s, s.http_errno = "OK")  OBVIOUS
<1>2. /\ Kept(s, a) /\ a.state = s.state /\ a.http_errno = "OK" /\ a.upgrade = s.upgrade
      /\ a.marks = s.marks /\ a.run = s.run /\ a.nread = s.nread
  BY <1>1, AssertEffect
<1>3. CASE s.marks["body"] < 0
  <2>1. CALLBACK_DATA_(s, "body", n, b) = a  BY <1>1, <1>3 DEF CALLBACK_DATA_
  <2> QED BY <1>2, <1>3, <2>1 DEF Kept, MarksIn, Called
<1>4. CASE ~(s.marks["body"] < 0)
  <2>1. PICK u : u = [Delivered(a, "body", n) EXCEPT !.marks["body"] = -1]  OBVIOUS
  <2>2. /\ DOMAIN u = Fields /\ u.marks = [s.marks EXCEPT !["body"] = -1]
        /\ u.http_errno = "OK" /\ u.run = s.run /\ u.state = s.state /\ u.nread = s.nread /\ u.upgrade = s.upgrade
        /\ u.flags = s.flags /\ u.content_length = s.content_length /\ u.num = s.num /\ u.exit = s.exit
        /\ u.last = s.last /\ u.ordered = s.ordered /\ u.asserts = s.asserts /\ u.due = s.due
        /\ u.body = s.body + n
    BY <1>2, <2>1 DEF Delivered, Kept, Fields
  <2>3. u.marks \in [Datum -> Int] /\ MarksIn(s, u) /\ u.marks["body"] < 0  BY <2>2 DEF MarksIn, Datum
  <2>4. CALLBACK_DATA_(s, "body", n, b) = Answered(u, "body", b)  BY <1>1, <1>4, <2>1 DEF CALLBACK_DATA_
  <2>5. PICK t : t = Answered(u, "body", b)  OBVIOUS
  <2>6. Kept(u, t) /\ MarksIn(u, t) /\ Called(u, t) /\ t.state = u.state /\ t.nread = u.nread
        /\ t.upgrade = u.upgrade
    BY <2>2, <2>3, <2>5, AnsweredEffect
  <2>7. MarksIn(s, t) /\ t.marks["body"] < 0 /\ Called(s, t)  BY <2>2, <2>3, <2>6 DEF MarksIn, Called, Datum
  <2> QED BY <1>4, <2>2, <2>4, <2>5, <2>6, <2>7 DEF Kept
<1> QED BY <1>3, <1>4

\* In a body nothing else is marked.
LEMMA BodyReady ==
  ASSUME NEW s, NEW o, NEW j, Live(s, j, o), s.http_errno = "OK", s.state \in MarkPlaces["body"]
  PROVE  /\ Shape(s) /\ DOMAIN s = Fields /\ Asserted(s) /\ OnlyMarked(s, "body") /\ s.run = 0 /\ (o => InOrder(s))
         /\ s.state \in ChunkStates => s.last = "chunk_header" /\ "F_CHUNKED" \in s.flags
         /\ s.state = "s_body_identity" => s.last = "headers_complete"
         /\ s.state = "s_body_identity_eof" => s.exit \/ s.last = "headers_complete"
         /\ s.state = "s_chunk_data_almost_done" => s.content_length = 0 /\ SeenIn(s, j) = s.due
         /\ s.state \in {"s_chunk_data", "s_body_identity"} =>
                s.content_length \notin {0, ULLONG_MAX} /\ SeenIn(s, j) + s.content_length = s.due
<1>1. Shape(s) /\ Tidy(s) /\ Asserted(s) /\ (o => InOrder(s)) /\ InChunks(s, j) /\ InBody(s, j)
  BY DEF Live, Going, Place
<1>2. \A e \in Datum : e # "body" => s.state \notin MarkPlaces[e]  BY DEF MarkPlaces, UrlStates, Datum
<1>3. \A e \in Datum : s.marks[e] \in Int  BY <1>1 DEF Shape
<1>4. s.state \notin {"s_header_field", "s_header_value"}  BY DEF MarkPlaces
<1>5. OnlyMarked(s, "body") /\ s.run = 0  BY <1>1, <1>2, <1>3, <1>4 DEF Tidy, Looping, OnlyMarked
<1> QED BY <1>1, <1>5 DEF Shape, InChunks, InBody, ChunkStates

\* One more byte of a body of known length.
LEMMA BodyByte ==
  ASSUME NEW s, NEW a, NEW o, Live(s, 0, o), s.http_errno = "OK", s.state \in {"s_chunk_data", "s_body_identity"},
         Kept(s, a), a.state = s.state, a.http_errno = "OK", a.marks = s.marks, a.run = s.run
  PROVE  LET t == [MARK(a, "body") EXCEPT !.content_length = @ - 1]
         IN  /\ DOMAIN t = Fields /\ t.marks \in [Datum -> Int] /\ OnlyMarked(t, "body") /\ t.marks["body"] >= 0
             /\ t.run = 0 /\ t.http_errno = "OK" /\ t.state = s.state /\ t.flags = s.flags
             /\ t.content_length = s.content_length - 1 /\ t.content_length \in 0..(ULLONG_MAX - 1)
             /\ t.last = s.last /\ t.ordered = s.ordered /\ t.asserts = s.asserts
             /\ t.body = s.body /\ t.due = s.due /\ t.body + t.marks["body"] + 1 + t.content_length = t.due
<1>1. s.state \in MarkPlaces["body"]  BY DEF MarkPlaces
<1>2. /\ Shape(s) /\ DOMAIN s = Fields /\ Asserted(s) /\ OnlyMarked(s, "body") /\ s.run = 0
      /\ s.content_length \notin {0, ULLONG_MAX} /\ SeenIn(s, 0) + s.content_length = s.due
  BY <1>1, BodyReady
<1>4. Kept(s, a) /\ a.state = s.state /\ a.http_errno = "OK" /\ a.marks = s.marks /\ a.run = 0  BY <1>2
<1>5. PICK m : m = MARK(a, "body")  OBVIOUS
<1>6. /\ Kept(a, m) /\ m.state = s.state /\ m.http_errno = "OK" /\ m.run = 0
      /\ m.marks = [s.marks EXCEPT !["body"] = IF @ < 0 THEN 0 ELSE @]
  BY <1>2, <1>4, <1>5, MarkEffect DEF Shape, Datum, Kept
<1>7. PICK t : t = [m EXCEPT !.content_length = @ - 1]  OBVIOUS
<1>8. /\ DOMAIN t = Fields /\ t.marks = m.marks /\ t.run = 0 /\ t.http_errno = "OK" /\ t.state = s.state
      /\ t.flags = s.flags /\ t.content_length = s.content_length - 1 /\ t.last = s.last
      /\ t.ordered = s.ordered /\ t.asserts = s.asserts /\ t.body = s.body /\ t.due = s.due
  BY <1>4, <1>6, <1>7 DEF Kept, Fields
<1>9. t.marks \in [Datum -> Int] /\ OnlyMarked(t, "body") /\ t.marks["body"] = IF s.marks["body"] < 0 THEN 0 ELSE s.marks["body"]
  BY <1>2, <1>6, <1>8 DEF Shape, OnlyMarked, Datum
<1>10. /\ t.marks["body"] >= 0 /\ t.content_length \in 0..(ULLONG_MAX - 1)
       /\ t.body + t.marks["body"] + 1 + t.content_length = t.due
  <2>1. s.marks["body"] \in Int /\ s.body \in Int /\ s.due \in Int /\ s.content_length \in 0..ULLONG_MAX
    BY <1>2 DEF Shape, Datum
  <2> QED BY <1>2, <1>8, <1>9, <2>1, WidthAssumption DEF SeenIn
<1> QED BY <1>5, <1>7, <1>8, <1>9, <1>10

\* s_chunk_data
LEMMA ChunkDataStep ==
  ASSUME NEW s, NEW o, Live(s, 0, o), s.http_errno = "OK", s.state = "s_chunk_data"
  PROVE  Rested(ChunkData(s), 1, o)
<1>1. s.state \in MarkPlaces["body"] /\ s.state \in ChunkStates  BY DEF MarkPlaces, ChunkStates
<1>2. /\ Shape(s) /\ Asserted(s) /\ (o => InOrder(s)) /\ s.last = "chunk_header" /\ "F_CHUNKED" \in s.flags
      /\ s.content_length \notin {0, ULLONG_MAX}
  BY <1>1, BodyReady
<1>3. PICK a : a = assert(s, "F_CHUNKED" \in s.flags /\ s.content_length \notin {0, ULLONG_MAX})  OBVIOUS
<1>4. Kept(s, a) /\ a.state = s.state /\ a.http_errno = "OK" /\ a.marks = s.marks /\ a.run = s.run
  BY <1>2, <1>3, AssertEffect DEF Shape
<1>5. PICK t : t = [MARK(a, "body") EXCEPT !.content_length = @ - 1]  OBVIOUS
<1>6. /\ DOMAIN t = Fields /\ t.marks \in [Datum -> Int] /\ OnlyMarked(t, "body") /\ t.marks["body"] >= 0
      /\ t.run = 0 /\ t.http_errno = "OK" /\ t.state = s.state /\ t.flags = s.flags
      /\ t.content_length = s.content_length - 1 /\ t.content_length \in 0..(ULLONG_MAX - 1)
      /\ t.last = s.last /\ t.ordered = s.ordered /\ t.asserts = s.asserts
      /\ t.body = s.body /\ t.due = s.due /\ t.body + t.marks["body"] + 1 + t.content_length = t.due
  BY <1>4, <1>5, BodyByte
<1>7. PICK r : r = ChunkData(s)  OBVIOUS
<1>8. r = IF t.content_length > 0 THEN t ELSE UPDATE_STATE(t, "s_chunk_data_almost_done")
  BY <1>3, <1>5, <1>7 DEF ChunkData
<1>9. /\ Kept(t, r) /\ r.marks = t.marks /\ r.run = 0 /\ r.http_errno = "OK"
      /\ r.state = IF t.content_length > 0 THEN "s_chunk_data" ELSE "s_chunk_data_almost_done"
  BY <1>6, <1>8, StateEffect DEF Kept
<1>10. Shape(r) /\ Asserted(r) /\ (o => InOrder(r)) /\ r.last = "chunk_header" /\ "F_CHUNKED" \in r.flags
  BY <1>2, <1>6, <1>9, WidthAssumption DEF Shape, Asserted, InOrder, Kept
<1>11. Tidy(r)  BY <1>6, <1>9 DEF Tidy, OnlyMarked, Datum, MarkPlaces
<1>12. SeenIn(r, 1) + r.content_length = r.due  BY <1>6, <1>9, <1>10 DEF SeenIn, Kept, Shape, Datum
<1>13. InHead(r) /\ InBody(r, 1)  BY <1>9 DEF InHead, InBody, StartStates, LineStates, HeaderStates
<1>14. InChunks(r, 1)
  <2>1. r.content_length = t.content_length /\ r.body \in Int /\ r.due \in Int /\ r.marks["body"] \in Int
    BY <1>9, <1>10 DEF Kept, Shape, Datum
  <2>2. CASE t.content_length > 0  BY <1>6, <1>9, <1>10, <1>12, <2>1, <2>2 DEF InChunks, SizeStates, ChunkStates
  <2>3. CASE ~(t.content_length > 0)
    <3>1. r.content_length = 0
      <4>1. t.content_length \in Int /\ t.content_length >= 0  BY <1>6, WidthAssumption
      <4> QED BY <2>1, <2>3, <4>1
    <3>2. SeenIn(r, 1) \in Int  BY <2>1 DEF SeenIn
    <3>3. SeenIn(r, 1) = r.due  BY <1>12, <2>1, <3>1, <3>2
    <3> QED BY <1>9, <1>10, <2>3, <3>1, <3>3 DEF InChunks, SizeStates, ChunkStates
  <2> QED BY <2>2, <2>3
<1> QED BY <1>7, <1>9, <1>10, <1>11, <1>13, <1>14 DEF Rested, Live, Place, ChunkStates

\* s_chunk_data_almost_done
LEMMA ChunkDataAlmostDoneStep ==
  ASSUME NEW s, NEW ch, NEW o, NEW k, Live(s, 0, o), s.http_errno = "OK", s.state = "s_chunk_data_almost_done"
  PROVE  Rested(ChunkDataAlmostDone(s, ch), k, o)
<1>1. s.state \in MarkPlaces["body"] /\ s.state \in ChunkStates  BY DEF MarkPlaces, ChunkStates
<1>2. /\ Shape(s) /\ DOMAIN s = Fields /\ Asserted(s) /\ OnlyMarked(s, "body") /\ s.run = 0 /\ (o => InOrder(s))
      /\ s.last = "chunk_header" /\ "F_CHUNKED" \in s.flags /\ s.content_length = 0 /\ SeenIn(s, 0) = s.due
  BY <1>1, BodyReady
<1>3. PICK a : a = assert(s, "F_CHUNKED" \in s.flags /\ s.content_length = 0)  OBVIOUS
<1>4. Kept(s, a) /\ a.state = s.state /\ a.http_errno = "OK" /\ a.marks = s.marks /\ a.run = s.run
  BY <1>2, <1>3, AssertEffect
<1>5. PICK t : t = ChunkDataAlmostDone(s, ch)  OBVIOUS
<1>6. CASE ch # CR
  <2>1. t = SET_ERRNO(a, "STRICT")
    BY <1>3, <1>4, <1>5, <1>6, ErrnoEffect DEF ChunkDataAlmostDone, STRICT_CHECK, Then, Kept
  <2>2. Kept(s, t) /\ t.marks = s.marks /\ ~Going(t) /\ s.last # "message_complete"
    BY <1>2, <1>4, <2>1, ErrnoEffect DEF Kept, Going
  <2> QED BY <1>5, <2>2, Stopped
<1>7. CASE ch = CR
  <2>1. PICK u : u = UPDATE_STATE(a, "s_chunk_data_done")  OBVIOUS
  <2>2. Kept(a, u) /\ u.marks = s.marks /\ u.run = 0 /\ u.http_errno = "OK" /\ u.state = "s_chunk_data_done"
    BY <1>2, <1>4, <2>1, StateEffect DEF Kept
  <2>3. PICK n, b : n = u.marks["body"] /\ b = FALSE  OBVIOUS
  <2>4. t = CALLBACK_DATA_(u, "body", n, b)
    BY <1>3, <1>4, <1>5, <1>7, <2>1, <2>3 DEF ChunkDataAlmostDone, STRICT_CHECK, Then, CALLBACK_DATA
  <2>5. DOMAIN u = Fields /\ u.marks \in [Datum -> Int] /\ Asserted(u)  BY <1>2, <1>4, <2>2 DEF Kept, Shape, Asserted
  <2>6. /\ DOMAIN t = Fields /\ MarksIn(u, t) /\ Called(u, t) /\ t.state = u.state /\ t.marks["body"] < 0
        /\ t.flags = u.flags /\ t.content_length = u.content_length
        /\ t.last = u.last /\ t.ordered = u.ordered /\ t.asserts = u.asserts /\ t.due = u.due
        /\ t.body = IF u.marks["body"] < 0 THEN u.body ELSE u.body + n
    BY <2>2, <2>4, <2>5, BodyEffect
  <2>7. t.body = s.due /\ t.due = s.due
    <3>1. s.marks["body"] \in Int /\ s.body \in Int  BY <1>2 DEF Shape, Datum
    <3> QED BY <1>2, <1>4, <2>2, <2>3, <2>6, <3>1 DEF SeenIn, Kept
  <2>8. Unmarked(t) /\ t.run = 0 /\ t.marks \in [Datum -> Int]
    BY <1>2, <2>2, <2>6 DEF MarksIn, Called, Unmarked, OnlyMarked
  <2>9. Shape(t) /\ Asserted(t) /\ (o => InOrder(t)) /\ t.last = "chunk_header" /\ "F_CHUNKED" \in t.flags
        /\ t.state = "s_chunk_data_done"
    BY <1>2, <1>4, <2>2, <2>6, <2>7, <2>8 DEF Shape, Asserted, InOrder, Kept
  <2>10. Tidy(t)  BY <2>8 DEF Tidy, Unmarked
  <2>11. InHead(t) /\ InChunks(t, k) /\ InBody(t, k)
    BY <2>7, <2>9 DEF InHead, InChunks, InBody, StartStates, LineStates, HeaderStates, SizeStates, ChunkStates
  <2> QED BY <1>5, <2>9, <2>10, <2>11 DEF Rested, Live, Place, ChunkStates
<1> QED BY <1>6, <1>7

\* s_body_identity: with the last byte the body is handed over and the message
\* is complete.
LEMMA BodyIdentityStep ==
  ASSUME NEW s, NEW o, Live(s, 0, o), s.http_errno = "OK", s.state = "s_body_identity"
  PROVE  Rested(BodyIdentity(s), 1, o)
<1>1. s.state \in MarkPlaces["body"]  BY DEF MarkPlaces
<1>2. /\ Shape(s) /\ Asserted(s) /\ (o => InOrder(s)) /\ s.last = "headers_complete"
      /\ s.content_length \notin {0, ULLONG_MAX}
  BY <1>1, BodyReady
<1>3. PICK a : a = assert(s, s.content_length \notin {0, ULLONG_MAX})  OBVIOUS
<1>4. Kept(s, a) /\ a.state = s.state /\ a.http_errno = "OK" /\ a.marks = s.marks /\ a.run = s.run
  BY <1>2, <1>3, AssertEffect DEF Shape
<1>5. PICK t : t = [MARK(a, "body") EXCEPT !.content_length = @ - 1]  OBVIOUS
<1>6. /\ DOMAIN t = Fields /\ t.marks \in [Datum -> Int] /\ OnlyMarked(t, "body") /\ t.marks["body"] >= 0
      /\ t.run = 0 /\ t.http_errno = "OK" /\ t.state = s.state /\ t.flags = s.flags
      /\ t.content_length = s.content_length - 1 /\ t.content_length \in 0..(ULLONG_MAX - 1)
      /\ t.last = s.last /\ t.ordered = s.ordered /\ t.asserts = s.asserts
      /\ t.body = s.body /\ t.due = s.due /\ t.body + t.marks["body"] + 1 + t.content_length = t.due
  BY <1>4, <1>5, BodyByte
<1>7. Shape(t) /\ Asserted(t) /\ (o => InOrder(t)) /\ t.last = "headers_complete"
  BY <1>2, <1>6, WidthAssumption DEF Shape, Asserted, InOrder
<1>8. CASE t.content_length > 0
  <2>1. Tidy(t)  BY <1>6 DEF Tidy, OnlyMarked, Datum, MarkPlaces
  <2>2. SeenIn(t, 1) + t.content_length = t.due  BY <1>6, <1>7 DEF SeenIn, Shape, Datum
  <2>3. InHead(t) /\ InChunks(t, 1)  BY <1>6 DEF InHead, InChunks, LineStates, HeaderStates, SizeStates, ChunkStates
  <2>4. t.content_length \notin {0, ULLONG_MAX}  BY <1>6, <1>8, WidthAssumption
  <2>5. InBody(t, 1)  BY <1>6, <1>7, <2>2, <2>4 DEF InBody, StartStates
  <2>6. Rested(t, 1, o)  BY <1>6, <1>7, <2>1, <2>3, <2>5 DEF Rested, Live, Place
  <2>7. BodyIdentity(s) = t  BY <1>3, <1>5, <1>8 DEF BodyIdentity
  <2> QED BY <2>6, <2>7
<1>9. CASE ~(t.content_length > 0)
  <2>1. PICK u : u = UPDATE_STATE(t, "s_message_done")  OBVIOUS
  <2>2. Kept(t, u) /\ u.marks = t.marks /\ u.run = 0 /\ u.http_errno = "OK" /\ u.state = "s_message_done"
    BY <1>6, <2>1, StateEffect
  <2>3. PICK n, b : n = t.marks["body"] + 1 /\ b = TRUE  OBVIOUS
  <2>4. PICK c : c = CALLBACK_DATA_(u, "body", n, b)  OBVIOUS
  <2>5. DOMAIN u = Fields /\ u.marks \in [Datum -> Int] /\ Asserted(u) /\ OnlyMarked(u, "body")
    BY <1>6, <1>7, <2>2 DEF Kept, Asserted, OnlyMarked
  <2>6. /\ DOMAIN c = Fields /\ MarksIn(u, c) /\ Called(u, c) /\ c.state = u.state /\ c.marks["body"] < 0
        /\ c.flags = u.flags /\ c.content_length = u.content_length
        /\ c.last = u.last /\ c.ordered = u.ordered /\ c.asserts = u.asserts /\ c.due = u.due
        /\ c.body = IF u.marks["body"] < 0 THEN u.body ELSE u.body + n
    BY <2>2, <2>4, <2>5, BodyEffect
  <2>7. c.body = t.due /\ c.due = t.due
    <3>1. t.marks["body"] \in Int /\ t.body \in Int  BY <1>7 DEF Shape, Datum
    <3>2. t.content_length \in Int /\ t.content_length >= 0  BY <1>6, WidthAssumption
    <3>3. t.content_length = 0  BY <1>9, <3>2
    <3> QED BY <1>6, <2>2, <2>3, <2>6, <3>1, <3>3 DEF Kept
  <2>8. Unmarked(c) /\ c.run = 0 /\ c.marks \in [Datum -> Int]
    BY <2>2, <2>5, <2>6 DEF MarksIn, Called, Unmarked, OnlyMarked
  <2>9. Shape(c) /\ Asserted(c) /\ (o => InOrder(c)) /\ c.last = "headers_complete" /\ c.state = "s_message_done"
    BY <1>7, <2>2, <2>6, <2>7, <2>8 DEF Shape, Asserted, InOrder, Kept
  <2>10. Tidy(c)  BY <2>8 DEF Tidy, Unmarked
  <2>11. InHead(c) /\ InChunks(c, 1) /\ InBody(c, 1)
    BY <2>7, <2>9 DEF InHead, InChunks, InBody, StartStates, LineStates, HeaderStates, SizeStates, ChunkStates
  <2>12. Rested(c, 1, o)  BY <2>9, <2>10, <2>11 DEF Rested, Live, Place
  <2>13. c.http_errno = "OK" => Rested(MessageDone(c), 1, o)  BY <2>9, <2>12, MessageDoneStep DEF Rested
  <2>14. BodyIdentity(s) = IF c.http_errno = "OK" THEN MessageDone(c) ELSE c
    <3>1. BodyIdentity(s) = Then(CALLBACK_DATA_(u, "body", t.marks["body"] + 1, TRUE), MessageDone)
      BY <1>3, <1>5, <1>9, <2>1 DEF BodyIdentity
    <3>2. c = CALLBACK_DATA_(u, "body", t.marks["body"] + 1, TRUE)  BY <2>3, <2>4
    <3> QED BY <3>1, <3>2 DEF Then
  <2> QED BY <2>12, <2>13, <2>14
<1> QED BY <1>8, <1>9

\* s_body_identity_eof: the body goes on to the end of the input.
LEMMA BodyEofStep ==
  ASSUME NEW s, NEW o, NEW k, Live(s, 0, o), s.http_errno = "OK", s.state = "s_body_identity_eof"
  PROVE  Rested(MARK(s, "body"), k, o)
<1>1. s.state \in MarkPlaces["body"]  BY DEF MarkPlaces
<1>2. /\ Shape(s) /\ DOMAIN s = Fields /\ Asserted(s) /\ OnlyMarked(s, "body") /\ s.run = 0 /\ (o => InOrder(s))
      /\ s.exit \/ s.last = "headers_complete"
  BY <1>1, BodyReady
<1>3. PICK t : t = MARK(s, "body")  OBVIOUS
<1>4. /\ Kept(s, t) /\ t.state = s.state /\ t.run = 0 /\ t.http_errno = "OK"
      /\ t.marks = [s.marks EXCEPT !["body"] = IF @ < 0 THEN 0 ELSE @]
  BY <1>2, <1>3, MarkEffect DEF Shape, Datum
<1>5. t.marks \in [Datum -> Int] /\ OnlyMarked(t, "body")  BY <1>2, <1>4 DEF Shape, OnlyMarked, Datum
<1>6. Shape(t) /\ Asserted(t) /\ (o => InOrder(t))  BY <1>2, <1>4, <1>5 DEF Shape, Asserted, InOrder, Kept
<1>7. Tidy(t)  BY <1>4, <1>5 DEF Tidy, OnlyMarked, Datum, MarkPlaces
<1>8. InHead(t) /\ InChunks(t, k)  BY <1>4 DEF InHead, InChunks, LineStates, HeaderStates, SizeStates, ChunkStates
<1>9. InBody(t, k)  BY <1>2, <1>4 DEF InBody, StartStates, Kept
<1> QED BY <1>3, <1>4, <1>6, <1>7, <1>8, <1>9 DEF Rested, Live, Place

-----------------------------------------------------------------------------
\* A round of the loop.

\* The switch knows every state the parser is in, and each case leaves it in
\* order.
LEMMA SwitchStep ==
  ASSUME NEW s, NEW ch, NEW o, Live(s, 0, o), s.http_errno = "OK", s.state = "s_chunk_size_start" => s.nread = 1
  PROVE  Rested(Switch(s, ch), 1, o)
<1>0. DOMAIN Letters = {"s_res_H", "s_res_HT", "s_res_HTT", "s_res_HTTP", "s_req_http_H", "s_req_http_HT",
                        "s_req_http_HTT", "s_req_http_HTTP"}
  BY DEF Letters
<1> USE <1>0 DEF ResVersionStates, ReqVersionStates, UrlStates
<1>50. /\ {"s_res_line_almost_done", "s_req_line_almost_done", "s_header_value_discard_ws_almost_done",
          "s_header_almost_done"} \subseteq PlainStates
      /\ {"s_header_field_start", "s_header_value_discard_lws", "s_header_value_lws"}
            \subseteq HeaderStates \ {"s_header_field", "s_header_value"}
  BY DEF PlainStates, LineStates, HeaderStates, UrlStates
<1>51. PICK k : k = 1  OBVIOUS
<1>1. CASE s.state = "s_dead"
  <2>1. Switch(s, ch) = IF ch \in {CR, LF} THEN s ELSE SET_ERRNO(s, "CLOSED_CONNECTION")  BY <1>1 DEF Switch
  <2> QED BY <1>1, <1>51, <2>1, DeadStep
<1>2. CASE s.state = "s_start_req_or_res"
  <2>1. Switch(s, ch) = StartReqOrRes(s, ch)  BY <1>2 DEF Switch
  <2> QED BY <1>2, <1>51, <2>1, StartReqOrResStep
<1>3. CASE s.state = "s_res_or_resp_H"
  <2>1. Switch(s, ch) = ResOrRespH(s, ch)  BY <1>3 DEF Switch
  <2> QED BY <1>3, <1>51, <2>1, ResOrRespHStep
<1>4. CASE s.state = "s_start_res"
  <2>1. Switch(s, ch) = StartRes(s, ch)  BY <1>4 DEF Switch
  <2> QED BY <1>4, <1>51, <2>1, StartResStep
<1>5. CASE s.state \in DOMAIN Letters
  <2>1. Switch(s, ch) = Letter(s, ch)  BY <1>5 DEF Switch
  <2> QED BY <1>5, <1>51, <2>1, LetterStep
<1>6. CASE s.state \in ResVersionStates
  <2>1. Switch(s, ch) = ResVersion(s, ch)  BY <1>6 DEF Switch
  <2> QED BY <1>6, <1>51, <2>1, ResVersionStep
<1>7. CASE s.state \in ReqVersionStates
  <2>1. Switch(s, ch) = ReqVersion(s, ch)  BY <1>7 DEF Switch
  <2> QED BY <1>7, <1>51, <2>1, ReqVersionStep
<1>8. CASE s.state \in {"s_res_first_status_code", "s_res_status_code"}
  <2>1. Switch(s, ch) = StatusCode(s, ch)  BY <1>8 DEF Switch
  <2> QED BY <1>8, <1>51, <2>1, StatusCodeStep
<1>9. CASE s.state \in {"s_res_status_start", "s_res_status"}
  <2>1. Switch(s, ch) = StatusText(s, ch)  BY <1>9 DEF Switch
  <2> QED BY <1>9, <1>51, <2>1, StatusTextStep
<1>10. CASE s.state = "s_res_line_almost_done"
  <2>1. Switch(s, ch) = Then(STRICT_CHECK(s, ch, LF), LAMBDA t : UPDATE_STATE(t, "s_header_field_start"))
    BY <1>10 DEF Switch
  <2>2. PICK x : x = "s_header_field_start"  OBVIOUS
  <2>3. Rested(Then(STRICT_CHECK(s, ch, LF), LAMBDA t : UPDATE_STATE(t, x)), k, o)
    BY <1>10, <1>50, <2>2, LineEndStep DEF Then
  <2> QED BY <1>51, <2>1, <2>2, <2>3
<1>11. CASE s.state = "s_start_req"
  <2>1. Switch(s, ch) = StartReq(s, ch)  BY <1>11 DEF Switch
  <2>2. /\ s.state \in StartStates /\ DOMAIN s = Fields /\ s.content_length \in 0..ULLONG_MAX
    BY <1>11 DEF StartStates, Live, Shape
  <2> QED BY <1>11, <1>51, <2>1, <2>2, StartReqStep
<1>12. CASE s.state = "s_req_method"
  <2>1. Switch(s, ch) = ReqMethod(s, ch)  BY <1>12 DEF Switch
  <2> QED BY <1>12, <1>51, <2>1, ReqMethodStep
<1>13. CASE s.state = "s_req_spaces_before_url"
  <2>1. Switch(s, ch) = SpacesBeforeUrl(s, ch)  BY <1>13 DEF Switch
  <2> QED BY <1>13, <1>51, <2>1, SpacesBeforeUrlStep
<1>14. CASE s.state \in UrlStates
  <2>1. Switch(s, ch) = UrlStateByte(s, ch)  BY <1>14 DEF Switch
  <2> QED BY <1>14, <1>51, <2>1, UrlStateByteStep
<1>15. CASE s.state = "s_req_http_start"
  <2>1. Switch(s, ch) = ReqHttpStart(s, ch)  BY <1>15 DEF Switch
  <2> QED BY <1>15, <1>51, <2>1, ReqHttpStartStep
<1>16. CASE s.state = "s_req_line_almost_done"
  <2>1. Switch(s, ch) = LineAlmostDone(s, ch, "s_header_field_start")  BY <1>16 DEF Switch
  <2>2. Rested(LineAlmostDone(s, ch, "s_header_field_start"), k, o)  BY <1>16, <1>50, LineEndStep
  <2> QED BY <1>51, <2>1, <2>2
<1>17. CASE s.state = "s_header_field_start"
  <2>1. Switch(s, ch) = HeaderFieldStart(s, ch)  BY <1>17 DEF Switch
  <2> QED BY <1>17, <1>51, <2>1, HeaderFieldStartStep
<1>18. CASE s.state = "s_header_field"
  <2>1. Switch(s, ch) = HeaderField(s, ch)  BY <1>18 DEF Switch
  <2> QED BY <1>18, <1>51, <2>1, HeaderFieldStep
<1>19. CASE s.state = "s_header_value_discard_ws"
  <2>1. Switch(s, ch) = DiscardWs(s, ch)  BY <1>19 DEF Switch
  <2> QED BY <1>19, <1>51, <2>1, DiscardWsStep
<1>20. CASE s.state = "s_header_value_discard_ws_almost_done"
  <2>1. Switch(s, ch) = Then(STRICT_CHECK(s, ch, LF), LAMBDA t : UPDATE_STATE(t, "s_header_value_discard_lws"))
    BY <1>20 DEF Switch
  <2>2. PICK x : x = "s_header_value_discard_lws"  OBVIOUS
  <2>3. Rested(Then(STRICT_CHECK(s, ch, LF), LAMBDA t : UPDATE_STATE(t, x)), k, o)
    BY <1>20, <1>50, <2>2, LineEndStep DEF Then
  <2> QED BY <1>51, <2>1, <2>2, <2>3
<1>21. CASE s.state = "s_header_value_discard_lws"
  <2>1. Switch(s, ch) = DiscardLws(s, ch)  BY <1>21 DEF Switch
  <2> QED BY <1>21, <1>51, <2>1, DiscardLwsStep
<1>22. CASE s.state = "s_header_value"
  <2>1. Switch(s, ch) = HeaderValue(s, ch)  BY <1>22 DEF Switch
  <2> QED BY <1>22, <1>51, <2>1, HeaderValueStep
<1>23. CASE s.state = "s_header_almost_done"
  <2>1. Switch(s, ch) = LineAlmostDone(s, ch, "s_header_value_lws")  BY <1>23 DEF Switch
  <2>2. Rested(LineAlmostDone(s, ch, "s_header_value_lws"), k, o)  BY <1>23, <1>50, LineEndStep
  <2> QED BY <1>51, <2>1, <2>2
<1>24. CASE s.state = "s_header_value_lws"
  <2>1. Switch(s, ch) = HeaderValueLws(s, ch)  BY <1>24 DEF Switch
  <2> QED BY <1>24, <1>51, <2>1, HeaderValueLwsStep
<1>25. CASE s.state = "s_headers_almost_done"
  <2>1. Switch(s, ch) = HeadersAlmostDone(s, ch)  BY <1>25 DEF Switch
  <2> QED BY <1>25, <1>51, <2>1, HeadersAlmostDoneStep
<1>26. CASE s.state = "s_headers_done"
  <2>1. Switch(s, ch) = HeadersDone(s, ch)  BY <1>26 DEF Switch
  <2> QED BY <1>26, <1>51, <2>1, HeadersDoneStep
<1>27. CASE s.state = "s_chunk_size_start"
  <2>1. Switch(s, ch) = ChunkSizeStart(s, ch)  BY <1>27 DEF Switch
  <2> QED BY <1>27, <1>51, <2>1, ChunkSizeStartStep
<1>28. CASE s.state = "s_chunk_size"
  <2>1. Switch(s, ch) = ChunkSize(s, ch)  BY <1>28 DEF Switch
  <2> QED BY <1>28, <1>51, <2>1, ChunkSizeStep
<1>29. CASE s.state = "s_chunk_parameters"
  <2>1. Switch(s, ch) = ChunkParameters(s, ch)  BY <1>29 DEF Switch
  <2> QED BY <1>29, <1>51, <2>1, ChunkParametersStep
<1>30. CASE s.state = "s_chunk_size_almost_done"
  <2>1. Switch(s, ch) = ChunkSizeAlmostDone(s, ch)  BY <1>30 DEF Switch
  <2> QED BY <1>30, <1>51, <2>1, ChunkSizeAlmostDoneStep
<1>31. CASE s.state = "s_chunk_data"
  <2>1. Switch(s, ch) = ChunkData(s)  BY <1>31 DEF Switch
  <2> QED BY <1>31, <1>51, <2>1, ChunkDataStep
<1>32. CASE s.state = "s_chunk_data_almost_done"
  <2>1. Switch(s, ch) = ChunkDataAlmostDone(s, ch)  BY <1>32 DEF Switch
  <2> QED BY <1>32, <1>51, <2>1, ChunkDataAlmostDoneStep
<1>33. CASE s.state = "s_chunk_data_done"
  <2>1. Switch(s, ch) = ChunkDataDone(s, ch)  BY <1>33 DEF Switch
  <2> QED BY <1>33, <1>51, <2>1, ChunkDataDoneStep
<1>34. CASE s.state = "s_body_identity"
  <2>1. Switch(s, ch) = BodyIdentity(s)  BY <1>34 DEF Switch
  <2> QED BY <1>34, <1>51, <2>1, BodyIdentityStep
<1>35. CASE s.state = "s_body_identity_eof"
  <2>1. Switch(s, ch) = MARK(s, "body")  BY <1>35 DEF Switch
  <2> QED BY <1>35, <1>51, <2>1, BodyEofStep
<1>36. CASE s.state = "s_message_done"
  <2>1. Switch(s, ch) = MessageDone(s)  BY <1>36 DEF Switch
  <2> QED BY <1>36, <1>51, <2>1, MessageDoneStep
<1>37. s.state \in StartStates \cup LineStates \cup HeaderStates \cup SizeStates \cup ChunkStates
                   \cup {"s_headers_done", "s_body_identity", "s_body_identity_eof", "s_message_done"}
  BY DEF Live, Going, Place
<1> QED BY <1>1, <1>2, <1>3, <1>4, <1>5, <1>6, <1>7, <1>8, <1>9, <1>10, <1>11, <1>12, <1>13, <1>14, <1>15,
          <1>16, <1>17, <1>18, <1>19, <1>20, <1>21, <1>22, <1>23, <1>24, <1>25, <1>26, <1>27,
          <1>28, <1>29, <1>30, <1>31, <1>32, <1>33, <1>34, <1>35, <1>36, <1>37
    DEF StartStates, LineStates, HeaderStates, SizeStates, ChunkStates

\* The invariant says nothing of the other fields; an exit and the end of a
\* pause do not disturb it.
LEMMA LiveSame ==
  ASSUME NEW s, NEW t, NEW j, NEW o, Live(s, j, o),
         DOMAIN t = Fields, t.state = s.state, t.header_state = s.header_state, t.marks = s.marks, t.run = s.run,
         t.flags = s.flags, t.content_length = s.content_length, t.num = s.num, t.last = s.last,
         t.ordered = s.ordered, t.asserts = s.asserts, t.body = s.body, t.due = s.due, s.exit => t.exit,
         Going(t) => Going(s), t.http_errno = "PAUSED" => s.http_errno = "PAUSED", Skips(t) => Skips(s)
  PROVE  Live(t, j, o)
<1>1. Shape(t) /\ Asserted(t) /\ (o => InOrder(t))  BY DEF Live, Shape, Asserted, InOrder
<1>2. t.last = "message_complete" /\ t.state # "s_body_identity_eof" => t.marks["body"] < 0 /\ t.body = t.due
  BY DEF Live
<1>3. ASSUME Going(t) PROVE Place(t, j)
  <2>1. Place(s, j)  BY <1>3 DEF Live
  <2>2. Tidy(t)  BY <2>1 DEF Place, Tidy, Looping, Unmarked
  <2>3. InHead(t)  BY <2>1 DEF Place, InHead
  <2>4. SeenIn(t, j) = SeenIn(s, j)  BY DEF SeenIn
  <2>5. InChunks(t, j)  BY <2>1, <2>4 DEF Place, InChunks
  <2>6. InBody(t, j)  BY <2>1, <2>4 DEF Place, InBody
  <2> QED BY <2>1, <2>2, <2>3, <2>5, <2>6 DEF Place
<1> QED BY <1>1, <1>2, <1>3 DEF Live

\* An error stops the parser where it is.
LEMMA Frozen ==
  ASSUME NEW s, NEW t, NEW j, NEW k, NEW o, Live(s, j, o), Kept(s, t), t.state = s.state, t.marks = s.marks, ~Going(t)
  PROVE  Rested(t, k, o)
<1>1. Shape(t) /\ Asserted(t) /\ (o => InOrder(t))  BY DEF Live, Shape, Asserted, InOrder, Kept
<1>2. t.last = "message_complete" /\ t.state # "s_body_identity_eof" => t.marks["body"] < 0 /\ t.body = t.due
  BY DEF Live, Kept
<1> QED BY <1>1, <1>2 DEF Rested, Live

\* It takes the invariant from inside a round to between rounds.
LEMMA PassedStep ==
  ASSUME NEW t, NEW o, Rested(t, 1, o)
  PROVE  Rested(Passed(t), 0, o)
<1>1. Live(t, 1, o) /\ Shape(t) /\ DOMAIN t = Fields  BY DEF Rested, Live, Shape
<1>2. PICK m : m = [d \in Datum |-> IF t.marks[d] < 0 THEN -1 ELSE t.marks[d] + 1]  OBVIOUS
<1>3. PICK r : r = Passed(t)  OBVIOUS
<1>4. r = [t EXCEPT !.answer = NoAnswer, !.marks = m]  BY <1>1, <1>2, <1>3 DEF Passed, Fields
<1>5. /\ Kept(t, r) /\ r.state = t.state /\ r.header_state = t.header_state /\ r.run = t.run
      /\ r.http_errno = t.http_errno /\ r.nread = t.nread /\ r.marks = m /\ r.skip = t.skip
  BY <1>1, <1>4 DEF Kept, Fields
<1>6. /\ r.marks \in [Datum -> Int]
      /\ \A d \in Datum : r.marks[d] < 0 <=> t.marks[d] < 0
      /\ \A d \in Datum : r.marks[d] >= 0 => r.marks[d] = t.marks[d] + 1 /\ t.marks[d] >= 0
  <2>1. \A d \in Datum : t.marks[d] \in Int  BY <1>1 DEF Shape
  <2> QED BY <1>2, <1>5, <2>1
<1>7. Shape(r) /\ Asserted(r) /\ (o => InOrder(r))  BY <1>1, <1>5, <1>6 DEF Live, Shape, Asserted, InOrder, Kept
<1>8. "body" \in Datum  BY DEF Datum
<1>9. r.last = "message_complete" /\ r.state # "s_body_identity_eof" => r.marks["body"] < 0 /\ r.body = r.due
  BY <1>1, <1>5, <1>6, <1>8 DEF Live, Kept
<1>10. ASSUME Going(r) PROVE Place(r, 0) /\ (r.state = "s_chunk_size_start" => r.nread = 0)
  <2>1. Place(t, 1) /\ (t.state = "s_chunk_size_start" => t.nread = 0)  BY <1>1, <1>5, <1>10 DEF Live, Going, Rested
  <2>2. Tidy(r)  BY <1>5, <1>6, <2>1 DEF Place, Tidy, Looping, Skips, Unmarked
  <2>3. InHead(r)  BY <1>5, <2>1 DEF Place, InHead, Kept
  <2>4. SeenIn(r, 0) = SeenIn(t, 1)
    <3>1. t.body \in Int /\ t.marks["body"] \in Int /\ r.marks["body"] \in Int /\ r.body = t.body
      BY <1>1, <1>5, <1>6, <1>8 DEF Shape, Kept
    <3> QED BY <1>6, <1>8, <3>1 DEF SeenIn
  <2>5. InChunks(r, 0)  BY <1>5, <2>1, <2>4 DEF Place, InChunks, Kept
  <2>6. InBody(r, 0)  BY <1>5, <2>1, <2>4 DEF Place, InBody, Kept
  <2> QED BY <1>5, <2>1, <2>2, <2>3, <2>5, <2>6 DEF Place
<1> QED BY <1>3, <1>7, <1>9, <1>10 DEF Rested, Live

\* One byte.
LEMMA ParseByteStep ==
  ASSUME NEW s0, NEW ch, NEW a, NEW o, Rested(s0, 0, o)
  PROVE  Rested(ParseByte(s0, ch, a), 0, o)
<1>1. CASE s0.http_errno # "OK"  BY <1>1 DEF ParseByte
<1>2. CASE s0.http_errno = "OK"
  <2>1. Live(s0, 0, o) /\ DOMAIN s0 = Fields /\ (s0.state = "s_chunk_size_start" => s0.nread = 0 /\ s0.run = 0)
    BY <1>2 DEF Rested, Live, Shape, Going, Place, Tidy, Looping
  <2>2. PICK x : x = IF s0.held THEN s0.out ELSE <<>>  OBVIOUS
  <2>3. PICK s : s = [s0 EXCEPT !.answer = a, !.held = FALSE, !.out = x]  OBVIOUS
  <2>4. /\ Kept(s0, s) /\ s.state = s0.state /\ s.header_state = s0.header_state /\ s.marks = s0.marks
        /\ s.run = s0.run /\ s.http_errno = "OK" /\ s.nread = s0.nread /\ (Skips(s) => Skips(s0))
    BY <1>2, <2>1, <2>3 DEF Kept, Fields, Skips
  <2>5. Live(s, 0, o)  BY <1>2, <2>1, <2>4, LiveSame DEF Kept, Going
  <2>6. PICK c : c = IF PARSING_HEADER(s.state) /\ s.run = 0 THEN COUNT_HEADER_SIZE(s, 1) ELSE s  OBVIOUS
  <2>7. /\ Kept(s, c) /\ c.state = s.state /\ c.header_state = s.header_state /\ c.run = s.run
        /\ c.marks = s.marks /\ c.http_errno \in {"OK", "HEADER_OVERFLOW"} /\ (Skips(c) => Skips(s))
        /\ c.state = "s_chunk_size_start" => c.nread = 1
    <3>1. CASE PARSING_HEADER(s.state) /\ s.run = 0  BY <2>1, <2>4, <2>6, <3>1, CountEffect DEF Kept
    <3>2. CASE ~(PARSING_HEADER(s.state) /\ s.run = 0)
      <4>1. s.state # "s_chunk_size_start"  BY <2>1, <2>4, <3>2 DEF PARSING_HEADER, BodyStates
      <4> QED BY <2>4, <2>6, <3>2, <4>1 DEF Kept
    <3> QED BY <3>1, <3>2
  <2>8. PICK t : t = Then(c, LAMBDA r : Switch(r, ch))  OBVIOUS
  <2>9. Rested(t, 1, o)
    <3>1. CASE c.http_errno = "OK"
      <4>1. Live(c, 0, o)  BY <2>4, <2>5, <2>7, <3>1, LiveSame DEF Kept, Going
      <4>2. Rested(Switch(c, ch), 1, o)  BY <2>7, <3>1, <4>1, SwitchStep
      <4> QED BY <2>8, <3>1, <4>2 DEF Then
    <3>2. CASE c.http_errno # "OK"
      <4>1. ~Going(c) /\ t = c  BY <2>7, <2>8, <3>2 DEF Going, Then
      <4>2. PICK k : k = 1  OBVIOUS
      <4>3. Rested(c, k, o)  BY <2>5, <2>7, <4>1, Frozen
      <4> QED BY <4>1, <4>2, <4>3
    <3> QED BY <3>1, <3>2
  <2>10. Rested(Passed(t), 0, o)  BY <2>9, PassedStep
  <2>11. ParseByte(s0, ch, a) = Passed(t)
    <3>1. s = [s0 EXCEPT !.answer = a, !.held = FALSE, !.out = IF s0.held THEN @ ELSE <<>>]
      BY <2>1, <2>2, <2>3 DEF Fields
    <3> QED BY <1>2, <2>6, <2>8, <3>1 DEF ParseByte, Passed
  <2> QED BY <2>10, <2>11
<1> QED BY <1>1, <1>2

-----------------------------------------------------------------------------
\* The ends of a buffer and of the input.

\* At most one datum is marked, as http_parser_execute asserts before it
\* delivers the rest of a buffer.
LEMMA OneMark ==
  ASSUME NEW s, NEW j, NEW o, Live(s, j, o), s.http_errno = "OK"
  PROVE  \A d, e \in {c \in Datum : s.marks[c] >= 0} : d = e
<1>1. \A d \in Datum : s.marks[d] >= 0 => s.state \in MarkPlaces[d]  BY DEF Live, Going, Place, Tidy
<1>2. \A d, e \in Datum : d # e => MarkPlaces[d] \cap MarkPlaces[e] = {}  BY DEF MarkPlaces, Datum, UrlStates
<1> QED BY <1>1, <1>2

\* What is marked is handed over: nothing else of the place changes.
LEMMA HandedOver ==
  ASSUME NEW s, NEW t, NEW o, Rested(s, 0, o), s.http_errno = "OK",
         DOMAIN t = Fields, t.marks \in [Datum -> Int], Unmarked(t), t.state = s.state,
         t.run = 0,
         t.header_state = s.header_state \/ s.state \in MarkPlaces["body"],
         t.flags = s.flags, t.content_length = s.content_length, t.num = s.num, t.last = s.last,
         t.ordered = s.ordered, t.asserts = s.asserts, t.due = s.due, t.exit = s.exit, t.body = SeenIn(s, 0),
         t.state = "s_chunk_size_start" => t.nread = s.nread
  PROVE  Rested(t, 0, o)
<1>1. /\ Shape(s) /\ Asserted(s) /\ (o => InOrder(s)) /\ Tidy(s) /\ InHead(s) /\ InChunks(s, 0) /\ InBody(s, 0)
      /\ Place(s, 0)
      /\ s.last = "message_complete" /\ s.state # "s_body_identity_eof" => s.marks["body"] < 0 /\ s.body = s.due
      /\ s.state = "s_chunk_size_start" => s.nread = 0
  BY DEF Rested, Live, Going, Place
<1>2. s.marks["body"] \in Int /\ s.body \in Int /\ s.due \in Int /\ "body" \in Datum /\ SeenIn(s, 0) \in Int
  BY <1>1 DEF Shape, Datum, SeenIn
<1>3. s.marks["body"] < 0 => t.body = s.body  BY <1>2 DEF SeenIn
<1>4. s.state \notin MarkPlaces["body"] => t.body = s.body  BY <1>1, <1>2, <1>3 DEF Tidy
<1>5. SeenIn(t, 0) = SeenIn(s, 0) /\ t.marks["body"] < 0  BY <1>2 DEF SeenIn, Unmarked
<1>6. Shape(t) /\ Asserted(t) /\ (o => InOrder(t))  BY <1>1, <1>2 DEF Shape, Asserted, InOrder
<1>7. t.last = "message_complete" /\ t.state # "s_body_identity_eof" => t.marks["body"] < 0 /\ t.body = t.due
  BY <1>1, <1>3, <1>5
<1>8. Tidy(t)  BY DEF Tidy, Unmarked
<1>9. InHead(t)  BY <1>1, <1>4 DEF InHead, LineStates, HeaderStates, MarkPlaces
<1>10. InChunks(t, 0)  BY <1>1, <1>4, <1>5 DEF InChunks, SizeStates, ChunkStates, MarkPlaces
<1>11. InBody(t, 0)  BY <1>1, <1>4, <1>5 DEF InBody, StartStates, MarkPlaces
<1>12. Place(t, 0)  BY <1>1, <1>8, <1>9, <1>10, <1>11 DEF Place
<1> QED BY <1>1, <1>6, <1>7, <1>12 DEF Rested, Live

\* The end of a buffer.
LEMMA EndBufferStep ==
  ASSUME NEW s0, NEW x, NEW o, Rested(s0, 0, o)
  PROVE  LET t == EndBuffer(s0, x)
         IN  Rested(t, 0, o) /\ (t.http_errno = "OK" => Unmarked(t) /\ t.exit = s0.exit)
<1>1. CASE s0.http_errno # "OK"  BY <1>1 DEF EndBuffer
<1>2. CASE s0.http_errno = "OK"
  <2>1. /\ Live(s0, 0, o) /\ Shape(s0) /\ DOMAIN s0 = Fields /\ Asserted(s0) /\ Tidy(s0)
        /\ (s0.state = "s_chunk_size_start" => s0.nread = 0)
    BY <1>2 DEF Rested, Live, Shape, Going, Place
  <2>2. PICK u : u = [s0 EXCEPT !.answer = x]  OBVIOUS
  <2>3. /\ Kept(s0, u) /\ u.state = s0.state /\ u.header_state = s0.header_state /\ u.marks = s0.marks
        /\ u.run = s0.run /\ u.http_errno = "OK" /\ u.nread = s0.nread
    BY <1>2, <2>1, <2>2 DEF Kept, Fields
  <2>4. PICK M : M = {d \in Datum : s0.marks[d] >= 0}  OBVIOUS
  <2>5. \A d, e \in M : d = e  BY <1>2, <2>1, <2>4, OneMark
  <2>6. PICK s : s = assert(u, \A d, e \in M : d = e)  OBVIOUS
  <2>7. /\ Kept(u, s) /\ s.state = s0.state /\ s.header_state = s0.header_state /\ s.marks = s0.marks
        /\ s.run = s0.run /\ s.http_errno = "OK" /\ s.nread = s0.nread
    <3>1. DOMAIN u = Fields /\ Asserted(u)  BY <2>1, <2>3 DEF Kept, Asserted
    <3>2. PICK h : h = (\A d, e \in M : d = e)  OBVIOUS
    <3>3. h = TRUE  BY <2>5, <3>2
    <3>4. s = assert(u, h)  BY <2>6, <3>2
    <3>5. Kept(u, s) /\ s.state = u.state /\ s.http_errno = u.http_errno /\ s.header_state = u.header_state
          /\ s.marks = u.marks /\ s.run = u.run /\ s.nread = u.nread
      BY <3>1, <3>3, <3>4, AssertEffect
    <3> QED BY <2>3, <3>5
  <2>8. PICK c : c = IF s.run > 0 THEN COUNT_HEADER_SIZE(s, s.run) ELSE s  OBVIOUS
  <2>9. /\ Kept(s, c) /\ c.state = s0.state /\ c.header_state = s0.header_state /\ c.marks = s0.marks
        /\ c.http_errno \in {"OK", "HEADER_OVERFLOW"} /\ c.run = 0
        /\ s0.run = 0 => c.nread = s0.nread
    <3>1. CASE s.run > 0  BY <2>7, <2>8, <3>1, CountEffect DEF Kept
    <3>2. CASE ~(s.run > 0)  BY <2>1, <2>7, <2>8, <3>2 DEF Kept, Tidy, Looping
    <3> QED BY <3>1, <3>2
  <2>10. PICK t : t = Then(c, LAMBDA r : IF M = {} THEN r ELSE CALLBACK_DATA(r, CHOOSE d \in M : TRUE))  OBVIOUS
  <2>11. PICK r : r = [t EXCEPT !.answer = NoAnswer]  OBVIOUS
  <2>12. EndBuffer(s0, x) = r  BY <1>2, <2>2, <2>4, <2>6, <2>8, <2>10, <2>11 DEF EndBuffer
  <2>13. Kept(s0, c) /\ DOMAIN c = Fields /\ Asserted(c) /\ c.marks \in [Datum -> Int]
    BY <2>1, <2>3, <2>7, <2>9 DEF Kept, Asserted, Shape
  <2>14. CASE c.http_errno # "OK"
    <3>1. t = c  BY <2>10, <2>14 DEF Then
    <3>2. Kept(s0, r) /\ r.state = s0.state /\ r.marks = s0.marks /\ ~Going(r)
      BY <2>9, <2>11, <2>13, <2>14, <3>1 DEF Kept, Fields, Going
    <3>3. PICK k : k = 0  OBVIOUS
    <3>4. Rested(r, k, o)  BY <2>1, <3>2, Frozen
    <3> QED BY <2>12, <3>2, <3>3, <3>4 DEF Going
  <2>15. CASE c.http_errno = "OK"
    <3>1. /\ DOMAIN t = Fields /\ t.marks \in [Datum -> Int] /\ Unmarked(t) /\ t.state = s0.state
          /\ t.run = 0 /\ (t.header_state = s0.header_state \/ s0.state \in MarkPlaces["body"])
          /\ t.flags = s0.flags /\ t.content_length = s0.content_length /\ t.num = s0.num /\ t.last = s0.last
          /\ t.ordered = s0.ordered /\ t.asserts = s0.asserts /\ t.due = s0.due /\ t.exit = s0.exit
          /\ t.body = SeenIn(s0, 0) /\ t.nread = c.nread
      <4>1. \A d \in Datum : s0.marks[d] \in Int  BY <2>1 DEF Shape
      <4>2. s0.body \in Int /\ "body" \in Datum  BY <2>1 DEF Shape, Datum
      <4>3. CASE M = {}
        <5>1. t = c  BY <2>10, <2>15, <4>3 DEF Then
        <5>2. Unmarked(s0)  BY <2>4, <4>1, <4>3 DEF Unmarked
        <5>3. SeenIn(s0, 0) = s0.body  BY <4>2, <5>2 DEF SeenIn, Unmarked
        <5> QED BY <2>9, <2>13, <5>1, <5>2, <5>3 DEF Kept, Unmarked
      <4>4. CASE M # {}
        <5>1. PICK d : d = CHOOSE e \in M : TRUE  OBVIOUS
        <5>2. d \in M /\ d \in Datum /\ s0.marks[d] >= 0 /\ s0.state \in MarkPlaces[d]
          BY <2>1, <2>4, <4>4, <5>1 DEF Tidy
        <5>3. OnlyMarked(s0, d)  BY <2>4, <2>5, <4>1, <5>2 DEF OnlyMarked
        <5>4. PICK n, b : n = c.marks[d] /\ b = FALSE  OBVIOUS
        <5>5. t = CALLBACK_DATA_(c, d, n, b)  BY <2>10, <2>15, <4>4, <5>1, <5>4 DEF Then, CALLBACK_DATA
        <5>6. CASE d # "body"
          <6>1. Kept(c, t) /\ MarksIn(c, t) /\ Called(c, t) /\ t.state = c.state /\ t.marks[d] < 0
                /\ t.header_state = c.header_state /\ t.nread = c.nread
            <7>1. d \in Datum \ {"body"}  BY <5>2, <5>6
            <7> QED BY <2>13, <2>15, <5>5, <7>1, DataEffect
          <6>2. Unmarked(t) /\ t.marks \in [Datum -> Int] /\ t.run = 0
            BY <2>9, <5>3, <6>1 DEF MarksIn, Unmarked, OnlyMarked, Called
          <6>3. SeenIn(s0, 0) = s0.body  BY <4>2, <5>3, <5>6 DEF SeenIn, OnlyMarked
          <6> QED BY <2>9, <2>13, <6>1, <6>2, <6>3 DEF Kept
        <5>7. CASE d = "body"
          <6>1. /\ DOMAIN t = Fields /\ MarksIn(c, t) /\ Called(c, t) /\ t.state = c.state /\ t.marks["body"] < 0
                /\ t.flags = c.flags /\ t.content_length = c.content_length /\ t.num = c.num /\ t.exit = c.exit
                /\ t.last = c.last /\ t.ordered = c.ordered /\ t.asserts = c.asserts /\ t.due = c.due
                /\ t.nread = c.nread /\ t.body = IF c.marks["body"] < 0 THEN c.body ELSE c.body + n
            BY <2>13, <2>15, <5>5, <5>7, BodyEffect
          <6>2. Unmarked(t) /\ t.marks \in [Datum -> Int] /\ t.run = 0
            BY <2>9, <5>3, <5>7, <6>1 DEF MarksIn, Unmarked, OnlyMarked, Called
          <6>3. t.body = SeenIn(s0, 0)
            <7>1. s0.marks["body"] \in Int /\ s0.marks["body"] >= 0 /\ n = s0.marks["body"] /\ c.body = s0.body
                  /\ c.marks["body"] = s0.marks["body"]
              BY <2>9, <2>13, <4>1, <5>2, <5>4, <5>7 DEF Kept
            <7> QED BY <4>2, <6>1, <7>1 DEF SeenIn
          <6> QED BY <2>9, <2>13, <5>2, <5>7, <6>1, <6>2, <6>3 DEF Kept
        <5> QED BY <5>6, <5>7
      <4> QED BY <4>3, <4>4
    <3>2. /\ DOMAIN r = Fields /\ r.marks = t.marks /\ r.state = t.state /\ r.run = t.run
          /\ r.header_state = t.header_state /\ r.flags = t.flags /\ r.content_length = t.content_length
          /\ r.num = t.num /\ r.last = t.last /\ r.ordered = t.ordered /\ r.asserts = t.asserts
          /\ r.due = t.due /\ r.exit = t.exit /\ r.body = t.body /\ r.nread = t.nread
      BY <2>11, <3>1 DEF Fields
    <3>3. Unmarked(r) /\ r.run = 0  BY <3>1, <3>2 DEF Unmarked
    <3>4. r.state = "s_chunk_size_start" => r.nread = s0.nread  BY <2>1, <2>9, <3>1, <3>2 DEF Tidy, Looping
    <3>5. Rested(r, 0, o)  BY <1>2, <3>1, <3>2, <3>3, <3>4, HandedOver
    <3> QED BY <2>12, <3>1, <3>2, <3>3, <3>5
  <2> QED BY <2>9, <2>14, <2>15
<1> QED BY <1>1, <1>2

\* The next buffer: a datum that was not at its end is marked again.
LEMMA BeginBufferStep ==
  ASSUME NEW s, NEW o, Rested(s, 0, o), s.http_errno = "OK", Unmarked(s)
  PROVE  Rested(BeginBuffer(s), 0, o)
<1>1. /\ Shape(s) /\ DOMAIN s = Fields /\ Asserted(s) /\ (o => InOrder(s)) /\ Place(s, 0) /\ Tidy(s)
      /\ InHead(s) /\ InChunks(s, 0) /\ InBody(s, 0)
      /\ (s.last = "message_complete" /\ s.state # "s_body_identity_eof" => s.body = s.due)
      /\ (s.state = "s_chunk_size_start" => s.nread = 0)
  BY DEF Rested, Live, Shape, Going, Place
<1>2. PICK at : at = CASE s.state = "s_header_field" -> "header_field"
                       [] s.state = "s_header_value" -> "header_value"
                       [] s.state \in UrlStates -> "url"
                       [] s.state = "s_res_status" -> "status"
                       [] OTHER -> "none"
  OBVIOUS
<1>3. at # "body" /\ (at \in Datum => s.state \in MarkPlaces[at])
  <2>1. CASE s.state = "s_header_field"  BY <1>2, <2>1 DEF MarkPlaces, UrlStates
  <2>2. CASE s.state = "s_header_value"  BY <1>2, <2>2 DEF MarkPlaces, UrlStates
  <2>3. CASE s.state \in UrlStates  BY <1>2, <2>3 DEF MarkPlaces, UrlStates
  <2>4. CASE s.state = "s_res_status"  BY <1>2, <2>4 DEF MarkPlaces, UrlStates
  <2>5. CASE s.state \notin UrlStates \cup {"s_header_field", "s_header_value", "s_res_status"}
    <3>1. at = "none"  BY <1>2, <2>5
    <3> QED BY <3>1 DEF Datum
  <2> QED BY <2>1, <2>2, <2>3, <2>4, <2>5
<1>4. PICK m : m = [d \in Datum |-> IF d = at THEN 0 ELSE -1]  OBVIOUS
<1>5. PICK t : t = [s EXCEPT !.marks = m]  OBVIOUS
<1>6. BeginBuffer(s) = t  BY <1>2, <1>4, <1>5 DEF BeginBuffer
<1>7. /\ Kept(s, t) /\ t.state = s.state /\ t.header_state = s.header_state /\ t.run = s.run
      /\ t.http_errno = "OK" /\ t.nread = s.nread /\ t.marks = m /\ t.skip = s.skip
  BY <1>1, <1>5 DEF Kept, Fields
<1>8. t.marks \in [Datum -> Int] /\ t.marks["body"] < 0  BY <1>3, <1>4, <1>7 DEF Datum
<1>9. \A d \in Datum : t.marks[d] >= 0 => t.state \in MarkPlaces[d]  BY <1>3, <1>4, <1>7
<1>10. Tidy(t)  BY <1>1, <1>7, <1>9 DEF Tidy, Looping, Skips
<1>11. SeenIn(t, 0) = SeenIn(s, 0)  BY <1>7, <1>8 DEF SeenIn, Kept, Unmarked, Datum
<1>12. Shape(t) /\ Asserted(t) /\ (o => InOrder(t))  BY <1>1, <1>7, <1>8 DEF Shape, Asserted, InOrder, Kept
<1>13. InHead(t)  BY <1>1, <1>7 DEF InHead, Kept
<1>14. InChunks(t, 0)  BY <1>1, <1>7, <1>11 DEF InChunks, Kept
<1>15. InBody(t, 0)  BY <1>1, <1>7, <1>11 DEF InBody, Kept
<1>16. Place(t, 0)  BY <1>1, <1>7, <1>10, <1>13, <1>14, <1>15 DEF Place
<1>17. t.last = "message_complete" /\ t.state # "s_body_identity_eof" => t.marks["body"] < 0 /\ t.body = t.due
  BY <1>1, <1>7, <1>8 DEF Kept
<1> QED BY <1>1, <1>6, <1>7, <1>12, <1>16, <1>17 DEF Rested, Live

\* The end of the input completes a body that goes on to it.
LEMMA EndOfInputStep ==
  ASSUME NEW s0, NEW o, Rested(s0, 0, o), s0.http_errno = "OK" => Unmarked(s0) /\ (o => ~s0.exit)
  PROVE  Rested(EndOfInput(s0), 0, o)
<1>1. CASE s0.http_errno # "OK"
  <2>1. DOMAIN s0 = Fields  BY DEF Rested, Live, Shape
  <2>2. EndOfInput(s0) = s0  BY <1>1, <2>1 DEF EndOfInput, Fields
  <2> QED BY <2>2
<1>2. CASE s0.http_errno = "OK"
  <2>1. /\ Live(s0, 0, o) /\ Shape(s0) /\ DOMAIN s0 = Fields /\ Asserted(s0) /\ (o => InOrder(s0)) /\ Tidy(s0)
        /\ (s0.state = "s_chunk_size_start" => s0.nread = 0)
        /\ (s0.state = "s_body_identity_eof" => s0.exit \/ s0.last = "headers_complete")
    BY <1>2 DEF Rested, Live, Shape, Going, Place, InBody
  <2>2. PICK s : s = [s0 EXCEPT !.out = <<>>, !.exit = TRUE]  OBVIOUS
  <2>3. /\ DOMAIN s = Fields /\ s.state = s0.state /\ s.header_state = s0.header_state /\ s.marks = s0.marks
        /\ s.run = s0.run /\ s.flags = s0.flags /\ s.content_length = s0.content_length /\ s.num = s0.num
        /\ s.last = s0.last /\ s.ordered = s0.ordered /\ s.asserts = s0.asserts /\ s.body = s0.body
        /\ s.due = s0.due /\ s.exit = TRUE /\ s.http_errno = "OK" /\ s.nread = s0.nread /\ (Skips(s) => Skips(s0))
    BY <1>2, <2>1, <2>2 DEF Fields, Skips
  <2>4. Live(s, 0, o)  BY <1>2, <2>1, <2>3, LiveSame DEF Going
  <2>5. Rested(s, 0, o)  BY <2>1, <2>3, <2>4 DEF Rested
  <2>6. PICK t : t = EndOfInput(s0)  OBVIOUS
  <2>7. CASE s0.state = "s_body_identity_eof"
    <3>1. PICK b : b = TRUE  OBVIOUS
    <3>2. t = CALLBACK_NOTIFY_(s, "message_complete", b)
      BY <2>2, <2>3, <2>6, <2>7, <3>1 DEF EndOfInput, CALLBACK_NOTIFY_NOADVANCE
    <3>3. s.marks \in [Datum -> Int] /\ Asserted(s) /\ Unmarked(s)  BY <1>2, <2>1, <2>3 DEF Shape, Asserted, Unmarked
    <3>4. Told(s, t, "message_complete")  BY <2>3, <3>2, <3>3, NotifyEffect
    <3>5. o => InOrder(t)
      <4>1. o => "message_complete" \in Follows[s.last]  BY <1>2, <2>1, <2>3, <2>7 DEF Follows
      <4>2. o => InOrder(s)  BY <2>1, <2>3 DEF InOrder
      <4> QED BY <3>4, <4>1, <4>2 DEF Told
    <3>6. Unmarked(t) /\ t.marks \in [Datum -> Int] /\ t.run = 0
      BY <2>1, <2>3, <2>7, <3>3, <3>4 DEF Told, MarksIn, Called, Unmarked, Tidy, Looping
    <3>7. Shape(t) /\ Asserted(t) /\ t.state = "s_body_identity_eof" /\ t.exit
      BY <2>1, <2>3, <2>7, <3>4, <3>6 DEF Told, Shape
    <3>8. Tidy(t)  BY <3>6 DEF Tidy, Unmarked
    <3>9. InHead(t) /\ InChunks(t, 0) /\ InBody(t, 0)
      BY <3>7 DEF InHead, InChunks, InBody, StartStates, LineStates, HeaderStates, SizeStates, ChunkStates
    <3> QED BY <2>6, <3>5, <3>7, <3>8, <3>9 DEF Rested, Live, Place
  <2>8. CASE s0.state \in {"s_dead", "s_start_req_or_res", "s_start_res", "s_start_req"}
    <3>1. t = s  BY <2>2, <2>3, <2>6, <2>8 DEF EndOfInput
    <3> QED BY <2>5, <2>6, <3>1
  <2>9. CASE s0.state \notin {"s_body_identity_eof", "s_dead", "s_start_req_or_res", "s_start_res", "s_start_req"}
    <3>1. t = SET_ERRNO(s, "INVALID_EOF_STATE")  BY <2>2, <2>3, <2>6, <2>9 DEF EndOfInput
    <3>2. Kept(s, t) /\ t.state = s.state /\ t.marks = s.marks /\ ~Going(t)  BY <2>3, <3>1, ErrnoEffect DEF Going
    <3>3. PICK k : k = 0  OBVIOUS
    <3>4. Rested(t, k, o)  BY <2>4, <3>2, Frozen
    <3> QED BY <2>6, <3>3, <3>4
  <2> QED BY <2>7, <2>8, <2>9
<1> QED BY <1>1, <1>2

\* A pause ends: nothing was marked.
LEMMA ResumeStep ==
  ASSUME NEW s, NEW o, Rested(s, 0, o), s.http_errno = "PAUSED"
  PROVE  Rested(BeginBuffer(SET_ERRNO(s, "OK")), 0, o)
<1>1. Live(s, 0, o) /\ DOMAIN s = Fields /\ Going(s) /\ Unmarked(s) /\ (s.state = "s_chunk_size_start" => s.nread = 0)
  BY DEF Rested, Live, Shape, Going, Place, Tidy
<1>2. PICK t : t = SET_ERRNO(s, "OK")  OBVIOUS
<1>3. /\ Kept(s, t) /\ t.http_errno = "OK" /\ t.state = s.state /\ t.header_state = s.header_state
      /\ t.marks = s.marks /\ t.run = s.run /\ t.nread = s.nread /\ t.skip = s.skip
  BY <1>1, <1>2, ErrnoEffect
<1>4. Live(t, 0, o)  BY <1>1, <1>3, LiveSame DEF Kept, Skips
<1>5. Rested(t, 0, o) /\ Unmarked(t)  BY <1>1, <1>3, <1>4 DEF Rested, Unmarked
<1> QED BY <1>2, <1>3, <1>5, BeginBufferStep

-----------------------------------------------------------------------------
\* The theorems.

\* http_parser_init
LEMMA InitStep ==
  ASSUME NEW t, t \in {"REQUEST", "RESPONSE", "BOTH"}, NEW o
  PROVE  Rested(http_parser_init(t), 0, o)
<1>1. PICK s : s = http_parser_init(t)  OBVIOUS
<1>2. /\ DOMAIN s = Fields /\ s.state = StartState[t] /\ s.marks = [d \in Datum |-> -1] /\ s.content_length = 0
      /\ s.http_errno = "OK" /\ s.run = 0 /\ s.last = "message_complete" /\ s.body = 0 /\ s.due = 0
      /\ s.ordered = TRUE /\ s.asserts = TRUE
  BY <1>1 DEF http_parser_init, Fields
<1>3. s.state \in StartStates  BY <1>2 DEF StartState, StartStates
<1>4. s.marks \in [Datum -> Int] /\ Unmarked(s) /\ s.marks["body"] < 0  BY <1>2 DEF Unmarked, Datum
<1>5. Shape(s) /\ Asserted(s) /\ InOrder(s)  BY <1>2, <1>4, WidthAssumption DEF Shape, Asserted, InOrder
<1>6. Tidy(s)  BY <1>2, <1>4 DEF Tidy, Unmarked
<1>7. InHead(s) /\ InChunks(s, 0)
  BY <1>3 DEF InHead, InChunks, StartStates, LineStates, HeaderStates, SizeStates, ChunkStates
<1>8. InBody(s, 0)  BY <1>2, <1>3 DEF InBody, StartStates
<1>9. s.state # "s_chunk_size_start"  BY <1>3 DEF StartStates
<1> QED BY <1>1, <1>2, <1>3, <1>4, <1>5, <1>6, <1>7, <1>8, <1>9 DEF Rested, Live, Place

\* The invariant holds of both parsers, for every input, every way to cut it
\* into buffers and every answer of the callbacks.
THEOREM ParsersCorrect == Spec => []ParsersInv
<1>1. Init => ParsersInv
  <2> SUFFICES ASSUME Init PROVE ParsersInv  OBVIOUS
  <2>1. PICK t \in Types : cut = http_parser_init(t) /\ whole = http_parser_init(t)  BY DEF Init
  <2>2. t \in {"REQUEST", "RESPONSE", "BOTH"}  BY <2>1, TypesAssumption
  <2>3. PICK o, p : o = TRUE /\ p = FALSE  OBVIOUS
  <2>4. Rested(cut, 0, o) /\ Rested(whole, 0, p)  BY <2>1, <2>2, InitStep
  <2> QED BY <2>3, <2>4 DEF ParsersInv
<1>2. ParsersInv /\ [Next]_vars => ParsersInv'
  <2> SUFFICES ASSUME ParsersInv, [Next]_vars PROVE ParsersInv'  OBVIOUS
  <2>1. PICK o, p : o = TRUE /\ p = FALSE  OBVIOUS
  <2>2. Rested(cut, 0, o) /\ Rested(whole, 0, p)  BY <2>1 DEF ParsersInv
  <2>3. SUFFICES \A c, w : c = cut' /\ w = whole' => Rested(c, 0, o) /\ Rested(w, 0, p)  BY <2>1 DEF ParsersInv
  <2>4. SUFFICES ASSUME NEW c, NEW w, c = cut', w = whole' PROVE Rested(c, 0, o) /\ Rested(w, 0, p)  OBVIOUS
  <2>5. CASE Arrive
    <3>1. c = cut /\ w = whole  BY <2>4, <2>5 DEF Arrive
    <3> QED BY <2>2, <3>1
  <2>6. CASE Byte
    <3>1. PICK a : /\ c = ParseByte(cut, Head(rest), a)
                   /\ w = whole \/ w = ParseByte(whole, Head(rest), Unpaused(a))
      BY <2>4, <2>6 DEF Byte
    <3> QED BY <2>2, <3>1, ParseByteStep
  <2>7. CASE Cut
    <3>1. PICK a : c = (IF EndBuffer(cut, a).http_errno = "OK" THEN BeginBuffer(EndBuffer(cut, a)) ELSE EndBuffer(cut, a))
      BY <2>4, <2>7 DEF Cut
    <3>2. PICK s : s = EndBuffer(cut, a)  OBVIOUS
    <3>3. Rested(s, 0, o) /\ (s.http_errno = "OK" => Unmarked(s))  BY <2>2, <3>2, EndBufferStep
    <3>4. s.http_errno = "OK" => Rested(BeginBuffer(s), 0, o)  BY <3>3, BeginBufferStep
    <3>5. w = whole  BY <2>4, <2>7 DEF Cut
    <3> QED BY <2>2, <3>1, <3>2, <3>3, <3>4, <3>5
  <2>8. CASE Resume
    <3>1. c = BeginBuffer(SET_ERRNO(cut, "OK")) /\ cut.http_errno = "PAUSED" /\ w = whole  BY <2>4, <2>8 DEF Resume
    <3> QED BY <2>2, <3>1, ResumeStep
  <2>9. CASE Eof
    <3>1. PICK s, u : s = EndBuffer(cut, NoAnswer) /\ u = EndBuffer(whole, NoAnswer)  OBVIOUS
    <3>2. c = EndOfInput(s) /\ w = EndOfInput(u) /\ ~cut.exit  BY <2>4, <2>9, <3>1 DEF Eof, Running
    <3>3. Rested(s, 0, o) /\ (s.http_errno = "OK" => Unmarked(s) /\ s.exit = cut.exit)  BY <2>2, <3>1, EndBufferStep
    <3>4. Rested(u, 0, p) /\ (u.http_errno = "OK" => Unmarked(u))  BY <2>2, <3>1, EndBufferStep
    <3>5. Rested(EndOfInput(s), 0, o)  BY <3>2, <3>3, EndOfInputStep
    <3>6. Rested(EndOfInput(u), 0, p)  BY <2>1, <3>4, EndOfInputStep
    <3> QED BY <3>2, <3>5, <3>6
  <2>10. CASE UNCHANGED vars
    <3>1. c = cut /\ w = whole  BY <2>4, <2>10 DEF vars
    <3> QED BY <2>2, <3>1
  <2> QED BY <2>5, <2>6, <2>7, <2>8, <2>9, <2>10 DEF Next
<1> QED BY <1>1, <1>2, PTL DEF Spec

\* No assert() of http_parser.c fails, in either parser.
THEOREM AssertsHoldCorrect == Spec => []AssertsHold
<1>1. ParsersInv => AssertsHold  BY DEF ParsersInv, Rested, Live, Asserted, AssertsHold
<1> QED BY <1>1, ParsersCorrect, PTL

\* A Content-Length and a chunk size are the numbers their digits write, and
\* never ULLONG_MAX, whatever the width of content_length.
THEOREM LengthIsExactCorrect == Spec => []LengthIsExact
<1>1. ParsersInv => LengthIsExact
  <2> SUFFICES ASSUME ParsersInv, cut.http_errno = "OK" PROVE
                  (\/ cut.state = "s_header_value" /\ cut.header_state = "h_content_length"
                   \/ cut.state = "s_chunk_size") => cut.content_length = cut.num /\ cut.num < ULLONG_MAX
    BY DEF LengthIsExact
  <2>1. InHead(cut) /\ InChunks(cut, 0)  BY DEF ParsersInv, Rested, Live, Going, Place
  <2> QED BY <2>1 DEF InHead, InChunks
<1> QED BY <1>1, ParsersCorrect, PTL

\* The body bytes handed over are those announced: in the middle of a body what
\* is left is what is missing, and a complete message misses nothing.
THEOREM BodyIsWholeCorrect == Spec => []BodyIsWhole
<1>1. ParsersInv => BodyIsWhole
  <2> SUFFICES ASSUME ParsersInv PROVE BodyIsWhole  OBVIOUS
  <2>1. /\ Live(cut, 0, TRUE) /\ cut.body \in Int /\ cut.marks["body"] \in Int /\ Shape(cut)
    BY DEF ParsersInv, Rested, Live, Shape, Datum
  <2>2. SeenIn(cut, 0) = cut.body + (IF cut.marks["body"] < 0 THEN 0 ELSE cut.marks["body"])  BY <2>1 DEF SeenIn
  <2>3. cut.http_errno = "OK" /\ cut.state \in {"s_body_identity", "s_chunk_data"} =>
           SeenIn(cut, 0) + cut.content_length = cut.due
    BY <2>1 DEF Live, Going, Place, InChunks, InBody
  <2>4. cut.last = "message_complete" /\ cut.state # "s_body_identity_eof" => SeenIn(cut, 0) = cut.due
    BY <2>1, <2>2 DEF Live
  <2> QED BY <2>2, <2>3, <2>4 DEF BodyIsWhole
<1> QED BY <1>1, ParsersCorrect, PTL

\* The notifications come in order: begin, headers_complete, chunk by chunk
\* chunk_header and chunk_complete, message_complete.
THEOREM NotificationsInOrderCorrect == Spec => []NotificationsInOrder
<1>1. ParsersInv => NotificationsInOrder  BY DEF ParsersInv, Rested, Live, InOrder, NotificationsInOrder
<1> QED BY <1>1, ParsersCorrect, PTL

-----------------------------------------------------------------------------
\* Two parsers of the same bytes.

\* The places of the data have no state in common.
LEMMA PlacesApart ==
  ASSUME NEW d \in Datum, NEW e \in Datum, NEW x, x \in MarkPlaces[d], x \in MarkPlaces[e]
  PROVE  d = e
  BY DEF MarkPlaces, UrlStates, Datum

\* Two such steps keep the parsers level.
LEMMA QuietLevel ==
  ASSUME NEW c, NEW u, NEW s, NEW t, Level(c, u), Quiet(c, s), Quiet(u, t), Same(s, t)
  PROVE  Level(s, t)
<1>1. Ready(s) /\ Ready(t)  BY DEF Level, Ready, Quiet, Skips
<1>2. Read(s, t)
  <2>1. PICK x, y : Reads(c, x, y) /\ Reads(u, x, y)  BY DEF Level, Read
  <2>2. Reads(s, x, y) /\ Reads(t, x, y)  BY <2>1 DEF Reads, Quiet, Unmarked
  <2> QED BY <2>2 DEF Read
<1> QED BY <1>1, <1>2 DEF Level, Quiet, Skips, Unheld, Unpausing

\* Twins outside a body have the same marks.
LEMMA TwinAlike ==
  ASSUME NEW c, NEW u, Twin(c, u), c.state \notin MarkPlaces["body"]
  PROVE  Alike(c, u)
<1>1. u.state = c.state  BY DEF Twin, Level, Same
<1> SUFFICES ASSUME NEW d \in Datum PROVE c.marks[d] >= 0 <=> u.marks[d] >= 0  BY DEF Alike
<1>2. CASE d = "body"  BY <1>1, <1>2 DEF Twin, Placed
<1>3. CASE d # "body"  BY <1>1, <1>3 DEF Twin, Placed, Marked
<1> QED BY <1>2, <1>3

\* Where no datum belongs nothing is marked.
LEMMA TwinUnmarked ==
  ASSUME NEW c, NEW u, Twin(c, u), \A d \in Datum : c.state \notin MarkPlaces[d]
  PROVE  Unmarked(c) /\ Unmarked(u)
<1>1. u.state = c.state  BY DEF Twin, Level, Same
<1>2. \A d \in Datum : c.marks[d] \in Int /\ u.marks[d] \in Int  BY DEF Twin, Level, Ready
<1> QED BY <1>1, <1>2 DEF Twin, Placed, Unmarked

\* A quiet step of both, outside a body and into no other datum.
LEMMA QuietPair ==
  ASSUME NEW c, NEW u, NEW s, NEW t, Twin(c, u), c.state \notin MarkPlaces["body"], Quiet(c, s), Quiet(u, t),
         s.http_errno = t.http_errno, s.http_errno # "PAUSED", s.state = t.state,
         s.http_errno = "OK" =>
             /\ Same(s, t)
             /\ \A d \in Datum \ {"body"} : s.state \in MarkPlaces[d] => c.state \in MarkPlaces[d]
  PROVE  Paired(s, t)
<1>1. CASE s.http_errno # "OK"  BY <1>1 DEF Paired, Going
<1>2. CASE s.http_errno = "OK"
  <2>1. Level(s, t)  BY <1>2, QuietLevel DEF Twin
  <2>2. Alike(s, t)  BY TwinAlike DEF Alike, Quiet
  <2>3. Marked(s) /\ Marked(t)  BY <1>2 DEF Twin, Marked, Quiet, Level, Same
  <2> QED BY <1>2, <2>1, <2>2, <2>3 DEF Paired, Going, Quiet, Unheld, Twin
<1> QED BY <1>1, <1>2

\* A callback with data delivers what was marked and leaves nothing marked.
LEMMA DataCalled ==
  ASSUME NEW s, NEW d \in Datum, NEW n \in Int, NEW b, Ready(s), s.http_errno = "OK", OnlyMarked(s, d)
  PROVE  LET t == CALLBACK_DATA_(s, d, n, b)
         IN  /\ Ready(t) /\ Unmarked(t) /\ Same(s, t) /\ t.answer = s.answer
             /\ t.http_errno \in {"OK", "PAUSED", "CB"} /\ (Skips(t) => Skips(s))
             /\ t.http_errno = "OK" => t.held = s.held /\ t.run = s.run /\ t.skip = s.skip
             /\ t.http_errno = "PAUSED" => t.held = b /\ s.answer.r = "PAUSED" /\ ~Skips(t)
             /\ s.marks[d] < 0 => t.sent = s.sent /\ t.body = s.body
             /\ s.marks[d] >= 0 => t.sent = With(s.sent, d, n) /\ t.body = s.body + (IF d = "body" THEN n ELSE 0)
<1>1. PICK a : a = assert(s, s.http_errno = "OK")  OBVIOUS
<1>2. Quiet(s, a) /\ Same(s, a) /\ a.http_errno = "OK"  BY <1>1 DEF Ready, assert, Quiet, Same, Fields
<1>3. PICK t : t = CALLBACK_DATA_(s, d, n, b)  OBVIOUS
<1>4. CASE s.marks[d] < 0
  <2>1. t = a  BY <1>1, <1>3, <1>4 DEF CALLBACK_DATA_
  <2>2. Ready(t)  BY <1>2, <2>1 DEF Quiet, Ready, Skips
  <2>3. Unmarked(t)  BY <1>2, <1>4, <2>1 DEF Quiet, Unmarked, OnlyMarked
  <2>4. ~(s.marks[d] >= 0)  BY <1>4 DEF Ready
  <2> QED BY <1>2, <1>3, <1>4, <2>1, <2>2, <2>3, <2>4 DEF Quiet, Skips
<1>5. CASE ~(s.marks[d] < 0)
  <2>1. PICK v : v = [Delivered(a, d, n) EXCEPT !.marks[d] = -1]  OBVIOUS
  <2>2. /\ DOMAIN v = Fields /\ Same(s, v) /\ v.http_errno = "OK" /\ v.marks = [s.marks EXCEPT ![d] = -1]
        /\ v.run = s.run /\ v.skip = s.skip /\ v.held = s.held /\ v.answer = s.answer
    BY <1>2, <2>1 DEF Delivered, Quiet, Same, Fields
  <2>3. v.sent = With(s.sent, d, n) /\ v.body = IF d = "body" THEN s.body + n ELSE s.body
    BY <1>2, <2>1 DEF Delivered, Quiet, Fields, With
  <2>4. s.body \in Int /\ s.sent.n \in Int /\ s.marks \in [Datum -> Int]  BY DEF Ready, Record
  <2>5. v.body = s.body + (IF d = "body" THEN n ELSE 0) /\ v.body \in Int  BY <2>3, <2>4
  <2>6. Record(v.sent)  BY <2>3, <2>4 DEF Record, With
  <2>7. v.marks \in [Datum -> Int] /\ Unmarked(v)  BY <2>2, <2>4 DEF Unmarked, OnlyMarked
  <2>8. Ready(v)  BY <2>2, <2>5, <2>6, <2>7 DEF Ready, Skips
  <2>9. t = Answered(v, d, b)  BY <1>1, <1>3, <1>5, <2>1 DEF CALLBACK_DATA_
  <2>10. CASE ~(v.answer.at = d /\ v.answer.r \in {"CB", "PAUSED"})
    <3>1. t = v  BY <2>9, <2>10 DEF Answered
    <3> QED BY <1>3, <1>5, <2>2, <2>3, <2>5, <2>7, <2>8, <3>1 DEF Skips
  <2>11. CASE v.answer.at = d /\ v.answer.r \in {"CB", "PAUSED"}
    <3>1. t = [v EXCEPT !.http_errno = v.answer.r, !.held = b, !.marks = [e \in Datum |-> -1],
                        !.run = 0, !.skip = FALSE]
      BY <2>9, <2>11 DEF Answered
    <3>2. /\ DOMAIN t = Fields /\ Same(v, t) /\ t.http_errno = v.answer.r /\ t.held = b /\ t.run = 0
          /\ t.skip = FALSE /\ t.sent = v.sent /\ t.body = v.body /\ t.answer = v.answer
      BY <2>2, <3>1 DEF Same, Fields
    <3>3. t.marks = [e \in Datum |-> -1]  BY <2>2, <3>1 DEF Fields
    <3>4. Unmarked(t) /\ t.marks \in [Datum -> Int]  BY <3>3 DEF Unmarked
    <3>5. ~Skips(t) /\ t.skip \in BOOLEAN  BY <3>2 DEF Skips
    <3>7. Ready(t)  BY <2>8, <3>2, <3>4, <3>5 DEF Ready
    <3>6. Same(s, t)  BY <2>2, <3>2 DEF Same
    <3> QED BY <1>3, <1>5, <2>2, <2>3, <2>5, <2>11, <3>2, <3>4, <3>5, <3>6, <3>7
  <2> QED BY <2>10, <2>11
<1> QED BY <1>4, <1>5

\* CALLBACK_NOTIFY_
LEMMA NotifyCalled ==
  ASSUME NEW s, NEW cb, NEW b, Ready(s), s.http_errno = "OK", Unmarked(s),
         NEW w, w = [s EXCEPT !.out = Append(s.out, cb)],
         NEW t, t = CALLBACK_NOTIFY_(s, cb, b)
  PROVE  Announced(s, t, w, cb, b)
<1>2. PICK v : v = IF cb = "message_begin" THEN [Noted(s, cb) EXCEPT !.body = 0, !.due = 0, !.sent = [d |-> "none", n |-> 0]]
                   ELSE Noted(s, cb)
  OBVIOUS
<1>3. /\ DOMAIN v = Fields /\ Same(w, v) /\ v.marks = s.marks /\ v.run = s.run /\ v.skip = s.skip
      /\ v.held = s.held /\ v.answer = s.answer /\ v.http_errno = "OK"
      /\ cb # "message_begin" => v.sent = s.sent /\ v.body = s.body
      /\ cb = "message_begin" => v.sent = [d |-> "none", n |-> 0] /\ v.body = 0
  <2>1. DOMAIN s = Fields  BY DEF Ready
  <2>2. CASE cb = "message_begin"  BY <1>2, <2>1, <2>2 DEF Noted, Same, Fields
  <2>3. CASE cb # "message_begin"  BY <1>2, <2>1, <2>3 DEF Noted, Same, Fields
  <2> QED BY <2>2, <2>3
<1>4. Record(v.sent) /\ v.body \in Int
  <2>1. CASE cb = "message_begin"  BY <1>3, <2>1 DEF Record
  <2>2. CASE cb # "message_begin"  BY <1>3, <2>2 DEF Ready
  <2> QED BY <2>1, <2>2
<1>5. Ready(v) /\ Unmarked(v)  BY <1>3, <1>4 DEF Ready, Unmarked, Skips
<1>7. t = Answered(v, cb, b)  BY <1>2 DEF CALLBACK_NOTIFY_
<1>8. CASE ~(v.answer.at = cb /\ v.answer.r \in {"CB", "PAUSED"})
  <2>1. t = v  BY <1>7, <1>8 DEF Answered
  <2> QED BY <1>3, <1>5, <2>1 DEF Skips, Announced
<1>9. CASE v.answer.at = cb /\ v.answer.r \in {"CB", "PAUSED"}
  <2>1. t = [v EXCEPT !.http_errno = v.answer.r, !.held = b, !.marks = [e \in Datum |-> -1],
                      !.run = 0, !.skip = FALSE]
    BY <1>7, <1>9 DEF Answered
  <2>2. /\ DOMAIN t = Fields /\ Same(v, t) /\ t.http_errno = v.answer.r /\ t.held = b /\ t.run = 0
        /\ t.skip = FALSE /\ t.sent = v.sent /\ t.body = v.body /\ t.answer = v.answer
    BY <1>3, <2>1 DEF Same, Fields
  <2>3. t.marks = [e \in Datum |-> -1]  BY <1>3, <2>1 DEF Fields
  <2>4. Unmarked(t) /\ t.marks \in [Datum -> Int]  BY <2>3 DEF Unmarked
  <2>5. ~Skips(t) /\ t.skip \in BOOLEAN  BY <2>2 DEF Skips
  <2>7. Ready(t)  BY <1>5, <2>2, <2>4, <2>5 DEF Ready
  <2>6. Same(w, t)  BY <1>3, <2>2 DEF Same
  <2> QED BY <1>3, <1>9, <2>2, <2>4, <2>5, <2>6, <2>7 DEF Announced
<1> QED BY <1>8, <1>9

\* The data callback of both.
LEMMA DataMeets ==
  ASSUME NEW c, NEW u, NEW d \in Datum, NEW b, Level(c, u), c.http_errno = "OK", u.http_errno = "OK", Unheld(c),
         OnlyMarked(c, d), OnlyMarked(u, d)
  PROVE  LET s == CALLBACK_DATA_(c, d, c.marks[d], b)
             t == CALLBACK_DATA_(u, d, u.marks[d], b)
         IN  /\ Met(s, t, b) /\ Same(c, s) /\ Same(u, t)
             /\ s.answer = c.answer /\ t.answer = u.answer
             /\ Ready(s) /\ Ready(t) /\ Unmarked(s) /\ Unmarked(t)
<1>1. Ready(c) /\ Ready(u) /\ c.marks[d] \in Int /\ u.marks[d] \in Int  BY DEF Level, Ready
<1>2. PICK s : s = CALLBACK_DATA_(c, d, c.marks[d], b)  OBVIOUS
<1>3. PICK t : t = CALLBACK_DATA_(u, d, u.marks[d], b)  OBVIOUS
<1>4. /\ Ready(s) /\ Unmarked(s) /\ Same(c, s) /\ s.answer = c.answer
      /\ s.http_errno \in {"OK", "PAUSED", "CB"} /\ (Skips(s) => Skips(c))
      /\ s.http_errno = "OK" => s.held = c.held
      /\ s.http_errno = "PAUSED" => s.held = b /\ ~Skips(s)
      /\ c.marks[d] < 0 => s.sent = c.sent /\ s.body = c.body
      /\ c.marks[d] >= 0 => s.sent = With(c.sent, d, c.marks[d]) /\ s.body = c.body + (IF d = "body" THEN c.marks[d] ELSE 0)
  BY <1>1, <1>2, DataCalled
<1>5. /\ Ready(t) /\ Unmarked(t) /\ Same(u, t) /\ t.answer = u.answer
      /\ t.http_errno \in {"OK", "PAUSED", "CB"}
      /\ t.http_errno = "OK" => t.held = u.held /\ t.skip = u.skip
      /\ t.http_errno = "PAUSED" => u.answer.r = "PAUSED"
      /\ u.marks[d] < 0 => t.sent = u.sent /\ t.body = u.body
      /\ u.marks[d] >= 0 => t.sent = With(u.sent, d, u.marks[d]) /\ t.body = u.body + (IF d = "body" THEN u.marks[d] ELSE 0)
  BY <1>1, <1>3, DataCalled
<1>6. PICK x, y : Reads(c, x, y) /\ Reads(u, x, y)  BY DEF Level, Read
<1>7. s.sent = x /\ s.body = y
  <2>1. CASE c.marks[d] < 0  BY <1>4, <1>6, <2>1 DEF Reads, Unmarked, OnlyMarked
  <2>2. CASE c.marks[d] >= 0  BY <1>4, <1>6, <2>2 DEF Reads
  <2> QED BY <1>1, <2>1, <2>2
<1>8. t.sent = x /\ t.body = y
  <2>1. CASE u.marks[d] < 0  BY <1>5, <1>6, <2>1 DEF Reads, Unmarked, OnlyMarked
  <2>2. CASE u.marks[d] >= 0  BY <1>5, <1>6, <2>2 DEF Reads
  <2> QED BY <1>1, <2>1, <2>2
<1>9. Reads(s, x, y) /\ Reads(t, x, y)  BY <1>4, <1>5, <1>7, <1>8 DEF Reads, Unmarked, Ready
<1>10. Same(s, t)  BY <1>4, <1>5 DEF Level, Same
<1>11. t.http_errno = "OK" => Level(s, t)  BY <1>4, <1>5, <1>9, <1>10 DEF Level, Read, Skips, Unheld, Unpausing
<1> QED BY <1>2, <1>3, <1>4, <1>5, <1>11 DEF Met, Level, Unpausing, Unheld

\* The notification of both.
LEMMA NotifyMeets ==
  ASSUME NEW c, NEW u, NEW cb, NEW b, Level(c, u), c.http_errno = "OK", u.http_errno = "OK", Unheld(c),
         Unmarked(c), Unmarked(u)
  PROVE  LET s == CALLBACK_NOTIFY_(c, cb, b)
             t == CALLBACK_NOTIFY_(u, cb, b)
         IN  /\ Met(s, t, b) /\ s.state = c.state /\ t.state = u.state /\ s.upgrade = c.upgrade
             /\ s.answer = c.answer /\ t.answer = u.answer /\ Ready(s) /\ Ready(t)
<1>1. Ready(c) /\ Ready(u) /\ DOMAIN c = Fields /\ DOMAIN u = Fields  BY DEF Level, Ready
<1>2. PICK s : s = CALLBACK_NOTIFY_(c, cb, b)  OBVIOUS
<1>3. PICK t : t = CALLBACK_NOTIFY_(u, cb, b)  OBVIOUS
<1>4. PICK v, w : v = [c EXCEPT !.out = Append(c.out, cb)] /\ w = [u EXCEPT !.out = Append(u.out, cb)]  OBVIOUS
<1>5. Announced(c, s, v, cb, b)  BY <1>1, <1>2, <1>4, NotifyCalled
<1>6. Announced(u, t, w, cb, b)  BY <1>1, <1>3, <1>4, NotifyCalled
<1>7. Same(v, w)  BY <1>1, <1>4 DEF Level, Same, Fields
<1>8. v.state = c.state /\ v.upgrade = c.upgrade /\ w.state = u.state  BY <1>1, <1>4 DEF Fields
<1>9. Same(s, t)  BY <1>5, <1>6, <1>7 DEF Announced, Same
<1>10. PICK x, y : Reads(c, x, y) /\ Reads(u, x, y)  BY DEF Level, Read
<1>11. c.sent = u.sent /\ c.body = u.body  BY <1>10 DEF Reads
<1>12. s.sent = t.sent /\ s.body = t.body  BY <1>5, <1>6, <1>11 DEF Announced
<1>13. \A d \in Datum : ~(s.marks[d] >= 0) /\ ~(t.marks[d] >= 0)  BY <1>5, <1>6 DEF Announced, Unmarked, Ready
<1>14. Read(s, t)  BY <1>12, <1>13 DEF Read, Reads
<1>15. t.http_errno = "OK" => Level(s, t)  BY <1>5, <1>6, <1>9, <1>14 DEF Announced, Level, Skips, Unheld, Unpausing
<1>16. Unpausing(u) /\ Unheld(u)  BY DEF Level
<1>17. t.http_errno # "PAUSED" /\ (s.http_errno = "OK" => Unheld(s))
  BY <1>5, <1>6, <1>16 DEF Announced, Unpausing, Unheld
<1>18. Met(s, t, b)  BY <1>5, <1>6, <1>15, <1>17 DEF Announced, Met
<1>19. s.state = c.state /\ t.state = u.state /\ s.upgrade = c.upgrade  BY <1>5, <1>6, <1>8 DEF Announced, Same
<1> QED BY <1>2, <1>3, <1>5, <1>6, <1>18, <1>19 DEF Announced

\* A callback that holds no byte ends the step.
LEMMA MetPaired ==
  ASSUME NEW s, NEW t, NEW b, b = FALSE, Met(s, t, b), NoDatum(s.state)
  PROVE  Paired(s, t)
<1>3. Unheld(s) \/ ~Going(s)  BY DEF Met, Going, Unheld
<1>1. CASE s.http_errno = "CB" \/ t.http_errno = "CB"  BY <1>1, <1>3 DEF Paired, Stops
<1>2. CASE s.http_errno # "CB" /\ t.http_errno # "CB"
  <2>1. Level(s, t) /\ Unmarked(s) /\ Unmarked(t) /\ Going(s) /\ t.http_errno = "OK" /\ Unheld(s)
    BY <1>2 DEF Met, Going, Unheld
  <2>2. t.state = s.state /\ \A d \in Datum : s.marks[d] \in Int /\ t.marks[d] \in Int  BY <2>1 DEF Level, Same, Ready
  <2>3. Alike(s, t) /\ Marked(s) /\ Marked(t)  BY <2>1, <2>2 DEF Alike, Unmarked, Marked, NoDatum
  <2> QED BY <2>1, <2>3 DEF Paired
<1> QED BY <1>1, <1>2

\* A callback that lets both go on leaves them twins.
LEMMA MetTwin ==
  ASSUME NEW s, NEW t, NEW b, Met(s, t, b), NoDatum(s.state), s.http_errno = "OK", t.http_errno = "OK"
  PROVE  Twin(s, t) /\ Unmarked(s) /\ Unmarked(t)
<1>1. Level(s, t) /\ Unmarked(s) /\ Unmarked(t) /\ Unheld(s)  BY DEF Met
<1>2. t.state = s.state /\ \A d \in Datum : s.marks[d] \in Int /\ t.marks[d] \in Int  BY <1>1 DEF Level, Same, Ready
<1>3. t.state # "s_header_value"  BY <1>2 DEF NoDatum, MarkPlaces, Datum
<1> QED BY <1>1, <1>2, <1>3 DEF Twin, Placed, Marked, Unmarked, NoDatum

\* So does a quiet step into a state without datum.
LEMMA QuietTwin ==
  ASSUME NEW c, NEW u, NEW s, NEW t, Level(c, u), Unmarked(c), Unmarked(u), Unheld(c), Quiet(c, s), Quiet(u, t),
         Same(s, t), s.http_errno = "OK", t.http_errno = "OK", NoDatum(s.state)
  PROVE  Twin(s, t) /\ Unmarked(s) /\ Unmarked(t)
<1>1. Level(s, t) /\ Unmarked(s) /\ Unmarked(t) /\ Unheld(s)  BY QuietLevel DEF Quiet, Unmarked, Unheld
<1>2. t.state = s.state /\ \A d \in Datum : s.marks[d] \in Int /\ t.marks[d] \in Int  BY <1>1 DEF Level, Same, Ready
<1>3. t.state # "s_header_value"  BY <1>2 DEF NoDatum, MarkPlaces, Datum
<1> QED BY <1>1, <1>2, <1>3 DEF Twin, Placed, Marked, Unmarked, NoDatum

\* MARK changes nothing of what was read, but for what the last datum is.
LEMMA MarkReads ==
  ASSUME NEW s, NEW d \in Datum, NEW x, NEW y, Ready(s), OnlyMarked(s, d), Reads(s, x, y)
  PROVE  LET t == MARK(s, d)
         IN  /\ Reads(t, With(x, d, 0), y) /\ Ready(t) /\ OnlyMarked(t, d) /\ t.marks[d] >= 0 /\ Same(s, t)
             /\ t.http_errno = s.http_errno /\ t.held = s.held /\ t.answer = s.answer /\ t.skip = s.skip
<1>1. PICK t : t = MARK(s, d)  OBVIOUS
<1>2. /\ DOMAIN t = Fields /\ t.run = s.run /\ t.skip = s.skip /\ t.held = s.held /\ t.answer = s.answer
      /\ t.sent = s.sent /\ t.body = s.body /\ t.http_errno = s.http_errno /\ Same(s, t)
      /\ t.marks = [s.marks EXCEPT ![d] = IF @ < 0 THEN 0 ELSE @]
  BY <1>1 DEF MARK, Ready, Same, Fields
<1>3. s.marks \in [Datum -> Int] /\ s.body \in Int /\ s.sent.n \in Int  BY DEF Ready, Record
<1>4. t.marks \in [Datum -> Int] /\ t.marks[d] >= 0 /\ OnlyMarked(t, d)  BY <1>2, <1>3 DEF OnlyMarked
<1>5. Ready(t)  BY <1>2, <1>4 DEF Ready, Skips
<1>6. ~Unmarked(t) /\ \A e \in Datum : t.marks[e] >= 0 => e = d  BY <1>4 DEF Unmarked, OnlyMarked
<1>7. With(t.sent, d, t.marks[d]) = With(x, d, 0) /\ t.body + (IF d = "body" THEN t.marks[d] ELSE 0) = y
  <2>1. CASE s.marks[d] < 0
    <3>1. t.marks[d] = 0 /\ s.sent = x /\ s.body = y  BY <1>2, <1>3, <2>1 DEF Reads, Unmarked, OnlyMarked
    <3> QED BY <1>2, <1>3, <3>1
  <2>2. CASE ~(s.marks[d] < 0)
    <3>1. s.marks[d] >= 0 /\ t.marks[d] = s.marks[d]  BY <1>2, <1>3, <2>2
    <3>2. With(s.sent, d, s.marks[d]) = x /\ s.body + (IF d = "body" THEN s.marks[d] ELSE 0) = y  BY <3>1 DEF Reads
    <3>3. x.d = d /\ x.n \in Int /\ x = [d |-> d, n |-> x.n]  BY <1>3, <3>1, <3>2 DEF With
    <3>4. With(x, d, 0) = x  BY <3>3 DEF With
    <3> QED BY <1>2, <3>1, <3>2, <3>4
  <2> QED BY <2>1, <2>2
<1>8. Reads(t, With(x, d, 0), y)  BY <1>6, <1>7 DEF Reads
<1> QED BY <1>1, <1>2, <1>4, <1>5, <1>8

\* MARK of both.
LEMMA MarkLevel ==
  ASSUME NEW c, NEW u, NEW d \in Datum, Level(c, u), OnlyMarked(c, d), OnlyMarked(u, d)
  PROVE  LET s == MARK(c, d)
             t == MARK(u, d)
         IN  /\ Level(s, t) /\ Same(c, s) /\ Same(u, t) /\ OnlyMarked(s, d) /\ OnlyMarked(t, d)
             /\ s.marks[d] >= 0 /\ t.marks[d] >= 0 /\ s.held = c.held
             /\ s.http_errno = c.http_errno /\ t.http_errno = u.http_errno
<1>1. PICK x, y : Reads(c, x, y) /\ Reads(u, x, y)  BY DEF Level, Read
<1>2. PICK s : s = MARK(c, d)  OBVIOUS
<1>3. PICK t : t = MARK(u, d)  OBVIOUS
<1>4. /\ Reads(s, With(x, d, 0), y) /\ Ready(s) /\ OnlyMarked(s, d) /\ s.marks[d] >= 0 /\ Same(c, s)
      /\ s.http_errno = c.http_errno /\ s.held = c.held /\ s.answer = c.answer /\ s.skip = c.skip
  BY <1>1, <1>2, MarkReads DEF Level
<1>5. /\ Reads(t, With(x, d, 0), y) /\ Ready(t) /\ OnlyMarked(t, d) /\ t.marks[d] >= 0 /\ Same(u, t)
      /\ t.http_errno = u.http_errno /\ t.held = u.held /\ t.answer = u.answer /\ t.skip = u.skip
  BY <1>1, <1>3, MarkReads DEF Level
<1>6. Same(s, t)  BY <1>4, <1>5 DEF Level, Same
<1>7. Read(s, t)  BY <1>4, <1>5 DEF Read
<1>8. Level(s, t)  BY <1>4, <1>5, <1>6, <1>7 DEF Level, Skips, Unheld, Unpausing
<1> QED BY <1>2, <1>3, <1>4, <1>5, <1>8

\* Both have marked a datum and go on in it, or one of them refuses the byte with the other.
LEMMA MarkedPair ==
  ASSUME NEW c, NEW u, NEW s, NEW t, NEW d \in Datum, Level(c, u), Unheld(c), OnlyMarked(c, d), OnlyMarked(u, d),
         c.marks[d] >= 0, u.marks[d] >= 0, Quiet(c, s), Quiet(u, t),
         s.http_errno = t.http_errno, s.http_errno # "PAUSED", s.state = t.state,
         s.http_errno = "OK" => Same(s, t) /\ s.state \in MarkPlaces[d]
  PROVE  Paired(s, t)
<1>1. CASE s.http_errno # "OK"  BY <1>1 DEF Paired, Going
<1>2. CASE s.http_errno = "OK"
  <2>1. Level(s, t)  BY <1>2, QuietLevel
  <2>2. \A e \in Datum : c.marks[e] \in Int /\ u.marks[e] \in Int  BY DEF Level, Ready
  <2>3. Alike(s, t)  BY <2>2 DEF Alike, Quiet, OnlyMarked
  <2>4. \A e \in Datum : s.state \in MarkPlaces[e] => e = d  BY <1>2, PlacesApart
  <2>5. Marked(s) /\ Marked(t)  BY <2>4 DEF Marked, Quiet
  <2> QED BY <1>2, <2>1, <2>3, <2>5 DEF Paired, Going, Quiet, Unheld
<1> QED BY <1>1, <1>2

\* In a datum of the head both have it marked and nothing else.
LEMMA TwinMarked ==
  ASSUME NEW c, NEW u, NEW d \in Datum \ {"body"}, Twin(c, u), c.state \in MarkPlaces[d]
  PROVE  OnlyMarked(c, d) /\ OnlyMarked(u, d) /\ c.marks[d] >= 0 /\ u.marks[d] >= 0
<1>1. u.state = c.state /\ \A e \in Datum : c.marks[e] \in Int /\ u.marks[e] \in Int  BY DEF Twin, Level, Same, Ready
<1>2. \A e \in Datum : c.state \in MarkPlaces[e] => e = d  BY PlacesApart
<1>3. c.marks[d] >= 0 /\ u.marks[d] >= 0  BY <1>1 DEF Twin, Marked
<1>4. OnlyMarked(c, d) /\ OnlyMarked(u, d)  BY <1>1, <1>2 DEF Twin, Placed, OnlyMarked
<1> QED BY <1>3, <1>4

\* A header size that is over the limit stops a parser; counting changes nothing else.
LEMMA CountLevel ==
  ASSUME NEW c, NEW u, NEW i, NEW j, Level(c, u), c.http_errno = "OK", u.http_errno = "OK"
  PROVE  LET s == COUNT_HEADER_SIZE(c, i)
             t == COUNT_HEADER_SIZE(u, j)
         IN  /\ s.http_errno \in {"OK", "HEADER_OVERFLOW"} /\ t.http_errno \in {"OK", "HEADER_OVERFLOW"}
             /\ Level(s, t) /\ Same(c, s) /\ Same(u, t) /\ s.marks = c.marks /\ t.marks = u.marks /\ s.held = c.held
             /\ s.answer = c.answer /\ t.answer = u.answer
<1>1. PICK s : s = COUNT_HEADER_SIZE(c, i)  OBVIOUS
<1>2. PICK t : t = COUNT_HEADER_SIZE(u, j)  OBVIOUS
<1>3. Ready(c) /\ Ready(u) /\ DOMAIN c = Fields /\ DOMAIN u = Fields  BY DEF Level, Ready
<1>4. /\ DOMAIN s = Fields /\ Same(c, s) /\ s.marks = c.marks /\ s.held = c.held /\ s.answer = c.answer
      /\ s.sent = c.sent /\ s.body = c.body /\ s.run = 0 /\ s.skip = FALSE /\ s.http_errno \in {"OK", "HEADER_OVERFLOW"}
  BY <1>1, <1>3 DEF COUNT_HEADER_SIZE, SET_ERRNO, Same, Fields
<1>5. /\ DOMAIN t = Fields /\ Same(u, t) /\ t.marks = u.marks /\ t.held = u.held /\ t.answer = u.answer
      /\ t.sent = u.sent /\ t.body = u.body /\ t.run = 0 /\ t.skip = FALSE /\ t.http_errno \in {"OK", "HEADER_OVERFLOW"}
  BY <1>2, <1>3 DEF COUNT_HEADER_SIZE, SET_ERRNO, Same, Fields
<1>6. ~Skips(s) /\ s.skip \in BOOLEAN /\ ~Skips(t) /\ t.skip \in BOOLEAN  BY <1>4, <1>5 DEF Skips
<1>7. Ready(s) /\ Ready(t)  BY <1>3, <1>4, <1>5, <1>6 DEF Ready
<1>8. PICK x, y : Reads(c, x, y) /\ Reads(u, x, y)  BY DEF Level, Read
<1>9. Reads(s, x, y) /\ Reads(t, x, y)  BY <1>4, <1>5, <1>8 DEF Reads, Unmarked
<1>10. Same(s, t)  BY <1>4, <1>5 DEF Level, Same
<1>11. Level(s, t)  BY <1>4, <1>5, <1>6, <1>7, <1>9, <1>10 DEF Level, Read, Unheld, Unpausing
<1> QED BY <1>1, <1>2, <1>4, <1>5, <1>11

\* Such a step pairs them.
LEMMA AlongPair ==
  ASSUME NEW c, NEW u, NEW s, NEW t, Twin(c, u), c.state \notin MarkPlaces["body"], Along(c, u, s, t)
  PROVE  Paired(s, t)
  BY QuietPair DEF Along, NoDatum

\* There nothing is marked.
LEMMA BareUnmarked ==
  ASSUME NEW c, NEW u, Twin(c, u), c.state \in Bare
  PROVE  /\ Unmarked(c) /\ Unmarked(u) /\ Level(c, u) /\ Unheld(c) /\ c.state \notin MarkPlaces["body"]
         /\ u.state = c.state /\ Same(c, u) /\ DOMAIN c = Fields /\ DOMAIN u = Fields
         /\ c.http_errno = "OK" /\ u.http_errno = "OK"
<1>1. \A d \in Datum : c.state \notin MarkPlaces[d]  BY DEF Bare, MarkPlaces, UrlStates, Datum
<1>2. "body" \in Datum  BY DEF Datum
<1> QED BY <1>1, <1>2, TwinUnmarked DEF Twin, Level, Ready, Same

\* A state outside a datum.
LEMMA BareNoDatum ==
  ASSUME NEW x, x \in Bare \cup MarkPlaces["body"]
  PROVE  NoDatum(x)
  BY DEF Bare, NoDatum, MarkPlaces, UrlStates, Datum

\* An error both meet.
LEMMA BothRefuse ==
  ASSUME NEW c, NEW u, NEW e, Twin(c, u), e \notin {"OK", "PAUSED"}
  PROVE  Paired(SET_ERRNO(c, e), SET_ERRNO(u, e))
<1>1. DOMAIN c = Fields /\ DOMAIN u = Fields /\ c.state = u.state  BY DEF Twin, Level, Ready, Same
<1> QED BY <1>1, ErrnoEffect DEF Paired, Going

\* Nothing happens to either.
LEMMA BothStay ==
  ASSUME NEW c, NEW u, Twin(c, u), c.state \notin MarkPlaces["body"]
  PROVE  Paired(c, u)
  BY TwinAlike DEF Paired, Twin, Going

\* Both go to a state outside the data.
LEMMA BothGo ==
  ASSUME NEW c, NEW u, NEW x, Twin(c, u), c.state \in Bare, x \in Bare \cup MarkPlaces["body"]
  PROVE  LET s == UPDATE_STATE(c, x)
             t == UPDATE_STATE(u, x)
         IN  Along(c, u, s, t) /\ Paired(s, t) /\ Twin(s, t)
<1>1. /\ Unmarked(c) /\ Unmarked(u) /\ Level(c, u) /\ Unheld(c) /\ c.state \notin MarkPlaces["body"]
      /\ u.state = c.state /\ Same(c, u) /\ DOMAIN c = Fields /\ DOMAIN u = Fields
      /\ c.http_errno = "OK" /\ u.http_errno = "OK"
  BY BareUnmarked
<1>2. PICK s, t : s = UPDATE_STATE(c, x) /\ t = UPDATE_STATE(u, x)  OBVIOUS
<1>3. /\ Quiet(c, s) /\ Quiet(u, t) /\ Same(s, t) /\ s.http_errno = "OK" /\ t.http_errno = "OK" /\ s.state = x /\ t.state = x
  BY <1>1, <1>2 DEF UPDATE_STATE, Quiet, Same, Fields
<1>4. Along(c, u, s, t)  BY <1>3, BareNoDatum DEF Along
<1>5. Paired(s, t)  BY <1>1, <1>4, AlongPair
<1>6. Twin(s, t)  BY <1>1, <1>3, BareNoDatum, QuietTwin
<1> QED BY <1>2, <1>4, <1>5, <1>6

\* The letters of HTTP/.
LEMMA LetterPair ==
  ASSUME NEW c, NEW u, NEW ch, Twin(c, u), c.state \in DOMAIN Letters
  PROVE  Paired(Letter(c, ch), Letter(u, ch))
<1>1. c.state \in Bare /\ Letters[c.state][2] \in Bare  BY DEF Letters, Bare
<1>2. u.state = c.state /\ c.http_errno = "OK" /\ u.http_errno = "OK" /\ DOMAIN c = Fields /\ DOMAIN u = Fields
  BY <1>1, BareUnmarked
<1>3. CASE ch = Letters[c.state][1]
  <2>1. Letter(c, ch) = UPDATE_STATE(c, Letters[c.state][2]) /\ Letter(u, ch) = UPDATE_STATE(u, Letters[c.state][2])
    BY <1>2, <1>3 DEF Letter, STRICT_CHECK, Then
  <2> QED BY <1>1, <2>1, BothGo
<1>4. CASE ch # Letters[c.state][1]
  <2>1. Letter(c, ch) = SET_ERRNO(c, "STRICT") /\ Letter(u, ch) = SET_ERRNO(u, "STRICT")
    BY <1>2, <1>4, ErrnoEffect DEF Letter, STRICT_CHECK, Then
  <2> QED BY <2>1, BothRefuse
<1> QED BY <1>3, <1>4

\* The LF of a line, checked in one way or the other.
LEMMA LineEndPair ==
  ASSUME NEW c, NEW u, NEW ch, NEW next \in Bare, Twin(c, u), c.state \in Bare
  PROVE  /\ Paired(LineAlmostDone(c, ch, next), LineAlmostDone(u, ch, next))
         /\ Paired(Then(STRICT_CHECK(c, ch, LF), LAMBDA t : UPDATE_STATE(t, next)),
                   Then(STRICT_CHECK(u, ch, LF), LAMBDA t : UPDATE_STATE(t, next)))
<1>1. c.http_errno = "OK" /\ u.http_errno = "OK" /\ DOMAIN c = Fields /\ DOMAIN u = Fields  BY BareUnmarked
<1>2. PICK s : s = Then(STRICT_CHECK(c, ch, LF), LAMBDA t_1 : UPDATE_STATE(t_1, next))  OBVIOUS
<1>3. PICK t : t = Then(STRICT_CHECK(u, ch, LF), LAMBDA t_1 : UPDATE_STATE(t_1, next))  OBVIOUS
<1>4. Paired(UPDATE_STATE(c, next), UPDATE_STATE(u, next))  BY BothGo
<1>5. Paired(LineAlmostDone(c, ch, next), LineAlmostDone(u, ch, next))  BY <1>4, BothRefuse DEF LineAlmostDone
<1>6. CASE ch = LF
  <2>1. s = UPDATE_STATE(c, next) /\ t = UPDATE_STATE(u, next)  BY <1>1, <1>2, <1>3, <1>6 DEF STRICT_CHECK, Then
  <2> QED BY <1>2, <1>3, <1>4, <1>5, <2>1
<1>7. CASE ch # LF
  <2>1. s = SET_ERRNO(c, "STRICT") /\ t = SET_ERRNO(u, "STRICT")
    BY <1>1, <1>2, <1>3, <1>7, ErrnoEffect DEF STRICT_CHECK, Then
  <2>2. Paired(s, t)  BY <2>1, BothRefuse
  <2> QED BY <1>2, <1>3, <1>5, <2>2
<1> QED BY <1>6, <1>7

\* The version of a response.
LEMMA ResVersionPair ==
  ASSUME NEW c, NEW u, NEW ch, Twin(c, u), c.state \in ResVersionStates
  PROVE  Paired(ResVersion(c, ch), ResVersion(u, ch))
<1>1. c.state \in Bare  BY DEF ResVersionStates, Bare
<1>2. /\ u.state = c.state /\ Same(c, u) /\ DOMAIN c = Fields /\ DOMAIN u = Fields
      /\ c.http_errno = "OK" /\ u.http_errno = "OK" /\ c.state \notin MarkPlaces["body"]
  BY <1>1, BareUnmarked
<1>3. PICK s, t : s = ResVersion(c, ch) /\ t = ResVersion(u, ch)  OBVIOUS
<1>4. /\ Quiet(c, s) /\ Quiet(u, t) /\ s.http_errno = t.http_errno /\ s.http_errno # "PAUSED" /\ Same(s, t) /\ s.state \in Bare
  <2>1. CASE c.state = "s_res_first_http_major"
    BY <1>2, <1>3, <2>1 DEF ResVersion, FirstMajor, SET_ERRNO, Quiet, Same, Fields, Bare
  <2>2. CASE c.state = "s_res_http_major"
    BY <1>2, <1>3, <2>2 DEF ResVersion, Major, UPDATE_STATE, SET_ERRNO, Quiet, Same, Fields, Bare
  <2>3. CASE c.state = "s_res_first_http_minor"
    BY <1>2, <1>3, <2>3 DEF ResVersion, FirstMinor, SET_ERRNO, Quiet, Same, Fields, Bare
  <2>4. CASE c.state = "s_res_http_minor"
    BY <1>2, <1>3, <2>4 DEF ResVersion, Minor, UPDATE_STATE, SET_ERRNO, Quiet, Same, Fields, Bare
  <2> QED BY <2>1, <2>2, <2>3, <2>4 DEF ResVersionStates
<1>5. Along(c, u, s, t)  BY <1>4, BareNoDatum DEF Along, Same
<1> QED BY <1>2, <1>3, <1>5, AlongPair

\* The version of a request.
LEMMA ReqVersionPair ==
  ASSUME NEW c, NEW u, NEW ch, Twin(c, u), c.state \in ReqVersionStates
  PROVE  Paired(ReqVersion(c, ch), ReqVersion(u, ch))
<1>1. c.state \in Bare  BY DEF ReqVersionStates, Bare
<1>2. /\ u.state = c.state /\ Same(c, u) /\ DOMAIN c = Fields /\ DOMAIN u = Fields
      /\ c.http_errno = "OK" /\ u.http_errno = "OK" /\ c.state \notin MarkPlaces["body"]
  BY <1>1, BareUnmarked
<1>3. PICK s, t : s = ReqVersion(c, ch) /\ t = ReqVersion(u, ch)  OBVIOUS
<1>4. /\ Quiet(c, s) /\ Quiet(u, t) /\ s.http_errno = t.http_errno /\ s.http_errno # "PAUSED" /\ Same(s, t) /\ s.state \in Bare
  <2>1. CASE c.state = "s_req_first_http_major"
    BY <1>2, <1>3, <2>1 DEF ReqVersion, FirstMajor, SET_ERRNO, Quiet, Same, Fields, Bare
  <2>2. CASE c.state = "s_req_http_major"
    BY <1>2, <1>3, <2>2 DEF ReqVersion, Major, UPDATE_STATE, SET_ERRNO, Quiet, Same, Fields, Bare
  <2>3. CASE c.state = "s_req_first_http_minor"
    BY <1>2, <1>3, <2>3 DEF ReqVersion, FirstMinor, SET_ERRNO, Quiet, Same, Fields, Bare
  <2>4. CASE c.state = "s_req_http_minor"
    BY <1>2, <1>3, <2>4 DEF ReqVersion, Minor, UPDATE_STATE, SET_ERRNO, Quiet, Same, Fields, Bare
  <2> QED BY <2>1, <2>2, <2>3, <2>4 DEF ReqVersionStates
<1>5. Along(c, u, s, t)  BY <1>4, BareNoDatum DEF Along, Same
<1> QED BY <1>2, <1>3, <1>5, AlongPair

\* The status code.
LEMMA StatusCodePair ==
  ASSUME NEW c, NEW u, NEW ch, Twin(c, u), c.state \in {"s_res_first_status_code", "s_res_status_code"}
  PROVE  Paired(StatusCode(c, ch), StatusCode(u, ch))
<1>1. c.state \in Bare  BY DEF Bare
<1>2. /\ u.state = c.state /\ Same(c, u) /\ DOMAIN c = Fields /\ DOMAIN u = Fields
      /\ c.http_errno = "OK" /\ u.http_errno = "OK" /\ c.state \notin MarkPlaces["body"]
  BY <1>1, BareUnmarked
<1>3. PICK s, t : s = StatusCode(c, ch) /\ t = StatusCode(u, ch)  OBVIOUS
<1>4. /\ Quiet(c, s) /\ Quiet(u, t) /\ s.http_errno = t.http_errno /\ s.http_errno # "PAUSED" /\ Same(s, t) /\ s.state \in Bare
  BY <1>2, <1>3 DEF StatusCode, UPDATE_STATE, SET_ERRNO, Quiet, Same, Fields, Bare, CR, LF, SP
<1>5. Along(c, u, s, t)  BY <1>4, BareNoDatum DEF Along, Same
<1> QED BY <1>2, <1>3, <1>5, AlongPair

\* The byte that tells a request from a response, and the one after the URL.
LEMMA ResOrRespHPair ==
  ASSUME NEW c, NEW u, NEW ch, Twin(c, u), c.state = "s_res_or_resp_H"
  PROVE  Paired(ResOrRespH(c, ch), ResOrRespH(u, ch))
<1>1. c.state \in Bare  BY DEF Bare
<1>2. /\ u.state = c.state /\ Same(c, u) /\ DOMAIN c = Fields /\ DOMAIN u = Fields
      /\ c.http_errno = "OK" /\ u.http_errno = "OK" /\ c.state \notin MarkPlaces["body"]
  BY <1>1, BareUnmarked
<1>3. PICK s, t : s = ResOrRespH(c, ch) /\ t = ResOrRespH(u, ch)  OBVIOUS
<1>4. /\ Quiet(c, s) /\ Quiet(u, t) /\ s.http_errno = t.http_errno /\ s.http_errno # "PAUSED" /\ Same(s, t) /\ s.state \in Bare
  BY <1>2, <1>3 DEF ResOrRespH, SET_ERRNO, Quiet, Same, Fields, Bare
<1>5. Along(c, u, s, t)  BY <1>4, BareNoDatum DEF Along, Same
<1> QED BY <1>2, <1>3, <1>5, AlongPair

\* The byte after the URL.
LEMMA ReqHttpStartPair ==
  ASSUME NEW c, NEW u, NEW ch, Twin(c, u), c.state = "s_req_http_start"
  PROVE  Paired(ReqHttpStart(c, ch), ReqHttpStart(u, ch))
<1>1. c.state \in Bare /\ "s_req_http_H" \in Bare  BY DEF Bare
<1>2. c.state \notin MarkPlaces["body"]  BY <1>1, BareUnmarked
<1>3. Paired(UPDATE_STATE(c, "s_req_http_H"), UPDATE_STATE(u, "s_req_http_H")) /\ Paired(c, u)
      /\ Paired(SET_ERRNO(c, "INVALID_CONSTANT"), SET_ERRNO(u, "INVALID_CONSTANT"))
  BY <1>1, <1>2, BothGo, BothStay, BothRefuse
<1>4. "H" # SP  BY DEF SP
<1> QED BY <1>3, <1>4 DEF ReqHttpStart

\* The method.
LEMMA ReqMethodPair ==
  ASSUME NEW c, NEW u, NEW ch, Twin(c, u), c.state = "s_req_method"
  PROVE  Paired(ReqMethod(c, ch), ReqMethod(u, ch))
<1>1. c.state \in Bare  BY DEF Bare
<1>2. /\ u.state = c.state /\ Same(c, u) /\ DOMAIN c = Fields /\ DOMAIN u = Fields
      /\ c.http_errno = "OK" /\ u.http_errno = "OK" /\ c.state \notin MarkPlaces["body"]
  BY <1>1, BareUnmarked
<1>3. PICK s, t : s = ReqMethod(c, ch) /\ t = ReqMethod(u, ch)  OBVIOUS
<1>4. PICK matcher, rows : /\ matcher = method_strings[c.method]
                           /\ rows = {row \in MethodSwitch : row[1] = c.method /\ row[2] = c.index /\ row[3] = ch}
  OBVIOUS
<1>5. /\ matcher = method_strings[u.method]
      /\ rows = {row \in MethodSwitch : row[1] = u.method /\ row[2] = u.index /\ row[3] = ch}
  BY <1>2, <1>4 DEF Same
<1>6. PICK v, w : v = [c EXCEPT !.index = @ + 1] /\ w = [u EXCEPT !.index = @ + 1]  OBVIOUS
<1>7. Quiet(c, v) /\ Quiet(u, w) /\ Same(v, w) /\ v.http_errno = "OK" /\ w.http_errno = "OK" /\ v.state = c.state
  BY <1>2, <1>6 DEF Quiet, Same, Fields
<1>8. s = IF ch = SP /\ c.index = Len(matcher) THEN UPDATE_STATE(v, "s_req_spaces_before_url")
          ELSE IF c.index < Len(matcher) /\ ch = matcher[c.index + 1] THEN v
          ELSE IF rows # {} THEN [v EXCEPT !.method = (CHOOSE row \in rows : TRUE)[4]]
          ELSE SET_ERRNO(c, "INVALID_METHOD")
  BY <1>3, <1>4, <1>6 DEF ReqMethod
<1>9. t = IF ch = SP /\ c.index = Len(matcher) THEN UPDATE_STATE(w, "s_req_spaces_before_url")
          ELSE IF c.index < Len(matcher) /\ ch = matcher[c.index + 1] THEN w
          ELSE IF rows # {} THEN [w EXCEPT !.method = (CHOOSE row \in rows : TRUE)[4]]
          ELSE SET_ERRNO(u, "INVALID_METHOD")
  <2>1. t = IF ch = SP /\ u.index = Len(matcher) THEN UPDATE_STATE(w, "s_req_spaces_before_url")
            ELSE IF u.index < Len(matcher) /\ ch = matcher[u.index + 1] THEN w
            ELSE IF rows # {} THEN [w EXCEPT !.method = (CHOOSE row \in rows : TRUE)[4]]
            ELSE SET_ERRNO(u, "INVALID_METHOD")
    BY <1>3, <1>5, <1>6 DEF ReqMethod
  <2> QED BY <1>2, <2>1 DEF Same
<1>10. PICK m : m = (CHOOSE row \in rows : TRUE)[4]  OBVIOUS
<1>11. \/ s = UPDATE_STATE(v, "s_req_spaces_before_url") /\ t = UPDATE_STATE(w, "s_req_spaces_before_url")
       \/ s = v /\ t = w
       \/ s = [v EXCEPT !.method = m] /\ t = [w EXCEPT !.method = m]
       \/ s = SET_ERRNO(c, "INVALID_METHOD") /\ t = SET_ERRNO(u, "INVALID_METHOD")
  BY <1>8, <1>9, <1>10
<1>12. /\ Quiet(c, s) /\ Quiet(u, t) /\ s.http_errno = t.http_errno /\ s.http_errno # "PAUSED" /\ Same(s, t) /\ s.state \in Bare
  BY <1>1, <1>2, <1>7, <1>11 DEF UPDATE_STATE, SET_ERRNO, Quiet, Same, Fields, Bare
<1>13. Along(c, u, s, t)  BY <1>12, BareNoDatum DEF Along, Same
<1> QED BY <1>2, <1>3, <1>13, AlongPair

\* A notification that holds no byte.
LEMMA NotifyPair ==
  ASSUME NEW c, NEW u, NEW cb, Twin(c, u), c.state \in Bare \cup MarkPlaces["body"], Unmarked(c), Unmarked(u)
  PROVE  Paired(CALLBACK_NOTIFY(c, cb), CALLBACK_NOTIFY(u, cb))
<1>1. PICK b : b = FALSE  OBVIOUS
<1>2. PICK s, t : s = CALLBACK_NOTIFY_(c, cb, b) /\ t = CALLBACK_NOTIFY_(u, cb, b)  OBVIOUS
<1>3. Level(c, u) /\ c.http_errno = "OK" /\ u.http_errno = "OK" /\ Unheld(c)  BY DEF Twin
<1>4. Met(s, t, b) /\ s.state = c.state  BY <1>2, <1>3, NotifyMeets
<1>5. NoDatum(s.state)  BY <1>4, BareNoDatum
<1>6. Paired(s, t)  BY <1>1, <1>4, <1>5, MetPaired
<1> QED BY <1>1, <1>2, <1>6 DEF CALLBACK_NOTIFY

\* The start of a request.
LEMMA StartReqPair ==
  ASSUME NEW c, NEW u, NEW ch, Twin(c, u), c.state = "s_start_req"
  PROVE  Paired(StartReq(c, ch), StartReq(u, ch))
<1>1. c.state \in Bare /\ "s_req_method" \in Bare  BY DEF Bare
<1>2. /\ u.state = c.state /\ Same(c, u) /\ DOMAIN c = Fields /\ DOMAIN u = Fields /\ Level(c, u) /\ Unheld(c)
      /\ c.http_errno = "OK" /\ u.http_errno = "OK" /\ c.state \notin MarkPlaces["body"] /\ Unmarked(c) /\ Unmarked(u)
  BY <1>1, BareUnmarked
<1>3. CASE ch \in {CR, LF}
  <2>1. StartReq(c, ch) = c /\ StartReq(u, ch) = u  BY <1>3 DEF StartReq, CR, LF, FirstMethod
  <2> QED BY <1>2, <2>1, BothStay
<1>4. CASE ch \notin {CR, LF} /\ ch \in DOMAIN FirstMethod
  <2>1. PICK m : m = FirstMethod[ch]  OBVIOUS
  <2>2. PICK v, w : /\ v = [Fresh(c) EXCEPT !.method = m, !.index = 1, !.state = "s_req_method"]
                    /\ w = [Fresh(u) EXCEPT !.method = m, !.index = 1, !.state = "s_req_method"]
    OBVIOUS
  <2>3. /\ Quiet(c, v) /\ Quiet(u, w) /\ Same(v, w) /\ v.http_errno = "OK" /\ w.http_errno = "OK"
        /\ v.state = "s_req_method"
    BY <1>2, <2>2 DEF Fresh, Quiet, Same, Fields
  <2>4. Twin(v, w) /\ Unmarked(v) /\ Unmarked(w)  BY <1>1, <1>2, <2>3, BareNoDatum, QuietTwin
  <2>5. StartReq(c, ch) = CALLBACK_NOTIFY(v, "message_begin") /\ StartReq(u, ch) = CALLBACK_NOTIFY(w, "message_begin")
    BY <1>4, <2>1, <2>2 DEF StartReq
  <2> QED BY <1>1, <2>3, <2>4, <2>5, NotifyPair
<1>5. CASE ch \notin {CR, LF} /\ ch \notin DOMAIN FirstMethod
  <2>1. /\ StartReq(c, ch) = SET_ERRNO(Fresh(c), "INVALID_METHOD")
        /\ StartReq(u, ch) = SET_ERRNO(Fresh(u), "INVALID_METHOD")
    BY <1>5 DEF StartReq
  <2> QED BY <1>2, <2>1 DEF SET_ERRNO, Fresh, Fields, Paired, Going
<1> QED BY <1>3, <1>4, <1>5

\* The start of a response.
LEMMA StartResPair ==
  ASSUME NEW c, NEW u, NEW ch, Twin(c, u), c.state = "s_start_res"
  PROVE  Paired(StartRes(c, ch), StartRes(u, ch))
<1>1. c.state \in Bare /\ "s_res_H" \in Bare  BY DEF Bare
<1>2. /\ u.state = c.state /\ Same(c, u) /\ DOMAIN c = Fields /\ DOMAIN u = Fields /\ Level(c, u) /\ Unheld(c)
      /\ c.http_errno = "OK" /\ u.http_errno = "OK" /\ c.state \notin MarkPlaces["body"] /\ Unmarked(c) /\ Unmarked(u)
  BY <1>1, BareUnmarked
<1>3. PICK f, g : f = Fresh(c) /\ g = Fresh(u)  OBVIOUS
<1>4. /\ Quiet(c, f) /\ Quiet(u, g) /\ Same(f, g) /\ f.http_errno = "OK" /\ g.http_errno = "OK" /\ f.state = "s_start_res"
  BY <1>2, <1>3 DEF Fresh, Quiet, Same, Fields
<1>5. Twin(f, g) /\ Unmarked(f) /\ Unmarked(g)  BY <1>1, <1>2, <1>4, BareNoDatum, QuietTwin
<1>6. CASE ch = "H"
  <2>1. PICK v, w : v = UPDATE_STATE(f, "s_res_H") /\ w = UPDATE_STATE(g, "s_res_H")  OBVIOUS
  <2>2. Twin(v, w)  BY <1>1, <1>4, <1>5, <2>1, BothGo
  <2>3. v.state = "s_res_H" /\ v.marks = f.marks /\ w.marks = g.marks  BY <1>4, <2>1, StateEffect DEF Quiet
  <2>4. Unmarked(v) /\ Unmarked(w)  BY <1>5, <2>3 DEF Unmarked
  <2>5. StartRes(c, ch) = CALLBACK_NOTIFY(v, "message_begin") /\ StartRes(u, ch) = CALLBACK_NOTIFY(w, "message_begin")
    BY <1>3, <1>6, <2>1 DEF StartRes, CR, LF
  <2> QED BY <1>1, <2>2, <2>3, <2>4, <2>5, NotifyPair
<1>7. CASE ch \in {CR, LF}
  <2>1. StartRes(c, ch) = CALLBACK_NOTIFY(f, "message_begin") /\ StartRes(u, ch) = CALLBACK_NOTIFY(g, "message_begin")
    BY <1>3, <1>7 DEF StartRes, CR, LF
  <2> QED BY <1>1, <1>4, <1>5, <2>1, NotifyPair
<1>8. CASE ch # "H" /\ ch \notin {CR, LF}
  <2>1. StartRes(c, ch) = SET_ERRNO(f, "INVALID_CONSTANT") /\ StartRes(u, ch) = SET_ERRNO(g, "INVALID_CONSTANT")
    BY <1>3, <1>8 DEF StartRes
  <2> QED BY <1>5, <2>1, BothRefuse
<1> QED BY <1>6, <1>7, <1>8

\* The start of either.
LEMMA StartReqOrResPair ==
  ASSUME NEW c, NEW u, NEW ch, Twin(c, u), c.state = "s_start_req_or_res"
  PROVE  Paired(StartReqOrRes(c, ch), StartReqOrRes(u, ch))
<1>1. c.state \in Bare /\ "s_res_or_resp_H" \in Bare /\ "s_start_req" \in Bare  BY DEF Bare
<1>2. /\ u.state = c.state /\ Same(c, u) /\ DOMAIN c = Fields /\ DOMAIN u = Fields /\ Level(c, u) /\ Unheld(c)
      /\ c.http_errno = "OK" /\ u.http_errno = "OK" /\ c.state \notin MarkPlaces["body"] /\ Unmarked(c) /\ Unmarked(u)
  BY <1>1, BareUnmarked
<1>3. CASE ch \in {CR, LF}
  <2>1. StartReqOrRes(c, ch) = c /\ StartReqOrRes(u, ch) = u  BY <1>3 DEF StartReqOrRes, CR, LF
  <2> QED BY <1>2, <2>1, BothStay
<1>4. CASE ch = "H"
  <2>1. PICK v, w : v = UPDATE_STATE(Fresh(c), "s_res_or_resp_H") /\ w = UPDATE_STATE(Fresh(u), "s_res_or_resp_H")
    OBVIOUS
  <2>2. /\ Quiet(c, v) /\ Quiet(u, w) /\ Same(v, w) /\ v.http_errno = "OK" /\ w.http_errno = "OK"
        /\ v.state = "s_res_or_resp_H"
    BY <1>2, <2>1 DEF Fresh, UPDATE_STATE, Quiet, Same, Fields
  <2>3. Twin(v, w) /\ Unmarked(v) /\ Unmarked(w)  BY <1>1, <1>2, <2>2, BareNoDatum, QuietTwin
  <2>4. /\ StartReqOrRes(c, ch) = CALLBACK_NOTIFY(v, "message_begin")
        /\ StartReqOrRes(u, ch) = CALLBACK_NOTIFY(w, "message_begin")
    BY <1>4, <2>1 DEF StartReqOrRes, CR, LF
  <2> QED BY <1>1, <2>2, <2>3, <2>4, NotifyPair
<1>5. CASE ch \notin {CR, LF} /\ ch # "H"
  <2>1. PICK v, w : /\ v = [Fresh(c) EXCEPT !.type = "REQUEST", !.state = "s_start_req"]
                    /\ w = [Fresh(u) EXCEPT !.type = "REQUEST", !.state = "s_start_req"]
    OBVIOUS
  <2>2. /\ Quiet(c, v) /\ Quiet(u, w) /\ Same(v, w) /\ v.http_errno = "OK" /\ w.http_errno = "OK"
        /\ v.state = "s_start_req"
    BY <1>2, <2>1 DEF Fresh, Quiet, Same, Fields
  <2>3. Twin(v, w)  BY <1>1, <1>2, <2>2, BareNoDatum, QuietTwin
  <2>4. StartReqOrRes(c, ch) = StartReq(v, ch) /\ StartReqOrRes(u, ch) = StartReq(w, ch)
    BY <1>5, <2>1 DEF StartReqOrRes
  <2> QED BY <2>2, <2>3, <2>4, StartReqPair
<1> QED BY <1>3, <1>4, <1>5

\* The end of a datum that holds no byte.
LEMMA DataPair ==
  ASSUME NEW c, NEW u, NEW v, NEW w, NEW d \in Datum, Level(c, u), Unheld(c), OnlyMarked(c, d), OnlyMarked(u, d),
         Quiet(c, v), Quiet(u, w), Same(v, w), v.http_errno = "OK", w.http_errno = "OK", v.state \in Bare
  PROVE  Paired(CALLBACK_DATA(v, d), CALLBACK_DATA(w, d))
<1>1. PICK b : b = FALSE  OBVIOUS
<1>2. PICK s, t : s = CALLBACK_DATA_(v, d, v.marks[d], b) /\ t = CALLBACK_DATA_(w, d, w.marks[d], b)  OBVIOUS
<1>3. Level(v, w) /\ Unheld(v) /\ OnlyMarked(v, d) /\ OnlyMarked(w, d)  BY QuietLevel DEF Quiet, Unheld, OnlyMarked
<1>4. Met(s, t, b) /\ Same(v, s)  BY <1>2, <1>3, DataMeets
<1>5. NoDatum(s.state)  BY <1>4, BareNoDatum DEF Same
<1>6. Paired(s, t)  BY <1>1, <1>4, <1>5, MetPaired
<1> QED BY <1>1, <1>2, <1>6 DEF CALLBACK_DATA

\* Without marks any datum may be the only one.
LEMMA UnmarkedOnly ==
  ASSUME NEW s, NEW d, Unmarked(s)
  PROVE  OnlyMarked(s, d)
  BY DEF Unmarked, OnlyMarked

\* The reason phrase.
LEMMA StatusTextPair ==
  ASSUME NEW c, NEW u, NEW ch, Twin(c, u), c.state \in {"s_res_status_start", "s_res_status"}
  PROVE  Paired(StatusText(c, ch), StatusText(u, ch))
<1>1. /\ "status" \in Datum \ {"body"} /\ "s_res_status" \in MarkPlaces["status"] /\ c.state \notin MarkPlaces["body"]
      /\ "s_res_line_almost_done" \in Bare /\ "s_header_field_start" \in Bare /\ "s_res_status_start" \in Bare
      /\ \A x : x \in MarkPlaces["status"] => x = "s_res_status"
  BY DEF Datum, MarkPlaces, Bare
<1>2. /\ u.state = c.state /\ Same(c, u) /\ DOMAIN c = Fields /\ DOMAIN u = Fields /\ Level(c, u) /\ Unheld(c)
      /\ c.http_errno = "OK" /\ u.http_errno = "OK"
  BY DEF Twin, Level, Ready, Same
<1>3. OnlyMarked(c, "status") /\ OnlyMarked(u, "status")
  <2>1. CASE c.state = "s_res_status"  BY <1>1, <2>1, TwinMarked
  <2>2. CASE c.state = "s_res_status_start"  BY <1>1, <2>2, BareUnmarked, UnmarkedOnly
  <2> QED BY <2>1, <2>2
<1>4. CASE ch = CR
  <2>1. PICK v, w : v = UPDATE_STATE(c, "s_res_line_almost_done") /\ w = UPDATE_STATE(u, "s_res_line_almost_done")
    OBVIOUS
  <2>2. Quiet(c, v) /\ Quiet(u, w) /\ Same(v, w) /\ v.http_errno = "OK" /\ w.http_errno = "OK" /\ v.state \in Bare
    BY <1>1, <1>2, <2>1 DEF UPDATE_STATE, Quiet, Same, Fields
  <2>3. StatusText(c, ch) = CALLBACK_DATA(v, "status") /\ StatusText(u, ch) = CALLBACK_DATA(w, "status")
    BY <1>4, <2>1 DEF StatusText, CR, LF
  <2> QED BY <1>1, <1>2, <1>3, <2>2, <2>3, DataPair
<1>5. CASE ch = LF
  <2>1. PICK v, w : v = UPDATE_STATE(c, "s_header_field_start") /\ w = UPDATE_STATE(u, "s_header_field_start")
    OBVIOUS
  <2>2. Quiet(c, v) /\ Quiet(u, w) /\ Same(v, w) /\ v.http_errno = "OK" /\ w.http_errno = "OK" /\ v.state \in Bare
    BY <1>1, <1>2, <2>1 DEF UPDATE_STATE, Quiet, Same, Fields
  <2>3. StatusText(c, ch) = CALLBACK_DATA(v, "status") /\ StatusText(u, ch) = CALLBACK_DATA(w, "status")
    BY <1>5, <2>1 DEF StatusText, CR, LF
  <2> QED BY <1>1, <1>2, <1>3, <2>2, <2>3, DataPair
<1>6. CASE ch \notin {CR, LF} /\ c.state = "s_res_status"
  <2>1. StatusText(c, ch) = c /\ StatusText(u, ch) = u  BY <1>2, <1>6 DEF StatusText
  <2> QED BY <1>1, <2>1, BothStay
<1>7. CASE ch \notin {CR, LF} /\ c.state # "s_res_status"
  <2>1. PICK v, w : v = MARK(c, "status") /\ w = MARK(u, "status")  OBVIOUS
  <2>2. /\ Level(v, w) /\ Same(c, v) /\ Same(u, w) /\ OnlyMarked(v, "status") /\ OnlyMarked(w, "status")
        /\ v.marks["status"] >= 0 /\ w.marks["status"] >= 0 /\ v.held = c.held
        /\ v.http_errno = c.http_errno /\ w.http_errno = u.http_errno
    BY <1>1, <1>2, <1>3, <2>1, MarkLevel
  <2>3. PICK s, t : s = [v EXCEPT !.state = "s_res_status", !.index = 0] /\ t = [w EXCEPT !.state = "s_res_status", !.index = 0]
    OBVIOUS
  <2>4. DOMAIN v = Fields /\ DOMAIN w = Fields /\ Same(v, w) /\ Unheld(v)  BY <1>2, <2>2 DEF Level, Ready, Unheld
  <2>5. /\ Quiet(v, s) /\ Quiet(w, t) /\ s.http_errno = "OK" /\ t.http_errno = "OK" /\ Same(s, t) /\ s.state = "s_res_status"
        /\ t.state = "s_res_status"
    BY <1>2, <2>2, <2>3, <2>4 DEF Quiet, Same, Fields
  <2>6. Paired(s, t)  BY <1>1, <2>2, <2>4, <2>5, MarkedPair
  <2>7. StatusText(c, ch) = s /\ StatusText(u, ch) = t  BY <1>2, <1>7, <2>1, <2>3 DEF StatusText
  <2> QED BY <2>6, <2>7
<1> QED BY <1>4, <1>5, <1>6, <1>7

\* The first character of a URL.
LEMMA SpacesBeforeUrlPair ==
  ASSUME NEW c, NEW u, NEW ch, Twin(c, u), c.state = "s_req_spaces_before_url"
  PROVE  Paired(SpacesBeforeUrl(c, ch), SpacesBeforeUrl(u, ch))
<1>1. "url" \in Datum /\ c.state \in Bare /\ MarkPlaces["url"] = UrlStates  BY DEF Datum, MarkPlaces, Bare
<1>2. /\ u.state = c.state /\ Same(c, u) /\ DOMAIN c = Fields /\ DOMAIN u = Fields /\ Level(c, u) /\ Unheld(c)
      /\ c.http_errno = "OK" /\ u.http_errno = "OK" /\ c.state \notin MarkPlaces["body"] /\ Unmarked(c) /\ Unmarked(u)
  BY <1>1, BareUnmarked
<1>3. CASE ch = SP
  <2>1. SpacesBeforeUrl(c, ch) = c /\ SpacesBeforeUrl(u, ch) = u  BY <1>3 DEF SpacesBeforeUrl
  <2> QED BY <1>2, <2>1, BothStay
<1>4. CASE ch # SP
  <2>1. PICK f, g : /\ f = IF c.method = "CONNECT" THEN UPDATE_STATE(c, "s_req_server_start") ELSE c
                    /\ g = IF u.method = "CONNECT" THEN UPDATE_STATE(u, "s_req_server_start") ELSE u
    OBVIOUS
  <2>2. Quiet(c, f) /\ Quiet(u, g) /\ Same(f, g) /\ f.http_errno = "OK" /\ g.http_errno = "OK"
    BY <1>2, <2>1 DEF UPDATE_STATE, Quiet, Same, Fields
  <2>3. Level(f, g) /\ Unheld(f) /\ OnlyMarked(f, "url") /\ OnlyMarked(g, "url")
    BY <1>2, <2>2, QuietLevel DEF Quiet, Unheld, OnlyMarked, Unmarked
  <2>4. PICK v, w : v = MARK(f, "url") /\ w = MARK(g, "url")  OBVIOUS
  <2>5. /\ Level(v, w) /\ OnlyMarked(v, "url") /\ OnlyMarked(w, "url")
        /\ v.marks["url"] >= 0 /\ w.marks["url"] >= 0 /\ v.held = f.held
        /\ v.http_errno = f.http_errno /\ w.http_errno = g.http_errno
    BY <1>1, <2>3, <2>4, MarkLevel
  <2>6. DOMAIN v = Fields /\ DOMAIN w = Fields /\ Same(v, w) /\ Unheld(v)  BY <2>3, <2>5 DEF Level, Ready, Unheld
  <2>7. PICK x : x = parse_url_char(v.state, ch)  OBVIOUS
  <2>8. x \in UrlStates \cup {"s_dead"}  BY <2>7, UrlCharStates
  <2>9. PICK s, t : s = UrlByte(v, ch) /\ t = UrlByte(w, ch)  OBVIOUS
  <2>10. /\ Quiet(v, s) /\ Quiet(w, t) /\ s.http_errno = t.http_errno /\ s.http_errno # "PAUSED" /\ s.state = t.state
         /\ s.state = x /\ Same(s, t) /\ (s.http_errno = "OK" => x # "s_dead")
    BY <2>2, <2>5, <2>6, <2>7, <2>9 DEF UrlByte, UPDATE_STATE, SET_ERRNO, Quiet, Same, Fields
  <2>11. Paired(s, t)  BY <1>1, <2>5, <2>6, <2>8, <2>10, MarkedPair
  <2>12. SpacesBeforeUrl(c, ch) = s /\ SpacesBeforeUrl(u, ch) = t  BY <1>4, <2>1, <2>4, <2>9 DEF SpacesBeforeUrl
  <2> QED BY <2>11, <2>12
<1> QED BY <1>3, <1>4

\* The other characters of a URL, and its end.
LEMMA UrlStateBytePair ==
  ASSUME NEW c, NEW u, NEW ch, Twin(c, u), c.state \in UrlStates
  PROVE  Paired(UrlStateByte(c, ch), UrlStateByte(u, ch))
<1>1. /\ "url" \in Datum \ {"body"} /\ MarkPlaces["url"] = UrlStates
      /\ "s_req_http_start" \in Bare /\ "s_req_line_almost_done" \in Bare /\ "s_header_field_start" \in Bare
  BY DEF Datum, MarkPlaces, Bare
<1>2. /\ u.state = c.state /\ Same(c, u) /\ DOMAIN c = Fields /\ DOMAIN u = Fields /\ Level(c, u) /\ Unheld(c)
      /\ c.http_errno = "OK" /\ u.http_errno = "OK"
  BY DEF Twin, Level, Ready, Same
<1>3. OnlyMarked(c, "url") /\ OnlyMarked(u, "url") /\ c.marks["url"] >= 0 /\ u.marks["url"] >= 0  BY <1>1, TwinMarked
<1>4. PICK s, t : s = UrlStateByte(c, ch) /\ t = UrlStateByte(u, ch)  OBVIOUS
<1>5. CASE ch \notin {SP, CR, LF}
  <2>1. PICK x : x = parse_url_char(c.state, ch)  OBVIOUS
  <2>2. x \in UrlStates \cup {"s_dead"}  BY <2>1, UrlCharStates
  <2>3. s = UrlByte(c, ch) /\ t = UrlByte(u, ch)  BY <1>4, <1>5 DEF UrlStateByte
  <2>4. /\ Quiet(c, s) /\ Quiet(u, t) /\ s.http_errno = t.http_errno /\ s.http_errno # "PAUSED" /\ s.state = t.state
        /\ s.state = x /\ Same(s, t) /\ (s.http_errno = "OK" => x # "s_dead")
    BY <1>2, <2>1, <2>3 DEF UrlByte, UPDATE_STATE, SET_ERRNO, Quiet, Same, Fields
  <2> QED BY <1>1, <1>2, <1>3, <1>4, <2>2, <2>4, MarkedPair
<1>7. CASE ch \in {SP, CR, LF} /\ c.state \in {"s_req_schema", "s_req_schema_slash", "s_req_schema_slash_slash", "s_req_server_start"}
  <2>1. s = SET_ERRNO(c, "INVALID_URL") /\ t = SET_ERRNO(u, "INVALID_URL")  BY <1>2, <1>4, <1>7 DEF UrlStateByte
  <2> QED BY <1>4, <2>1, BothRefuse
<1>8. CASE ch \in {SP, CR, LF} /\ c.state \notin {"s_req_schema", "s_req_schema_slash", "s_req_schema_slash_slash", "s_req_server_start"}
  <2>1. \E v, w : /\ s = CALLBACK_DATA(v, "url") /\ t = CALLBACK_DATA(w, "url")
                  /\ Quiet(c, v) /\ Quiet(u, w) /\ Same(v, w) /\ v.http_errno = "OK" /\ w.http_errno = "OK" /\ v.state \in Bare
    <3>1. PICK f, g : f = [c EXCEPT !.http_major = 0, !.http_minor = 9] /\ g = [u EXCEPT !.http_major = 0, !.http_minor = 9]
      OBVIOUS
    <3>2. Quiet(c, f) /\ Quiet(u, g) /\ Same(f, g) /\ f.http_errno = "OK" /\ g.http_errno = "OK"
      BY <1>2, <3>1 DEF Quiet, Same, Fields
    <3>3. CASE ch = SP
      <4>1. PICK v, w : v = UPDATE_STATE(c, "s_req_http_start") /\ w = UPDATE_STATE(u, "s_req_http_start")  OBVIOUS
      <4>2. s = CALLBACK_DATA(v, "url") /\ t = CALLBACK_DATA(w, "url")
        BY <1>2, <1>4, <1>8, <3>3, <4>1 DEF UrlStateByte, SP, CR, LF
      <4>3. Quiet(c, v) /\ Quiet(u, w) /\ Same(v, w) /\ v.http_errno = "OK" /\ w.http_errno = "OK" /\ v.state \in Bare
        BY <1>1, <1>2, <4>1 DEF UPDATE_STATE, Quiet, Same, Fields
      <4> QED BY <4>2, <4>3
    <3>4. CASE ch = CR
      <4>1. PICK v, w : v = UPDATE_STATE(f, "s_req_line_almost_done") /\ w = UPDATE_STATE(g, "s_req_line_almost_done")
        OBVIOUS
      <4>2. s = CALLBACK_DATA(v, "url") /\ t = CALLBACK_DATA(w, "url")
        BY <1>2, <1>4, <1>8, <3>1, <3>4, <4>1 DEF UrlStateByte, SP, CR, LF
      <4>3. Quiet(c, v) /\ Quiet(u, w) /\ Same(v, w) /\ v.http_errno = "OK" /\ w.http_errno = "OK" /\ v.state \in Bare
        BY <1>1, <3>2, <4>1 DEF UPDATE_STATE, Quiet, Same, Fields
      <4> QED BY <4>2, <4>3
    <3>5. CASE ch = LF
      <4>1. PICK v, w : v = UPDATE_STATE(f, "s_header_field_start") /\ w = UPDATE_STATE(g, "s_header_field_start")
        OBVIOUS
      <4>2. s = CALLBACK_DATA(v, "url") /\ t = CALLBACK_DATA(w, "url")
        BY <1>2, <1>4, <1>8, <3>1, <3>5, <4>1 DEF UrlStateByte, SP, CR, LF
      <4>3. Quiet(c, v) /\ Quiet(u, w) /\ Same(v, w) /\ v.http_errno = "OK" /\ w.http_errno = "OK" /\ v.state \in Bare
        BY <1>1, <3>2, <4>1 DEF UPDATE_STATE, Quiet, Same, Fields
      <4> QED BY <4>2, <4>3
    <3> QED BY <1>8, <3>3, <3>4, <3>5
  <2> QED BY <1>1, <1>2, <1>3, <1>4, <2>1, DataPair
<1> QED BY <1>5, <1>7, <1>8

\* One more byte of an inner loop of both.
LEMMA RunLevel ==
  ASSUME NEW c, NEW u, NEW s, NEW t, Level(c, u), Same(s, t), DOMAIN s = Fields, DOMAIN t = Fields,
         s.marks = c.marks, s.answer = c.answer, s.sent = c.sent, s.body = c.body, s.run = c.run + 1,
         t.marks = u.marks, t.answer = u.answer, t.sent = u.sent, t.body = u.body, t.run = u.run + 1, t.held = u.held,
         s.skip \in BOOLEAN, t.skip \in BOOLEAN, Skips(s) => Skips(t)
  PROVE  Level(s, t)
<1>1. c.run \in Nat /\ u.run \in Nat  BY DEF Level, Ready
<1>2. s.run \in Nat /\ s.run > 0 /\ t.run \in Nat /\ t.run > 0  BY <1>1
<1>3. Ready(s) /\ Ready(t)  BY <1>2 DEF Level, Ready
<1>4. PICK x, y : Reads(c, x, y) /\ Reads(u, x, y)  BY DEF Level, Read
<1>5. Reads(s, x, y) /\ Reads(t, x, y)  BY <1>4 DEF Reads, Unmarked
<1> QED BY <1>3, <1>5 DEF Level, Read, Unheld, Unpausing

\* A character of a keyword.
LEMMA MatchSame ==
  ASSUME NEW c, NEW u, NEW k, NEW m, NEW h, DOMAIN c = Fields, DOMAIN u = Fields, Same(c, u),
         c.http_errno = "OK", u.http_errno = "OK"
  PROVE  LET s == Match(c, k, m, h)
             t == Match(u, k, m, h)
         IN  Abreast(c, u, s, t) /\ s.http_errno = "OK"
  BY DEF Match, Abreast, Quiet, Same, Fields

\* A character of a name.
LEMMA FieldCharSame ==
  ASSUME NEW c, NEW u, NEW k, DOMAIN c = Fields, DOMAIN u = Fields, Same(c, u),
         c.http_errno = "OK", u.http_errno = "OK"
  PROVE  Abreast(c, u, FieldChar(c, k), FieldChar(u, k))
<1>1. u.header_state = c.header_state /\ u.flags = c.flags  BY DEF Same
<1>2. DOMAIN FieldMatcher = {"h_matching_connection", "h_matching_proxy_connection", "h_matching_content_length",
                             "h_matching_transfer_encoding", "h_matching_upgrade"}
  BY DEF FieldMatcher
<1>3. PICK s, t : s = FieldChar(c, k) /\ t = FieldChar(u, k)  OBVIOUS
<1>4. CASE c.header_state = "h_general"  BY <1>1, <1>2, <1>4 DEF FieldChar, Abreast, Quiet, Same
<1>5. CASE c.header_state = "h_C"  BY <1>1, <1>2, <1>5 DEF FieldChar, Abreast, Quiet, Same, Fields
<1>6. CASE c.header_state = "h_CO"  BY <1>1, <1>2, <1>6 DEF FieldChar, Abreast, Quiet, Same, Fields
<1>7. CASE c.header_state = "h_CON"
  <2>1. PICK h : h = CASE k = "n" -> "h_matching_connection" [] k = "t" -> "h_matching_content_length" [] OTHER -> "h_general"
    OBVIOUS
  <2>2. s = [c EXCEPT !.index = @ + 1, !.header_state = h] /\ t = [u EXCEPT !.index = @ + 1, !.header_state = h]
    BY <1>1, <1>2, <1>3, <1>7, <2>1 DEF FieldChar
  <2> QED BY <1>3, <2>2 DEF Abreast, Quiet, Same, Fields
<1>8. CASE c.header_state \in DOMAIN FieldMatcher
  <2>1. PICK m : m = FieldMatcher[c.header_state]  OBVIOUS
  <2>2. PICK v, w : v = Match(c, k, m, "h_general") /\ w = Match(u, k, m, "h_general")  OBVIOUS
  <2>3. Abreast(c, u, v, w) /\ v.http_errno = "OK"  BY <2>2, MatchSame
  <2>4. \/ s = v /\ t = w
        \/ s = SET_ERRNO(v, "UNEXPECTED_CONTENT_LENGTH") /\ t = SET_ERRNO(w, "UNEXPECTED_CONTENT_LENGTH")
        \/ s = [v EXCEPT !.flags = @ \cup {"F_CONTENTLENGTH"}] /\ t = [w EXCEPT !.flags = @ \cup {"F_CONTENTLENGTH"}]
    <3>1. c.header_state \notin {"h_general", "h_C", "h_CO", "h_CON", "h_connection", "h_content_length", "h_transfer_encoding", "h_upgrade"}
      BY <1>2, <1>8
    <3>2. s = IF v.header_state # "h_content_length" THEN v
              ELSE IF "F_CONTENTLENGTH" \in c.flags THEN SET_ERRNO(v, "UNEXPECTED_CONTENT_LENGTH")
              ELSE [v EXCEPT !.flags = @ \cup {"F_CONTENTLENGTH"}]
      BY <1>3, <1>8, <2>1, <2>2, <3>1 DEF FieldChar
    <3>3. t = IF w.header_state # "h_content_length" THEN w
              ELSE IF "F_CONTENTLENGTH" \in u.flags THEN SET_ERRNO(w, "UNEXPECTED_CONTENT_LENGTH")
              ELSE [w EXCEPT !.flags = @ \cup {"F_CONTENTLENGTH"}]
      BY <1>1, <1>3, <1>8, <2>1, <2>2, <3>1 DEF FieldChar
    <3>4. w.header_state = v.header_state  BY <2>3 DEF Abreast, Same
    <3> QED BY <1>1, <3>2, <3>3, <3>4
  <2>5. Abreast(c, u, s, t)
    <3>1. CASE s = v /\ t = w  BY <2>3, <3>1
    <3>2. CASE s = SET_ERRNO(v, "UNEXPECTED_CONTENT_LENGTH") /\ t = SET_ERRNO(w, "UNEXPECTED_CONTENT_LENGTH")
      BY <2>3, <3>2 DEF Abreast, Quiet, Same, SET_ERRNO, Fields
    <3>3. CASE s = [v EXCEPT !.flags = @ \cup {"F_CONTENTLENGTH"}] /\ t = [w EXCEPT !.flags = @ \cup {"F_CONTENTLENGTH"}]
      BY <2>3, <3>3 DEF Abreast, Quiet, Same, Fields
    <3> QED BY <2>4, <3>1, <3>2, <3>3
  <2> QED BY <1>3, <2>5
<1>9. CASE c.header_state \in {"h_connection", "h_content_length", "h_transfer_encoding", "h_upgrade"}
  <2>1. s = [c EXCEPT !.header_state = "h_general"] /\ t = [u EXCEPT !.header_state = "h_general"]
    BY <1>1, <1>2, <1>3, <1>9 DEF FieldChar
  <2> QED BY <1>3, <2>1 DEF Abreast, Quiet, Same, Fields
<1>10. CASE c.header_state \notin {"h_general", "h_C", "h_CO", "h_CON", "h_connection", "h_content_length", "h_transfer_encoding",
                                   "h_upgrade"} \cup DOMAIN FieldMatcher
  <2>1. s = assert(c, FALSE) /\ t = assert(u, FALSE)  BY <1>1, <1>3, <1>10 DEF FieldChar
  <2> QED BY <1>3, <2>1 DEF assert, Abreast, Quiet, Same, Fields
<1> QED BY <1>4, <1>5, <1>6, <1>7, <1>8, <1>9, <1>10

\* A step that holds no byte.
LEMMA StillUnheld ==
  ASSUME NEW s, NEW d, NEW x, DOMAIN s = Fields, Unheld(s)
  PROVE  /\ Unheld(UPDATE_STATE(s, x)) /\ DOMAIN UPDATE_STATE(s, x) = Fields
         /\ Unheld(SET_ERRNO(s, x))
         /\ Unheld(CALLBACK_DATA(s, d))
<1>1. Unheld(UPDATE_STATE(s, x)) /\ DOMAIN UPDATE_STATE(s, x) = Fields /\ Unheld(SET_ERRNO(s, x))
  BY DEF UPDATE_STATE, SET_ERRNO, Unheld, Fields
<1>2. PICK a : a = assert(s, s.http_errno = "OK")  OBVIOUS
<1>3. Unheld(a) /\ DOMAIN a = Fields  BY <1>2 DEF assert, Unheld, Fields
<1>4. PICK b : b = FALSE  OBVIOUS
<1>5. PICK v : v = [Delivered(a, d, s.marks[d]) EXCEPT !.marks[d] = -1]  OBVIOUS
<1>6. Unheld(v) /\ DOMAIN v = Fields  BY <1>3, <1>5 DEF Delivered, Unheld, Fields
<1>7. Unheld(Answered(v, d, b))  BY <1>4, <1>6 DEF Answered, Unheld, Fields
<1>8. CALLBACK_DATA(s, d) = a \/ CALLBACK_DATA(s, d) = Answered(v, d, b)
  BY <1>2, <1>4, <1>5 DEF CALLBACK_DATA, CALLBACK_DATA_
<1> QED BY <1>1, <1>3, <1>7, <1>8

\* A byte of a name, and the colon that ends it.
LEMMA HeaderFieldPair ==
  ASSUME NEW c, NEW u, NEW ch, Twin(c, u), c.state = "s_header_field"
  PROVE  Paired(HeaderField(c, ch), HeaderField(u, ch))
<1>1. /\ "header_field" \in Datum \ {"body"} /\ "s_header_field" \in MarkPlaces["header_field"]
      /\ "s_header_value_discard_ws" \in Bare
  BY DEF Datum, MarkPlaces, Bare
<1>2. /\ u.state = c.state /\ Same(c, u) /\ DOMAIN c = Fields /\ DOMAIN u = Fields /\ Level(c, u) /\ Unheld(c)
      /\ c.http_errno = "OK" /\ u.http_errno = "OK" /\ c.skip \in BOOLEAN /\ u.skip \in BOOLEAN /\ (Skips(c) => Skips(u))
  BY DEF Twin, Level, Ready, Same
<1>3. /\ OnlyMarked(c, "header_field") /\ OnlyMarked(u, "header_field")
      /\ c.marks["header_field"] >= 0 /\ u.marks["header_field"] >= 0
  BY <1>1, TwinMarked
<1>4. PICK s, t : s = HeaderField(c, ch) /\ t = HeaderField(u, ch)  OBVIOUS
<1>5. CASE TOKEN(ch) # "none"
  <2>1. PICK k : k = TOKEN(ch)  OBVIOUS
  <2>2. PICK v, w : v = [c EXCEPT !.run = @ + 1] /\ w = [u EXCEPT !.run = @ + 1]  OBVIOUS
  <2>3. /\ Same(c, v) /\ Same(u, w) /\ DOMAIN v = Fields /\ DOMAIN w = Fields
        /\ v.marks = c.marks /\ v.answer = c.answer /\ v.sent = c.sent /\ v.body = c.body /\ v.run = c.run + 1
        /\ w.marks = u.marks /\ w.answer = u.answer /\ w.sent = u.sent /\ w.body = u.body /\ w.run = u.run + 1
        /\ w.held = u.held /\ v.held = c.held /\ v.skip = c.skip /\ w.skip = u.skip
        /\ v.http_errno = "OK" /\ w.http_errno = "OK"
    BY <1>2, <2>2 DEF Same, Fields
  <2>4. Same(v, w) /\ (Skips(v) => Skips(w))  BY <1>2, <2>3 DEF Same, Skips
  <2>5. Level(v, w)  BY <1>2, <2>3, <2>4, RunLevel
  <2>6. Unheld(v) /\ OnlyMarked(v, "header_field") /\ OnlyMarked(w, "header_field")
        /\ v.marks["header_field"] >= 0 /\ w.marks["header_field"] >= 0 /\ v.state = c.state
    BY <1>2, <1>3, <2>3 DEF Unheld, OnlyMarked, Same
  <2>7. s = FieldChar(v, k) /\ t = FieldChar(w, k)  BY <1>4, <1>5, <2>1, <2>2 DEF HeaderField
  <2>8. Abreast(v, w, s, t)  BY <2>3, <2>4, <2>7, FieldCharSame
  <2>9. /\ Quiet(v, s) /\ Quiet(w, t) /\ s.http_errno = t.http_errno /\ s.http_errno # "PAUSED"
        /\ s.state = t.state /\ Same(s, t) /\ s.state = "s_header_field"
    BY <2>6, <2>8 DEF Abreast, Same
  <2>10. Paired(s, t)  BY <1>1, <2>5, <2>6, <2>9, MarkedPair
  <2> QED BY <1>4, <2>10
<1>6. CASE ~(TOKEN(ch) # "none")
  <2>1. PICK v, w : v = COUNT_HEADER_SIZE(c, c.run) /\ w = COUNT_HEADER_SIZE(u, u.run)  OBVIOUS
  <2>2. /\ v.http_errno \in {"OK", "HEADER_OVERFLOW"} /\ w.http_errno \in {"OK", "HEADER_OVERFLOW"}
        /\ Level(v, w) /\ Same(c, v) /\ Same(u, w) /\ v.marks = c.marks /\ w.marks = u.marks /\ v.held = c.held
    BY <1>2, <2>1, CountLevel
  <2>3. CASE v.http_errno # "OK" \/ w.http_errno # "OK"
    <3>1. (v.http_errno # "OK" => s = v) /\ (w.http_errno # "OK" => t = w)  BY <1>4, <1>6, <2>1 DEF HeaderField, Then
    <3>2. \/ s = v \/ s = SET_ERRNO(v, "INVALID_HEADER_TOKEN")
          \/ s = CALLBACK_DATA(UPDATE_STATE(v, "s_header_value_discard_ws"), "header_field")
      BY <1>4, <1>6, <2>1 DEF HeaderField, Then
    <3>3. Unheld(v) /\ DOMAIN v = Fields  BY <1>2, <2>2 DEF Unheld, Level, Ready
    <3>4. Unheld(s)  BY <3>2, <3>3, StillUnheld
    <3> QED BY <1>4, <2>2, <2>3, <3>1, <3>4 DEF Paired, Stops
  <2>4. CASE v.http_errno = "OK" /\ w.http_errno = "OK"
    <3>1. DOMAIN v = Fields /\ DOMAIN w = Fields /\ Same(v, w)  BY <2>2 DEF Level, Ready
    <3>2. CASE ch = ":"
      <4>1. PICK f, g : f = UPDATE_STATE(v, "s_header_value_discard_ws") /\ g = UPDATE_STATE(w, "s_header_value_discard_ws")
        OBVIOUS
      <4>2. Quiet(v, f) /\ Quiet(w, g) /\ Same(f, g) /\ f.http_errno = "OK" /\ g.http_errno = "OK" /\ f.state \in Bare
        BY <1>1, <2>4, <3>1, <4>1 DEF UPDATE_STATE, Quiet, Same, Fields
      <4>3. Unheld(v) /\ OnlyMarked(v, "header_field") /\ OnlyMarked(w, "header_field")
        BY <1>2, <1>3, <2>2 DEF Unheld, OnlyMarked
      <4>4. s = CALLBACK_DATA(f, "header_field") /\ t = CALLBACK_DATA(g, "header_field")
        BY <1>4, <1>6, <2>1, <2>4, <3>2, <4>1 DEF HeaderField, Then
      <4> QED BY <1>1, <1>4, <2>2, <4>2, <4>3, <4>4, DataPair
    <3>3. CASE ch # ":"
      <4>1. s = SET_ERRNO(v, "INVALID_HEADER_TOKEN") /\ t = SET_ERRNO(w, "INVALID_HEADER_TOKEN")
        BY <1>4, <1>6, <2>1, <2>4, <3>3 DEF HeaderField, Then
      <4>2. s.http_errno = "INVALID_HEADER_TOKEN" /\ t.http_errno = "INVALID_HEADER_TOKEN" /\ s.state = t.state
        BY <3>1, <4>1, ErrnoEffect DEF Same
      <4> QED BY <1>4, <4>2 DEF Paired, Going
    <3> QED BY <3>2, <3>3
  <2> QED BY <2>2, <2>3, <2>4
<1> QED BY <1>5, <1>6

\* The first character of a value.
LEMMA HeaderValueStartPair ==
  ASSUME NEW c, NEW u, NEW ch, Twin(c, u), c.state \in Bare
  PROVE  Paired(HeaderValueStart(c, ch), HeaderValueStart(u, ch))
<1>1. "header_value" \in Datum /\ "s_header_value" \in MarkPlaces["header_value"]  BY DEF Datum, MarkPlaces
<1>2. /\ u.state = c.state /\ Same(c, u) /\ DOMAIN c = Fields /\ DOMAIN u = Fields /\ Level(c, u) /\ Unheld(c)
      /\ c.http_errno = "OK" /\ u.http_errno = "OK" /\ Unmarked(c) /\ Unmarked(u)
  BY BareUnmarked
<1>3. PICK f, g : f = MARK(c, "header_value") /\ g = MARK(u, "header_value")  OBVIOUS
<1>4. /\ Level(f, g) /\ Same(c, f) /\ Same(u, g) /\ OnlyMarked(f, "header_value") /\ OnlyMarked(g, "header_value")
      /\ f.marks["header_value"] >= 0 /\ g.marks["header_value"] >= 0 /\ f.held = c.held
      /\ f.http_errno = c.http_errno /\ g.http_errno = u.http_errno
  BY <1>1, <1>2, <1>3, MarkLevel, UnmarkedOnly
<1>5. DOMAIN f = Fields /\ DOMAIN g = Fields /\ Same(f, g) /\ Unheld(f) /\ f.header_state = c.header_state /\ g.header_state = c.header_state
  BY <1>2, <1>4 DEF Level, Ready, Unheld, Same
<1>6. PICK v, w : v = [f EXCEPT !.state = "s_header_value", !.index = 0] /\ w = [g EXCEPT !.state = "s_header_value", !.index = 0]
  OBVIOUS
<1>7. /\ Quiet(f, v) /\ Quiet(g, w) /\ Same(v, w) /\ v.state = "s_header_value" /\ v.http_errno = "OK" /\ w.http_errno = "OK"
      /\ v.header_state = c.header_state /\ DOMAIN v = Fields /\ DOMAIN w = Fields
  BY <1>2, <1>4, <1>5, <1>6 DEF Quiet, Same, Fields
<1>8. PICK s, t : s = HeaderValueStart(c, ch) /\ t = HeaderValueStart(u, ch)  OBVIOUS
<1>9. u.header_state = c.header_state  BY <1>2 DEF Same
<1>10. Abreast(v, w, s, t)
  <2>1. CASE c.header_state = "h_upgrade"
    <3>1. /\ s = [v EXCEPT !.flags = @ \cup {"F_UPGRADE"}, !.header_state = "h_general"]
          /\ t = [w EXCEPT !.flags = @ \cup {"F_UPGRADE"}, !.header_state = "h_general"]
      BY <1>3, <1>6, <1>8, <1>9, <2>1 DEF HeaderValueStart
    <3> QED BY <1>7, <3>1 DEF Abreast, Quiet, Same, Fields
  <2>2. CASE c.header_state = "h_transfer_encoding"
    <3>1. PICK h : h = IF LOWER(ch) = "c" THEN "h_matching_transfer_encoding_chunked" ELSE "h_general"  OBVIOUS
    <3>2. s = [v EXCEPT !.header_state = h] /\ t = [w EXCEPT !.header_state = h]
      BY <1>3, <1>6, <1>8, <1>9, <2>2, <3>1 DEF HeaderValueStart
    <3> QED BY <1>7, <3>2 DEF Abreast, Quiet, Same, Fields
  <2>3. CASE c.header_state = "h_content_length"
    <3>1. \/ s = FirstDigit(v, DigitValue[ch]) /\ t = FirstDigit(w, DigitValue[ch])
          \/ s = SET_ERRNO(v, "INVALID_CONTENT_LENGTH") /\ t = SET_ERRNO(w, "INVALID_CONTENT_LENGTH")
      BY <1>3, <1>6, <1>8, <1>9, <2>3 DEF HeaderValueStart
    <3>2. CASE s = FirstDigit(v, DigitValue[ch]) /\ t = FirstDigit(w, DigitValue[ch])
      BY <1>7, <3>2 DEF FirstDigit, Abreast, Quiet, Same, Fields
    <3>3. CASE s = SET_ERRNO(v, "INVALID_CONTENT_LENGTH") /\ t = SET_ERRNO(w, "INVALID_CONTENT_LENGTH")
      BY <1>7, <3>3 DEF SET_ERRNO, Abreast, Quiet, Same, Fields
    <3> QED BY <3>1, <3>2, <3>3
  <2>4. CASE c.header_state = "h_connection"
    <3>1. PICK h : h = ConnectionToken(LOWER(ch))  OBVIOUS
    <3>2. s = [v EXCEPT !.header_state = h] /\ t = [w EXCEPT !.header_state = h]
      BY <1>3, <1>6, <1>8, <1>9, <2>4, <3>1 DEF HeaderValueStart
    <3> QED BY <1>7, <3>2 DEF Abreast, Quiet, Same, Fields
  <2>5. CASE c.header_state = "h_matching_connection_token_start"
    <3>1. s = v /\ t = w  BY <1>3, <1>6, <1>8, <1>9, <2>5 DEF HeaderValueStart
    <3> QED BY <1>7, <3>1 DEF Abreast, Quiet
  <2>6. CASE c.header_state \notin {"h_upgrade", "h_transfer_encoding", "h_content_length", "h_connection",
                                    "h_matching_connection_token_start"}
    <3>1. s = [v EXCEPT !.header_state = "h_general"] /\ t = [w EXCEPT !.header_state = "h_general"]
      BY <1>3, <1>6, <1>8, <1>9, <2>6 DEF HeaderValueStart
    <3> QED BY <1>7, <3>1 DEF Abreast, Quiet, Same, Fields
  <2> QED BY <2>1, <2>2, <2>3, <2>4, <2>5, <2>6
<1>11. Level(v, w) /\ Unheld(v) /\ OnlyMarked(v, "header_value") /\ OnlyMarked(w, "header_value")
       /\ v.marks["header_value"] >= 0 /\ w.marks["header_value"] >= 0
  BY <1>4, <1>5, <1>7, QuietLevel DEF Quiet, Unheld, OnlyMarked
<1>12. /\ Quiet(v, s) /\ Quiet(w, t) /\ s.http_errno = t.http_errno /\ s.http_errno # "PAUSED"
       /\ s.state = t.state /\ Same(s, t) /\ s.state = "s_header_value"
  BY <1>7, <1>10 DEF Abreast, Same
<1>13. Paired(s, t)  BY <1>1, <1>11, <1>12, MarkedPair
<1> QED BY <1>8, <1>13

\* What stands before a value.
LEMMA DiscardWsPair ==
  ASSUME NEW c, NEW u, NEW ch, Twin(c, u), c.state = "s_header_value_discard_ws"
  PROVE  Paired(DiscardWs(c, ch), DiscardWs(u, ch))
<1>1. c.state \in Bare /\ "s_header_value_discard_ws_almost_done" \in Bare /\ "s_header_value_discard_lws" \in Bare
  BY DEF Bare
<1>2. c.state \notin MarkPlaces["body"]  BY <1>1, BareUnmarked
<1>3. CASE ch \in {SP, HT}
  <2>1. DiscardWs(c, ch) = c /\ DiscardWs(u, ch) = u  BY <1>3 DEF DiscardWs, SP, HT, CR, LF
  <2> QED BY <1>2, <2>1, BothStay
<1>4. CASE ch = CR
  <2>1. /\ DiscardWs(c, ch) = UPDATE_STATE(c, "s_header_value_discard_ws_almost_done")
        /\ DiscardWs(u, ch) = UPDATE_STATE(u, "s_header_value_discard_ws_almost_done")
    BY <1>4 DEF DiscardWs, SP, HT, CR, LF
  <2> QED BY <1>1, <2>1, BothGo
<1>5. CASE ch = LF
  <2>1. /\ DiscardWs(c, ch) = UPDATE_STATE(c, "s_header_value_discard_lws")
        /\ DiscardWs(u, ch) = UPDATE_STATE(u, "s_header_value_discard_lws")
    BY <1>5 DEF DiscardWs, SP, HT, CR, LF
  <2> QED BY <1>1, <2>1, BothGo
<1>6. CASE ch \notin {SP, HT, CR, LF}
  <2>1. DiscardWs(c, ch) = HeaderValueStart(c, ch) /\ DiscardWs(u, ch) = HeaderValueStart(u, ch)
    BY <1>6 DEF DiscardWs
  <2> QED BY <1>1, <2>1, HeaderValueStartPair
<1> QED BY <1>3, <1>4, <1>5, <1>6

\* The flag of a value.
LEMMA FlaggedSame ==
  ASSUME NEW c, NEW u, DOMAIN c = Fields, DOMAIN u = Fields, Same(c, u), c.http_errno = "OK", u.http_errno = "OK"
  PROVE  Abreast(c, u, Flagged(c), Flagged(u)) /\ Flagged(c).http_errno = "OK" /\ Flagged(c).header_state = c.header_state
<1>1. u.header_state = c.header_state  BY DEF Same
<1>2. CASE c.header_state \in DOMAIN ValueFlag
  <2>1. PICK f : f = ValueFlag[c.header_state]  OBVIOUS
  <2>2. Flagged(c) = [c EXCEPT !.flags = @ \cup {f}] /\ Flagged(u) = [u EXCEPT !.flags = @ \cup {f}]
    BY <1>1, <1>2, <2>1 DEF Flagged
  <2> QED BY <2>2 DEF Abreast, Quiet, Same, Fields
<1>3. CASE c.header_state \notin DOMAIN ValueFlag
  <2>1. Flagged(c) = c /\ Flagged(u) = u  BY <1>1, <1>3 DEF Flagged
  <2> QED BY <2>1 DEF Abreast, Quiet
<1> QED BY <1>2, <1>3

\* A character of a value.
LEMMA ValueCharSame ==
  ASSUME NEW c, NEW u, NEW ch, DOMAIN c = Fields, DOMAIN u = Fields, Same(c, u), c.http_errno = "OK", u.http_errno = "OK"
  PROVE  Abreast(c, u, ValueChar(c, ch), ValueChar(u, ch))
<1>1. DOMAIN ValueMatcher = {"h_matching_transfer_encoding_chunked", "h_matching_connection_keep_alive",
                             "h_matching_connection_close", "h_matching_connection_upgrade"}
  BY DEF ValueMatcher
<1>2. DOMAIN ValueFlag = {"h_connection_keep_alive", "h_connection_close", "h_connection_upgrade",
                          "h_transfer_encoding_chunked"}
  BY DEF ValueFlag
<1>3. u.header_state = c.header_state /\ u.content_length = c.content_length  BY DEF Same
<1>4. PICK s, t : s = ValueChar(c, ch) /\ t = ValueChar(u, ch)  OBVIOUS
<1>5. Abreast(c, u, c, u)  BY DEF Abreast, Quiet
<1>6. CASE c.header_state \in {"h_connection", "h_transfer_encoding"}
  <2>1. s = assert(c, FALSE) /\ t = assert(u, FALSE)  BY <1>1, <1>2, <1>3, <1>4, <1>6 DEF ValueChar
  <2> QED BY <1>4, <2>1 DEF assert, Abreast, Quiet, Same, Fields
<1>7. CASE c.header_state = "h_content_length"
  <2>1. CASE ch = SP
    <3>1. ch \notin IS_NUM  BY <2>1 DEF SP, IS_NUM, ToSet, Digits
    <3>2. s = c /\ t = u  BY <1>1, <1>2, <1>3, <1>4, <1>7, <2>1, <3>1 DEF ValueChar
    <3> QED BY <1>4, <1>5, <3>2
  <2>2. CASE ch # SP /\ ch \in IS_NUM
    <3>1. s = NextDigit(c, 10, DigitValue[ch]) /\ t = NextDigit(u, 10, DigitValue[ch])
      BY <1>1, <1>2, <1>3, <1>4, <1>7, <2>2 DEF ValueChar
    <3> QED BY <1>3, <1>4, <3>1 DEF NextDigit, SET_ERRNO, Abreast, Quiet, Same, Fields
  <2>3. CASE ch # SP /\ ch \notin IS_NUM
    <3>1. s = SET_ERRNO(c, "INVALID_CONTENT_LENGTH") /\ t = SET_ERRNO(u, "INVALID_CONTENT_LENGTH")
      BY <1>1, <1>2, <1>3, <1>4, <1>7, <2>3 DEF ValueChar
    <3> QED BY <1>4, <3>1 DEF SET_ERRNO, Abreast, Quiet, Same, Fields
  <2> QED BY <2>1, <2>2, <2>3
<1>8. CASE c.header_state \in DOMAIN ValueMatcher
  <2>1. PICK k, m, h : /\ k = LOWER(ch) /\ m = ValueMatcher[c.header_state]
                       /\ h = IF c.header_state = "h_matching_transfer_encoding_chunked" THEN "h_general" ELSE "h_matching_connection_token"
    OBVIOUS
  <2>2. s = Match(c, k, m, h) /\ t = Match(u, k, m, h)  BY <1>1, <1>2, <1>3, <1>4, <1>8, <2>1 DEF ValueChar
  <2> QED BY <1>4, <2>2, MatchSame
<1>9. CASE c.header_state = "h_matching_connection_token_start"
  <2>1. PICK k, h : k = LOWER(ch) /\ h = ConnectionToken(k)  OBVIOUS
  <2>2. \/ s = [c EXCEPT !.header_state = h] /\ t = [u EXCEPT !.header_state = h]
        \/ s = c /\ t = u
        \/ s = [c EXCEPT !.header_state = "h_general"] /\ t = [u EXCEPT !.header_state = "h_general"]
    BY <1>1, <1>2, <1>3, <1>4, <1>9, <2>1 DEF ValueChar
  <2>3. CASE s = [c EXCEPT !.header_state = h] /\ t = [u EXCEPT !.header_state = h]
    BY <1>4, <2>3 DEF Abreast, Quiet, Same, Fields
  <2>4. CASE s = [c EXCEPT !.header_state = "h_general"] /\ t = [u EXCEPT !.header_state = "h_general"]
    BY <1>4, <2>4 DEF Abreast, Quiet, Same, Fields
  <2> QED BY <1>4, <1>5, <2>2, <2>3, <2>4
<1>10. CASE c.header_state = "h_matching_connection_token"
  <2>1. \/ s = [c EXCEPT !.header_state = "h_matching_connection_token_start", !.index = 0]
           /\ t = [u EXCEPT !.header_state = "h_matching_connection_token_start", !.index = 0]
        \/ s = c /\ t = u
    BY <1>1, <1>2, <1>3, <1>4, <1>10 DEF ValueChar
  <2>2. CASE s = [c EXCEPT !.header_state = "h_matching_connection_token_start", !.index = 0]
             /\ t = [u EXCEPT !.header_state = "h_matching_connection_token_start", !.index = 0]
    BY <1>4, <2>2 DEF Abreast, Quiet, Same, Fields
  <2> QED BY <1>4, <1>5, <2>1, <2>2
<1>11. CASE c.header_state = "h_transfer_encoding_chunked"
  <2>1. \/ s = [c EXCEPT !.header_state = "h_general"] /\ t = [u EXCEPT !.header_state = "h_general"]
        \/ s = c /\ t = u
    BY <1>1, <1>2, <1>3, <1>4, <1>11 DEF ValueChar
  <2> QED BY <1>4, <2>1 DEF Abreast, Quiet, Same, Fields
<1>12. CASE c.header_state \in {"h_connection_keep_alive", "h_connection_close", "h_connection_upgrade"}
  <2>1. PICK f, g : f = Flagged(c) /\ g = Flagged(u)  OBVIOUS
  <2>2. Abreast(c, u, f, g) /\ f.http_errno = "OK"  BY <2>1, FlaggedSame
  <2>6. c.header_state \in DOMAIN ValueFlag \ {"h_transfer_encoding_chunked"}  BY <1>2, <1>12
  <2>7. c.header_state \notin {"h_connection", "h_transfer_encoding", "h_content_length", "h_matching_connection_token_start",
                              "h_matching_connection_token", "h_transfer_encoding_chunked"} \cup DOMAIN ValueMatcher
    BY <1>1, <1>12
  <2>3. \/ s = [f EXCEPT !.header_state = "h_matching_connection_token_start", !.index = 0]
           /\ t = [g EXCEPT !.header_state = "h_matching_connection_token_start", !.index = 0]
        \/ s = [c EXCEPT !.header_state = "h_matching_connection_token"]
           /\ t = [u EXCEPT !.header_state = "h_matching_connection_token"]
        \/ s = c /\ t = u
    <3>1. CASE ch = ","
      <4>1. s = [f EXCEPT !.header_state = "h_matching_connection_token_start", !.index = 0]
        BY <1>4, <2>1, <2>6, <2>7, <3>1 DEF ValueChar
      <4>2. t = [g EXCEPT !.header_state = "h_matching_connection_token_start", !.index = 0]
        BY <1>3, <1>4, <2>1, <2>6, <2>7, <3>1 DEF ValueChar
      <4> QED BY <4>1, <4>2
    <3>2. CASE ch # ","  BY <1>3, <1>4, <2>1, <2>6, <2>7, <3>2 DEF ValueChar
    <3> QED BY <3>1, <3>2
  <2>4. CASE s = [f EXCEPT !.header_state = "h_matching_connection_token_start", !.index = 0]
             /\ t = [g EXCEPT !.header_state = "h_matching_connection_token_start", !.index = 0]
    <3>1. DOMAIN f = Fields /\ DOMAIN g = Fields /\ g.http_errno = "OK"  BY <2>2 DEF Abreast, Quiet
    <3>2. Quiet(f, s) /\ Quiet(g, t) /\ s.http_errno = "OK" /\ t.http_errno = "OK" /\ s.state = f.state
      BY <2>2, <2>4, <3>1 DEF Quiet, Fields
    <3>3. Same(s, t)  BY <2>2, <2>4, <3>1 DEF Abreast, Same, Fields
    <3> QED BY <1>4, <2>2, <3>2, <3>3 DEF Abreast, Quiet
  <2>5. CASE s = [c EXCEPT !.header_state = "h_matching_connection_token"]
             /\ t = [u EXCEPT !.header_state = "h_matching_connection_token"]
    BY <1>4, <2>5 DEF Abreast, Quiet, Same, Fields
  <2> QED BY <1>4, <1>5, <2>3, <2>4, <2>5
<1>13. CASE c.header_state \notin {"h_connection", "h_transfer_encoding", "h_content_length", "h_matching_connection_token_start",
                                   "h_matching_connection_token"} \cup DOMAIN ValueMatcher \cup DOMAIN ValueFlag
  <2>1. s = c /\ t = u  BY <1>1, <1>2, <1>3, <1>4, <1>13 DEF ValueChar
  <2> QED BY <1>4, <1>5, <2>1
<1> QED BY <1>1, <1>2, <1>6, <1>7, <1>8, <1>9, <1>10, <1>11, <1>12, <1>13

-----------------------------------------------------------------------------
\* The callbacks that hold the byte.

\* A step that holds no byte.
LEMMA PairedThrough ==
  ASSUME NEW c, NEW u, NEW s, NEW t, NEW ch, Paired(s, t)
  PROVE  Through(c, u, s, t, ch)
  BY DEF Through, Paired, Rests

\* A notification without NOADVANCE holds none.
LEMMA NotifyUnheld ==
  ASSUME NEW s, NEW cb, DOMAIN s = Fields, Unheld(s)
  PROVE  Unheld(CALLBACK_NOTIFY(s, cb)) /\ DOMAIN CALLBACK_NOTIFY(s, cb) = Fields
<1>1. PICK b : b = FALSE  OBVIOUS
<1>2. PICK v : v = IF cb = "message_begin" THEN [Noted(s, cb) EXCEPT !.body = 0, !.due = 0, !.sent = [d |-> "none", n |-> 0]]
                   ELSE Noted(s, cb)
  OBVIOUS
<1>3. Unheld(v) /\ DOMAIN v = Fields  BY <1>2 DEF Noted, Unheld, Fields
<1>4. CALLBACK_NOTIFY(s, cb) = Answered(v, cb, b)  BY <1>1, <1>2 DEF CALLBACK_NOTIFY, CALLBACK_NOTIFY_
<1> QED BY <1>1, <1>3, <1>4 DEF Answered, Unheld, Fields

\* NEW_MESSAGE leads both to the same state.
LEMMA NewMessageSame ==
  ASSUME NEW c, NEW u, DOMAIN c = Fields, DOMAIN u = Fields, Same(c, u)
  PROVE  LET s == NEW_MESSAGE(c)
             t == NEW_MESSAGE(u)
         IN  /\ Quiet(c, s) /\ Quiet(u, t) /\ Same(s, t) /\ s.state \in Bare
             /\ s.http_errno = c.http_errno /\ t.http_errno = u.http_errno /\ s.upgrade = c.upgrade
<1>1. http_message_needs_eof(u) <=> http_message_needs_eof(c)  BY DEF Same, http_message_needs_eof
<1>2. http_should_keep_alive(u) <=> http_should_keep_alive(c)  BY <1>1 DEF Same, http_should_keep_alive
<1>3. PICK x : x = IF ~http_should_keep_alive(c) THEN "s_dead" ELSE IF c.type = "REQUEST" THEN "s_start_req" ELSE "s_start_res"
  OBVIOUS
<1>4. x \in Bare  BY <1>3 DEF Bare
<1>5. NEW_MESSAGE(c) = UPDATE_STATE(c, x) /\ NEW_MESSAGE(u) = UPDATE_STATE(u, x)  BY <1>2, <1>3 DEF NEW_MESSAGE, Same
<1>6. PICK s, t : s = UPDATE_STATE(c, x) /\ t = UPDATE_STATE(u, x)  OBVIOUS
<1>7. /\ Quiet(c, s) /\ Quiet(u, t) /\ Same(s, t) /\ s.state = x
      /\ s.http_errno = c.http_errno /\ t.http_errno = u.http_errno /\ s.upgrade = c.upgrade
  BY <1>6 DEF UPDATE_STATE, Quiet, Same, Fields
<1> QED BY <1>4, <1>5, <1>6, <1>7

\* message_complete, after which the parser may leave the connection to another protocol.
LEMMA CompletePair ==
  ASSUME NEW c, NEW u, NEW e, Level(c, u), c.http_errno = "OK", u.http_errno = "OK", Unheld(c), Unmarked(c), Unmarked(u)
  PROVE  LET s == CALLBACK_NOTIFY(NEW_MESSAGE(c), "message_complete")
             t == CALLBACK_NOTIFY(NEW_MESSAGE(u), "message_complete")
         IN  Paired(s, t) /\ Paired([s EXCEPT !.exit = e], [t EXCEPT !.exit = e])
<1>1. DOMAIN c = Fields /\ DOMAIN u = Fields /\ Same(c, u)  BY DEF Level, Ready
<1>2. PICK v, w : v = NEW_MESSAGE(c) /\ w = NEW_MESSAGE(u)  OBVIOUS
<1>3. /\ Quiet(c, v) /\ Quiet(u, w) /\ Same(v, w) /\ v.state \in Bare /\ v.http_errno = "OK" /\ w.http_errno = "OK"
  BY <1>1, <1>2, NewMessageSame
<1>4. NoDatum(v.state)  BY <1>3, BareNoDatum
<1>5. Twin(v, w) /\ Unmarked(v) /\ Unmarked(w)  BY <1>3, <1>4, QuietTwin
<1>6. Level(v, w) /\ Unheld(v)  BY <1>5 DEF Twin
<1>7. PICK b : b = FALSE  OBVIOUS
<1>8. PICK s, t : s = CALLBACK_NOTIFY_(v, "message_complete", b) /\ t = CALLBACK_NOTIFY_(w, "message_complete", b)
  OBVIOUS
<1>9. Met(s, t, b) /\ s.state = v.state /\ Ready(s) /\ Ready(t)  BY <1>3, <1>5, <1>6, <1>8, NotifyMeets
<1>10. Paired(s, t)  BY <1>4, <1>7, <1>9, MetPaired
<1>11. PICK x, y : x = [s EXCEPT !.exit = e] /\ y = [t EXCEPT !.exit = e]  OBVIOUS
<1>12. /\ Quiet(s, x) /\ Quiet(t, y) /\ x.http_errno = s.http_errno /\ y.http_errno = t.http_errno /\ x.state = s.state
       /\ (Same(s, t) => Same(x, y))
  BY <1>9, <1>11 DEF Ready, Quiet, Same, Fields
<1>13. Met(x, y, b)
  <2>1. CASE s.http_errno # "CB" /\ t.http_errno = "OK"
    <3>1. Level(s, t) /\ Unmarked(s) /\ Unmarked(t)  BY <1>9, <2>1 DEF Met
    <3>2. Level(x, y)  BY <1>12, <3>1, QuietLevel DEF Level
    <3> QED BY <1>9, <1>12, <3>1, <3>2 DEF Met, Quiet, Unmarked, Unheld, Skips
  <2>2. CASE ~(s.http_errno # "CB" /\ t.http_errno = "OK")  BY <1>9, <1>12, <2>2 DEF Met, Quiet, Unheld, Skips
  <2> QED BY <2>1, <2>2
<1>14. Paired(x, y)  BY <1>4, <1>7, <1>9, <1>12, <1>13, MetPaired
<1> QED BY <1>2, <1>7, <1>8, <1>10, <1>11, <1>14 DEF CALLBACK_NOTIFY

\* s_message_done
LEMMA MessageDonePair ==
  ASSUME NEW c, NEW u, Twin(c, u), c.state = "s_message_done"
  PROVE  Paired(MessageDone(c), MessageDone(u))
<1>1. c.state \in Bare  BY DEF Bare
<1>2. Unmarked(c) /\ Unmarked(u) /\ Level(c, u) /\ Unheld(c) /\ c.http_errno = "OK" /\ u.http_errno = "OK" /\ Same(c, u)
  BY <1>1, BareUnmarked
<1>3. PICK e : e = c.upgrade  OBVIOUS
<1>4. u.upgrade = e  BY <1>2, <1>3 DEF Same
<1>5. Paired([CALLBACK_NOTIFY(NEW_MESSAGE(c), "message_complete") EXCEPT !.exit = e],
             [CALLBACK_NOTIFY(NEW_MESSAGE(u), "message_complete") EXCEPT !.exit = e])
  BY <1>2, CompletePair
<1> QED BY <1>3, <1>4, <1>5 DEF MessageDone

\* s_headers_done
LEMMA HeadersDonePair ==
  ASSUME NEW c, NEW u, NEW ch, Twin(c, u), c.state = "s_headers_done"
  PROVE  Paired(HeadersDone(c, ch), HeadersDone(u, ch))
<1>1. c.state \in Bare /\ "s_chunk_size_start" \in Bare /\ {"s_body_identity", "s_body_identity_eof"} \subseteq MarkPlaces["body"]
  BY DEF Bare, MarkPlaces
<1>2. /\ Unmarked(c) /\ Unmarked(u) /\ Level(c, u) /\ Unheld(c) /\ c.http_errno = "OK" /\ u.http_errno = "OK"
      /\ Same(c, u) /\ DOMAIN c = Fields /\ DOMAIN u = Fields
  BY <1>1, BareUnmarked
<1>3. PICK v, w : v = [c EXCEPT !.nread = 0] /\ w = [u EXCEPT !.nread = 0]  OBVIOUS
<1>4. /\ Quiet(c, v) /\ Quiet(u, w) /\ Same(v, w) /\ v.http_errno = "OK" /\ w.http_errno = "OK" /\ v.state = c.state
      /\ v.content_length = c.content_length
  BY <1>2, <1>3 DEF Quiet, Same, Fields
<1>5. Twin(v, w) /\ Unmarked(v) /\ Unmarked(w) /\ Level(v, w) /\ Unheld(v)
  BY <1>1, <1>2, <1>4, QuietTwin, BareNoDatum DEF Twin
<1>6. PICK s, t : s = HeadersDone(c, ch) /\ t = HeadersDone(u, ch)  OBVIOUS
<1>7. PICK e : e = TRUE  OBVIOUS
<1>8. PICK x, y : /\ x = CALLBACK_NOTIFY(NEW_MESSAGE(v), "message_complete")
                  /\ y = CALLBACK_NOTIFY(NEW_MESSAGE(w), "message_complete")
  OBVIOUS
<1>9. Paired(x, y) /\ Paired([x EXCEPT !.exit = e], [y EXCEPT !.exit = e])  BY <1>4, <1>5, <1>8, CompletePair
<1>10. http_message_needs_eof(u) <=> http_message_needs_eof(c)  BY <1>2 DEF Same, http_message_needs_eof
<1>11. \/ s = SET_ERRNO(c, "STRICT") /\ t = SET_ERRNO(u, "STRICT")
       \/ s = [x EXCEPT !.exit = e] /\ t = [y EXCEPT !.exit = e]
       \/ s = x /\ t = y
       \/ s = UPDATE_STATE(v, "s_chunk_size_start") /\ t = UPDATE_STATE(w, "s_chunk_size_start")
       \/ /\ s = [v EXCEPT !.state = "s_body_identity", !.due = c.content_length]
          /\ t = [w EXCEPT !.state = "s_body_identity", !.due = c.content_length]
       \/ s = UPDATE_STATE(v, "s_body_identity_eof") /\ t = UPDATE_STATE(w, "s_body_identity_eof")
  <2>1. u.flags = c.flags /\ u.content_length = c.content_length /\ u.upgrade = c.upgrade /\ u.method = c.method
    BY <1>2 DEF Same
  <2> QED BY <1>3, <1>6, <1>7, <1>8, <1>10, <2>1 DEF HeadersDone
<1>12. CASE s = SET_ERRNO(c, "STRICT") /\ t = SET_ERRNO(u, "STRICT")  BY <1>6, <1>12, BothRefuse
<1>13. CASE s = UPDATE_STATE(v, "s_chunk_size_start") /\ t = UPDATE_STATE(w, "s_chunk_size_start")
  BY <1>1, <1>4, <1>5, <1>6, <1>13, BothGo
<1>14. CASE s = UPDATE_STATE(v, "s_body_identity_eof") /\ t = UPDATE_STATE(w, "s_body_identity_eof")
  BY <1>1, <1>4, <1>5, <1>6, <1>14, BothGo
<1>15. CASE /\ s = [v EXCEPT !.state = "s_body_identity", !.due = c.content_length]
            /\ t = [w EXCEPT !.state = "s_body_identity", !.due = c.content_length]
  <2>1. /\ Quiet(v, s) /\ Quiet(w, t) /\ Same(s, t) /\ s.http_errno = "OK" /\ t.http_errno = "OK" /\ s.state = "s_body_identity"
    BY <1>4, <1>15 DEF Quiet, Same, Fields
  <2>2. NoDatum(s.state) /\ s.state = t.state  BY <1>1, <2>1, BareNoDatum DEF Same
  <2>3. Along(v, w, s, t)  BY <2>1, <2>2 DEF Along
  <2>4. v.state \notin MarkPlaces["body"]  BY <1>1, <1>4, <1>5, BareUnmarked
  <2>5. Paired(s, t)  BY <1>5, <2>3, <2>4, AlongPair
  <2> QED BY <1>6, <2>5
<1> QED BY <1>6, <1>9, <1>11, <1>12, <1>13, <1>14, <1>15

\* A callback with NOADVANCE, and what follows it if it lets the parser go on.
LEMMA HoldThrough ==
  ASSUME NEW c, NEW u, NEW v, NEW w, NEW x, NEW y, NEW s, NEW t, NEW ch, NEW b, b = TRUE, Met(v, w, b),
         v.state \in HoldStates, c.state # "s_headers_done", v.answer = c.answer, w.answer = u.answer,
         s = IF v.http_errno = "OK" THEN x ELSE v, t = IF w.http_errno = "OK" THEN y ELSE w, y = Switch(w, ch),
         v.http_errno = "OK" => Rests(x),
         v.http_errno = "OK" /\ w.http_errno = "OK" => Through(v, w, x, y, ch)
  PROVE  Through(c, u, s, t, ch)
<1>1. CASE v.http_errno = "CB"
  <2>1. s = v  BY <1>1
  <2> QED BY <1>1, <2>1 DEF Through, Rests, Going, Paired, Stops
<1>2. CASE v.http_errno = "PAUSED"
  <2>1. s = v /\ ~Unheld(s) /\ Rests(s)  BY <1>2 DEF Met, Unheld, Rests
  <2>2. CASE w.http_errno = "CB"
    <3>1. t.http_errno \in Stops  BY <2>2 DEF Stops
    <3> QED BY <2>1, <3>1 DEF Through, Passes
  <2>3. CASE w.http_errno = "OK"
    <3>1. Waits(v, w) /\ t = Switch(w, ch)  BY <1>2, <2>3 DEF Met, Waits
    <3>2. Passes(s, t, u.answer, ch)  BY <2>1, <3>1 DEF Passes
    <3> QED BY <2>1, <3>2 DEF Through
  <2> QED BY <2>2, <2>3 DEF Met
<1>3. CASE v.http_errno = "OK"
  <2>1. s = x /\ Rests(s)  BY <1>3
  <2>2. CASE w.http_errno = "OK"
    <3>1. Through(v, w, s, t, ch)  BY <1>3, <2>1, <2>2
    <3> QED BY <3>1 DEF Through
  <2>3. CASE w.http_errno = "CB"
    <3>1. t.http_errno \in Stops  BY <2>3 DEF Stops
    <3>2. Unheld(s) => Paired(s, t)  BY <3>1 DEF Paired
    <3> QED BY <2>1, <3>1, <3>2 DEF Through, Passes
  <2> QED BY <2>2, <2>3 DEF Met
<1> QED BY <1>1, <1>2, <1>3 DEF Met

\* The switch in the states that hold a byte.
LEMMA SwitchHold ==
  ASSUME NEW s, NEW ch
  PROVE  /\ s.state = "s_message_done" => Switch(s, ch) = MessageDone(s)
         /\ s.state = "s_headers_done" => Switch(s, ch) = HeadersDone(s, ch)
         /\ s.state = "s_header_almost_done" => Switch(s, ch) = LineAlmostDone(s, ch, "s_header_value_lws")
         /\ s.state = "s_header_field_start" => Switch(s, ch) = HeaderFieldStart(s, ch)
<1>1. DOMAIN Letters = {"s_res_H", "s_res_HT", "s_res_HTT", "s_res_HTTP", "s_req_http_H", "s_req_http_HT",
                        "s_req_http_HTT", "s_req_http_HTTP"}
  BY DEF Letters
<1>2. s.state = "s_message_done" => Switch(s, ch) = MessageDone(s)
  BY <1>1 DEF Switch, ResVersionStates, ReqVersionStates, UrlStates
<1>3. s.state = "s_headers_done" => Switch(s, ch) = HeadersDone(s, ch)
  BY <1>1 DEF Switch, ResVersionStates, ReqVersionStates, UrlStates
<1>4. s.state = "s_header_almost_done" => Switch(s, ch) = LineAlmostDone(s, ch, "s_header_value_lws")
  BY <1>1 DEF Switch, ResVersionStates, ReqVersionStates, UrlStates
<1>5. s.state = "s_header_field_start" => Switch(s, ch) = HeaderFieldStart(s, ch)
  BY <1>1 DEF Switch, ResVersionStates, ReqVersionStates, UrlStates
<1> QED BY <1>2, <1>3, <1>4, <1>5

\* The end of a message, and what follows the headers, hold no byte.
LEMMA DoneRests ==
  ASSUME NEW s, NEW ch, DOMAIN s = Fields, Unheld(s)
  PROVE  Rests(MessageDone(s)) /\ Rests(HeadersDone(s, ch)) /\ Unheld(HeadersDone(s, ch))
<1>1. \A r, e : /\ DOMAIN r = Fields /\ Unheld(r)
                => LET t == CALLBACK_NOTIFY(NEW_MESSAGE(r), "message_complete")
                   IN  Unheld(t) /\ Unheld([t EXCEPT !.exit = e])
  <2> SUFFICES ASSUME NEW r, NEW e, DOMAIN r = Fields, Unheld(r)
               PROVE  LET t == CALLBACK_NOTIFY(NEW_MESSAGE(r), "message_complete")
                      IN  Unheld(t) /\ Unheld([t EXCEPT !.exit = e])
    OBVIOUS
  <2>1. PICK x : NEW_MESSAGE(r) = UPDATE_STATE(r, x)  BY DEF NEW_MESSAGE
  <2>2. Unheld(NEW_MESSAGE(r)) /\ DOMAIN NEW_MESSAGE(r) = Fields  BY <2>1, StillUnheld
  <2>3. PICK t : t = CALLBACK_NOTIFY(NEW_MESSAGE(r), "message_complete")  OBVIOUS
  <2>4. Unheld(t) /\ DOMAIN t = Fields  BY <2>2, <2>3, NotifyUnheld
  <2>5. Unheld([t EXCEPT !.exit = e])  BY <2>4 DEF Unheld, Fields
  <2> QED BY <2>3, <2>4, <2>5
<1>2. Unheld(MessageDone(s))  BY <1>1 DEF MessageDone
<1>3. PICK t : t = [s EXCEPT !.nread = 0]  OBVIOUS
<1>4. DOMAIN t = Fields /\ Unheld(t)  BY <1>3 DEF Unheld, Fields
<1>5. PICK x : x = CALLBACK_NOTIFY(NEW_MESSAGE(t), "message_complete")  OBVIOUS
<1>6. \/ HeadersDone(s, ch) = SET_ERRNO(s, "STRICT")
      \/ HeadersDone(s, ch) = x \/ HeadersDone(s, ch) = [x EXCEPT !.exit = TRUE]
      \/ HeadersDone(s, ch) = UPDATE_STATE(t, "s_chunk_size_start")
      \/ HeadersDone(s, ch) = [t EXCEPT !.state = "s_body_identity", !.due = s.content_length]
      \/ HeadersDone(s, ch) = UPDATE_STATE(t, "s_body_identity_eof")
  BY <1>3, <1>5 DEF HeadersDone
<1>7. Unheld(x) /\ Unheld([x EXCEPT !.exit = TRUE])  BY <1>1, <1>4, <1>5
<1>8. Unheld([t EXCEPT !.state = "s_body_identity", !.due = s.content_length])  BY <1>4 DEF Unheld, Fields
<1>9. Unheld(SET_ERRNO(s, "STRICT")) /\ Unheld(UPDATE_STATE(t, "s_chunk_size_start"))
      /\ Unheld(UPDATE_STATE(t, "s_body_identity_eof"))
  BY <1>4, StillUnheld
<1>10. Unheld(HeadersDone(s, ch))  BY <1>6, <1>7, <1>8, <1>9
<1> QED BY <1>2, <1>10 DEF Rests

\* headers_complete without the answer that there is no body is a notification.
LEMMA HeadersCompletePlain ==
  ASSUME NEW s, NEW b, b = TRUE, ~Skip(s.answer)
  PROVE  HeadersComplete(s) = CALLBACK_NOTIFY_(s, "headers_complete", b)
  BY DEF HeadersComplete, Skip, CALLBACK_NOTIFY_

\* With it the parser goes on, and the message has no body.
LEMMA HeadersCompleteSkip ==
  ASSUME NEW s, NEW b, DOMAIN s = Fields, Skip(s.answer)
  PROVE  /\ HeadersComplete(s) = [Noted(s, "headers_complete") EXCEPT
                                      !.flags = @ \cup {"F_SKIPBODY"}, !.upgrade = @ \/ s.answer.r = "2"]
         /\ CALLBACK_NOTIFY_(s, "headers_complete", b) = Noted(s, "headers_complete")
<1>1. s.answer.at = "headers_complete" /\ s.answer.r \in {"1", "2"}  BY DEF Skip
<1>2. PICK n : n = Noted(s, "headers_complete")  OBVIOUS
<1>3. n.answer = s.answer  BY <1>2 DEF Noted, Fields
<1>4. Answered(n, "headers_complete", b) = n /\ Answered(n, "headers_complete", TRUE) = n  BY <1>1, <1>3 DEF Answered
<1>5. CALLBACK_NOTIFY_(s, "headers_complete", b) = n  BY <1>2, <1>4 DEF CALLBACK_NOTIFY_
<1> QED BY <1>1, <1>2, <1>4, <1>5 DEF HeadersComplete

\* headers_complete of both, where the answers agree.
LEMMA HeadersCompleteMeets ==
  ASSUME NEW c, NEW u, Level(c, u), c.http_errno = "OK", u.http_errno = "OK", Unheld(c), Unmarked(c), Unmarked(u),
         (~Skip(c.answer) /\ ~Skip(u.answer)) \/ c.answer = u.answer
  PROVE  LET s == HeadersComplete(c)
             t == HeadersComplete(u)
         IN  /\ \E b : b = TRUE /\ Met(s, t, b)
             /\ s.state = c.state /\ t.state = u.state /\ s.answer = c.answer /\ t.answer = u.answer
<1>5. PICK b : b = TRUE  OBVIOUS
<1>1. PICK v, w : v = CALLBACK_NOTIFY_(c, "headers_complete", b) /\ w = CALLBACK_NOTIFY_(u, "headers_complete", b)
  OBVIOUS
<1>2. /\ Met(v, w, b) /\ v.state = c.state /\ w.state = u.state /\ v.answer = c.answer /\ w.answer = u.answer
      /\ Ready(v) /\ Ready(w)
  BY <1>1, NotifyMeets
<1>3. CASE ~Skip(c.answer) /\ ~Skip(u.answer)
  <2>1. HeadersComplete(c) = v /\ HeadersComplete(u) = w  BY <1>1, <1>3, <1>5, HeadersCompletePlain
  <2> QED BY <1>2, <1>5, <2>1
<1>4. CASE c.answer = u.answer /\ Skip(c.answer)
  <2>1. DOMAIN c = Fields /\ DOMAIN u = Fields  BY DEF Level, Ready
  <2>2. v = Noted(c, "headers_complete") /\ w = Noted(u, "headers_complete")  BY <1>1, <1>4, <2>1, HeadersCompleteSkip
  <2>3. v.http_errno = "OK" /\ w.http_errno = "OK"  BY <2>1, <2>2 DEF Noted, Fields
  <2>4. PICK x, y : x = HeadersComplete(c) /\ y = HeadersComplete(u)  OBVIOUS
  <2>5. PICK e : e = (c.answer.r = "2")  OBVIOUS
  <2>6. /\ x = [v EXCEPT !.flags = @ \cup {"F_SKIPBODY"}, !.upgrade = @ \/ e]
        /\ y = [w EXCEPT !.flags = @ \cup {"F_SKIPBODY"}, !.upgrade = @ \/ e]
    BY <1>4, <2>1, <2>2, <2>4, <2>5, HeadersCompleteSkip
  <2>7. Level(v, w) /\ Unmarked(v) /\ Unmarked(w) /\ Unheld(v) /\ Same(v, w)  BY <1>2, <2>3 DEF Met, Level
  <2>8. DOMAIN v = Fields /\ DOMAIN w = Fields  BY <1>2 DEF Ready
  <2>9. /\ Quiet(v, x) /\ Quiet(w, y) /\ Same(x, y) /\ x.http_errno = "OK" /\ y.http_errno = "OK" /\ x.state = v.state /\ y.state = w.state
    BY <2>3, <2>6, <2>7, <2>8 DEF Quiet, Same, Fields
  <2>10. Level(x, y)  BY <2>7, <2>9, QuietLevel
  <2>11. Met(x, y, b)  BY <2>7, <2>9, <2>10 DEF Met, Quiet, Unmarked, Unheld
  <2> QED BY <1>2, <1>5, <2>4, <2>9, <2>11 DEF Quiet
<1> QED BY <1>3, <1>4

\* headers_complete of one: where it leaves the parser.
LEMMA HeadersCompleteAlone ==
  ASSUME NEW s, Ready(s), Unmarked(s), s.http_errno = "OK", Unheld(s)
  PROVE  LET t == HeadersComplete(s)
         IN  /\ DOMAIN t = Fields /\ t.state = s.state /\ t.http_errno \in {"OK", "PAUSED", "CB"}
             /\ t.http_errno = "OK" => Unheld(t)
<1>1. PICK b : b = TRUE  OBVIOUS
<1>2. PICK w : w = [s EXCEPT !.out = Append(s.out, "headers_complete")]  OBVIOUS
<1>3. PICK v : v = CALLBACK_NOTIFY_(s, "headers_complete", b)  OBVIOUS
<1>4. Ready(v) /\ Same(w, v) /\ v.http_errno \in {"OK", "PAUSED", "CB"} /\ (v.http_errno = "OK" => v.held = s.held)
  <2>1. Announced(s, v, w, "headers_complete", b)  BY <1>2, <1>3, NotifyCalled
  <2> QED BY <2>1 DEF Announced
<1>5. DOMAIN v = Fields /\ v.state = s.state /\ (v.http_errno = "OK" => Unheld(v)) /\ DOMAIN s = Fields
  BY <1>2, <1>4 DEF Ready, Same, Fields, Unheld
<1>6. CASE ~Skip(s.answer)  BY <1>1, <1>3, <1>4, <1>5, <1>6, HeadersCompletePlain
<1>7. CASE Skip(s.answer)
  <2>1. PICK e : e = (s.answer.r = "2")  OBVIOUS
  <2>3. v = Noted(s, "headers_complete")  BY <1>3, <1>5, <1>7, HeadersCompleteSkip
  <2>2. HeadersComplete(s) = [v EXCEPT !.flags = @ \cup {"F_SKIPBODY"}, !.upgrade = @ \/ e]
    BY <1>5, <1>7, <2>1, <2>3, HeadersCompleteSkip
  <2> QED BY <1>4, <1>5, <2>2 DEF Fields, Unheld
<1> QED BY <1>6, <1>7

\* s_headers_almost_done
LEMMA HeadersAlmostDoneThrough ==
  ASSUME NEW c, NEW u, NEW ch, Twin(c, u), c.state = "s_headers_almost_done"
  PROVE  Through(c, u, HeadersAlmostDone(c, ch), HeadersAlmostDone(u, ch), ch)
<1>1. c.state \in Bare /\ HoldStates \subseteq Bare /\ "s_message_done" \in HoldStates /\ "s_headers_done" \in HoldStates
  BY DEF Bare, HoldStates
<1>2. /\ Unmarked(c) /\ Unmarked(u) /\ Level(c, u) /\ Unheld(c) /\ c.http_errno = "OK" /\ u.http_errno = "OK"
      /\ Same(c, u) /\ DOMAIN c = Fields /\ DOMAIN u = Fields
  BY <1>1, BareUnmarked
<1>3. u.flags = c.flags /\ u.method = c.method  BY <1>2 DEF Same
<1>4. PICK s, t : s = HeadersAlmostDone(c, ch) /\ t = HeadersAlmostDone(u, ch)  OBVIOUS
<1>5. PICK b : b = TRUE  OBVIOUS
<1>6. CASE ch # LF
  <2>1. s = SET_ERRNO(c, "STRICT") /\ t = SET_ERRNO(u, "STRICT")  BY <1>4, <1>6 DEF HeadersAlmostDone
  <2> QED BY <1>4, <2>1, BothRefuse, PairedThrough
<1>7. CASE ch = LF /\ "F_TRAILING" \in c.flags
  <2>1. PICK f, g : f = UPDATE_STATE(c, "s_message_done") /\ g = UPDATE_STATE(u, "s_message_done")  OBVIOUS
  <2>2. Twin(f, g)  BY <1>1, <2>1, BothGo
  <2>3. f.state = "s_message_done" /\ f.marks = c.marks /\ g.marks = u.marks /\ f.answer = c.answer /\ g.answer = u.answer
    BY <1>2, <2>1, StateEffect
  <2>4. Unmarked(f) /\ Unmarked(g) /\ Level(f, g) /\ Unheld(f) /\ f.http_errno = "OK" /\ g.http_errno = "OK"
    BY <1>1, <2>2, <2>3, BareUnmarked
  <2>5. PICK v, w : v = CALLBACK_NOTIFY_(f, "chunk_complete", b) /\ w = CALLBACK_NOTIFY_(g, "chunk_complete", b)
    OBVIOUS
  <2>6. /\ Met(v, w, b) /\ v.state = f.state /\ w.state = g.state /\ v.answer = f.answer /\ w.answer = g.answer
        /\ Ready(v) /\ Ready(w)
    BY <2>4, <2>5, NotifyMeets
  <2>7. w.state = "s_message_done" /\ v.state = "s_message_done"  BY <2>2, <2>3, <2>6 DEF Twin, Level, Same
  <2>8. s = (IF v.http_errno = "OK" THEN MessageDone(v) ELSE v) /\ t = (IF w.http_errno = "OK" THEN MessageDone(w) ELSE w)
    BY <1>3, <1>4, <1>5, <1>7, <2>1, <2>5 DEF HeadersAlmostDone, Then, CALLBACK_NOTIFY_NOADVANCE
  <2>9. MessageDone(w) = Switch(w, ch)  BY <2>7, SwitchHold
  <2>10. v.http_errno = "OK" => Rests(MessageDone(v))  BY <2>6, DoneRests DEF Ready, Met
  <2>11. v.http_errno = "OK" /\ w.http_errno = "OK" => Through(v, w, MessageDone(v), MessageDone(w), ch)
    <3> SUFFICES ASSUME v.http_errno = "OK", w.http_errno = "OK"
                 PROVE  Through(v, w, MessageDone(v), MessageDone(w), ch)
      OBVIOUS
    <3>1. NoDatum(v.state)  BY <1>1, <2>7, BareNoDatum
    <3>2. Twin(v, w)  BY <2>6, <3>1, MetTwin
    <3> QED BY <2>7, <3>2, MessageDonePair, PairedThrough
  <2>12. v.state \in HoldStates /\ c.state # "s_headers_done" /\ v.answer = c.answer /\ w.answer = u.answer
    BY <1>1, <2>3, <2>6, <2>7
  <2>13. Through(c, u, s, t, ch)  BY <1>5, <2>6, <2>8, <2>9, <2>10, <2>11, <2>12, HoldThrough
  <2> QED BY <1>4, <2>13
<1>8. CASE ch = LF /\ "F_TRAILING" \notin c.flags /\ {"F_CHUNKED", "F_CONTENTLENGTH"} \subseteq c.flags
  <2>1. s = SET_ERRNO(c, "UNEXPECTED_CONTENT_LENGTH") /\ t = SET_ERRNO(u, "UNEXPECTED_CONTENT_LENGTH")
    BY <1>3, <1>4, <1>8 DEF HeadersAlmostDone
  <2> QED BY <1>4, <2>1, BothRefuse, PairedThrough
<1>9. CASE ch = LF /\ "F_TRAILING" \notin c.flags /\ ~({"F_CHUNKED", "F_CONTENTLENGTH"} \subseteq c.flags)
  <2>1. PICK e : e = ({"F_UPGRADE", "F_CONNECTION_UPGRADE"} \subseteq c.flags \/ c.method = "CONNECT")  OBVIOUS
  <2>2. PICK f, g : /\ f = [c EXCEPT !.state = "s_headers_done", !.upgrade = e]
                    /\ g = [u EXCEPT !.state = "s_headers_done", !.upgrade = e]
    OBVIOUS
  <2>3. /\ Quiet(c, f) /\ Quiet(u, g) /\ Same(f, g) /\ f.http_errno = "OK" /\ g.http_errno = "OK"
        /\ f.state = "s_headers_done" /\ g.state = "s_headers_done"
    BY <1>2, <2>2 DEF Quiet, Same, Fields
  <2>4. NoDatum(f.state)  BY <1>1, <2>3, BareNoDatum
  <2>5. Twin(f, g) /\ Unmarked(f) /\ Unmarked(g)  BY <1>2, <2>3, <2>4, QuietTwin
  <2>6. Level(f, g) /\ Unheld(f) /\ Ready(f) /\ f.answer = c.answer /\ g.answer = u.answer
    BY <2>3, <2>5 DEF Twin, Level, Quiet
  <2>7. PICK v, w : v = HeadersComplete(f) /\ w = HeadersComplete(g)  OBVIOUS
  <2>8. s = (IF v.http_errno = "OK" THEN HeadersDone(v, ch) ELSE v) /\ t = (IF w.http_errno = "OK" THEN HeadersDone(w, ch) ELSE w)
    BY <1>3, <1>4, <1>9, <2>1, <2>2, <2>7 DEF HeadersAlmostDone, Then
  <2>9. DOMAIN v = Fields /\ v.state = "s_headers_done" /\ v.http_errno \in {"OK", "PAUSED", "CB"} /\ (v.http_errno = "OK" => Unheld(v))
    BY <2>3, <2>5, <2>6, <2>7, HeadersCompleteAlone
  <2>10. v.http_errno = "OK" => Rests(HeadersDone(v, ch))  BY <2>9, DoneRests
  <2>11. CASE (~Skip(c.answer) /\ ~Skip(u.answer)) \/ c.answer = u.answer
    <3>0. /\ \E a : a = TRUE /\ Met(v, w, a)
          /\ v.state = f.state /\ w.state = g.state /\ v.answer = f.answer /\ w.answer = g.answer
      BY <2>3, <2>5, <2>6, <2>7, <2>11, HeadersCompleteMeets
    <3>1. Met(v, w, b) /\ w.state = "s_headers_done" /\ v.answer = f.answer /\ w.answer = g.answer
      BY <1>5, <2>3, <3>0
    <3>2. HeadersDone(w, ch) = Switch(w, ch)  BY <3>1, SwitchHold
    <3>3. v.http_errno = "OK" /\ w.http_errno = "OK" => Through(v, w, HeadersDone(v, ch), HeadersDone(w, ch), ch)
      <4> SUFFICES ASSUME v.http_errno = "OK", w.http_errno = "OK"
                   PROVE  Through(v, w, HeadersDone(v, ch), HeadersDone(w, ch), ch)
        OBVIOUS
      <4>1. NoDatum(v.state)  BY <2>3, <2>4, <2>9
      <4>2. Twin(v, w)  BY <3>1, <4>1, MetTwin
      <4> QED BY <2>9, <4>2, HeadersDonePair, PairedThrough
    <3>4. v.state \in HoldStates /\ c.state # "s_headers_done" /\ v.answer = c.answer /\ w.answer = u.answer
      BY <1>1, <2>6, <2>9, <3>1
    <3>5. Through(c, u, s, t, ch)  BY <1>5, <2>8, <2>10, <3>1, <3>2, <3>3, <3>4, HoldThrough
    <3> QED BY <1>4, <3>5
  <2>12. CASE ~((~Skip(c.answer) /\ ~Skip(u.answer)) \/ c.answer = u.answer)
    <3>1. ~Linked(c.answer, u.answer)  BY <2>12 DEF Linked
    <3>2. CASE v.http_errno = "OK"
      <4>1. s = HeadersDone(v, ch) /\ Unheld(s)
        <5>1. s = HeadersDone(v, ch)  BY <2>8, <3>2
        <5> QED BY <2>9, <3>2, <5>1, DoneRests
      <4> QED BY <1>4, <3>1, <4>1 DEF Through, Rests
    <3>3. CASE v.http_errno # "OK"
      <4>1. s = v  BY <2>8, <3>3
      <4>2. Rests(s)  BY <1>1, <2>9, <3>3, <4>1 DEF Rests, Going
      <4>3. CASE Skip(u.answer)  BY <1>4, <2>9, <3>1, <4>1, <4>2, <4>3 DEF Through
      <4>4. CASE ~Skip(u.answer)
        <5>1. Skip(c.answer) /\ Skip(f.answer) /\ DOMAIN f = Fields  BY <2>6, <2>12, <4>4 DEF Ready
        <5>2. v.http_errno = "OK"
          <6>1. PICK e2 : e2 = (f.answer.r = "2")  OBVIOUS
          <6>2. v = [Noted(f, "headers_complete") EXCEPT !.flags = @ \cup {"F_SKIPBODY"}, !.upgrade = @ \/ e2]
            BY <2>7, <5>1, <6>1, HeadersCompleteSkip
          <6> QED BY <2>3, <5>1, <6>2 DEF Noted, Fields
        <5> QED BY <3>3, <5>2
      <4> QED BY <4>3, <4>4
    <3> QED BY <3>2, <3>3
  <2> QED BY <2>11, <2>12
<1> QED BY <1>6, <1>7, <1>8, <1>9

-----------------------------------------------------------------------------
\* The headers, where a callback may hold the byte.

\* Counting on one side only: the other has nothing left to pass over.
LEMMA CountRight ==
  ASSUME NEW c, NEW u, NEW j, Level(c, u), u.http_errno = "OK", ~Skips(c)
  PROVE  LET t == COUNT_HEADER_SIZE(u, j)
         IN  /\ t.http_errno \in {"OK", "HEADER_OVERFLOW"} /\ Level(c, t) /\ Same(u, t)
             /\ t.marks = u.marks /\ t.answer = u.answer /\ t.held = u.held
<1>1. PICK t : t = COUNT_HEADER_SIZE(u, j)  OBVIOUS
<1>2. Ready(u) /\ DOMAIN u = Fields  BY DEF Level, Ready
<1>3. /\ DOMAIN t = Fields /\ Same(u, t) /\ t.marks = u.marks /\ t.held = u.held /\ t.answer = u.answer
      /\ t.sent = u.sent /\ t.body = u.body /\ t.run = 0 /\ t.skip = FALSE /\ t.http_errno \in {"OK", "HEADER_OVERFLOW"}
  BY <1>1, <1>2 DEF COUNT_HEADER_SIZE, SET_ERRNO, Same, Fields
<1>4. ~Skips(t) /\ t.skip \in BOOLEAN  BY <1>3 DEF Skips
<1>5. Ready(t)  BY <1>2, <1>3, <1>4 DEF Ready
<1>6. PICK x, y : Reads(c, x, y) /\ Reads(u, x, y)  BY DEF Level, Read
<1>7. Reads(t, x, y)  BY <1>3, <1>6 DEF Reads, Unmarked
<1>8. Same(c, t)  BY <1>3 DEF Level, Same
<1>9. Level(c, t)  BY <1>3, <1>5, <1>6, <1>7, <1>8 DEF Level, Read, Unheld, Unpausing
<1> QED BY <1>1, <1>3, <1>9

\* The one that is cut counts alone.
LEMMA CountLeft ==
  ASSUME NEW c, NEW u, NEW i, Level(c, u), c.http_errno = "OK"
  PROVE  LET s == COUNT_HEADER_SIZE(c, i)
         IN  /\ s.http_errno \in {"OK", "HEADER_OVERFLOW"} /\ Level(s, u) /\ Same(c, s)
             /\ s.marks = c.marks /\ s.answer = c.answer /\ s.held = c.held
<1>1. PICK s : s = COUNT_HEADER_SIZE(c, i)  OBVIOUS
<1>2. Ready(c) /\ DOMAIN c = Fields  BY DEF Level, Ready
<1>3. /\ DOMAIN s = Fields /\ Same(c, s) /\ s.marks = c.marks /\ s.held = c.held /\ s.answer = c.answer
      /\ s.sent = c.sent /\ s.body = c.body /\ s.run = 0 /\ s.skip = FALSE /\ s.http_errno \in {"OK", "HEADER_OVERFLOW"}
  BY <1>1, <1>2 DEF COUNT_HEADER_SIZE, SET_ERRNO, Same, Fields
<1>4. ~Skips(s) /\ s.skip \in BOOLEAN  BY <1>3 DEF Skips
<1>5. Ready(s)  BY <1>2, <1>3, <1>4 DEF Ready
<1>6. PICK x, y : Reads(c, x, y) /\ Reads(u, x, y)  BY DEF Level, Read
<1>7. Reads(s, x, y)  BY <1>3, <1>6 DEF Reads, Unmarked
<1>8. Same(s, u)  BY <1>3 DEF Level, Same
<1>9. Level(s, u)  BY <1>4, <1>5, <1>6, <1>7, <1>8 DEF Level, Read
<1> QED BY <1>1, <1>3, <1>9

\* What the switch does after a step that keeps the answers.
LEMMA ThroughFrom ==
  ASSUME NEW c, NEW u, NEW f, NEW g, NEW s, NEW t, NEW ch, Through(f, g, s, t, ch),
         f.answer = c.answer, g.answer = u.answer, c.state # "s_headers_done"
  PROVE  Through(c, u, s, t, ch)
  BY DEF Through

\* A parser at rest is its own twin.
LEMMA TwinSelf ==
  ASSUME NEW s, Ready(s), Unmarked(s), s.http_errno = "OK", Unheld(s), s.state \in Bare
  PROVE  Twin(s, [s EXCEPT !.answer = NoAnswer])
<1>1. PICK t : t = [s EXCEPT !.answer = NoAnswer]  OBVIOUS
<1>2. DOMAIN s = Fields /\ \A d \in Datum : s.marks[d] \in Int  BY DEF Ready
<1>3. /\ DOMAIN t = Fields /\ Same(s, t) /\ t.marks = s.marks /\ t.held = s.held /\ t.answer = NoAnswer
      /\ t.sent = s.sent /\ t.body = s.body /\ t.run = s.run /\ t.skip = s.skip /\ t.http_errno = "OK"
  BY <1>1, <1>2 DEF Same, Fields
<1>4. Ready(t) /\ Unmarked(t) /\ (Skips(s) => Skips(t)) /\ Unheld(t) /\ Unpausing(t)
  <2>1. Unpausing(t)  BY <1>3 DEF Unpausing, NoAnswer
  <2>2. Skips(s) <=> Skips(t)  BY <1>3 DEF Skips
  <2>3. Ready(t)  BY <1>3, <2>2 DEF Ready
  <2> QED BY <1>3, <2>1, <2>2, <2>3 DEF Unmarked, Unheld
<1>5. Read(s, t)  BY <1>2, <1>3 DEF Read, Reads, Unmarked
<1>6. NoDatum(s.state) /\ t.state = s.state  BY <1>3, BareNoDatum DEF Same
<1>7. s.state # "s_header_value"  BY DEF Bare
<1>8. Placed(s) /\ Placed(t) /\ Marked(s) /\ Marked(t)  BY <1>2, <1>3, <1>6 DEF Placed, Marked, Unmarked, NoDatum
<1>9. Level(s, t)  BY <1>3, <1>4, <1>5 DEF Level
<1> QED BY <1>1, <1>3, <1>6, <1>7, <1>8, <1>9 DEF Twin

\* s_header_field_start
LEMMA HeaderFieldStartThrough ==
  ASSUME NEW c, NEW u, NEW ch, Twin(c, u), c.state \in Bare, c.state # "s_headers_done"
  PROVE  Through(c, u, HeaderFieldStart(c, ch), HeaderFieldStart(u, ch), ch)
<1>1. /\ "s_headers_almost_done" \in Bare /\ "header_field" \in Datum /\ "s_header_field" \in MarkPlaces["header_field"]
      /\ CR # LF
  BY DEF Bare, Datum, MarkPlaces, CR, LF
<1>2. /\ Unmarked(c) /\ Unmarked(u) /\ Level(c, u) /\ Unheld(c) /\ c.http_errno = "OK" /\ u.http_errno = "OK"
      /\ Same(c, u) /\ DOMAIN c = Fields /\ DOMAIN u = Fields
  BY BareUnmarked
<1>3. PICK s, t : s = HeaderFieldStart(c, ch) /\ t = HeaderFieldStart(u, ch)  OBVIOUS
<1>4. PICK f, g : f = UPDATE_STATE(c, "s_headers_almost_done") /\ g = UPDATE_STATE(u, "s_headers_almost_done")
  OBVIOUS
<1>5. Twin(f, g) /\ Paired(f, g)  BY <1>1, <1>4, BothGo
<1>6. CASE ch = CR
  <2>1. s = f /\ t = g  BY <1>1, <1>3, <1>4, <1>6 DEF HeaderFieldStart
  <2> QED BY <1>3, <1>5, <2>1, PairedThrough
<1>7. CASE ch = LF
  <2>1. s = HeadersAlmostDone(f, ch) /\ t = HeadersAlmostDone(g, ch)  BY <1>1, <1>3, <1>4, <1>7 DEF HeaderFieldStart
  <2>2. f.state = "s_headers_almost_done" /\ f.answer = c.answer /\ g.answer = u.answer
    BY <1>2, <1>4 DEF UPDATE_STATE, Fields
  <2>3. Through(f, g, s, t, ch)  BY <1>5, <2>1, <2>2, HeadersAlmostDoneThrough
  <2>4. Through(c, u, s, t, ch)  BY <2>2, <2>3, ThroughFrom
  <2> QED BY <1>3, <2>4
<1>8. CASE ch \notin {CR, LF} /\ TOKEN(ch) = "none"
  <2>1. s = SET_ERRNO(c, "INVALID_HEADER_TOKEN") /\ t = SET_ERRNO(u, "INVALID_HEADER_TOKEN")
    BY <1>3, <1>8 DEF HeaderFieldStart
  <2> QED BY <1>3, <2>1, BothRefuse, PairedThrough
<1>9. CASE ch \notin {CR, LF} /\ TOKEN(ch) # "none"
  <2>1. PICK h : h = IF TOKEN(ch) \in DOMAIN FirstLetter THEN FirstLetter[TOKEN(ch)] ELSE "h_general"  OBVIOUS
  <2>2. PICK v, w : v = MARK(c, "header_field") /\ w = MARK(u, "header_field")  OBVIOUS
  <2>3. /\ Level(v, w) /\ Same(c, v) /\ Same(u, w) /\ OnlyMarked(v, "header_field") /\ OnlyMarked(w, "header_field")
        /\ v.marks["header_field"] >= 0 /\ w.marks["header_field"] >= 0 /\ v.held = c.held
        /\ v.http_errno = c.http_errno /\ w.http_errno = u.http_errno
    BY <1>1, <1>2, <2>2, MarkLevel, UnmarkedOnly
  <2>4. /\ s = [v EXCEPT !.index = 0, !.state = "s_header_field", !.header_state = h]
        /\ t = [w EXCEPT !.index = 0, !.state = "s_header_field", !.header_state = h]
    BY <1>3, <1>9, <2>1, <2>2 DEF HeaderFieldStart
  <2>5. DOMAIN v = Fields /\ DOMAIN w = Fields /\ Same(v, w) /\ Unheld(v)  BY <1>2, <2>3 DEF Level, Ready, Unheld
  <2>6. /\ Quiet(v, s) /\ Quiet(w, t) /\ s.http_errno = "OK" /\ t.http_errno = "OK" /\ Same(s, t)
        /\ s.state = "s_header_field" /\ t.state = "s_header_field"
    BY <1>2, <2>3, <2>4, <2>5 DEF Quiet, Same, Fields
  <2>7. Paired(s, t)  BY <1>1, <2>3, <2>5, <2>6, MarkedPair
  <2> QED BY <1>3, <2>7, PairedThrough
<1> QED BY <1>6, <1>7, <1>8, <1>9

\* Alone it rests where a byte may be held.
LEMMA HeaderFieldStartRests ==
  ASSUME NEW s, NEW ch, Ready(s), Unmarked(s), s.http_errno = "OK", Unheld(s), s.state \in Bare, s.state # "s_headers_done"
  PROVE  Rests(HeaderFieldStart(s, ch))
<1>1. PICK t : t = [s EXCEPT !.answer = NoAnswer]  OBVIOUS
<1>2. Twin(s, t)  BY <1>1, TwinSelf
<1> QED BY <1>2, HeaderFieldStartThrough DEF Through

\* s_header_value_lws
LEMMA HeaderValueLwsThrough ==
  ASSUME NEW c, NEW u, NEW ch, Twin(c, u), c.state = "s_header_value_lws"
  PROVE  Through(c, u, HeaderValueLws(c, ch), HeaderValueLws(u, ch), ch)
<1>1. c.state \in Bare /\ "s_header_field_start" \in Bare  BY DEF Bare
<1>2. /\ Unmarked(c) /\ Unmarked(u) /\ Level(c, u) /\ Unheld(c) /\ c.http_errno = "OK" /\ u.http_errno = "OK"
      /\ Same(c, u) /\ DOMAIN c = Fields /\ DOMAIN u = Fields
  BY <1>1, BareUnmarked
<1>3. CASE ch \in {SP, HT}
  <2>1. HeaderValueLws(c, ch) = HeaderValueStart(c, ch) /\ HeaderValueLws(u, ch) = HeaderValueStart(u, ch)
    BY <1>3 DEF HeaderValueLws
  <2> QED BY <1>1, <2>1, HeaderValueStartPair, PairedThrough
<1>4. CASE ch \notin {SP, HT}
  <2>1. PICK f, g : f = Flagged(c) /\ g = Flagged(u)  OBVIOUS
  <2>2. Abreast(c, u, f, g) /\ f.http_errno = "OK"  BY <1>2, <2>1, FlaggedSame
  <2>3. PICK v, w : v = UPDATE_STATE(f, "s_header_field_start") /\ w = UPDATE_STATE(g, "s_header_field_start")
    OBVIOUS
  <2>4. DOMAIN f = Fields /\ DOMAIN g = Fields /\ g.http_errno = "OK" /\ Same(f, g) /\ Quiet(c, f) /\ Quiet(u, g)
    BY <2>2 DEF Abreast, Quiet
  <2>5. /\ Quiet(f, v) /\ Quiet(g, w) /\ Same(v, w) /\ v.http_errno = "OK" /\ w.http_errno = "OK"
        /\ v.state = "s_header_field_start"
    BY <2>2, <2>3, <2>4 DEF UPDATE_STATE, Quiet, Same, Fields
  <2>6. Quiet(c, v) /\ Quiet(u, w)  BY <2>4, <2>5 DEF Quiet
  <2>7. NoDatum(v.state)  BY <1>1, <2>5, BareNoDatum
  <2>8. Twin(v, w)  BY <1>2, <2>5, <2>6, <2>7, QuietTwin
  <2>9. HeaderValueLws(c, ch) = HeaderFieldStart(v, ch) /\ HeaderValueLws(u, ch) = HeaderFieldStart(w, ch)
    BY <1>4, <2>1, <2>3 DEF HeaderValueLws
  <2>10. Through(v, w, HeaderFieldStart(v, ch), HeaderFieldStart(w, ch), ch)
    BY <1>1, <2>5, <2>8, HeaderFieldStartThrough
  <2>11. v.answer = c.answer /\ w.answer = u.answer /\ c.state # "s_headers_done"  BY <2>6 DEF Quiet
  <2> QED BY <2>9, <2>10, <2>11, ThroughFrom
<1> QED BY <1>3, <1>4

\* s_header_value_discard_lws
LEMMA DiscardLwsThrough ==
  ASSUME NEW c, NEW u, NEW ch, Twin(c, u), c.state = "s_header_value_discard_lws"
  PROVE  Through(c, u, DiscardLws(c, ch), DiscardLws(u, ch), ch)
<1>1. /\ c.state \in Bare /\ "s_header_field_start" \in Bare /\ "s_header_value_discard_ws" \in Bare
      /\ "header_value" \in Datum /\ "s_header_field_start" \in HoldStates
  BY DEF Bare, Datum, HoldStates
<1>2. /\ Unmarked(c) /\ Unmarked(u) /\ Level(c, u) /\ Unheld(c) /\ c.http_errno = "OK" /\ u.http_errno = "OK"
      /\ Same(c, u) /\ DOMAIN c = Fields /\ DOMAIN u = Fields
  BY <1>1, BareUnmarked
<1>3. CASE ch \in {SP, HT}
  <2>1. /\ DiscardLws(c, ch) = UPDATE_STATE(c, "s_header_value_discard_ws")
        /\ DiscardLws(u, ch) = UPDATE_STATE(u, "s_header_value_discard_ws")
    BY <1>3 DEF DiscardLws
  <2> QED BY <1>1, <2>1, BothGo, PairedThrough
<1>4. CASE ch \notin {SP, HT}
  <2>1. PICK f, g : f = Flagged(c) /\ g = Flagged(u)  OBVIOUS
  <2>2. Abreast(c, u, f, g) /\ f.http_errno = "OK"  BY <1>2, <2>1, FlaggedSame
  <2>3. /\ DOMAIN f = Fields /\ DOMAIN g = Fields /\ g.http_errno = "OK" /\ Same(f, g) /\ Quiet(c, f) /\ Quiet(u, g)
        /\ f.answer = c.answer /\ g.answer = u.answer
    BY <2>2 DEF Abreast, Quiet
  <2>4. Level(f, g) /\ Unmarked(f) /\ Unmarked(g) /\ Unheld(f)  BY <1>2, <2>3, QuietLevel DEF Quiet, Unmarked, Unheld
  <2>5. PICK p, q : p = MARK(f, "header_value") /\ q = MARK(g, "header_value")  OBVIOUS
  <2>6. /\ Level(p, q) /\ Same(f, p) /\ Same(g, q) /\ OnlyMarked(p, "header_value") /\ OnlyMarked(q, "header_value")
        /\ p.marks["header_value"] >= 0 /\ q.marks["header_value"] >= 0 /\ p.held = f.held
        /\ p.http_errno = f.http_errno /\ q.http_errno = g.http_errno
    BY <1>1, <2>4, <2>5, MarkLevel, UnmarkedOnly
  <2>7. p.answer = f.answer /\ q.answer = g.answer /\ DOMAIN p = Fields /\ DOMAIN q = Fields
    BY <2>3, <2>5 DEF MARK, Fields
  <2>8. PICK x, y : x = UPDATE_STATE(p, "s_header_field_start") /\ y = UPDATE_STATE(q, "s_header_field_start")
    OBVIOUS
  <2>9. /\ Quiet(p, x) /\ Quiet(q, y) /\ Same(x, y) /\ x.http_errno = "OK" /\ y.http_errno = "OK"
        /\ x.state = "s_header_field_start" /\ y.state = "s_header_field_start"
    BY <2>2, <2>3, <2>6, <2>7, <2>8 DEF UPDATE_STATE, Quiet, Same, Level, Fields
  <2>10. Level(x, y) /\ OnlyMarked(x, "header_value") /\ OnlyMarked(y, "header_value") /\ Unheld(x)
    BY <2>4, <2>6, <2>9, QuietLevel DEF Quiet, OnlyMarked, Unheld
  <2>11. PICK b : b = TRUE  OBVIOUS
  <2>12. PICK v, w : /\ v = CALLBACK_DATA_(x, "header_value", x.marks["header_value"], b)
                     /\ w = CALLBACK_DATA_(y, "header_value", y.marks["header_value"], b)
    OBVIOUS
  <2>13. /\ Met(v, w, b) /\ Same(x, v) /\ Same(y, w) /\ v.answer = x.answer /\ w.answer = y.answer
         /\ Ready(v) /\ Ready(w) /\ Unmarked(v) /\ Unmarked(w)
    BY <1>1, <2>9, <2>10, <2>12, DataMeets
  <2>14. PICK s, t : s = DiscardLws(c, ch) /\ t = DiscardLws(u, ch)  OBVIOUS
  <2>15. /\ s = (IF v.http_errno = "OK" THEN HeaderFieldStart(v, ch) ELSE v)
         /\ t = (IF w.http_errno = "OK" THEN HeaderFieldStart(w, ch) ELSE w)
    BY <1>4, <2>1, <2>5, <2>8, <2>11, <2>12, <2>14 DEF DiscardLws, Then, CALLBACK_DATA_NOADVANCE
  <2>16. v.state = "s_header_field_start" /\ w.state = "s_header_field_start"  BY <2>9, <2>13 DEF Same
  <2>17. HeaderFieldStart(w, ch) = Switch(w, ch)  BY <2>16, SwitchHold
  <2>18. v.http_errno = "OK" => Rests(HeaderFieldStart(v, ch))  BY <1>1, <2>13, <2>16, HeaderFieldStartRests DEF Met
  <2>19. v.http_errno = "OK" /\ w.http_errno = "OK" => Through(v, w, HeaderFieldStart(v, ch), HeaderFieldStart(w, ch), ch)
    <3> SUFFICES ASSUME v.http_errno = "OK", w.http_errno = "OK"
                 PROVE  Through(v, w, HeaderFieldStart(v, ch), HeaderFieldStart(w, ch), ch)
      OBVIOUS
    <3>1. NoDatum(v.state)  BY <1>1, <2>16, BareNoDatum
    <3>2. Twin(v, w)  BY <2>13, <3>1, MetTwin
    <3> QED BY <1>1, <2>16, <3>2, HeaderFieldStartThrough
  <2>20. v.state \in HoldStates /\ c.state # "s_headers_done" /\ v.answer = c.answer /\ w.answer = u.answer
    BY <1>1, <2>3, <2>7, <2>9, <2>13, <2>16 DEF Quiet
  <2>21. Through(c, u, s, t, ch)  BY <2>11, <2>13, <2>15, <2>17, <2>18, <2>19, <2>20, HoldThrough
  <2> QED BY <2>14, <2>21
<1> QED BY <1>3, <1>4

\* Two parsers outside the data that are level are paired.
LEMMA BarePaired ==
  ASSUME NEW s, NEW t, Level(s, t), Unmarked(s), Unmarked(t), Going(s), Unheld(s), t.http_errno = "OK", NoDatum(s.state)
  PROVE  Paired(s, t)
<1>1. t.state = s.state /\ \A d \in Datum : s.marks[d] \in Int /\ t.marks[d] \in Int  BY DEF Level, Same, Ready
<1>2. Alike(s, t) /\ Marked(s) /\ Marked(t)  BY <1>1 DEF Alike, Unmarked, Marked, NoDatum
<1> QED BY <1>2 DEF Paired

\* COUNT_HEADER_SIZE holds no byte.
LEMMA CountUnheld ==
  ASSUME NEW s, NEW n, DOMAIN s = Fields, Unheld(s)
  PROVE  Unheld(COUNT_HEADER_SIZE(s, n))
  BY DEF COUNT_HEADER_SIZE, SET_ERRNO, Unheld, Fields

\* The CR after a value.
LEMMA ValueCrPair ==
  ASSUME NEW c, NEW u, Twin(c, u), c.state = "s_header_value"
  PROVE  Paired(HeaderValue(c, CR), HeaderValue(u, CR))
<1>1. /\ "header_value" \in Datum \ {"body"} /\ "s_header_value" \in MarkPlaces["header_value"]
      /\ "s_header_almost_done" \in Bare /\ CR # LF
  BY DEF Datum, MarkPlaces, Bare, CR, LF
<1>2. /\ u.state = c.state /\ Same(c, u) /\ DOMAIN c = Fields /\ DOMAIN u = Fields /\ Level(c, u) /\ Unheld(c)
      /\ c.http_errno = "OK" /\ u.http_errno = "OK"
  BY DEF Twin, Level, Ready, Same
<1>3. OnlyMarked(c, "header_value") /\ OnlyMarked(u, "header_value")  BY <1>1, TwinMarked
<1>4. PICK f, g : f = UPDATE_STATE(c, "s_header_almost_done") /\ g = UPDATE_STATE(u, "s_header_almost_done")  OBVIOUS
<1>5. Quiet(c, f) /\ Quiet(u, g) /\ Same(f, g) /\ f.http_errno = "OK" /\ g.http_errno = "OK" /\ f.state = "s_header_almost_done"
  BY <1>2, <1>4 DEF UPDATE_STATE, Quiet, Same, Fields
<1>6. Level(f, g) /\ Unheld(f) /\ OnlyMarked(f, "header_value") /\ OnlyMarked(g, "header_value")
  BY <1>2, <1>3, <1>5, QuietLevel DEF Quiet, Unheld, OnlyMarked
<1>7. PICK b : b = FALSE  OBVIOUS
<1>8. PICK v, w : /\ v = CALLBACK_DATA_(f, "header_value", f.marks["header_value"], b)
                  /\ w = CALLBACK_DATA_(g, "header_value", g.marks["header_value"], b)
  OBVIOUS
<1>9. /\ Met(v, w, b) /\ Same(f, v) /\ Same(g, w) /\ v.answer = f.answer /\ w.answer = g.answer
      /\ Ready(v) /\ Ready(w) /\ Unmarked(v) /\ Unmarked(w)
  BY <1>1, <1>5, <1>6, <1>8, DataMeets
<1>10. PICK x, y : x = COUNT_HEADER_SIZE(v, v.run) /\ y = COUNT_HEADER_SIZE(w, w.run)  OBVIOUS
<1>11. PICK s, t : s = HeaderValue(c, CR) /\ t = HeaderValue(u, CR)  OBVIOUS
<1>12. s = (IF v.http_errno = "OK" THEN x ELSE v) /\ t = (IF w.http_errno = "OK" THEN y ELSE w)
  <2>1. CR \in IS_HEADER_CHAR  BY DEF CR, IS_HEADER_CHAR, Char
  <2>2. /\ Then(CALLBACK_DATA(f, "header_value"), LAMBDA t_1 : COUNT_HEADER_SIZE(t_1, t_1.run)) = (IF v.http_errno = "OK" THEN x ELSE v)
        /\ Then(CALLBACK_DATA(g, "header_value"), LAMBDA t_1 : COUNT_HEADER_SIZE(t_1, t_1.run)) = (IF w.http_errno = "OK" THEN y ELSE w)
    BY <1>7, <1>8, <1>10 DEF Then, CALLBACK_DATA
  <2> QED BY <1>1, <1>4, <1>11, <2>1, <2>2 DEF HeaderValue
<1>13. v.http_errno \in {"OK", "PAUSED"} => Unheld(v)  BY <1>7, <1>9 DEF Met, Unheld
<1>14. v.http_errno = "OK" => Unheld(x)  BY <1>9, <1>10, <1>13, CountUnheld DEF Ready
<1>15. Going(s) => Unheld(s)  BY <1>12, <1>13, <1>14 DEF Going
<1>16. NoDatum(v.state)  BY <1>1, <1>5, <1>9, BareNoDatum DEF Same
<1>17. CASE v.http_errno = "CB" \/ w.http_errno = "CB"  BY <1>11, <1>12, <1>15, <1>17 DEF Paired, Stops
<1>18. CASE v.http_errno = "PAUSED" /\ w.http_errno = "OK"
  <2>1. Level(v, w) /\ ~Skips(v)  BY <1>9, <1>18 DEF Met
  <2>2. y.http_errno \in {"OK", "HEADER_OVERFLOW"} /\ Level(v, y) /\ y.marks = w.marks
    BY <1>10, <1>18, <2>1, CountRight
  <2>3. s = v /\ t = y /\ Unmarked(y)  BY <1>9, <1>12, <1>18, <2>2 DEF Unmarked
  <2>4. CASE y.http_errno = "OK"  BY <1>9, <1>11, <1>13, <1>16, <1>18, <2>2, <2>3, <2>4, BarePaired DEF Going
  <2>5. CASE y.http_errno = "HEADER_OVERFLOW"  BY <1>11, <1>15, <2>3, <2>5 DEF Paired, Stops
  <2> QED BY <2>2, <2>4, <2>5
<1>19. CASE v.http_errno = "OK" /\ w.http_errno = "OK"
  <2>1. Level(v, w)  BY <1>9, <1>19 DEF Met
  <2>2. /\ x.http_errno \in {"OK", "HEADER_OVERFLOW"} /\ y.http_errno \in {"OK", "HEADER_OVERFLOW"}
        /\ Level(x, y) /\ Same(v, x) /\ Same(w, y) /\ x.marks = v.marks /\ y.marks = w.marks /\ x.held = v.held
        /\ x.answer = v.answer /\ y.answer = w.answer
    BY <1>10, <1>19, <2>1, CountLevel
  <2>3. s = x /\ t = y /\ Unmarked(x) /\ Unmarked(y) /\ NoDatum(x.state)
    BY <1>9, <1>12, <1>16, <1>19, <2>2 DEF Unmarked, Same
  <2>4. CASE x.http_errno = "OK" /\ y.http_errno = "OK"  BY <1>11, <1>15, <2>2, <2>3, <2>4, BarePaired DEF Going
  <2>5. CASE x.http_errno = "HEADER_OVERFLOW" \/ y.http_errno = "HEADER_OVERFLOW"
    BY <1>11, <1>15, <2>3, <2>5 DEF Paired, Stops
  <2> QED BY <2>2, <2>4, <2>5
<1> QED BY <1>9, <1>17, <1>18, <1>19 DEF Met

\* The LF after a value.
LEMMA ValueLfThrough ==
  ASSUME NEW c, NEW u, NEW ch, ch = LF, Twin(c, u), c.state = "s_header_value"
  PROVE  Through(c, u, HeaderValue(c, ch), HeaderValue(u, ch), ch)
<1>1. /\ "header_value" \in Datum \ {"body"} /\ "s_header_value" \in MarkPlaces["header_value"]
      /\ "s_header_almost_done" \in Bare /\ "s_header_almost_done" \in HoldStates /\ "s_header_value_lws" \in Bare
  BY DEF Datum, MarkPlaces, Bare, HoldStates
<1>2. /\ u.state = c.state /\ Same(c, u) /\ DOMAIN c = Fields /\ DOMAIN u = Fields /\ Level(c, u) /\ Unheld(c)
      /\ c.http_errno = "OK" /\ u.http_errno = "OK"
  BY DEF Twin, Level, Ready, Same
<1>3. OnlyMarked(c, "header_value") /\ OnlyMarked(u, "header_value")  BY <1>1, TwinMarked
<1>4. PICK f, g : f = UPDATE_STATE(c, "s_header_almost_done") /\ g = UPDATE_STATE(u, "s_header_almost_done")  OBVIOUS
<1>5. Quiet(c, f) /\ Quiet(u, g) /\ Same(f, g) /\ f.http_errno = "OK" /\ g.http_errno = "OK" /\ f.state = "s_header_almost_done"
  BY <1>2, <1>4 DEF UPDATE_STATE, Quiet, Same, Fields
<1>6. /\ Level(f, g) /\ Unheld(f) /\ OnlyMarked(f, "header_value") /\ OnlyMarked(g, "header_value")
      /\ f.answer = c.answer /\ g.answer = u.answer
  BY <1>2, <1>3, <1>5, QuietLevel DEF Quiet, Unheld, OnlyMarked
<1>7. PICK p, q : p = COUNT_HEADER_SIZE(f, c.run) /\ q = COUNT_HEADER_SIZE(g, u.run)  OBVIOUS
<1>8. /\ p.http_errno \in {"OK", "HEADER_OVERFLOW"} /\ q.http_errno \in {"OK", "HEADER_OVERFLOW"}
      /\ Level(p, q) /\ Same(f, p) /\ Same(g, q) /\ p.marks = f.marks /\ q.marks = g.marks /\ p.held = f.held
      /\ p.answer = f.answer /\ q.answer = g.answer
  BY <1>5, <1>6, <1>7, CountLevel
<1>9. /\ Unheld(p) /\ OnlyMarked(p, "header_value") /\ OnlyMarked(q, "header_value") /\ Ready(p) /\ Ready(q)
      /\ p.state = "s_header_almost_done" /\ q.state = "s_header_almost_done" /\ p.marks["header_value"] \in Int
  BY <1>1, <1>5, <1>6, <1>8 DEF Unheld, OnlyMarked, Level, Same, Ready
<1>10. PICK b : b = TRUE  OBVIOUS
<1>11. PICK v, w : /\ v = CALLBACK_DATA_(p, "header_value", p.marks["header_value"], b)
                   /\ w = CALLBACK_DATA_(q, "header_value", q.marks["header_value"], b)
  OBVIOUS
<1>12. PICK x, y : x = UPDATE_STATE(v, "s_header_value_lws") /\ y = UPDATE_STATE(w, "s_header_value_lws")  OBVIOUS
<1>13. PICK s, t : s = HeaderValue(c, ch) /\ t = HeaderValue(u, ch)  OBVIOUS
<1>14. /\ s = (IF p.http_errno # "OK" THEN p ELSE IF v.http_errno = "OK" THEN x ELSE v)
       /\ t = (IF q.http_errno # "OK" THEN q ELSE IF w.http_errno = "OK" THEN y ELSE w)
  <2>1. ch \in IS_HEADER_CHAR /\ ch # CR  BY DEF CR, LF, IS_HEADER_CHAR, Char
  <2>2. PICK f2, g2 : /\ f2 = Then(p, LAMBDA t_1 : CALLBACK_DATA_NOADVANCE(t_1, "header_value"))
                      /\ g2 = Then(q, LAMBDA t_1 : CALLBACK_DATA_NOADVANCE(t_1, "header_value"))
    OBVIOUS
  <2>3. f2 = (IF p.http_errno = "OK" THEN v ELSE p) /\ g2 = (IF q.http_errno = "OK" THEN w ELSE q)
    BY <1>10, <1>11, <2>2 DEF Then, CALLBACK_DATA_NOADVANCE
  <2>4. /\ s = Then(f2, LAMBDA t_1 : UPDATE_STATE(t_1, "s_header_value_lws"))
        /\ t = Then(g2, LAMBDA t_1 : UPDATE_STATE(t_1, "s_header_value_lws"))
    BY <1>4, <1>7, <1>13, <2>1, <2>2 DEF HeaderValue
  <2> QED BY <1>12, <2>3, <2>4 DEF Then
<1>15. CASE p.http_errno # "OK"
  <2>1. s.http_errno = "HEADER_OVERFLOW"  BY <1>8, <1>14, <1>15
  <2> QED BY <1>13, <2>1, PairedThrough DEF Paired, Stops, Going
<1>16. CASE p.http_errno = "OK"
  <2>1. /\ Ready(v) /\ Unmarked(v) /\ Same(p, v) /\ v.answer = p.answer
        /\ v.http_errno \in {"OK", "PAUSED", "CB"} /\ (v.http_errno = "OK" => v.held = p.held)
    BY <1>1, <1>9, <1>11, <1>16, DataCalled
  <2>2. v.state = "s_header_almost_done" /\ DOMAIN v = Fields /\ (v.http_errno = "OK" => Unheld(v))
    BY <1>9, <2>1 DEF Same, Ready, Unheld
  <2>3. v.http_errno = "OK" => Unheld(x) /\ Rests(x)  BY <1>12, <2>2, StillUnheld DEF Rests
  <2>4. s = (IF v.http_errno = "OK" THEN x ELSE v)  BY <1>14, <1>16
  <2>5. CASE q.http_errno # "OK"
    <3>1. t.http_errno \in Stops  BY <1>8, <1>14, <2>5 DEF Stops
    <3>2. Rests(s)  BY <1>1, <2>1, <2>2, <2>3, <2>4 DEF Rests, Going
    <3>3. Unheld(s) => Paired(s, t)  BY <3>1 DEF Paired
    <3> QED BY <1>13, <3>1, <3>2, <3>3 DEF Through, Passes
  <2>6. CASE q.http_errno = "OK"
    <3>1. t = (IF w.http_errno = "OK" THEN y ELSE w)  BY <1>14, <2>6
    <3>2. /\ Met(v, w, b) /\ Same(p, v) /\ Same(q, w) /\ v.answer = p.answer /\ w.answer = q.answer
          /\ Ready(v) /\ Ready(w) /\ Unmarked(v) /\ Unmarked(w)
      BY <1>1, <1>8, <1>9, <1>11, <1>16, <2>6, DataMeets
    <3>3. w.state = "s_header_almost_done"  BY <1>9, <3>2 DEF Same
    <3>4. y = Switch(w, ch)  BY <1>12, <3>3, SwitchHold DEF LineAlmostDone
    <3>5. v.http_errno = "OK" /\ w.http_errno = "OK" => Through(v, w, x, y, ch)
      <4> SUFFICES ASSUME v.http_errno = "OK", w.http_errno = "OK"
                   PROVE  Through(v, w, x, y, ch)
        OBVIOUS
      <4>1. NoDatum(v.state)  BY <1>1, <2>2, BareNoDatum
      <4>2. Twin(v, w)  BY <3>2, <4>1, MetTwin
      <4>3. Paired(x, y)  BY <1>1, <1>12, <2>2, <4>2, BothGo
      <4> QED BY <4>3, PairedThrough
    <3>6. v.state \in HoldStates /\ c.state # "s_headers_done" /\ v.answer = c.answer /\ w.answer = u.answer
      BY <1>1, <1>6, <1>8, <2>2, <3>2
    <3>7. Through(c, u, s, t, ch)  BY <1>10, <2>3, <2>4, <3>1, <3>2, <3>4, <3>5, <3>6, HoldThrough
    <3> QED BY <1>13, <3>7
  <2> QED BY <2>5, <2>6
<1> QED BY <1>15, <1>16

\* A byte of a value.
LEMMA ValueBytePair ==
  ASSUME NEW c, NEW u, NEW ch, Twin(c, u), c.state = "s_header_value", ch \notin {CR, LF}
  PROVE  Paired(HeaderValue(c, ch), HeaderValue(u, ch))
<1>1. "header_value" \in Datum \ {"body"} /\ "s_header_value" \in MarkPlaces["header_value"]  BY DEF Datum, MarkPlaces
<1>2. /\ u.state = c.state /\ Same(c, u) /\ DOMAIN c = Fields /\ DOMAIN u = Fields /\ Level(c, u) /\ Unheld(c)
      /\ c.http_errno = "OK" /\ u.http_errno = "OK" /\ (Skips(c) => Skips(u)) /\ u.header_state = c.header_state
      /\ c.skip \in BOOLEAN /\ u.skip \in BOOLEAN
  BY DEF Twin, Level, Ready, Same
<1>3. Skips(u) => u.header_state = "h_general"  BY <1>2 DEF Twin
<1>4. /\ OnlyMarked(c, "header_value") /\ OnlyMarked(u, "header_value")
      /\ c.marks["header_value"] >= 0 /\ u.marks["header_value"] >= 0
  BY <1>1, TwinMarked
<1>5. (c.skip <=> Skips(c)) /\ (u.skip <=> Skips(u))  BY <1>2 DEF Skips
<1>6. PICK p, q : p = ValueChar(c, ch) /\ q = ValueChar(u, ch)  OBVIOUS
<1>7. Abreast(c, u, p, q)  BY <1>2, <1>6, ValueCharSame
<1>8. PICK e : e = (c.header_state = "h_general")  OBVIOUS
<1>9. PICK x, y : x = [p EXCEPT !.run = @ + 1, !.skip = e] /\ y = [q EXCEPT !.run = @ + 1, !.skip = e]  OBVIOUS
<1>10. PICK s, t : s = HeaderValue(c, ch) /\ t = HeaderValue(u, ch)  OBVIOUS
<1>11. s = (IF ~Skips(c) /\ ch \notin IS_HEADER_CHAR THEN SET_ERRNO(c, "INVALID_HEADER_TOKEN") ELSE x)
  BY <1>5, <1>6, <1>8, <1>9, <1>10 DEF HeaderValue
<1>12. t = (IF ~Skips(u) /\ ch \notin IS_HEADER_CHAR THEN SET_ERRNO(u, "INVALID_HEADER_TOKEN") ELSE y)
  BY <1>2, <1>5, <1>6, <1>8, <1>9, <1>10 DEF HeaderValue
<1>13. /\ DOMAIN x = Fields /\ DOMAIN y = Fields /\ Same(x, y) /\ x.state = "s_header_value"
       /\ x.http_errno = y.http_errno /\ x.http_errno # "PAUSED"
       /\ x.marks = c.marks /\ x.answer = c.answer /\ x.sent = c.sent /\ x.body = c.body /\ x.run = c.run + 1
       /\ y.marks = u.marks /\ y.answer = u.answer /\ y.sent = u.sent /\ y.body = u.body /\ y.run = u.run + 1
       /\ x.held = c.held /\ y.held = u.held /\ x.skip = e /\ y.skip = e
  <2>1. DOMAIN p = Fields /\ DOMAIN q = Fields  BY <1>7 DEF Abreast, Quiet
  <2>2. /\ DOMAIN x = Fields /\ DOMAIN y = Fields /\ Same(p, x) /\ Same(q, y)
        /\ x.http_errno = p.http_errno /\ y.http_errno = q.http_errno
        /\ x.marks = p.marks /\ x.answer = p.answer /\ x.sent = p.sent /\ x.body = p.body /\ x.run = p.run + 1
        /\ y.marks = q.marks /\ y.answer = q.answer /\ y.sent = q.sent /\ y.body = q.body /\ y.run = q.run + 1
        /\ x.held = p.held /\ y.held = q.held /\ x.skip = e /\ y.skip = e
    BY <1>9, <2>1 DEF Same, Fields
  <2>3. Same(p, q) /\ p.http_errno = q.http_errno /\ p.http_errno # "PAUSED" /\ p.state = "s_header_value"
    BY <1>7 DEF Abreast
  <2>4. Same(x, y) /\ x.state = "s_header_value"  BY <2>2, <2>3 DEF Same
  <2>5. /\ p.marks = c.marks /\ p.answer = c.answer /\ p.sent = c.sent /\ p.body = c.body /\ p.run = c.run /\ p.held = c.held
        /\ q.marks = u.marks /\ q.answer = u.answer /\ q.sent = u.sent /\ q.body = u.body /\ q.run = u.run /\ q.held = u.held
    BY <1>7 DEF Abreast, Quiet
  <2> QED BY <2>2, <2>3, <2>4, <2>5
<1>14. CASE ~Skips(c) /\ ~Skips(u) /\ ch \notin IS_HEADER_CHAR  BY <1>10, <1>11, <1>12, <1>14, BothRefuse
<1>15. CASE ~Skips(c) /\ Skips(u) /\ ch \notin IS_HEADER_CHAR
  <2>1. s = SET_ERRNO(c, "INVALID_HEADER_TOKEN") /\ t = y  BY <1>11, <1>12, <1>15
  <2>2. s.http_errno = "INVALID_HEADER_TOKEN" /\ s.state = "s_header_value"  BY <1>2, <2>1, ErrnoEffect
  <2>3. t.state = "s_header_value" /\ Skips(t)  BY <1>2, <1>3, <1>8, <1>13, <1>15, <2>1 DEF Same, Skips
  <2> QED BY <1>10, <2>2, <2>3 DEF Paired, Missed, Going
<1>16. CASE (Skips(c) /\ Skips(u)) \/ ch \in IS_HEADER_CHAR
  <2>1. s = x /\ t = y  BY <1>11, <1>12, <1>16
  <2>2. CASE x.http_errno # "OK"  BY <1>10, <1>13, <2>1, <2>2 DEF Paired, Going, Same
  <2>3. CASE x.http_errno = "OK"
    <3>1. x.skip \in BOOLEAN /\ y.skip \in BOOLEAN /\ (Skips(x) => Skips(y))  BY <1>8, <1>13 DEF Skips
    <3>2. Level(x, y)  BY <1>2, <1>13, <3>1, RunLevel
    <3>3. /\ Unheld(x) /\ OnlyMarked(x, "header_value") /\ OnlyMarked(y, "header_value")
          /\ x.marks["header_value"] >= 0 /\ y.marks["header_value"] >= 0
      BY <1>2, <1>4, <1>13 DEF Unheld, OnlyMarked
    <3>4. Quiet(x, x) /\ Quiet(y, y)  BY <1>13 DEF Quiet
    <3>5. Paired(x, y)  BY <1>1, <1>13, <2>3, <3>2, <3>3, <3>4, MarkedPair DEF Same
    <3> QED BY <1>10, <2>1, <3>5
  <2> QED BY <2>2, <2>3
<1> QED BY <1>2, <1>14, <1>15, <1>16

\* s_header_value
LEMMA HeaderValueThrough ==
  ASSUME NEW c, NEW u, NEW ch, Twin(c, u), c.state = "s_header_value"
  PROVE  Through(c, u, HeaderValue(c, ch), HeaderValue(u, ch), ch)
<1>1. CASE ch = CR  BY <1>1, ValueCrPair, PairedThrough
<1>2. CASE ch = LF  BY <1>2, ValueLfThrough
<1>3. CASE ch \notin {CR, LF}  BY <1>3, ValueBytePair, PairedThrough
<1> QED BY <1>1, <1>2, <1>3

-----------------------------------------------------------------------------
\* The body.

\* An assert() of both changes neither.
LEMMA AssertTwin ==
  ASSUME NEW c, NEW u, NEW h, NEW k, Twin(c, u)
  PROVE  LET s == assert(c, h)
             t == assert(u, k)
         IN  /\ Twin(s, t) /\ Quiet(c, s) /\ Quiet(u, t) /\ Same(c, s) /\ Same(u, t)
             /\ s.http_errno = "OK" /\ t.http_errno = "OK"
<1>1. PICK s, t : s = assert(c, h) /\ t = assert(u, k)  OBVIOUS
<1>2. DOMAIN c = Fields /\ DOMAIN u = Fields /\ Level(c, u) /\ c.http_errno = "OK" /\ u.http_errno = "OK" /\ Same(c, u)
  BY DEF Twin, Level, Ready
<1>3. /\ Quiet(c, s) /\ Quiet(u, t) /\ Same(c, s) /\ Same(u, t) /\ s.http_errno = "OK" /\ t.http_errno = "OK"
  BY <1>1, <1>2 DEF assert, Quiet, Same, Fields
<1>4. Same(s, t)  BY <1>2, <1>3 DEF Same
<1>5. Level(s, t)  BY <1>2, <1>3, <1>4, QuietLevel
<1>6. Placed(s) /\ Placed(t) /\ Marked(s) /\ Marked(t) /\ Unheld(s)
  BY <1>3 DEF Twin, Placed, Marked, Quiet, Same, Unheld
<1>7. t.state = "s_header_value" /\ Skips(t) => t.header_state = "h_general"  BY <1>3 DEF Twin, Quiet, Same, Skips
<1> QED BY <1>1, <1>3, <1>5, <1>6, <1>7 DEF Twin

\* s_chunk_size_start
LEMMA ChunkSizeStartPair ==
  ASSUME NEW c, NEW u, NEW ch, Twin(c, u), c.state = "s_chunk_size_start"
  PROVE  Paired(ChunkSizeStart(c, ch), ChunkSizeStart(u, ch))
<1>1. c.state \in Bare /\ "s_chunk_size" \in Bare  BY DEF Bare
<1>2. PICK f, g : /\ f = assert(c, c.nread = 1 /\ "F_CHUNKED" \in c.flags)
                  /\ g = assert(u, u.nread = 1 /\ "F_CHUNKED" \in u.flags)
  OBVIOUS
<1>3. Twin(f, g) /\ f.state = c.state  BY <1>2, AssertTwin DEF Same
<1>4. PICK d : d = unhex(ch)  OBVIOUS
<1>5. CASE d = -1
  <2>1. ChunkSizeStart(c, ch) = SET_ERRNO(f, "INVALID_CHUNK_SIZE") /\ ChunkSizeStart(u, ch) = SET_ERRNO(g, "INVALID_CHUNK_SIZE")
    BY <1>2, <1>4, <1>5 DEF ChunkSizeStart
  <2> QED BY <1>3, <2>1, BothRefuse
<1>6. CASE d # -1
  <2>1. PICK s, t : s = UPDATE_STATE(FirstDigit(f, d), "s_chunk_size") /\ t = UPDATE_STATE(FirstDigit(g, d), "s_chunk_size")
    OBVIOUS
  <2>2. /\ f.state \notin MarkPlaces["body"] /\ Same(f, g) /\ DOMAIN f = Fields /\ DOMAIN g = Fields
        /\ f.http_errno = "OK" /\ g.http_errno = "OK"
    BY <1>1, <1>3, BareUnmarked
  <2>3. /\ Quiet(f, s) /\ Quiet(g, t) /\ s.http_errno = "OK" /\ t.http_errno = "OK" /\ Same(s, t) /\ s.state \in Bare
    BY <1>1, <2>1, <2>2 DEF UPDATE_STATE, FirstDigit, Quiet, Same, Fields
  <2>4. Along(f, g, s, t)  BY <2>3, BareNoDatum DEF Along, Same
  <2>5. ChunkSizeStart(c, ch) = s /\ ChunkSizeStart(u, ch) = t  BY <1>2, <1>4, <1>6, <2>1 DEF ChunkSizeStart
  <2> QED BY <1>3, <2>2, <2>4, <2>5, AlongPair
<1> QED BY <1>5, <1>6

\* The characters that may follow the digits of a size are no digits.
LEMMA SizeEnds ==
  {CR, ";", SP} \cap IS_HEX = {} /\ CR \notin {";", SP}
<1>1. CR \notin IS_NUM  BY DEF CR, IS_NUM, ToSet, Digits
<1>2. SP \notin IS_NUM  BY DEF SP, IS_NUM, ToSet, Digits
<1>3. IS_NUM \subseteq {"0", "1", "2", "3", "4", "5", "6", "7", "8", "9"}  BY DEF IS_NUM, ToSet, Digits
<1>4. ";" \notin IS_NUM  BY <1>3, Zenon
<1>5. CR \notin HexLetters /\ SP \notin HexLetters /\ ";" \notin HexLetters  BY DEF HexLetters, CR, SP
<1>6. CR # ";" /\ CR # SP  BY DEF CR, SP
<1> QED BY <1>1, <1>2, <1>4, <1>5, <1>6 DEF IS_HEX

\* s_chunk_size
LEMMA ChunkSizePair ==
  ASSUME NEW c, NEW u, NEW ch, Twin(c, u), c.state = "s_chunk_size"
  PROVE  Paired(ChunkSize(c, ch), ChunkSize(u, ch))
<1>1. c.state \in Bare /\ "s_chunk_size_almost_done" \in Bare /\ "s_chunk_parameters" \in Bare  BY DEF Bare
<1>2. PICK f, g : f = assert(c, "F_CHUNKED" \in c.flags) /\ g = assert(u, "F_CHUNKED" \in u.flags)  OBVIOUS
<1>3. Twin(f, g) /\ f.state = c.state  BY <1>2, AssertTwin DEF Same
<1>4. /\ f.state \notin MarkPlaces["body"] /\ Same(f, g) /\ DOMAIN f = Fields /\ DOMAIN g = Fields
      /\ f.http_errno = "OK" /\ g.http_errno = "OK"
  BY <1>1, <1>3, BareUnmarked
<1>5. PICK s, t : s = ChunkSize(c, ch) /\ t = ChunkSize(u, ch)  OBVIOUS
<1>6. CASE ch \in IS_HEX /\ ch \notin {CR, ";", SP}
  <2>1. PICK d, b : d = unhex(ch) /\ b = 16  OBVIOUS
  <2>2. s = NextDigit(f, b, d) /\ t = NextDigit(g, b, d)  BY <1>2, <1>5, <1>6, <2>1 DEF ChunkSize
  <2>3. /\ Quiet(f, s) /\ Quiet(g, t) /\ s.http_errno = t.http_errno /\ s.http_errno # "PAUSED" /\ Same(s, t) /\ s.state = f.state
    BY <1>4, <2>2 DEF NextDigit, SET_ERRNO, Quiet, Same, Fields
  <2>4. Along(f, g, s, t)  BY <1>1, <1>3, <2>3, BareNoDatum DEF Along, Same
  <2> QED BY <1>3, <1>4, <1>5, <2>4, AlongPair
<1>7. CASE ~(ch \in IS_HEX /\ ch \notin {CR, ";", SP})
  <2>1. \/ s = UPDATE_STATE(f, "s_chunk_size_almost_done") /\ t = UPDATE_STATE(g, "s_chunk_size_almost_done")
        \/ s = UPDATE_STATE(f, "s_chunk_parameters") /\ t = UPDATE_STATE(g, "s_chunk_parameters")
        \/ s = SET_ERRNO(f, "INVALID_CHUNK_SIZE") /\ t = SET_ERRNO(g, "INVALID_CHUNK_SIZE")
    BY <1>2, <1>5, <1>7, SizeEnds DEF ChunkSize
  <2>2. CASE s = UPDATE_STATE(f, "s_chunk_size_almost_done") /\ t = UPDATE_STATE(g, "s_chunk_size_almost_done")
    BY <1>1, <1>3, <1>5, <2>2, BothGo
  <2>3. CASE s = UPDATE_STATE(f, "s_chunk_parameters") /\ t = UPDATE_STATE(g, "s_chunk_parameters")
    BY <1>1, <1>3, <1>5, <2>3, BothGo
  <2>4. CASE s = SET_ERRNO(f, "INVALID_CHUNK_SIZE") /\ t = SET_ERRNO(g, "INVALID_CHUNK_SIZE")
    BY <1>3, <1>5, <2>4, BothRefuse
  <2> QED BY <2>1, <2>2, <2>3, <2>4
<1> QED BY <1>6, <1>7

\* s_chunk_parameters
LEMMA ChunkParametersPair ==
  ASSUME NEW c, NEW u, NEW ch, Twin(c, u), c.state = "s_chunk_parameters"
  PROVE  Paired(ChunkParameters(c, ch), ChunkParameters(u, ch))
<1>1. c.state \in Bare /\ "s_chunk_size_almost_done" \in Bare  BY DEF Bare
<1>4. PICK f, g : f = assert(c, "F_CHUNKED" \in c.flags) /\ g = assert(u, "F_CHUNKED" \in u.flags)  OBVIOUS
<1>5. Twin(f, g) /\ f.state = c.state  BY <1>4, AssertTwin DEF Same
<1>2. f.state \notin MarkPlaces["body"]  BY <1>1, <1>5, BareUnmarked
<1>3. Paired(UPDATE_STATE(f, "s_chunk_size_almost_done"), UPDATE_STATE(g, "s_chunk_size_almost_done")) /\ Paired(f, g)
  BY <1>1, <1>2, <1>5, BothGo, BothStay
<1> QED BY <1>3, <1>4 DEF ChunkParameters

\* A notification after a quiet step.
LEMMA QuietNotifyPair ==
  ASSUME NEW c, NEW u, NEW v, NEW w, NEW cb, Twin(c, u), c.state \in Bare, Quiet(c, v), Quiet(u, w), Same(v, w),
         v.http_errno = "OK", w.http_errno = "OK", v.state \in Bare \cup MarkPlaces["body"]
  PROVE  Paired(CALLBACK_NOTIFY(v, cb), CALLBACK_NOTIFY(w, cb))
<1>1. Unmarked(c) /\ Unmarked(u) /\ Level(c, u) /\ Unheld(c)  BY BareUnmarked
<1>2. NoDatum(v.state)  BY BareNoDatum
<1>3. Twin(v, w) /\ Unmarked(v) /\ Unmarked(w)  BY <1>1, <1>2, QuietTwin
<1> QED BY <1>3, NotifyPair

\* s_chunk_size_almost_done
LEMMA ChunkSizeAlmostDonePair ==
  ASSUME NEW c, NEW u, NEW ch, Twin(c, u), c.state = "s_chunk_size_almost_done"
  PROVE  Paired(ChunkSizeAlmostDone(c, ch), ChunkSizeAlmostDone(u, ch))
<1>1. c.state \in Bare /\ "s_header_field_start" \in Bare /\ "s_chunk_data" \in MarkPlaces["body"]
  BY DEF Bare, MarkPlaces
<1>2. PICK f, g : f = assert(c, "F_CHUNKED" \in c.flags) /\ g = assert(u, "F_CHUNKED" \in u.flags)  OBVIOUS
<1>3. Twin(f, g) /\ f.state = c.state  BY <1>2, AssertTwin DEF Same
<1>4. /\ Same(f, g) /\ DOMAIN f = Fields /\ DOMAIN g = Fields /\ f.http_errno = "OK" /\ g.http_errno = "OK"
  BY <1>1, <1>3, BareUnmarked
<1>5. PICK s, t : s = ChunkSizeAlmostDone(c, ch) /\ t = ChunkSizeAlmostDone(u, ch)  OBVIOUS
<1>6. CASE ch # LF
  <2>1. s = SET_ERRNO(f, "STRICT") /\ t = SET_ERRNO(g, "STRICT")
    BY <1>2, <1>4, <1>5, <1>6, ErrnoEffect DEF ChunkSizeAlmostDone, STRICT_CHECK, Then
  <2> QED BY <1>3, <1>5, <2>1, BothRefuse
<1>7. CASE ch = LF
  <2>1. PICK v : v = IF f.content_length = 0
                     THEN [f EXCEPT !.nread = 0, !.flags = @ \cup {"F_TRAILING"}, !.state = "s_header_field_start"]
                     ELSE [f EXCEPT !.nread = 0, !.due = @ + f.content_length, !.state = "s_chunk_data"]
    OBVIOUS
  <2>2. PICK w : w = IF g.content_length = 0
                     THEN [g EXCEPT !.nread = 0, !.flags = @ \cup {"F_TRAILING"}, !.state = "s_header_field_start"]
                     ELSE [g EXCEPT !.nread = 0, !.due = @ + g.content_length, !.state = "s_chunk_data"]
    OBVIOUS
  <2>3. s = CALLBACK_NOTIFY(v, "chunk_header")
    BY <1>2, <1>4, <1>5, <1>7, <2>1 DEF ChunkSizeAlmostDone, STRICT_CHECK, Then
  <2>4. t = CALLBACK_NOTIFY(w, "chunk_header")
    BY <1>2, <1>4, <1>5, <1>7, <2>2 DEF ChunkSizeAlmostDone, STRICT_CHECK, Then
  <2>5. g.content_length = f.content_length  BY <1>4 DEF Same
  <2>6. /\ Quiet(f, v) /\ Quiet(g, w) /\ Same(v, w) /\ v.http_errno = "OK" /\ w.http_errno = "OK"
        /\ v.state \in {"s_header_field_start", "s_chunk_data"}
    <3>1. CASE f.content_length = 0  BY <1>4, <2>1, <2>2, <2>5, <3>1 DEF Quiet, Same, Fields
    <3>2. CASE f.content_length # 0  BY <1>4, <2>1, <2>2, <2>5, <3>2 DEF Quiet, Same, Fields
    <3> QED BY <3>1, <3>2
  <2>7. v.state \in Bare \cup MarkPlaces["body"] /\ f.state \in Bare  BY <1>1, <1>3, <2>6
  <2> QED BY <1>3, <1>5, <2>3, <2>4, <2>6, <2>7, QuietNotifyPair
<1> QED BY <1>6, <1>7

\* s_chunk_data_done
LEMMA ChunkDataDonePair ==
  ASSUME NEW c, NEW u, NEW ch, Twin(c, u), c.state = "s_chunk_data_done"
  PROVE  Paired(ChunkDataDone(c, ch), ChunkDataDone(u, ch))
<1>1. c.state \in Bare /\ "s_chunk_size_start" \in Bare  BY DEF Bare
<1>2. PICK f, g : f = assert(c, "F_CHUNKED" \in c.flags) /\ g = assert(u, "F_CHUNKED" \in u.flags)  OBVIOUS
<1>3. Twin(f, g) /\ f.state = c.state  BY <1>2, AssertTwin DEF Same
<1>4. /\ Same(f, g) /\ DOMAIN f = Fields /\ DOMAIN g = Fields /\ f.http_errno = "OK" /\ g.http_errno = "OK"
  BY <1>1, <1>3, BareUnmarked
<1>5. PICK s, t : s = ChunkDataDone(c, ch) /\ t = ChunkDataDone(u, ch)  OBVIOUS
<1>6. CASE ch # LF
  <2>1. s = SET_ERRNO(f, "STRICT") /\ t = SET_ERRNO(g, "STRICT")
    BY <1>2, <1>4, <1>5, <1>6, ErrnoEffect DEF ChunkDataDone, STRICT_CHECK, Then
  <2> QED BY <1>3, <1>5, <2>1, BothRefuse
<1>7. CASE ch = LF
  <2>1. PICK v, w : v = [f EXCEPT !.nread = 0, !.state = "s_chunk_size_start"] /\ w = [g EXCEPT !.nread = 0, !.state = "s_chunk_size_start"]
    OBVIOUS
  <2>2. s = CALLBACK_NOTIFY(v, "chunk_complete") /\ t = CALLBACK_NOTIFY(w, "chunk_complete")
    BY <1>2, <1>4, <1>5, <1>7, <2>1 DEF ChunkDataDone, STRICT_CHECK, Then
  <2>3. /\ Quiet(f, v) /\ Quiet(g, w) /\ Same(v, w) /\ v.http_errno = "OK" /\ w.http_errno = "OK"
        /\ v.state \in Bare
    BY <1>1, <1>4, <2>1 DEF Quiet, Same, Fields
  <2> QED BY <1>1, <1>3, <1>5, <2>2, <2>3, QuietNotifyPair
<1> QED BY <1>6, <1>7

\* In a body only the body is marked, by either.
LEMMA TwinBody ==
  ASSUME NEW c, NEW u, Twin(c, u), c.state \in MarkPlaces["body"]
  PROVE  OnlyMarked(c, "body") /\ OnlyMarked(u, "body")
<1>1. u.state = c.state /\ \A e \in Datum : c.marks[e] \in Int /\ u.marks[e] \in Int  BY DEF Twin, Level, Same, Ready
<1>2. "body" \in Datum  BY DEF Datum
<1>3. \A e \in Datum : c.state \in MarkPlaces[e] => e = "body"  BY <1>2, PlacesApart
<1> QED BY <1>1, <1>3 DEF Twin, Placed, OnlyMarked

\* Both mark the body.
LEMMA BodyMarked ==
  ASSUME NEW c, NEW u, Twin(c, u), c.state \in MarkPlaces["body"]
  PROVE  LET s == MARK(c, "body")
             t == MARK(u, "body")
         IN  /\ Level(s, t) /\ OnlyMarked(s, "body") /\ OnlyMarked(t, "body") /\ Same(c, s) /\ Same(u, t)
             /\ s.marks["body"] >= 0 /\ t.marks["body"] >= 0 /\ Unheld(s)
             /\ s.http_errno = "OK" /\ t.http_errno = "OK"
<1>1. "body" \in Datum  BY DEF Datum
<1>2. OnlyMarked(c, "body") /\ OnlyMarked(u, "body") /\ Level(c, u) /\ Unheld(c) /\ c.http_errno = "OK" /\ u.http_errno = "OK"
  BY TwinBody DEF Twin
<1>3. PICK s, t : s = MARK(c, "body") /\ t = MARK(u, "body")  OBVIOUS
<1>4. /\ Level(s, t) /\ Same(c, s) /\ Same(u, t) /\ OnlyMarked(s, "body") /\ OnlyMarked(t, "body")
      /\ s.marks["body"] >= 0 /\ t.marks["body"] >= 0 /\ s.held = c.held
      /\ s.http_errno = c.http_errno /\ t.http_errno = u.http_errno
  BY <1>1, <1>2, <1>3, MarkLevel
<1> QED BY <1>2, <1>3, <1>4 DEF Unheld

\* s_body_identity_eof
LEMMA BodyEofPair ==
  ASSUME NEW c, NEW u, Twin(c, u), c.state = "s_body_identity_eof"
  PROVE  Paired(MARK(c, "body"), MARK(u, "body"))
<1>1. "body" \in Datum /\ c.state \in MarkPlaces["body"]  BY DEF Datum, MarkPlaces
<1>2. PICK s, t : s = MARK(c, "body") /\ t = MARK(u, "body")  OBVIOUS
<1>3. /\ Level(s, t) /\ OnlyMarked(s, "body") /\ OnlyMarked(t, "body") /\ Same(c, s) /\ Same(u, t)
      /\ s.marks["body"] >= 0 /\ t.marks["body"] >= 0 /\ Unheld(s)
      /\ s.http_errno = "OK" /\ t.http_errno = "OK"
  BY <1>1, <1>2, BodyMarked
<1>4. Quiet(s, s) /\ Quiet(t, t) /\ Same(s, t) /\ s.state = c.state /\ s.state = t.state
  BY <1>3 DEF Quiet, Level, Ready, Same
<1>5. Paired(s, t)  BY <1>1, <1>3, <1>4, MarkedPair
<1> QED BY <1>2, <1>5

\* s_chunk_data
LEMMA ChunkDataPair ==
  ASSUME NEW c, NEW u, Twin(c, u), c.state = "s_chunk_data"
  PROVE  Paired(ChunkData(c), ChunkData(u))
<1>1. "body" \in Datum /\ {"s_chunk_data", "s_chunk_data_almost_done"} \subseteq MarkPlaces["body"]
  BY DEF Datum, MarkPlaces
<1>2. PICK f, g : /\ f = assert(c, "F_CHUNKED" \in c.flags /\ c.content_length \notin {0, ULLONG_MAX})
                  /\ g = assert(u, "F_CHUNKED" \in u.flags /\ u.content_length \notin {0, ULLONG_MAX})
  OBVIOUS
<1>3. Twin(f, g) /\ f.state = c.state  BY <1>2, AssertTwin DEF Same
<1>4. PICK p, q : p = MARK(f, "body") /\ q = MARK(g, "body")  OBVIOUS
<1>5. /\ Level(p, q) /\ OnlyMarked(p, "body") /\ OnlyMarked(q, "body") /\ Same(f, p) /\ Same(g, q)
      /\ p.marks["body"] >= 0 /\ q.marks["body"] >= 0 /\ Unheld(p)
      /\ p.http_errno = "OK" /\ q.http_errno = "OK"
  BY <1>1, <1>3, <1>4, BodyMarked
<1>6. DOMAIN p = Fields /\ DOMAIN q = Fields /\ Same(p, q) /\ p.state = "s_chunk_data"
  BY <1>3, <1>5 DEF Level, Ready, Same
<1>7. PICK v, w : /\ v = [p EXCEPT !.content_length = @ - 1]
                  /\ w = [q EXCEPT !.content_length = @ - 1]
  OBVIOUS
<1>8. /\ Quiet(p, v) /\ Quiet(q, w) /\ Same(v, w) /\ v.http_errno = "OK" /\ w.http_errno = "OK" /\ v.state = "s_chunk_data"
  BY <1>5, <1>6, <1>7 DEF Quiet, Same, Fields
<1>9. PICK s, t : s = ChunkData(c) /\ t = ChunkData(u)  OBVIOUS
<1>10. w.content_length = v.content_length /\ DOMAIN v = Fields /\ DOMAIN w = Fields  BY <1>8 DEF Same, Quiet
<1>11. \/ s = v /\ t = w
       \/ s = UPDATE_STATE(v, "s_chunk_data_almost_done") /\ t = UPDATE_STATE(w, "s_chunk_data_almost_done")
  BY <1>2, <1>4, <1>7, <1>9, <1>10 DEF ChunkData
<1>12. CASE s = v /\ t = w
  <2>1. s.state = t.state /\ s.state \in MarkPlaces["body"]  BY <1>1, <1>8, <1>12 DEF Same
  <2> QED BY <1>1, <1>5, <1>8, <1>9, <1>12, <2>1, MarkedPair
<1>13. CASE s = UPDATE_STATE(v, "s_chunk_data_almost_done") /\ t = UPDATE_STATE(w, "s_chunk_data_almost_done")
  <2>1. /\ Quiet(v, s) /\ Quiet(w, t) /\ Same(s, t) /\ s.http_errno = "OK" /\ t.http_errno = "OK"
        /\ s.state = "s_chunk_data_almost_done" /\ s.state = t.state
    BY <1>8, <1>10, <1>13 DEF UPDATE_STATE, Quiet, Same, Fields
  <2>2. Quiet(p, s) /\ Quiet(q, t)  BY <1>8, <2>1 DEF Quiet
  <2> QED BY <1>1, <1>5, <1>9, <2>1, <2>2, MarkedPair
<1> QED BY <1>11, <1>12, <1>13

\* s_chunk_data_almost_done
LEMMA ChunkDataAlmostDonePair ==
  ASSUME NEW c, NEW u, NEW ch, Twin(c, u), c.state = "s_chunk_data_almost_done"
  PROVE  Paired(ChunkDataAlmostDone(c, ch), ChunkDataAlmostDone(u, ch))
<1>1. "body" \in Datum /\ "s_chunk_data_almost_done" \in MarkPlaces["body"] /\ "s_chunk_data_done" \in Bare
  BY DEF Datum, MarkPlaces, Bare
<1>2. PICK f, g : /\ f = assert(c, "F_CHUNKED" \in c.flags /\ c.content_length = 0)
                  /\ g = assert(u, "F_CHUNKED" \in u.flags /\ u.content_length = 0)
  OBVIOUS
<1>3. Twin(f, g) /\ f.state = c.state  BY <1>2, AssertTwin DEF Same
<1>4. /\ Same(f, g) /\ DOMAIN f = Fields /\ DOMAIN g = Fields /\ f.http_errno = "OK" /\ g.http_errno = "OK"
      /\ Level(f, g) /\ Unheld(f)
  BY <1>3 DEF Twin, Level, Ready
<1>5. PICK s, t : s = ChunkDataAlmostDone(c, ch) /\ t = ChunkDataAlmostDone(u, ch)  OBVIOUS
<1>6. CASE ch # CR
  <2>1. s = SET_ERRNO(f, "STRICT") /\ t = SET_ERRNO(g, "STRICT")
    BY <1>2, <1>4, <1>5, <1>6, ErrnoEffect DEF ChunkDataAlmostDone, STRICT_CHECK, Then
  <2> QED BY <1>3, <1>5, <2>1, BothRefuse
<1>7. CASE ch = CR
  <2>1. PICK v, w : v = UPDATE_STATE(f, "s_chunk_data_done") /\ w = UPDATE_STATE(g, "s_chunk_data_done")  OBVIOUS
  <2>2. s = CALLBACK_DATA(v, "body") /\ t = CALLBACK_DATA(w, "body")
    BY <1>2, <1>4, <1>5, <1>7, <2>1 DEF ChunkDataAlmostDone, STRICT_CHECK, Then
  <2>3. /\ Quiet(f, v) /\ Quiet(g, w) /\ Same(v, w) /\ v.http_errno = "OK" /\ w.http_errno = "OK"
        /\ v.state \in Bare
    BY <1>1, <1>4, <2>1 DEF UPDATE_STATE, Quiet, Same, Fields
  <2>4. OnlyMarked(f, "body") /\ OnlyMarked(g, "body")  BY <1>1, <1>3, TwinBody
  <2> QED BY <1>1, <1>4, <1>5, <2>2, <2>3, <2>4, DataPair
<1> QED BY <1>6, <1>7

\* The end of a body: the byte at p is part of it.
LEMMA BodyMeets ==
  ASSUME NEW c, NEW u, NEW b, Level(c, u), c.http_errno = "OK", u.http_errno = "OK", Unheld(c),
         OnlyMarked(c, "body"), OnlyMarked(u, "body"), c.marks["body"] >= 0, u.marks["body"] >= 0
  PROVE  LET s == CALLBACK_DATA_(c, "body", c.marks["body"] + 1, b)
             t == CALLBACK_DATA_(u, "body", u.marks["body"] + 1, b)
         IN  /\ Met(s, t, b) /\ Same(c, s) /\ Same(u, t) /\ s.answer = c.answer /\ t.answer = u.answer
             /\ Ready(s)
<1>1. "body" \in Datum  BY DEF Datum
<1>2. /\ Ready(c) /\ Ready(u) /\ c.marks["body"] \in Int /\ u.marks["body"] \in Int
      /\ c.body \in Int /\ u.body \in Int /\ c.sent.n \in Int /\ u.sent.n \in Int
  BY <1>1 DEF Level, Ready, Record
<1>3. PICK m, n : m = c.marks["body"] + 1 /\ n = u.marks["body"] + 1  OBVIOUS
<1>4. m \in Int /\ n \in Int /\ ~(c.marks["body"] < 0) /\ ~(u.marks["body"] < 0)  BY <1>2, <1>3
<1>5. PICK s, t : s = CALLBACK_DATA_(c, "body", m, b) /\ t = CALLBACK_DATA_(u, "body", n, b)  OBVIOUS
<1>6. /\ Ready(s) /\ Unmarked(s) /\ Same(c, s) /\ s.answer = c.answer
      /\ s.http_errno \in {"OK", "PAUSED", "CB"} /\ (Skips(s) => Skips(c))
      /\ s.http_errno = "OK" => s.held = c.held /\ s.run = c.run /\ s.skip = c.skip
      /\ s.http_errno = "PAUSED" => s.held = b /\ c.answer.r = "PAUSED" /\ ~Skips(s)
      /\ c.marks["body"] < 0 => s.sent = c.sent /\ s.body = c.body
      /\ c.marks["body"] >= 0 => s.sent = With(c.sent, "body", m) /\ s.body = c.body + (IF "body" = "body" THEN m ELSE 0)
  BY <1>1, <1>2, <1>4, <1>5, DataCalled
<1>7. /\ Ready(t) /\ Unmarked(t) /\ Same(u, t) /\ t.answer = u.answer
      /\ t.http_errno \in {"OK", "PAUSED", "CB"} /\ (Skips(t) => Skips(u))
      /\ t.http_errno = "OK" => t.held = u.held /\ t.run = u.run /\ t.skip = u.skip
      /\ t.http_errno = "PAUSED" => t.held = b /\ u.answer.r = "PAUSED" /\ ~Skips(t)
      /\ u.marks["body"] < 0 => t.sent = u.sent /\ t.body = u.body
      /\ u.marks["body"] >= 0 => t.sent = With(u.sent, "body", n) /\ t.body = u.body + (IF "body" = "body" THEN n ELSE 0)
  BY <1>1, <1>2, <1>4, <1>5, DataCalled
<1>8. PICK x, y : Reads(c, x, y) /\ Reads(u, x, y)  BY DEF Level, Read
<1>9. /\ With(c.sent, "body", c.marks["body"]) = x /\ c.body + c.marks["body"] = y
      /\ With(u.sent, "body", u.marks["body"]) = x /\ u.body + u.marks["body"] = y
  BY <1>1, <1>8 DEF Reads
<1>10. s.body = t.body  BY <1>2, <1>3, <1>6, <1>7, <1>9
<1>11. With(c.sent, "body", m) = [d |-> "body", n |-> x.n + 1] /\ With(u.sent, "body", n) = [d |-> "body", n |-> x.n + 1]
  BY <1>2, <1>3, <1>9 DEF With
<1>12. s.sent = t.sent  BY <1>6, <1>7, <1>11
<1>13. Read(s, t)  BY <1>6, <1>7, <1>10, <1>12 DEF Read, Reads, Unmarked, Ready
<1>14. Same(s, t)  BY <1>6, <1>7 DEF Level, Same
<1>15. Unpausing(u) /\ Unheld(u) /\ (Skips(c) => Skips(u))  BY DEF Level
<1>16. t.http_errno = "OK" => Level(s, t)  BY <1>6, <1>7, <1>13, <1>14, <1>15 DEF Level, Skips, Unheld, Unpausing
<1>17. t.http_errno # "PAUSED" /\ (s.http_errno = "OK" => Unheld(s))  BY <1>6, <1>7, <1>15 DEF Unpausing, Unheld
<1>18. Met(s, t, b)  BY <1>6, <1>7, <1>16, <1>17 DEF Met
<1> QED BY <1>3, <1>5, <1>6, <1>7, <1>18

\* s_body_identity
LEMMA BodyIdentityThrough ==
  ASSUME NEW c, NEW u, NEW ch, Twin(c, u), c.state = "s_body_identity"
  PROVE  Through(c, u, BodyIdentity(c), BodyIdentity(u), ch)
<1>1. "body" \in Datum /\ "s_body_identity" \in MarkPlaces["body"] /\ "s_message_done" \in Bare /\ "s_message_done" \in HoldStates
  BY DEF Datum, MarkPlaces, Bare, HoldStates
<1>2. PICK f, g : f = assert(c, c.content_length \notin {0, ULLONG_MAX}) /\ g = assert(u, u.content_length \notin {0, ULLONG_MAX})
  OBVIOUS
<1>3. Twin(f, g) /\ f.state = c.state /\ f.answer = c.answer /\ g.answer = u.answer
  BY <1>2, AssertTwin DEF Same, Quiet
<1>4. PICK p, q : p = MARK(f, "body") /\ q = MARK(g, "body")  OBVIOUS
<1>5. /\ Level(p, q) /\ OnlyMarked(p, "body") /\ OnlyMarked(q, "body") /\ Same(f, p) /\ Same(g, q)
      /\ p.marks["body"] >= 0 /\ q.marks["body"] >= 0 /\ Unheld(p)
      /\ p.http_errno = "OK" /\ q.http_errno = "OK"
  BY <1>1, <1>3, <1>4, BodyMarked
<1>6. DOMAIN p = Fields /\ DOMAIN q = Fields /\ Same(p, q) /\ p.state = "s_body_identity"
  BY <1>3, <1>5 DEF Level, Ready, Same
<1>7. p.answer = f.answer /\ q.answer = g.answer  BY <1>3, <1>4 DEF MARK, Twin, Level, Ready, Fields
<1>8. PICK v, w : /\ v = [p EXCEPT !.content_length = @ - 1]
                  /\ w = [q EXCEPT !.content_length = @ - 1]
  OBVIOUS
<1>9. /\ Quiet(p, v) /\ Quiet(q, w) /\ Same(v, w) /\ v.http_errno = "OK" /\ w.http_errno = "OK" /\ v.state = "s_body_identity"
  BY <1>5, <1>6, <1>8 DEF Quiet, Same, Fields
<1>10. w.content_length = v.content_length /\ DOMAIN v = Fields /\ DOMAIN w = Fields  BY <1>9 DEF Same, Quiet
<1>11. PICK s, t : s = BodyIdentity(c) /\ t = BodyIdentity(u)  OBVIOUS
<1>12. CASE v.content_length > 0
  <2>1. s = v /\ t = w  BY <1>2, <1>4, <1>8, <1>10, <1>11, <1>12 DEF BodyIdentity
  <2>2. s.state = t.state /\ s.state \in MarkPlaces["body"]  BY <1>1, <1>9, <2>1 DEF Same
  <2>3. Paired(s, t)  BY <1>1, <1>5, <1>9, <2>1, <2>2, MarkedPair
  <2> QED BY <1>11, <2>3, PairedThrough
<1>13. CASE ~(v.content_length > 0)
  <2>1. PICK h, k : h = UPDATE_STATE(v, "s_message_done") /\ k = UPDATE_STATE(w, "s_message_done")  OBVIOUS
  <2>2. /\ Quiet(v, h) /\ Quiet(w, k) /\ Same(h, k) /\ h.http_errno = "OK" /\ k.http_errno = "OK" /\ h.state = "s_message_done"
    BY <1>9, <1>10, <2>1 DEF UPDATE_STATE, Quiet, Same, Fields
  <2>3. Quiet(p, h) /\ Quiet(q, k)  BY <1>9, <2>2 DEF Quiet
  <2>4. Level(h, k)  BY <1>5, <2>2, <2>3, QuietLevel
  <2>5. /\ OnlyMarked(h, "body") /\ OnlyMarked(k, "body") /\ h.marks["body"] >= 0 /\ k.marks["body"] >= 0 /\ Unheld(h)
        /\ h.answer = c.answer /\ k.answer = u.answer /\ h.marks = v.marks /\ k.marks = w.marks
    BY <1>3, <1>5, <1>7, <2>2, <2>3 DEF Quiet, OnlyMarked, Unheld
  <2>6. PICK b : b = TRUE  OBVIOUS
  <2>7. PICK x, y : /\ x = CALLBACK_DATA_(h, "body", h.marks["body"] + 1, b)
                    /\ y = CALLBACK_DATA_(k, "body", k.marks["body"] + 1, b)
    OBVIOUS
  <2>8. Met(x, y, b) /\ Same(h, x) /\ Same(k, y) /\ x.answer = h.answer /\ y.answer = k.answer /\ Ready(x)
    BY <2>2, <2>4, <2>5, <2>7, BodyMeets
  <2>9. x.state = "s_message_done" /\ y.state = "s_message_done"  BY <2>2, <2>8 DEF Same
  <2>10. s = IF x.http_errno = "OK" THEN MessageDone(x) ELSE x
    <3>1. s = Then(CALLBACK_DATA_(UPDATE_STATE(v, "s_message_done"), "body", v.marks["body"] + 1, TRUE), MessageDone)
      BY <1>2, <1>4, <1>8, <1>10, <1>11, <1>13 DEF BodyIdentity
    <3>2. x = CALLBACK_DATA_(UPDATE_STATE(v, "s_message_done"), "body", v.marks["body"] + 1, TRUE)
      BY <2>1, <2>5, <2>6, <2>7
    <3> QED BY <3>1, <3>2 DEF Then
  <2>11. t = IF y.http_errno = "OK" THEN MessageDone(y) ELSE y
    <3>1. t = Then(CALLBACK_DATA_(UPDATE_STATE(w, "s_message_done"), "body", w.marks["body"] + 1, TRUE), MessageDone)
      BY <1>2, <1>4, <1>8, <1>10, <1>11, <1>13 DEF BodyIdentity
    <3>2. y = CALLBACK_DATA_(UPDATE_STATE(w, "s_message_done"), "body", w.marks["body"] + 1, TRUE)
      BY <2>1, <2>5, <2>6, <2>7
    <3> QED BY <3>1, <3>2 DEF Then
  <2>12. PICK sx, ty : sx = MessageDone(x) /\ ty = MessageDone(y)  OBVIOUS
  <2>13. ty = Switch(y, ch)  BY <2>9, <2>12, SwitchHold
  <2>14. x.http_errno = "OK" => Rests(sx)  BY <2>8, <2>12, DoneRests DEF Met, Ready
  <2>15. x.http_errno = "OK" /\ y.http_errno = "OK" => Through(x, y, sx, ty, ch)
    <3> SUFFICES ASSUME x.http_errno = "OK", y.http_errno = "OK" PROVE Through(x, y, sx, ty, ch)  OBVIOUS
    <3>1. NoDatum(x.state)  BY <1>1, <2>9, BareNoDatum
    <3>2. Twin(x, y)  BY <2>8, <3>1, MetTwin
    <3>3. Paired(sx, ty)  BY <2>9, <2>12, <3>2, MessageDonePair
    <3> QED BY <3>3, PairedThrough
  <2>16. /\ x.state \in HoldStates /\ c.state # "s_headers_done" /\ x.answer = c.answer /\ y.answer = u.answer
         /\ s = (IF x.http_errno = "OK" THEN sx ELSE x) /\ t = (IF y.http_errno = "OK" THEN ty ELSE y)
    BY <1>1, <2>5, <2>8, <2>9, <2>10, <2>11, <2>12
  <2>17. Met(x, y, b)  BY <2>8
  <2>18. Through(c, u, s, t, ch)  BY <2>6, <2>13, <2>14, <2>15, <2>16, <2>17, HoldThrough
  <2> QED BY <1>11, <2>18
<1> QED BY <1>12, <1>13

\* s_dead
LEMMA DeadPair ==
  ASSUME NEW c, NEW u, NEW ch, Twin(c, u), c.state = "s_dead"
  PROVE  Paired(IF ch \in {CR, LF} THEN c ELSE SET_ERRNO(c, "CLOSED_CONNECTION"),
                IF ch \in {CR, LF} THEN u ELSE SET_ERRNO(u, "CLOSED_CONNECTION"))
<1>1. c.state \in Bare  BY DEF Bare
<1>2. c.state \notin MarkPlaces["body"]  BY <1>1, BareUnmarked
<1>3. CASE ch \in {CR, LF}  BY <1>2, <1>3, BothStay
<1>4. CASE ch \notin {CR, LF}  BY <1>4, BothRefuse
<1> QED BY <1>3, <1>4

-----------------------------------------------------------------------------
\* The switch, taken by both.

\* Whatever the state, the switch leaves them paired, or stopped one behind the other.
LEMMA SwitchThrough ==
  ASSUME NEW c, NEW u, NEW ch, Twin(c, u),
         c.state \in StartStates \cup LineStates \cup HeaderStates \cup SizeStates \cup ChunkStates
                       \cup {"s_headers_done", "s_body_identity", "s_body_identity_eof", "s_message_done"}
  PROVE  Through(c, u, Switch(c, ch), Switch(u, ch), ch)
<1>0. DOMAIN Letters = {"s_res_H", "s_res_HT", "s_res_HTT", "s_res_HTTP", "s_req_http_H", "s_req_http_HT",
                        "s_req_http_HTT", "s_req_http_HTTP"}
  BY DEF Letters
<1> USE <1>0 DEF ResVersionStates, ReqVersionStates, UrlStates
<1>50. {"s_res_line_almost_done", "s_req_line_almost_done", "s_header_value_discard_ws_almost_done",
        "s_header_almost_done", "s_header_field_start", "s_header_value_discard_lws", "s_header_value_lws"} \subseteq Bare
  BY DEF Bare
<1>51. u.state = c.state  BY DEF Twin, Level, Same
<1>52. PICK s, t : s = Switch(c, ch) /\ t = Switch(u, ch)  OBVIOUS
<1>1. ASSUME c.state = "s_dead" PROVE Paired(s, t)
  <2>1. s = (IF ch \in {CR, LF} THEN c ELSE SET_ERRNO(c, "CLOSED_CONNECTION")) /\ t = (IF ch \in {CR, LF} THEN u ELSE SET_ERRNO(u, "CLOSED_CONNECTION"))
    BY <1>1, <1>51, <1>52 DEF Switch
  <2> QED BY <1>1, <2>1, DeadPair
<1>2. ASSUME c.state = "s_start_req_or_res" PROVE Paired(s, t)
  <2>1. s = StartReqOrRes(c, ch) /\ t = StartReqOrRes(u, ch)  BY <1>2, <1>51, <1>52 DEF Switch
  <2> QED BY <1>2, <2>1, StartReqOrResPair
<1>3. ASSUME c.state = "s_res_or_resp_H" PROVE Paired(s, t)
  <2>1. s = ResOrRespH(c, ch) /\ t = ResOrRespH(u, ch)  BY <1>3, <1>51, <1>52 DEF Switch
  <2> QED BY <1>3, <2>1, ResOrRespHPair
<1>4. ASSUME c.state = "s_start_res" PROVE Paired(s, t)
  <2>1. s = StartRes(c, ch) /\ t = StartRes(u, ch)  BY <1>4, <1>51, <1>52 DEF Switch
  <2> QED BY <1>4, <2>1, StartResPair
<1>5. ASSUME c.state \in DOMAIN Letters PROVE Paired(s, t)
  <2>1. s = Letter(c, ch) /\ t = Letter(u, ch)  BY <1>5, <1>51, <1>52 DEF Switch
  <2> QED BY <1>5, <2>1, LetterPair
<1>6. ASSUME c.state \in ResVersionStates PROVE Paired(s, t)
  <2>1. s = ResVersion(c, ch) /\ t = ResVersion(u, ch)  BY <1>6, <1>51, <1>52 DEF Switch
  <2> QED BY <1>6, <2>1, ResVersionPair
<1>7. ASSUME c.state \in ReqVersionStates PROVE Paired(s, t)
  <2>1. s = ReqVersion(c, ch) /\ t = ReqVersion(u, ch)  BY <1>7, <1>51, <1>52 DEF Switch
  <2> QED BY <1>7, <2>1, ReqVersionPair
<1>8. ASSUME c.state \in {"s_res_first_status_code", "s_res_status_code"} PROVE Paired(s, t)
  <2>1. s = StatusCode(c, ch) /\ t = StatusCode(u, ch)  BY <1>8, <1>51, <1>52 DEF Switch
  <2> QED BY <1>8, <2>1, StatusCodePair
<1>9. ASSUME c.state \in {"s_res_status_start", "s_res_status"} PROVE Paired(s, t)
  <2>1. s = StatusText(c, ch) /\ t = StatusText(u, ch)  BY <1>9, <1>51, <1>52 DEF Switch
  <2> QED BY <1>9, <2>1, StatusTextPair
<1>10. ASSUME c.state = "s_res_line_almost_done" PROVE Paired(s, t)
  <2>1. PICK x : x = "s_header_field_start"  OBVIOUS
  <2>2. /\ s = Then(STRICT_CHECK(c, ch, LF), LAMBDA t_1 : UPDATE_STATE(t_1, x))
        /\ t = Then(STRICT_CHECK(u, ch, LF), LAMBDA t_1 : UPDATE_STATE(t_1, x))
    BY <1>10, <1>51, <1>52, <2>1 DEF Switch
  <2>3. Paired(Then(STRICT_CHECK(c, ch, LF), LAMBDA t_1 : UPDATE_STATE(t_1, x)),
               Then(STRICT_CHECK(u, ch, LF), LAMBDA t_1 : UPDATE_STATE(t_1, x)))
    BY <1>10, <1>50, <2>1, LineEndPair DEF Then
  <2> QED BY <2>2, <2>3
<1>11. ASSUME c.state = "s_start_req" PROVE Paired(s, t)
  <2>1. s = StartReq(c, ch) /\ t = StartReq(u, ch)  BY <1>11, <1>51, <1>52 DEF Switch
  <2> QED BY <1>11, <2>1, StartReqPair
<1>12. ASSUME c.state = "s_req_method" PROVE Paired(s, t)
  <2>1. s = ReqMethod(c, ch) /\ t = ReqMethod(u, ch)  BY <1>12, <1>51, <1>52 DEF Switch
  <2> QED BY <1>12, <2>1, ReqMethodPair
<1>13. ASSUME c.state = "s_req_spaces_before_url" PROVE Paired(s, t)
  <2>1. s = SpacesBeforeUrl(c, ch) /\ t = SpacesBeforeUrl(u, ch)  BY <1>13, <1>51, <1>52 DEF Switch
  <2> QED BY <1>13, <2>1, SpacesBeforeUrlPair
<1>14. ASSUME c.state \in UrlStates PROVE Paired(s, t)
  <2>1. s = UrlStateByte(c, ch) /\ t = UrlStateByte(u, ch)  BY <1>14, <1>51, <1>52 DEF Switch
  <2> QED BY <1>14, <2>1, UrlStateBytePair
<1>15. ASSUME c.state = "s_req_http_start" PROVE Paired(s, t)
  <2>1. s = ReqHttpStart(c, ch) /\ t = ReqHttpStart(u, ch)  BY <1>15, <1>51, <1>52 DEF Switch
  <2> QED BY <1>15, <2>1, ReqHttpStartPair
<1>16. ASSUME c.state = "s_req_line_almost_done" PROVE Paired(s, t)
  <2>1. s = LineAlmostDone(c, ch, "s_header_field_start") /\ t = LineAlmostDone(u, ch, "s_header_field_start")
    BY <1>16, <1>51, <1>52 DEF Switch
  <2> QED BY <1>16, <1>50, <2>1, LineEndPair
<1>17. CASE c.state = "s_header_field_start"
  <2>1. s = HeaderFieldStart(c, ch) /\ t = HeaderFieldStart(u, ch)  BY <1>17, <1>51, <1>52 DEF Switch
  <2> QED BY <1>17, <1>50, <1>52, <2>1, HeaderFieldStartThrough
<1>18. ASSUME c.state = "s_header_field" PROVE Paired(s, t)
  <2>1. s = HeaderField(c, ch) /\ t = HeaderField(u, ch)  BY <1>18, <1>51, <1>52 DEF Switch
  <2> QED BY <1>18, <2>1, HeaderFieldPair
<1>19. ASSUME c.state = "s_header_value_discard_ws" PROVE Paired(s, t)
  <2>1. s = DiscardWs(c, ch) /\ t = DiscardWs(u, ch)  BY <1>19, <1>51, <1>52 DEF Switch
  <2> QED BY <1>19, <2>1, DiscardWsPair
<1>20. ASSUME c.state = "s_header_value_discard_ws_almost_done" PROVE Paired(s, t)
  <2>1. PICK x : x = "s_header_value_discard_lws"  OBVIOUS
  <2>2. /\ s = Then(STRICT_CHECK(c, ch, LF), LAMBDA t_1 : UPDATE_STATE(t_1, x))
        /\ t = Then(STRICT_CHECK(u, ch, LF), LAMBDA t_1 : UPDATE_STATE(t_1, x))
    BY <1>20, <1>51, <1>52, <2>1 DEF Switch
  <2>3. Paired(Then(STRICT_CHECK(c, ch, LF), LAMBDA t_1 : UPDATE_STATE(t_1, x)),
               Then(STRICT_CHECK(u, ch, LF), LAMBDA t_1 : UPDATE_STATE(t_1, x)))
    BY <1>20, <1>50, <2>1, LineEndPair DEF Then
  <2> QED BY <2>2, <2>3
<1>21. CASE c.state = "s_header_value_discard_lws"
  <2>1. s = DiscardLws(c, ch) /\ t = DiscardLws(u, ch)  BY <1>21, <1>51, <1>52 DEF Switch
  <2> QED BY <1>21, <1>52, <2>1, DiscardLwsThrough
<1>22. CASE c.state = "s_header_value"
  <2>1. s = HeaderValue(c, ch) /\ t = HeaderValue(u, ch)  BY <1>22, <1>51, <1>52 DEF Switch
  <2> QED BY <1>22, <1>52, <2>1, HeaderValueThrough
<1>23. ASSUME c.state = "s_header_almost_done" PROVE Paired(s, t)
  <2>1. s = LineAlmostDone(c, ch, "s_header_value_lws") /\ t = LineAlmostDone(u, ch, "s_header_value_lws")
    BY <1>23, <1>51, <1>52 DEF Switch
  <2> QED BY <1>23, <1>50, <2>1, LineEndPair
<1>24. CASE c.state = "s_header_value_lws"
  <2>1. s = HeaderValueLws(c, ch) /\ t = HeaderValueLws(u, ch)  BY <1>24, <1>51, <1>52 DEF Switch
  <2> QED BY <1>24, <1>52, <2>1, HeaderValueLwsThrough
<1>25. CASE c.state = "s_headers_almost_done"
  <2>1. s = HeadersAlmostDone(c, ch) /\ t = HeadersAlmostDone(u, ch)  BY <1>25, <1>51, <1>52 DEF Switch
  <2> QED BY <1>25, <1>52, <2>1, HeadersAlmostDoneThrough
<1>26. ASSUME c.state = "s_headers_done" PROVE Paired(s, t)
  <2>1. s = HeadersDone(c, ch) /\ t = HeadersDone(u, ch)  BY <1>26, <1>51, <1>52 DEF Switch
  <2> QED BY <1>26, <2>1, HeadersDonePair
<1>27. ASSUME c.state = "s_chunk_size_start" PROVE Paired(s, t)
  <2>1. s = ChunkSizeStart(c, ch) /\ t = ChunkSizeStart(u, ch)  BY <1>27, <1>51, <1>52 DEF Switch
  <2> QED BY <1>27, <2>1, ChunkSizeStartPair
<1>28. ASSUME c.state = "s_chunk_size" PROVE Paired(s, t)
  <2>1. s = ChunkSize(c, ch) /\ t = ChunkSize(u, ch)  BY <1>28, <1>51, <1>52 DEF Switch
  <2> QED BY <1>28, <2>1, ChunkSizePair
<1>29. ASSUME c.state = "s_chunk_parameters" PROVE Paired(s, t)
  <2>1. s = ChunkParameters(c, ch) /\ t = ChunkParameters(u, ch)  BY <1>29, <1>51, <1>52 DEF Switch
  <2> QED BY <1>29, <2>1, ChunkParametersPair
<1>30. ASSUME c.state = "s_chunk_size_almost_done" PROVE Paired(s, t)
  <2>1. s = ChunkSizeAlmostDone(c, ch) /\ t = ChunkSizeAlmostDone(u, ch)  BY <1>30, <1>51, <1>52 DEF Switch
  <2> QED BY <1>30, <2>1, ChunkSizeAlmostDonePair
<1>31. ASSUME c.state = "s_chunk_data" PROVE Paired(s, t)
  <2>1. s = ChunkData(c) /\ t = ChunkData(u)  BY <1>31, <1>51, <1>52 DEF Switch
  <2> QED BY <1>31, <2>1, ChunkDataPair
<1>32. ASSUME c.state = "s_chunk_data_almost_done" PROVE Paired(s, t)
  <2>1. s = ChunkDataAlmostDone(c, ch) /\ t = ChunkDataAlmostDone(u, ch)  BY <1>32, <1>51, <1>52 DEF Switch
  <2> QED BY <1>32, <2>1, ChunkDataAlmostDonePair
<1>33. ASSUME c.state = "s_chunk_data_done" PROVE Paired(s, t)
  <2>1. s = ChunkDataDone(c, ch) /\ t = ChunkDataDone(u, ch)  BY <1>33, <1>51, <1>52 DEF Switch
  <2> QED BY <1>33, <2>1, ChunkDataDonePair
<1>34. CASE c.state = "s_body_identity"
  <2>1. s = BodyIdentity(c) /\ t = BodyIdentity(u)  BY <1>34, <1>51, <1>52 DEF Switch
  <2> QED BY <1>34, <1>52, <2>1, BodyIdentityThrough
<1>35. ASSUME c.state = "s_body_identity_eof" PROVE Paired(s, t)
  <2>1. s = MARK(c, "body") /\ t = MARK(u, "body")  BY <1>35, <1>51, <1>52 DEF Switch
  <2> QED BY <1>35, <2>1, BodyEofPair
<1>36. ASSUME c.state = "s_message_done" PROVE Paired(s, t)
  <2>1. s = MessageDone(c) /\ t = MessageDone(u)  BY <1>36, <1>51, <1>52 DEF Switch
  <2> QED BY <1>36, <2>1, MessageDonePair
<1>37. Paired(s, t) => Through(c, u, Switch(c, ch), Switch(u, ch), ch)  BY <1>52, PairedThrough
<1> QED BY <1>1, <1>2, <1>3, <1>4, <1>5, <1>6, <1>7, <1>8, <1>9, <1>10, <1>11, <1>12, <1>13, <1>14, <1>15,
          <1>16, <1>17, <1>18, <1>19, <1>20, <1>21, <1>22, <1>23, <1>24, <1>25, <1>26, <1>27,
          <1>28, <1>29, <1>30, <1>31, <1>32, <1>33, <1>34, <1>35, <1>36, <1>37
    DEF StartStates, LineStates, HeaderStates, SizeStates, ChunkStates

-----------------------------------------------------------------------------
\* Between two bytes.

\* What the end of a round keeps.
LEMMA PassedFields ==
  ASSUME NEW s, DOMAIN s = Fields
  PROVE  LET r == Passed(s)
         IN  /\ DOMAIN r = Fields /\ Same(s, r) /\ r.http_errno = s.http_errno /\ r.run = s.run /\ r.skip = s.skip
             /\ r.held = s.held /\ r.sent = s.sent /\ r.body = s.body /\ r.answer = NoAnswer
             /\ r.marks = [d \in Datum |-> IF s.marks[d] < 0 THEN -1 ELSE s.marks[d] + 1]
<1>1. PICK m : m = [d \in Datum |-> IF s.marks[d] < 0 THEN -1 ELSE s.marks[d] + 1]  OBVIOUS
<1>2. Passed(s) = [s EXCEPT !.answer = NoAnswer, !.marks = m]  BY <1>1 DEF Passed, Fields
<1> QED BY <1>1, <1>2 DEF Same, Fields

\* It counts the byte in what was read.
LEMMA PassedReads ==
  ASSUME NEW s, NEW x, NEW y, Ready(s), Reads(s, x, y)
  PROVE  LET r == Passed(s)
         IN  /\ Ready(r) /\ (Unmarked(r) <=> Unmarked(s)) /\ (\A d \in Datum : r.marks[d] >= 0 <=> s.marks[d] >= 0)
             /\ Unmarked(s) => Reads(r, x, y)
             /\ ~Unmarked(s) => Reads(r, [d |-> x.d, n |-> x.n + 1], y + (IF x.d = "body" THEN 1 ELSE 0))
<1>1. PICK r : r = Passed(s)  OBVIOUS
<1>2. DOMAIN s = Fields /\ s.marks \in [Datum -> Int] /\ s.body \in Int /\ s.sent.n \in Int  BY DEF Ready, Record
<1>3. /\ DOMAIN r = Fields /\ r.run = s.run /\ r.skip = s.skip
      /\ r.sent = s.sent /\ r.body = s.body
      /\ r.marks = [d \in Datum |-> IF s.marks[d] < 0 THEN -1 ELSE s.marks[d] + 1]
  BY <1>1, <1>2, PassedFields
<1>4. /\ r.marks \in [Datum -> Int]
      /\ \A d \in Datum : r.marks[d] >= 0 <=> s.marks[d] >= 0
      /\ \A d \in Datum : s.marks[d] >= 0 => r.marks[d] = s.marks[d] + 1
      /\ \A d \in Datum : r.marks[d] < 0 <=> s.marks[d] < 0
  BY <1>2, <1>3
<1>5. Ready(r) /\ (Unmarked(r) <=> Unmarked(s))  BY <1>3, <1>4 DEF Ready, Skips, Unmarked
<1>6. Unmarked(s) => Reads(r, x, y)  BY <1>2, <1>3, <1>4, <1>5 DEF Reads, Unmarked
<1>7. ASSUME ~Unmarked(s) PROVE Reads(r, [d |-> x.d, n |-> x.n + 1], y + (IF x.d = "body" THEN 1 ELSE 0))
  <2>1. \A d \in Datum : r.marks[d] >= 0 =>
           /\ With(r.sent, d, r.marks[d]) = [d |-> x.d, n |-> x.n + 1]
           /\ r.body + (IF d = "body" THEN r.marks[d] ELSE 0) = y + (IF x.d = "body" THEN 1 ELSE 0)
    <3> SUFFICES ASSUME NEW d \in Datum, r.marks[d] >= 0
                 PROVE  /\ With(r.sent, d, r.marks[d]) = [d |-> x.d, n |-> x.n + 1]
                        /\ r.body + (IF d = "body" THEN r.marks[d] ELSE 0) = y + (IF x.d = "body" THEN 1 ELSE 0)
      OBVIOUS
    <3>1. s.marks[d] >= 0 /\ r.marks[d] = s.marks[d] + 1 /\ s.marks[d] \in Int  BY <1>2, <1>4
    <3>2. With(s.sent, d, s.marks[d]) = x /\ s.body + (IF d = "body" THEN s.marks[d] ELSE 0) = y  BY <3>1 DEF Reads
    <3>3. x.d = d /\ x.n = IF s.sent.d = d THEN s.sent.n + s.marks[d] ELSE s.marks[d]  BY <3>2 DEF With
    <3>4. With(r.sent, d, r.marks[d]) = [d |-> x.d, n |-> x.n + 1]  BY <1>2, <1>3, <3>1, <3>3 DEF With
    <3>5. r.body + (IF d = "body" THEN r.marks[d] ELSE 0) = y + (IF x.d = "body" THEN 1 ELSE 0)
      BY <1>2, <1>3, <3>1, <3>2, <3>3
    <3> QED BY <3>4, <3>5
  <2> QED BY <1>5, <1>7, <2>1 DEF Reads
<1> QED BY <1>1, <1>4, <1>5, <1>6, <1>7

\* Two parsers with the same marks stay level.
LEMMA PassedLevel ==
  ASSUME NEW s, NEW t, Level(s, t), Alike(s, t)
  PROVE  Level(Passed(s), Passed(t))
<1>1. PICK x, y : Reads(s, x, y) /\ Reads(t, x, y)  BY DEF Level, Read
<1>2. PICK p, q : p = Passed(s) /\ q = Passed(t)  OBVIOUS
<1>3. Ready(s) /\ Ready(t) /\ DOMAIN s = Fields /\ DOMAIN t = Fields /\ s.marks \in [Datum -> Int] /\ t.marks \in [Datum -> Int]
  BY DEF Level, Ready
<1>4. /\ Ready(p) /\ Ready(q)
      /\ Unmarked(s) => Reads(p, x, y)
      /\ ~Unmarked(s) => Reads(p, [d |-> x.d, n |-> x.n + 1], y + (IF x.d = "body" THEN 1 ELSE 0))
      /\ Unmarked(t) => Reads(q, x, y)
      /\ ~Unmarked(t) => Reads(q, [d |-> x.d, n |-> x.n + 1], y + (IF x.d = "body" THEN 1 ELSE 0))
  BY <1>1, <1>2, <1>3, PassedReads
<1>5. Unmarked(s) <=> Unmarked(t)  BY <1>3 DEF Alike, Unmarked
<1>6. Read(p, q)  BY <1>4, <1>5 DEF Read
<1>7. /\ Same(s, p) /\ p.skip = s.skip /\ Same(t, q) /\ q.skip = t.skip /\ q.held = t.held /\ q.answer = NoAnswer
  BY <1>2, <1>3, PassedFields
<1>8. Same(p, q) /\ Unheld(q) /\ Unpausing(q) /\ (Skips(p) => Skips(q))
  <2>1. Same(p, q)  BY <1>7 DEF Level, Same
  <2>2. Unheld(q) /\ (Skips(p) => Skips(q))  BY <1>7 DEF Level, Unheld, Skips
  <2>3. Unpausing(q)  BY <1>7 DEF Unpausing, NoAnswer
  <2> QED BY <2>1, <2>2, <2>3
<1> QED BY <1>2, <1>4, <1>6, <1>8 DEF Level

\* Both have taken the byte.
LEMMA PassedPair ==
  ASSUME NEW s, NEW t, Paired(s, t), DOMAIN s = Fields, DOMAIN t = Fields
  PROVE  Ended(Passed(s), Passed(t)) \/ Agree(Passed(s), Passed(t))
<1>1. PICK p, q : p = Passed(s) /\ q = Passed(t)  OBVIOUS
<1>2. /\ p.http_errno = s.http_errno /\ q.http_errno = t.http_errno /\ p.state = s.state /\ q.state = t.state
      /\ q.skip = t.skip /\ p.held = s.held
  BY <1>1, PassedFields DEF Same
<1>3. CASE s.http_errno \in Stops \/ t.http_errno \in Stops \/ Missed(s, t) \/ (s.http_errno = t.http_errno /\ ~Going(s) /\ s.state = t.state)
  BY <1>1, <1>2, <1>3 DEF Ended, Missed, Skips, Going
<1>4. CASE Going(s) /\ t.http_errno = "OK" /\ Level(s, t) /\ Alike(s, t) /\ Marked(s) /\ Marked(t)
  <2>1. Level(p, q) /\ Unheld(p) /\ Going(p)  BY <1>1, <1>2, <1>4, PassedLevel DEF Paired, Unheld, Going
  <2>2. PICK x, y : Reads(s, x, y) /\ Reads(t, x, y)  BY <1>4 DEF Level, Read
  <2>3. Ready(s) /\ Ready(t)  BY <1>4 DEF Level
  <2>4. \A d \in Datum : (p.marks[d] >= 0 <=> s.marks[d] >= 0) /\ (q.marks[d] >= 0 <=> t.marks[d] >= 0)
    BY <1>1, <2>2, <2>3, PassedReads
  <2>5. Marked(q) /\ Begun(p)  BY <1>2, <1>4, <2>4 DEF Marked, Begun
  <2> QED BY <1>1, <1>2, <1>4, <2>1, <2>5 DEF Agree
<1> QED BY <1>3, <1>4 DEF Paired

\* The round.
LEMMA ParseByteForm ==
  ASSUME NEW s, NEW ch, NEW a, NEW c, s.http_errno = "OK", c = Counted(Begins(s, a))
  PROVE  ParseByte(s, ch, a) = Passed(IF c.http_errno = "OK" THEN Switch(c, ch) ELSE c)
<1>1. PICK b : b = Begins(s, a)  OBVIOUS
<1>2. c = IF PARSING_HEADER(b.state) /\ b.run = 0 THEN COUNT_HEADER_SIZE(b, 1) ELSE b  BY <1>1 DEF Counted
<1>3. b = [s EXCEPT !.answer = a, !.held = FALSE, !.out = IF s.held THEN @ ELSE <<>>]  BY <1>1 DEF Begins
<1>4. PICK t : t = Then(c, LAMBDA r : Switch(r, ch))  OBVIOUS
<1>5. t = IF c.http_errno = "OK" THEN Switch(c, ch) ELSE c  BY <1>4 DEF Then
<1>6. ParseByte(s, ch, a) = Passed(t)  BY <1>2, <1>3, <1>4 DEF ParseByte, Passed
<1> QED BY <1>5, <1>6

\* What it begins with.
LEMMA BeginsFields ==
  ASSUME NEW s, NEW a, DOMAIN s = Fields, NEW w, w = [s EXCEPT !.out = <<>>]
  PROVE  LET t == Begins(s, a)
         IN  /\ DOMAIN t = Fields /\ t.marks = s.marks /\ t.run = s.run /\ t.skip = s.skip /\ t.sent = s.sent
             /\ t.body = s.body /\ t.answer = a /\ t.http_errno = s.http_errno /\ Unheld(t)
             /\ Unheld(s) => Same(w, t)
             /\ ~Unheld(s) => Same(s, t)
             /\ t.state = s.state /\ t.header_state = s.header_state
<1>1. PICK x : x = IF s.held THEN s.out ELSE <<>>  OBVIOUS
<1>2. Begins(s, a) = [s EXCEPT !.answer = a, !.held = FALSE, !.out = x]  BY <1>1 DEF Begins, Fields
<1>3. (Unheld(s) => x = <<>>) /\ (~Unheld(s) => x = s.out)  BY <1>1 DEF Unheld
<1>4. PICK t : t = Begins(s, a)  OBVIOUS
<1>5. /\ DOMAIN t = Fields /\ t.marks = s.marks /\ t.run = s.run /\ t.skip = s.skip /\ t.sent = s.sent
      /\ t.body = s.body /\ t.answer = a /\ t.http_errno = s.http_errno /\ t.held = FALSE /\ t.out = x
      /\ t.state = s.state /\ t.header_state = s.header_state
  BY <1>2, <1>4 DEF Fields
<1>6. Unheld(t)  BY <1>5 DEF Unheld
<1>7. ~Unheld(s) => Same(s, t)  BY <1>2, <1>3, <1>4 DEF Same, Fields
<1>8. Unheld(s) => Same(w, t)  BY <1>2, <1>3, <1>4 DEF Same, Fields
<1> QED BY <1>4, <1>5, <1>6, <1>7, <1>8

\* Two parsers that are level begin the round level.
LEMMA BeginsLevel ==
  ASSUME NEW c, NEW u, NEW a, NEW b, Level(c, u), Unheld(c), b.r # "PAUSED"
  PROVE  Level(Begins(c, a), Begins(u, b))
<1>1. PICK s, t : s = Begins(c, a) /\ t = Begins(u, b)  OBVIOUS
<1>2. DOMAIN c = Fields /\ DOMAIN u = Fields /\ Unheld(u) /\ Ready(c) /\ Ready(u)  BY DEF Level, Ready
<1>10. PICK v, w : v = [c EXCEPT !.out = <<>>] /\ w = [u EXCEPT !.out = <<>>]  OBVIOUS
<1>3. /\ DOMAIN s = Fields /\ s.marks = c.marks /\ s.run = c.run /\ s.skip = c.skip /\ s.sent = c.sent
      /\ s.body = c.body /\ Same(v, s)
  BY <1>1, <1>2, <1>10, BeginsFields
<1>4. /\ DOMAIN t = Fields /\ t.marks = u.marks /\ t.run = u.run /\ t.skip = u.skip /\ t.sent = u.sent
      /\ t.body = u.body /\ t.answer = b /\ Unheld(t) /\ Same(w, t)
  BY <1>1, <1>2, <1>10, BeginsFields
<1>5. Same(s, t)  BY <1>2, <1>3, <1>4, <1>10 DEF Level, Same, Fields
<1>6. PICK x, y : Reads(c, x, y) /\ Reads(u, x, y)  BY DEF Level, Read
<1>7. Reads(s, x, y) /\ Reads(t, x, y)  BY <1>3, <1>4, <1>6 DEF Reads, Unmarked
<1>8. Ready(s) /\ Ready(t) /\ (Skips(s) => Skips(t))  BY <1>2, <1>3, <1>4 DEF Ready, Level, Skips
<1>9. Unpausing(t)  BY <1>4 DEF Unpausing
<1> QED BY <1>1, <1>4, <1>5, <1>7, <1>8, <1>9 DEF Level, Read

\* One of them, or both, count the byte.
LEMMA CountedLevel ==
  ASSUME NEW c, NEW u, Level(c, u), c.http_errno = "OK", u.http_errno = "OK"
  PROVE  LET s == Counted(c)
             t == Counted(u)
         IN  /\ s.http_errno \in {"OK", "HEADER_OVERFLOW"} /\ t.http_errno \in {"OK", "HEADER_OVERFLOW"}
             /\ Level(s, t) /\ s.marks = c.marks /\ t.marks = u.marks /\ s.held = c.held
             /\ s.answer = c.answer /\ t.answer = u.answer /\ s.state = c.state /\ t.state = u.state
<1>1. PICK s, t : s = Counted(c) /\ t = Counted(u)  OBVIOUS
<1>2. u.state = c.state /\ c.run \in Nat /\ u.run \in Nat /\ (Skips(c) => u.run > 0)  BY DEF Level, Same, Ready
<1>3. PICK one : one = 1  OBVIOUS
<1>4. PICK v, w : v = COUNT_HEADER_SIZE(c, one) /\ w = COUNT_HEADER_SIZE(u, one)  OBVIOUS
<1>5. CASE PARSING_HEADER(c.state) /\ c.run = 0 /\ u.run = 0
  <2>1. s = v /\ t = w  BY <1>1, <1>2, <1>3, <1>4, <1>5 DEF Counted
  <2>2. /\ v.http_errno \in {"OK", "HEADER_OVERFLOW"} /\ w.http_errno \in {"OK", "HEADER_OVERFLOW"}
        /\ Level(v, w) /\ Same(c, v) /\ Same(u, w) /\ v.marks = c.marks /\ w.marks = u.marks /\ v.held = c.held
        /\ v.answer = c.answer /\ w.answer = u.answer
    BY <1>4, CountLevel
  <2> QED BY <1>1, <2>1, <2>2 DEF Same
<1>6. CASE PARSING_HEADER(c.state) /\ c.run = 0 /\ u.run # 0
  <2>1. s = v /\ t = u  BY <1>1, <1>2, <1>3, <1>4, <1>6 DEF Counted
  <2>2. /\ v.http_errno \in {"OK", "HEADER_OVERFLOW"} /\ Level(v, u) /\ Same(c, v)
        /\ v.marks = c.marks /\ v.answer = c.answer /\ v.held = c.held
    BY <1>4, CountLeft
  <2> QED BY <1>1, <2>1, <2>2 DEF Same
<1>7. CASE PARSING_HEADER(c.state) /\ c.run # 0 /\ u.run = 0
  <2>1. s = c /\ t = w  BY <1>1, <1>2, <1>3, <1>4, <1>7 DEF Counted
  <2>2. ~Skips(c)  BY <1>2, <1>7
  <2>3. /\ w.http_errno \in {"OK", "HEADER_OVERFLOW"} /\ Level(c, w) /\ Same(u, w)
        /\ w.marks = u.marks /\ w.answer = u.answer /\ w.held = u.held
    BY <1>4, <2>2, CountRight
  <2> QED BY <1>1, <2>1, <2>3 DEF Same
<1>8. CASE ~PARSING_HEADER(c.state) \/ (c.run # 0 /\ u.run # 0)
  <2>1. s = c /\ t = u  BY <1>1, <1>2, <1>8 DEF Counted
  <2> QED BY <1>1, <2>1
<1> QED BY <1>5, <1>6, <1>7, <1>8

\* Counting keeps the rest.
LEMMA CountedFields ==
  ASSUME NEW s, DOMAIN s = Fields
  PROVE  LET t == Counted(s)
         IN  /\ DOMAIN t = Fields /\ Same(s, t) /\ (Skips(t) => Skips(s)) /\ (Unheld(s) => Unheld(t)) /\ t.answer = s.answer
             /\ t.marks = s.marks /\ t.state = s.state /\ t.http_errno \in {s.http_errno, "HEADER_OVERFLOW"}
<1>1. PICK n : n = 1  OBVIOUS
<1>2. PICK t : t = COUNT_HEADER_SIZE(s, n)  OBVIOUS
<1>3. /\ DOMAIN t = Fields /\ Same(s, t) /\ t.skip = FALSE /\ t.held = s.held /\ t.answer = s.answer /\ t.marks = s.marks
      /\ t.state = s.state /\ t.http_errno \in {s.http_errno, "HEADER_OVERFLOW"}
  BY <1>2 DEF COUNT_HEADER_SIZE, SET_ERRNO, Same, Fields
<1>4. ~Skips(t)  BY <1>3 DEF Skips
<1>5. CASE PARSING_HEADER(s.state) /\ s.run = 0
  <2>1. Counted(s) = t  BY <1>1, <1>2, <1>5 DEF Counted
  <2> QED BY <1>3, <1>4, <2>1 DEF Unheld
<1>6. CASE ~(PARSING_HEADER(s.state) /\ s.run = 0)
  <2>1. Counted(s) = s  BY <1>6 DEF Counted
  <2> QED BY <2>1 DEF Same
<1> QED BY <1>5, <1>6

\* A parser that is level with another is its own twin.
LEMMA TwinAlone ==
  ASSUME NEW c, NEW u, Level(c, u), c.http_errno = "OK", Unheld(c), Placed(c), Marked(c), Careless(c)
  PROVE  Twin(c, [c EXCEPT !.answer = NoAnswer])
<1>1. PICK t : t = [c EXCEPT !.answer = NoAnswer]  OBVIOUS
<1>2. DOMAIN c = Fields /\ Ready(c)  BY DEF Level, Ready
<1>3. /\ DOMAIN t = Fields /\ Same(c, t) /\ t.marks = c.marks /\ t.held = c.held /\ t.answer = NoAnswer
      /\ t.sent = c.sent /\ t.body = c.body /\ t.run = c.run /\ t.skip = c.skip /\ t.http_errno = "OK"
      /\ t.state = c.state /\ t.header_state = c.header_state
  BY <1>1, <1>2 DEF Same, Fields
<1>4. Skips(c) <=> Skips(t)  BY <1>3 DEF Skips
<1>5. Ready(t) /\ Unheld(t)  BY <1>2, <1>3, <1>4 DEF Ready, Unheld
<1>6. Unpausing(t)  BY <1>3 DEF Unpausing, NoAnswer
<1>7. PICK x, y : Reads(c, x, y)  BY DEF Level, Read
<1>8. Reads(t, x, y)  BY <1>3, <1>7 DEF Reads, Unmarked
<1>9. Level(c, t)  BY <1>2, <1>3, <1>4, <1>5, <1>6, <1>7, <1>8 DEF Level, Read
<1>10. Placed(t) /\ Marked(t)  BY <1>3 DEF Placed, Marked
<1> QED BY <1>1, <1>3, <1>4, <1>9, <1>10 DEF Twin, Careless

\* From level parsers.
LEMMA AgreeMeets ==
  ASSUME NEW s, NEW w, NEW ch, NEW a, NEW c, Agree(s, w), s.http_errno = "OK", Placed(s), Placed(w),
         Careless(s), Careless(w), s.state \in KnownStates, c = Counted(Begins(s, a)), c.http_errno = "OK"
  PROVE  /\ Meeting(c, w, ch) /\ Rests(Switch(c, ch)) /\ c.answer = a /\ Unheld(c)
         /\ DOMAIN c = Fields /\ c.state = s.state
<1>1. Level(s, w) /\ Unheld(s) /\ Marked(w) /\ w.http_errno = "OK" /\ DOMAIN s = Fields /\ DOMAIN w = Fields /\ Begun(s)
  BY DEF Agree, Level, Ready
<1>2. PICK f : f = Begins(s, a)  OBVIOUS
<1>13. PICK z, zz : z = [s EXCEPT !.out = <<>>] /\ zz = [w EXCEPT !.out = <<>>]  OBVIOUS
<1>3. /\ DOMAIN f = Fields /\ f.marks = s.marks /\ f.answer = a /\ f.http_errno = "OK" /\ Unheld(f)
      /\ f.state = s.state /\ f.header_state = s.header_state /\ f.skip = s.skip
  BY <1>1, <1>2, <1>13, BeginsFields
<1>4. /\ DOMAIN c = Fields /\ Same(f, c) /\ (Skips(c) => Skips(f)) /\ (Unheld(f) => Unheld(c)) /\ c.answer = f.answer
      /\ c.marks = f.marks /\ c.state = f.state /\ c.http_errno \in {f.http_errno, "HEADER_OVERFLOW"}
  BY <1>2, <1>3, CountedFields
<1>5. Placed(c) /\ Marked(c) /\ Unheld(c) /\ c.state = s.state /\ c.answer = a
  BY <1>1, <1>3, <1>4 DEF Placed, Marked, Begun
<1>6. Careless(c)  BY <1>3, <1>4 DEF Careless, Skips, Same
<1>7. \A b : b.r # "PAUSED" =>
        \E u : u = Counted(Begins(w, b)) /\ Level(c, u) /\ u.answer = b /\ u.http_errno \in {"OK", "HEADER_OVERFLOW"}
               /\ Placed(u) /\ Marked(u) /\ Careless(u) /\ DOMAIN u = Fields
  <2> SUFFICES ASSUME NEW b, b.r # "PAUSED"
               PROVE  \E u : u = Counted(Begins(w, b)) /\ Level(c, u) /\ u.answer = b /\ u.http_errno \in {"OK", "HEADER_OVERFLOW"}
                             /\ Placed(u) /\ Marked(u) /\ Careless(u) /\ DOMAIN u = Fields
    OBVIOUS
  <2>1. PICK g : g = Begins(w, b)  OBVIOUS
  <2>2. PICK u : u = Counted(g)  OBVIOUS
  <2>3. /\ DOMAIN g = Fields /\ g.marks = w.marks /\ g.answer = b /\ g.http_errno = "OK" /\ Unheld(g)
        /\ g.state = w.state /\ g.header_state = w.header_state /\ g.skip = w.skip
    BY <1>1, <1>13, <2>1, BeginsFields
  <2>4. Level(f, g)  BY <1>1, <1>2, <2>1, BeginsLevel
  <2>5. Level(c, u) /\ u.http_errno \in {"OK", "HEADER_OVERFLOW"}  BY <1>2, <1>3, <2>2, <2>3, <2>4, CountedLevel
  <2>6. /\ DOMAIN u = Fields /\ Same(g, u) /\ (Skips(u) => Skips(g)) /\ (Unheld(g) => Unheld(u)) /\ u.answer = g.answer
        /\ u.marks = g.marks /\ u.state = g.state /\ u.http_errno \in {g.http_errno, "HEADER_OVERFLOW"}
    BY <2>2, <2>3, CountedFields
  <2>7. Placed(u) /\ Marked(u)  BY <1>1, <2>3, <2>6 DEF Placed, Marked
  <2>8. Careless(u)  BY <2>3, <2>6 DEF Careless, Skips, Same
  <2> QED BY <2>1, <2>2, <2>3, <2>5, <2>6, <2>7, <2>8
<1>8. Meeting(c, w, ch)
  <2> SUFFICES ASSUME NEW b, b.r # "PAUSED"
               PROVE  \/ ParseByte(w, ch, b).http_errno \in Stops
                      \/ \E m : ParseByte(w, ch, b) = Passed(Switch(m, ch)) /\ m.answer = b /\ Twin(c, m)
    BY DEF Meeting
  <2>1. PICK u : /\ u = Counted(Begins(w, b)) /\ Level(c, u) /\ u.answer = b /\ u.http_errno \in {"OK", "HEADER_OVERFLOW"}
                 /\ Placed(u) /\ Marked(u) /\ Careless(u) /\ DOMAIN u = Fields
    BY <1>7
  <2>2. ParseByte(w, ch, b) = Passed(IF u.http_errno = "OK" THEN Switch(u, ch) ELSE u)  BY <1>1, <2>1, ParseByteForm
  <2>3. CASE u.http_errno = "HEADER_OVERFLOW"
    <3>1. ParseByte(w, ch, b) = Passed(u)  BY <2>2, <2>3
    <3>2. Passed(u).http_errno = u.http_errno  BY <2>1, PassedFields
    <3> QED BY <2>3, <3>1, <3>2 DEF Stops
  <2>4. CASE u.http_errno = "OK"
    <3>1. ParseByte(w, ch, b) = Passed(Switch(u, ch))  BY <2>2, <2>4
    <3>2. Twin(c, u)  BY <1>5, <2>1, <2>4 DEF Twin, Careless
    <3> QED BY <2>1, <3>1, <3>2
  <2> QED BY <2>1, <2>3, <2>4
<1>9. PICK u : Level(c, u)
  <2>1. NoAnswer.r # "PAUSED"  BY DEF NoAnswer
  <2> QED BY <1>7, <2>1
<1>10. PICK t : t = [c EXCEPT !.answer = NoAnswer]  OBVIOUS
<1>11. Twin(c, t)  BY <1>5, <1>6, <1>9, <1>10, TwinAlone
<1>12. Rests(Switch(c, ch))  BY <1>5, <1>11, SwitchThrough DEF Through, KnownStates
<1> QED BY <1>4, <1>5, <1>8, <1>12

\* A callback that is answered.
LEMMA AnsweredAlone ==
  ASSUME NEW s, NEW cb, NEW b, DOMAIN s = Fields, Unheld(s), s.http_errno = "OK"
  PROVE  LET t == Answered(s, cb, b)
         IN  /\ DOMAIN t = Fields /\ t.state = s.state /\ t.http_errno \in {"OK", "PAUSED", "CB"}
             /\ t.http_errno = "OK" => Unheld(t)
<1>1. PICK t : t = Answered(s, cb, b)  OBVIOUS
<1>2. CASE s.answer.at = cb /\ s.answer.r \in {"CB", "PAUSED"}
  <2>1. DOMAIN t = Fields /\ t.state = s.state /\ t.http_errno \in {"PAUSED", "CB"}
    BY <1>1, <1>2 DEF Answered, Fields
  <2> QED BY <1>1, <2>1
<1>3. CASE ~(s.answer.at = cb /\ s.answer.r \in {"CB", "PAUSED"})  BY <1>1, <1>3 DEF Answered
<1> QED BY <1>2, <1>3

\* The end of the head leaves the byte only where it waits for the next call.
LEMMA AlmostDoneRests ==
  ASSUME NEW s, NEW ch, DOMAIN s = Fields, Unheld(s), s.http_errno = "OK"
  PROVE  Rests(HeadersAlmostDone(s, ch))
<1>1. PICK t : t = HeadersAlmostDone(s, ch)  OBVIOUS
<1>2. PICK b : b = TRUE  OBVIOUS
<1>3. \A v, x : /\ v.http_errno \in {"OK", "PAUSED", "CB"} /\ v.state \in HoldStates
                /\ v.http_errno = "OK" => Rests(x)
                /\ t = IF v.http_errno = "OK" THEN x ELSE v
                => Rests(t)
  BY DEF Rests, Going
<1>4. CASE ch # LF \/ ("F_TRAILING" \notin s.flags /\ {"F_CHUNKED", "F_CONTENTLENGTH"} \subseteq s.flags)
  <2>1. t = SET_ERRNO(s, "STRICT") \/ t = SET_ERRNO(s, "UNEXPECTED_CONTENT_LENGTH")
    BY <1>1, <1>4 DEF HeadersAlmostDone
  <2>2. Unheld(t)  BY <2>1, StillUnheld
  <2> QED BY <1>1, <2>2 DEF Rests
<1>5. CASE ch = LF /\ "F_TRAILING" \in s.flags
  <2>1. PICK f : f = UPDATE_STATE(s, "s_message_done")  OBVIOUS
  <2>2. PICK n : n = Noted(f, "chunk_complete")  OBVIOUS
  <2>3. DOMAIN n = Fields /\ Unheld(n) /\ n.http_errno = "OK" /\ n.state = "s_message_done"
    BY <2>1, <2>2 DEF UPDATE_STATE, Noted, Unheld, Fields
  <2>4. PICK v : v = Answered(n, "chunk_complete", b)  OBVIOUS
  <2>5. v = CALLBACK_NOTIFY_(f, "chunk_complete", b)  BY <2>2, <2>4 DEF CALLBACK_NOTIFY_
  <2>6. /\ DOMAIN v = Fields /\ v.state = n.state /\ v.http_errno \in {"OK", "PAUSED", "CB"}
        /\ v.http_errno = "OK" => Unheld(v)
    BY <2>3, <2>4, AnsweredAlone
  <2>7. t = IF v.http_errno = "OK" THEN MessageDone(v) ELSE v
    BY <1>1, <1>2, <1>5, <2>1, <2>5 DEF HeadersAlmostDone, Then, CALLBACK_NOTIFY_NOADVANCE
  <2>8. v.http_errno = "OK" => Rests(MessageDone(v))  BY <2>6, DoneRests
  <2>9. v.state \in HoldStates  BY <2>3, <2>6 DEF HoldStates
  <2>10. Rests(t)  BY <1>3, <2>6, <2>7, <2>8, <2>9
  <2> QED BY <1>1, <2>10
<1>6. CASE ch = LF /\ "F_TRAILING" \notin s.flags /\ ~({"F_CHUNKED", "F_CONTENTLENGTH"} \subseteq s.flags)
  <2>1. PICK e : e = ({"F_UPGRADE", "F_CONNECTION_UPGRADE"} \subseteq s.flags \/ s.method = "CONNECT")  OBVIOUS
  <2>2. PICK f : f = [s EXCEPT !.state = "s_headers_done", !.upgrade = e]  OBVIOUS
  <2>3. PICK n : n = Noted(f, "headers_complete")  OBVIOUS
  <2>4. DOMAIN n = Fields /\ Unheld(n) /\ n.http_errno = "OK" /\ n.state = "s_headers_done" /\ DOMAIN f = Fields
    BY <2>2, <2>3 DEF Noted, Unheld, Fields
  <2>5. PICK w : w = Answered(n, "headers_complete", b)  OBVIOUS
  <2>6. /\ DOMAIN w = Fields /\ w.state = n.state /\ w.http_errno \in {"OK", "PAUSED", "CB"}
        /\ w.http_errno = "OK" => Unheld(w)
    BY <2>4, <2>5, AnsweredAlone
  <2>7. PICK k : k = (f.answer.r = "2")  OBVIOUS
  <2>8. PICK v : v = HeadersComplete(f)  OBVIOUS
  <2>9. v = w \/ v = [w EXCEPT !.flags = @ \cup {"F_SKIPBODY"}, !.upgrade = @ \/ k]
    BY <1>2, <2>3, <2>5, <2>7, <2>8 DEF HeadersComplete
  <2>10. /\ DOMAIN v = Fields /\ v.state = n.state /\ v.http_errno \in {"OK", "PAUSED", "CB"}
         /\ v.http_errno = "OK" => Unheld(v)
    BY <2>6, <2>9 DEF Fields, Unheld
  <2>11. t = IF v.http_errno = "OK" THEN HeadersDone(v, ch) ELSE v
    BY <1>1, <1>6, <2>1, <2>2, <2>8 DEF HeadersAlmostDone, Then
  <2>12. v.http_errno = "OK" => Rests(HeadersDone(v, ch))  BY <2>10, DoneRests
  <2>13. v.state \in HoldStates  BY <2>4, <2>10 DEF HoldStates
  <2>14. Rests(t)  BY <1>3, <2>10, <2>11, <2>12, <2>13
  <2> QED BY <1>1, <2>14
<1> QED BY <1>4, <1>5, <1>6

\* And so does the rest of a byte that was left.
LEMMA HoldRests ==
  ASSUME NEW s, NEW ch, DOMAIN s = Fields, Unheld(s), s.http_errno = "OK", s.state \in HoldStates
  PROVE  Rests(Switch(s, ch))
<1>1. CASE s.state = "s_message_done"  BY <1>1, SwitchHold, DoneRests
<1>2. CASE s.state = "s_headers_done"  BY <1>2, SwitchHold, DoneRests
<1>3. CASE s.state = "s_header_almost_done"
  <2>1. Switch(s, ch) = LineAlmostDone(s, ch, "s_header_value_lws")  BY <1>3, SwitchHold
  <2>2. Switch(s, ch) = UPDATE_STATE(s, "s_header_value_lws") \/ Switch(s, ch) = SET_ERRNO(s, "LF_EXPECTED")
    BY <2>1 DEF LineAlmostDone
  <2>3. Unheld(Switch(s, ch))  BY <2>2, StillUnheld
  <2> QED BY <2>3 DEF Rests
<1>4. CASE s.state = "s_header_field_start"
  <2>1. Switch(s, ch) = HeaderFieldStart(s, ch)  BY <1>4, SwitchHold
  <2>2. CASE ch = CR
    <3>1. Switch(s, ch) = UPDATE_STATE(s, "s_headers_almost_done")  BY <2>1, <2>2 DEF HeaderFieldStart, CR, LF
    <3>2. Unheld(Switch(s, ch))  BY <3>1, StillUnheld
    <3> QED BY <3>2 DEF Rests
  <2>3. CASE ch = LF
    <3>1. PICK f : f = UPDATE_STATE(s, "s_headers_almost_done")  OBVIOUS
    <3>2. Switch(s, ch) = HeadersAlmostDone(f, ch)  BY <2>1, <2>3, <3>1 DEF HeaderFieldStart, CR, LF
    <3>3. DOMAIN f = Fields /\ Unheld(f) /\ f.http_errno = "OK"  BY <3>1 DEF UPDATE_STATE, Unheld, Fields
    <3> QED BY <3>2, <3>3, AlmostDoneRests
  <2>4. CASE ch \notin {CR, LF}
    <3>1. PICK c : c = TOKEN(ch)  OBVIOUS
    <3>2. PICK h : h = IF c \in DOMAIN FirstLetter THEN FirstLetter[c] ELSE "h_general"  OBVIOUS
    <3>3. PICK m : m = MARK(s, "header_field")  OBVIOUS
    <3>4. \/ Switch(s, ch) = SET_ERRNO(s, "INVALID_HEADER_TOKEN")
          \/ Switch(s, ch) = [m EXCEPT !.index = 0, !.state = "s_header_field", !.header_state = h]
      BY <2>1, <2>4, <3>1, <3>2, <3>3 DEF HeaderFieldStart
    <3>5. Unheld(m) /\ DOMAIN m = Fields  BY <3>3 DEF MARK, Unheld, Fields
    <3>6. Unheld([m EXCEPT !.index = 0, !.state = "s_header_field", !.header_state = h])  BY <3>5 DEF Unheld, Fields
    <3>7. Unheld(Switch(s, ch))  BY <3>4, <3>6, StillUnheld
    <3> QED BY <3>7 DEF Rests
  <2> QED BY <2>2, <2>3, <2>4
<1> QED BY <1>1, <1>2, <1>3, <1>4 DEF HoldStates

\* A parser that waits may be touched where the byte does not look.
LEMMA WaitsKept ==
  ASSUME NEW s, NEW m, NEW r, Waits(s, m), DOMAIN r = Fields, Same(s, r), r.sent = s.sent, r.body = s.body,
         r.run = s.run, r.skip = s.skip, r.marks \in [Datum -> Int], Unmarked(r)
  PROVE  Waits(r, m)
<1>1. Ready(s) /\ Level(s, m) /\ Unmarked(s)  BY DEF Waits, Level
<1>2. (Skips(r) <=> Skips(s))  BY DEF Skips
<1>3. Ready(r)  BY <1>1, <1>2 DEF Ready
<1>4. PICK x, y : Reads(s, x, y) /\ Reads(m, x, y)  BY <1>1 DEF Level, Read
<1>5. Reads(r, x, y)  BY <1>1, <1>3, <1>4 DEF Reads, Unmarked, Ready
<1>6. Same(r, m)  BY <1>1 DEF Level, Same
<1> QED BY <1>1, <1>2, <1>3, <1>4, <1>5, <1>6 DEF Waits, Level, Read

\* From a parser that waits within the byte.
LEMMA WaitMeets ==
  ASSUME NEW s, NEW w, NEW ch, NEW a, NEW c, s.http_errno = "OK", ~Unheld(s), s.state \in HoldStates, Unmarked(s),
         DOMAIN s = Fields, s.marks \in [Datum -> Int], Awaits(s, w, ch),
         c = Counted(Begins(s, a)), c.http_errno = "OK"
  PROVE  /\ Meeting(c, w, ch) /\ Rests(Switch(c, ch)) /\ c.answer = a /\ Unheld(c)
         /\ DOMAIN c = Fields /\ c.state = s.state
<1>1. PICK f : f = Begins(s, a)  OBVIOUS
<1>2. PICK z : z = [s EXCEPT !.out = <<>>]  OBVIOUS
<1>3. /\ DOMAIN f = Fields /\ f.marks = s.marks /\ f.run = s.run /\ f.skip = s.skip /\ f.sent = s.sent
      /\ f.body = s.body /\ f.answer = a /\ f.http_errno = "OK" /\ Unheld(f) /\ Same(s, f) /\ f.state = s.state
  BY <1>1, <1>2, BeginsFields
<1>4. /\ DOMAIN c = Fields /\ Same(f, c) /\ (Unheld(f) => Unheld(c)) /\ c.answer = f.answer
      /\ c.marks = f.marks /\ c.state = f.state
  BY <1>1, <1>3, CountedFields
<1>5. Rests(Switch(c, ch))  BY <1>3, <1>4, HoldRests
<1>6. s.state \in Bare /\ s.state # "s_header_value"  BY DEF HoldStates, Bare
<1>7. NoDatum(s.state)  BY <1>6, BareNoDatum
<1>8. Meeting(c, w, ch)
  <2> SUFFICES ASSUME NEW b, b.r # "PAUSED", s.state = "s_headers_done" => ~Skip(b)
               PROVE  \/ ParseByte(w, ch, b).http_errno \in Stops
                      \/ \E m : ParseByte(w, ch, b) = Passed(Switch(m, ch)) /\ m.answer = b /\ Twin(c, m)
    BY <1>3, <1>4 DEF Meeting
  <2>1. CASE ParseByte(w, ch, b).http_errno \in Stops  BY <2>1
  <2>2. CASE \E m : ParseByte(w, ch, b) = Passed(Switch(m, ch)) /\ m.answer = b /\ Waits(s, m)
    <3>1. PICK m : ParseByte(w, ch, b) = Passed(Switch(m, ch)) /\ m.answer = b /\ Waits(s, m)  BY <2>2
    <3>2. f.marks \in [Datum -> Int] /\ Unmarked(f)  BY <1>3 DEF Unmarked
    <3>3. Waits(f, m)  BY <1>3, <3>1, <3>2, WaitsKept
    <3>4. Level(f, m) /\ m.http_errno = "OK" /\ Unmarked(m)  BY <3>3 DEF Waits
    <3>5. Level(c, m)
      <4>1. PICK i : i = 1  OBVIOUS
      <4>2. PICK t : t = COUNT_HEADER_SIZE(f, i)  OBVIOUS
      <4>3. Level(t, m)  BY <1>3, <3>4, <4>2, CountLeft
      <4>4. c = t \/ c = f  BY <1>1, <4>1, <4>2 DEF Counted
      <4> QED BY <3>4, <4>3, <4>4
    <3>6. m.state = s.state  BY <1>3, <1>4, <3>5 DEF Level, Same
    <3>7. Unmarked(c) /\ c.marks \in [Datum -> Int] /\ m.marks \in [Datum -> Int]
      BY <1>4, <3>2, <3>5 DEF Unmarked, Level, Ready
    <3>8. Placed(c) /\ Placed(m)  BY <3>4, <3>7 DEF Placed, Unmarked
    <3>9. Marked(c) /\ Marked(m)  BY <1>3, <1>4, <1>7, <3>6 DEF Marked, NoDatum
    <3>10. Twin(c, m)  BY <1>3, <1>4, <1>6, <3>4, <3>5, <3>6, <3>8, <3>9 DEF Twin
    <3> QED BY <3>1, <3>10
  <2> QED BY <2>1, <2>2 DEF Awaits
<1> QED BY <1>3, <1>4, <1>5, <1>8

\* The byte, from where they meet.
LEMMA ByteOn ==
  ASSUME NEW c, NEW w, NEW ch, NEW a, NEW s, NEW r, Meeting(c, w, ch), s = Switch(c, ch), r = Passed(s), Rests(s),
         c.answer = a, Unheld(c), DOMAIN c = Fields, c.state \in KnownStates,
         \A b : DOMAIN ParseByte(w, ch, b) = Fields, DOMAIN r = Fields,
         r.marks \in [Datum -> Int], r.http_errno = "PAUSED" => Unmarked(r)
  PROVE  /\ Unheld(r) /\ (c.state = "s_headers_done" => ~Skip(a)) =>
               Ended(r, ParseByte(w, ch, Unpaused(a))) \/ Agree(r, ParseByte(w, ch, Unpaused(a)))
         /\ ~Unheld(r) /\ Going(r) => r.http_errno = "PAUSED" /\ r.state \in HoldStates /\ Awaits(r, w, ch)
<1>1. DOMAIN s = Fields  BY DEF Passed
<1>2. /\ Same(s, r) /\ r.http_errno = s.http_errno /\ r.run = s.run /\ r.skip = s.skip
      /\ r.held = s.held /\ r.sent = s.sent /\ r.body = s.body
  BY <1>1, PassedFields
<1>3. (Unheld(r) <=> Unheld(s)) /\ (Going(r) <=> Going(s)) /\ r.state = s.state  BY <1>2 DEF Unheld, Going, Same
<1>4. ASSUME Unheld(r), c.state = "s_headers_done" => ~Skip(a)
      PROVE  Ended(r, ParseByte(w, ch, Unpaused(a))) \/ Agree(r, ParseByte(w, ch, Unpaused(a)))
  <2>1. PICK b : b = Unpaused(a)  OBVIOUS
  <2>2. b.r # "PAUSED" /\ Linked(a, b) /\ (Skip(b) => Skip(a))
    <3>1. CASE a.r = "PAUSED"
      <4>1. b = NoAnswer  BY <2>1, <3>1 DEF Unpaused
      <4>2. b.r = "OK" /\ b.at = "none"  BY <4>1 DEF NoAnswer
      <4>3. ~Skip(b) /\ ~Skip(a)  BY <3>1, <4>2 DEF Skip
      <4> QED BY <4>2, <4>3 DEF Linked
    <3>2. CASE a.r # "PAUSED"  BY <2>1, <3>2 DEF Unpaused, Linked
    <3> QED BY <3>1, <3>2
  <2>3. PICK q : q = ParseByte(w, ch, b)  OBVIOUS
  <2>4. q.http_errno \in Stops \/ \E m : q = Passed(Switch(m, ch)) /\ m.answer = b /\ Twin(c, m)
    BY <1>4, <2>2, <2>3 DEF Meeting
  <2>5. CASE q.http_errno \in Stops  BY <2>1, <2>3, <2>5 DEF Ended
  <2>6. CASE \E m : q = Passed(Switch(m, ch)) /\ m.answer = b /\ Twin(c, m)
    <3>1. PICK m : q = Passed(Switch(m, ch)) /\ m.answer = b /\ Twin(c, m)  BY <2>6
    <3>2. PICK t : t = Switch(m, ch)  OBVIOUS
    <3>3. Through(c, m, s, t, ch)  BY <3>1, <3>2, SwitchThrough DEF KnownStates
    <3>4. Paired(s, t)  BY <1>3, <1>4, <2>2, <3>1, <3>3 DEF Through
    <3>5. DOMAIN t = Fields
      <4>1. DOMAIN q = Fields /\ q = Passed(t)  BY <2>3, <3>1, <3>2
      <4> QED BY <4>1 DEF Passed
    <3>6. Ended(Passed(s), Passed(t)) \/ Agree(Passed(s), Passed(t))  BY <1>1, <3>4, <3>5, PassedPair
    <3> QED BY <2>1, <2>3, <3>1, <3>2, <3>6
  <2> QED BY <2>4, <2>5, <2>6
<1>5. ASSUME ~Unheld(r), Going(r)
      PROVE  r.http_errno = "PAUSED" /\ r.state \in HoldStates /\ Awaits(r, w, ch)
  <2>1. s.http_errno = "PAUSED" /\ s.state \in HoldStates  BY <1>3, <1>5 DEF Rests
  <2>2. c.state # "s_headers_done"
    <3>1. SUFFICES ASSUME c.state = "s_headers_done" PROVE FALSE  OBVIOUS
    <3>2. s = HeadersDone(c, ch)  BY <3>1, SwitchHold
    <3> QED BY <1>3, <1>5, <3>2, DoneRests
  <2>3. Awaits(r, w, ch)
    <3> SUFFICES ASSUME NEW b, b.r # "PAUSED", s.state = "s_headers_done" => ~Skip(b)
                 PROVE  \/ ParseByte(w, ch, b).http_errno \in Stops
                        \/ \E m : ParseByte(w, ch, b) = Passed(Switch(m, ch)) /\ m.answer = b /\ Waits(r, m)
      BY <1>3 DEF Awaits
    <3>1. CASE ParseByte(w, ch, b).http_errno \in Stops  BY <3>1
    <3>2. CASE ~(ParseByte(w, ch, b).http_errno \in Stops)
      <4>1. PICK g : ParseByte(w, ch, b) = Passed(Switch(g, ch)) /\ g.answer = b /\ Twin(c, g)
        BY <2>2, <3>2 DEF Meeting
      <4>2. PICK t : t = Switch(g, ch)  OBVIOUS
      <4>3. Through(c, g, s, t, ch)  BY <4>1, <4>2, SwitchThrough DEF KnownStates
      <4>4. Passes(s, t, b, ch)  BY <1>3, <1>5, <4>1, <4>3 DEF Through
      <4>5. DOMAIN t = Fields
        <5>1. DOMAIN Passed(t) = Fields  BY <4>1, <4>2
        <5> QED BY <5>1 DEF Passed
      <4>6. Passed(t).http_errno = t.http_errno  BY <4>5, PassedFields
      <4>7. t.http_errno \notin Stops  BY <3>2, <4>1, <4>2, <4>6
      <4>8. PICK m : t = Switch(m, ch) /\ m.answer = b /\ Waits(s, m)  BY <4>4, <4>7 DEF Passes
      <4>9. Unmarked(r)  BY <1>2, <2>1
      <4>10. Waits(r, m)  BY <1>2, <4>8, <4>9, WaitsKept
      <4> QED BY <4>1, <4>2, <4>8, <4>10
    <3> QED BY <3>1, <3>2
  <2> QED BY <1>2, <1>3, <2>1, <2>3
<1> QED BY <1>4, <1>5

\* After headers_complete its answers come too late.

\* Neither answers the notification.
LEMMA HushedNotify ==
  ASSUME NEW s, NEW t, NEW cb, Hushed(s, t), s.answer.at # cb, t.answer.at # cb, cb # "message_begin"
  PROVE  Hushed(CALLBACK_NOTIFY(s, cb), CALLBACK_NOTIFY(t, cb))
<1>1. CALLBACK_NOTIFY(s, cb) = Noted(s, cb) /\ CALLBACK_NOTIFY(t, cb) = Noted(t, cb)
  BY DEF CALLBACK_NOTIFY, CALLBACK_NOTIFY_, Answered, Noted, Hushed, Fields
<1>2. t.out = s.out /\ t.last = s.last /\ t.ordered = s.ordered /\ t.asserts = s.asserts /\ t.http_errno = s.http_errno
  BY DEF Hushed, Fields
<1>3. PICK x, y, z : x = Append(s.out, cb) /\ y = (s.ordered /\ cb \in Follows[s.last]) /\ z = (s.asserts /\ s.http_errno = "OK")
  OBVIOUS
<1>4. /\ Noted(s, cb) = [s EXCEPT !.out = x, !.last = cb, !.ordered = y, !.asserts = z]
      /\ Noted(t, cb) = [t EXCEPT !.out = x, !.last = cb, !.ordered = y, !.asserts = z]
  BY <1>2, <1>3 DEF Noted, Hushed, Fields
<1>5. Hushed(Noted(s, cb), Noted(t, cb))  BY <1>4 DEF Hushed
<1> QED BY <1>1, <1>5

\* s_headers_done
LEMMA HushedHeadersDone ==
  ASSUME NEW s, NEW t, NEW ch, Hushed(s, t), s.answer.at # "message_complete", t.answer.at # "message_complete"
  PROVE  Hushed(HeadersDone(s, ch), HeadersDone(t, ch))
<1>1. PICK v, w : v = [s EXCEPT !.nread = 0] /\ w = [t EXCEPT !.nread = 0]  OBVIOUS
<1>2. Hushed(v, w) /\ v.answer = s.answer /\ w.answer = t.answer  BY <1>1 DEF Hushed, Fields
<1>3. \A x, y, e : Hushed(x, y) => Hushed(UPDATE_STATE(x, e), UPDATE_STATE(y, e)) /\ Hushed(SET_ERRNO(x, e), SET_ERRNO(y, e))
                                   /\ Hushed([x EXCEPT !.exit = e], [y EXCEPT !.exit = e])
  BY DEF Hushed, UPDATE_STATE, SET_ERRNO
<1>4. \A x, y : Hushed(x, y) =>
          /\ y.flags = x.flags /\ y.content_length = x.content_length /\ y.upgrade = x.upgrade /\ y.method = x.method
          /\ y.type = x.type /\ y.status_code = x.status_code /\ y.http_major = x.http_major /\ y.http_minor = x.http_minor
  BY DEF Hushed, Fields
<1>5. \A x, y : Hushed(x, y) => (http_message_needs_eof(x) <=> http_message_needs_eof(y))
  BY <1>4 DEF http_message_needs_eof
<1>6. http_should_keep_alive(v) <=> http_should_keep_alive(w)  BY <1>2, <1>4, <1>5 DEF http_should_keep_alive
<1>7. PICK e : e = IF ~http_should_keep_alive(v) THEN "s_dead" ELSE IF v.type = "REQUEST" THEN "s_start_req" ELSE "s_start_res"
  OBVIOUS
<1>8. PICK f, g : f = NEW_MESSAGE(v) /\ g = NEW_MESSAGE(w)  OBVIOUS
<1>9. f = UPDATE_STATE(v, e) /\ g = UPDATE_STATE(w, e)  BY <1>2, <1>4, <1>6, <1>7, <1>8 DEF NEW_MESSAGE
<1>10. Hushed(f, g) /\ f.answer = s.answer /\ g.answer = t.answer
  <2>1. Hushed(f, g)  BY <1>2, <1>3, <1>9
  <2>2. f.answer = v.answer /\ g.answer = w.answer  BY <1>2, <1>9 DEF UPDATE_STATE, Hushed, Fields
  <2> QED BY <1>2, <2>1, <2>2
<1>11. PICK x, y : x = CALLBACK_NOTIFY(f, "message_complete") /\ y = CALLBACK_NOTIFY(g, "message_complete")  OBVIOUS
<1>12. Hushed(x, y)  BY <1>10, <1>11, HushedNotify
<1>13. PICK yes : yes = TRUE  OBVIOUS
<1>14. \/ HeadersDone(s, ch) = SET_ERRNO(s, "STRICT") /\ HeadersDone(t, ch) = SET_ERRNO(t, "STRICT")
       \/ HeadersDone(s, ch) = [x EXCEPT !.exit = yes] /\ HeadersDone(t, ch) = [y EXCEPT !.exit = yes]
       \/ HeadersDone(s, ch) = x /\ HeadersDone(t, ch) = y
       \/ HeadersDone(s, ch) = UPDATE_STATE(v, "s_chunk_size_start") /\ HeadersDone(t, ch) = UPDATE_STATE(w, "s_chunk_size_start")
       \/ /\ HeadersDone(s, ch) = [v EXCEPT !.state = "s_body_identity", !.due = s.content_length]
          /\ HeadersDone(t, ch) = [w EXCEPT !.state = "s_body_identity", !.due = s.content_length]
       \/ HeadersDone(s, ch) = UPDATE_STATE(v, "s_body_identity_eof") /\ HeadersDone(t, ch) = UPDATE_STATE(w, "s_body_identity_eof")
  <2>1. http_message_needs_eof(s) <=> http_message_needs_eof(t)  BY <1>5
  <2>2. t.flags = s.flags /\ t.content_length = s.content_length /\ t.upgrade = s.upgrade /\ t.method = s.method
    BY <1>4
  <2> QED BY <1>1, <1>8, <1>11, <1>13, <2>1, <2>2 DEF HeadersDone
<1>15. Hushed([v EXCEPT !.state = "s_body_identity", !.due = s.content_length], [w EXCEPT !.state = "s_body_identity", !.due = s.content_length])
  BY <1>2 DEF Hushed
<1>16. /\ Hushed(SET_ERRNO(s, "STRICT"), SET_ERRNO(t, "STRICT")) /\ Hushed([x EXCEPT !.exit = yes], [y EXCEPT !.exit = yes])
       /\ Hushed(UPDATE_STATE(v, "s_chunk_size_start"), UPDATE_STATE(w, "s_chunk_size_start"))
       /\ Hushed(UPDATE_STATE(v, "s_body_identity_eof"), UPDATE_STATE(w, "s_body_identity_eof"))
  <2>1. Hushed(SET_ERRNO(s, "STRICT"), SET_ERRNO(t, "STRICT"))  BY <1>3
  <2>2. Hushed([x EXCEPT !.exit = yes], [y EXCEPT !.exit = yes])  BY <1>3, <1>12
  <2>3. Hushed(UPDATE_STATE(v, "s_chunk_size_start"), UPDATE_STATE(w, "s_chunk_size_start"))  BY <1>2, <1>3
  <2>4. Hushed(UPDATE_STATE(v, "s_body_identity_eof"), UPDATE_STATE(w, "s_body_identity_eof"))  BY <1>2, <1>3
  <2> QED BY <2>1, <2>2, <2>3, <2>4
<1> QED BY <1>12, <1>14, <1>15, <1>16

\* There is no such byte: an answer that changes nothing is not given.
LEMMA TooLate ==
  ASSUME NEW s, NEW ch, NEW a, s.http_errno = "OK", s.state = "s_headers_done", DOMAIN s = Fields, Skip(a)
  PROVE  ParseByte(s, ch, a) = ParseByte(s, ch, NoAnswer)
<1>1. PICK f, g : f = Begins(s, a) /\ g = Begins(s, NoAnswer)  OBVIOUS
<1>2. PICK c, d : c = Counted(f) /\ d = Counted(g)  OBVIOUS
<1>3. Hushed(f, g) /\ f.answer = a /\ g.answer = NoAnswer /\ f.state = "s_headers_done" /\ g.state = "s_headers_done"
  BY <1>1 DEF Begins, Hushed, Fields
<1>4. Hushed(c, d) /\ c.answer = a /\ d.answer = NoAnswer /\ c.state = "s_headers_done" /\ d.state = "s_headers_done"
  <2>1. PICK n : n = f.nread + 1  OBVIOUS
  <2>2. f.run = g.run /\ f.nread = g.nread /\ DOMAIN f = Fields /\ DOMAIN g = Fields  BY <1>3 DEF Hushed, Fields
  <2>3. PICK v, w : v = [f EXCEPT !.nread = n, !.run = 0, !.skip = FALSE] /\ w = [g EXCEPT !.nread = n, !.run = 0, !.skip = FALSE]
    OBVIOUS
  <2>4. Hushed(v, w) /\ v.nread = n /\ w.nread = n /\ v.answer = a /\ w.answer = NoAnswer /\ v.state = f.state /\ w.state = g.state
    BY <1>3, <2>3 DEF Hushed, Fields
  <2>5. \/ COUNT_HEADER_SIZE(f, 1) = v /\ COUNT_HEADER_SIZE(g, 1) = w
        \/ COUNT_HEADER_SIZE(f, 1) = SET_ERRNO(v, "HEADER_OVERFLOW") /\ COUNT_HEADER_SIZE(g, 1) = SET_ERRNO(w, "HEADER_OVERFLOW")
    BY <2>1, <2>2, <2>3, <2>4 DEF COUNT_HEADER_SIZE, Fields
  <2>6. PICK x, y : x = SET_ERRNO(v, "HEADER_OVERFLOW") /\ y = SET_ERRNO(w, "HEADER_OVERFLOW")  OBVIOUS
  <2>7. Hushed(x, y) /\ x.answer = a /\ y.answer = NoAnswer /\ x.state = f.state /\ y.state = g.state
    BY <2>4, <2>6 DEF Hushed, SET_ERRNO, Fields
  <2>8. (c = f /\ d = g) \/ (c = COUNT_HEADER_SIZE(f, 1) /\ d = COUNT_HEADER_SIZE(g, 1))
    BY <1>2, <1>3, <2>2 DEF Counted
  <2>9. (c = f /\ d = g) \/ (c = v /\ d = w) \/ (c = x /\ d = y)  BY <2>5, <2>6, <2>8
  <2> QED BY <1>3, <2>4, <2>7, <2>9
<1>5. a.at # "message_complete" /\ NoAnswer.at # "message_complete"  BY DEF Skip, NoAnswer
<1>6. Hushed(HeadersDone(c, ch), HeadersDone(d, ch))  BY <1>4, <1>5, HushedHeadersDone
<1>7. Switch(c, ch) = HeadersDone(c, ch) /\ Switch(d, ch) = HeadersDone(d, ch)  BY <1>4, SwitchHold
<1>8. c.http_errno = d.http_errno  BY <1>4 DEF Hushed, Fields
<1>9. PICK x, y : x = (IF c.http_errno = "OK" THEN Switch(c, ch) ELSE c) /\ y = (IF d.http_errno = "OK" THEN Switch(d, ch) ELSE d)
  OBVIOUS
<1>10. Hushed(x, y)  BY <1>4, <1>6, <1>7, <1>8, <1>9
<1>11. Passed(x) = Passed(y)
  <2>1. DOMAIN x = Fields /\ DOMAIN y = Fields /\ x.marks = y.marks  BY <1>10 DEF Hushed, Fields
  <2>2. PICK m : m = [e \in Datum |-> IF x.marks[e] < 0 THEN -1 ELSE x.marks[e] + 1]  OBVIOUS
  <2>3. Passed(x) = [x EXCEPT !.answer = NoAnswer, !.marks = m] /\ Passed(y) = [y EXCEPT !.answer = NoAnswer, !.marks = m]
    BY <2>1, <2>2 DEF Passed, Fields
  <2>4. [x EXCEPT !.answer = NoAnswer, !.marks = m] = [y EXCEPT !.answer = NoAnswer, !.marks = m]
    BY <1>10, <2>1 DEF Hushed
  <2> QED BY <2>3, <2>4
<1>12. ParseByte(s, ch, a) = Passed(x) /\ ParseByte(s, ch, NoAnswer) = Passed(y)  BY <1>1, <1>2, <1>9, ParseByteForm
<1> QED BY <1>11, <1>12

\* What the invariant of one parser says here.
LEMMA RestedFacts ==
  ASSUME NEW s, NEW o, Rested(s, 0, o)
  PROVE  /\ DOMAIN s = Fields /\ s.marks \in [Datum -> Int]
         /\ s.http_errno = "PAUSED" => Unmarked(s)
         /\ Going(s) => Placed(s) /\ s.state \in KnownStates /\ (s.run = 0 \/ Looping(s))
<1>1. DOMAIN s = Fields /\ s.marks \in [Datum -> Int]  BY DEF Rested, Live, Shape
<1>2. Going(s) => Place(s, 0)  BY DEF Rested, Live
<1>3. Going(s) => Placed(s) /\ s.state \in KnownStates /\ (s.run = 0 \/ Looping(s)) /\ (s.http_errno = "PAUSED" => Unmarked(s))
  BY <1>2 DEF Place, Tidy, Placed, KnownStates
<1> QED BY <1>1, <1>3 DEF Going

\* One that skips is in a header value of which nothing is wanted.
LEMMA CarelessFact ==
  ASSUME NEW s, s.run = 0 \/ Looping(s), Ready(s)
  PROVE  Careless(s)
  BY DEF Careless, Ready, Looping

\* The byte, for both.
LEMMA ByteStep ==
  ASSUME NEW s, NEW w, NEW ch, NEW a, NEW r, NEW o, NEW p, Rested(s, 0, o), Rested(w, 0, p), s.http_errno = "OK",
         r = ParseByte(s, ch, a), a # NoAnswer => r # ParseByte(s, ch, NoAnswer),
         Agree(s, w) \/ (~Unheld(s) /\ s.state \in HoldStates /\ Awaits(s, w, ch))
  PROVE  /\ Unheld(r) => Ended(r, ParseByte(w, ch, Unpaused(a))) \/ Agree(r, ParseByte(w, ch, Unpaused(a)))
         /\ ~Unheld(r) /\ Going(r) => r.http_errno = "PAUSED" /\ r.state \in HoldStates /\ Awaits(r, w, ch)
<1>1. Going(s) /\ DOMAIN s = Fields /\ s.marks \in [Datum -> Int] /\ Placed(s) /\ s.state \in KnownStates /\ (s.run = 0 \/ Looping(s))
  BY RestedFacts DEF Going
<1>2. Rested(r, 0, o)  BY ParseByteStep
<1>3. DOMAIN r = Fields /\ r.marks \in [Datum -> Int] /\ (r.http_errno = "PAUSED" => Unmarked(r))
  BY <1>2, RestedFacts
<1>4. \A b : DOMAIN ParseByte(w, ch, b) = Fields
  <2> SUFFICES ASSUME NEW b PROVE DOMAIN ParseByte(w, ch, b) = Fields  OBVIOUS
  <2>1. PICK q : q = ParseByte(w, ch, b)  OBVIOUS
  <2>2. Rested(q, 0, p)  BY <2>1, ParseByteStep
  <2> QED BY <2>1, <2>2, RestedFacts
<1>5. PICK f : f = Begins(s, a)  OBVIOUS
<1>6. PICK c : c = Counted(f)  OBVIOUS
<1>7. PICK z : z = [s EXCEPT !.out = <<>>]  OBVIOUS
<1>8. DOMAIN f = Fields /\ f.http_errno = "OK"  BY <1>1, <1>5, <1>7, BeginsFields
<1>9. DOMAIN c = Fields /\ c.http_errno \in {f.http_errno, "HEADER_OVERFLOW"}  BY <1>6, <1>8, CountedFields
<1>10. r = Passed(IF c.http_errno = "OK" THEN Switch(c, ch) ELSE c)  BY <1>5, <1>6, ParseByteForm
<1>11. CASE c.http_errno # "OK"
  <2>1. r = Passed(c) /\ c.http_errno = "HEADER_OVERFLOW"  BY <1>8, <1>9, <1>10, <1>11
  <2>2. r.http_errno = "HEADER_OVERFLOW"  BY <1>9, <2>1, PassedFields
  <2> QED BY <2>2 DEF Ended, Stops, Going
<1>12. CASE c.http_errno = "OK"
  <2>1. PICK t : t = Switch(c, ch)  OBVIOUS
  <2>2. r = Passed(t)  BY <1>10, <1>12, <2>1
  <2>3. /\ Meeting(c, w, ch) /\ Rests(t) /\ c.answer = a /\ Unheld(c)
        /\ DOMAIN c = Fields /\ c.state = s.state
    <3>1. CASE Agree(s, w)
      <4>1. Ready(s) /\ Ready(w) /\ w.http_errno = "OK"  BY <3>1 DEF Agree, Level
      <4>2. Placed(w) /\ (w.run = 0 \/ Looping(w))  BY <4>1, RestedFacts DEF Going
      <4>3. Careless(s) /\ Careless(w)  BY <1>1, <4>1, <4>2, CarelessFact
      <4> QED BY <1>1, <1>5, <1>6, <1>12, <2>1, <3>1, <4>2, <4>3, AgreeMeets
    <3>2. CASE ~Unheld(s) /\ s.state \in HoldStates /\ Awaits(s, w, ch)
      <4>1. Unmarked(s)
        <5>1. \A d \in Datum : s.state \notin MarkPlaces[d]  BY <3>2 DEF HoldStates, MarkPlaces, Datum, UrlStates
        <5> QED BY <1>1, <5>1 DEF Placed, Unmarked
      <4> QED BY <1>1, <1>5, <1>6, <1>12, <2>1, <3>2, <4>1, WaitMeets
    <3> QED BY <3>1, <3>2
  <2>4. c.state = "s_headers_done" => ~Skip(a)
    <3>1. SUFFICES ASSUME c.state = "s_headers_done", Skip(a) PROVE FALSE  OBVIOUS
    <3>2. r = ParseByte(s, ch, NoAnswer)  BY <1>1, <2>3, <3>1, TooLate
    <3>3. a = NoAnswer  BY <3>2
    <3> QED BY <3>1, <3>3 DEF Skip, NoAnswer
  <2>5. c.state \in KnownStates  BY <1>1, <2>3
  <2>6. /\ Unheld(r) /\ (c.state = "s_headers_done" => ~Skip(a)) =>
             Ended(r, ParseByte(w, ch, Unpaused(a))) \/ Agree(r, ParseByte(w, ch, Unpaused(a)))
        /\ ~Unheld(r) /\ Going(r) => r.http_errno = "PAUSED" /\ r.state \in HoldStates /\ Awaits(r, w, ch)
    BY <1>3, <1>4, <2>1, <2>2, <2>3, <2>5, ByteOn
  <2> QED BY <2>4, <2>6
<1> QED BY <1>11, <1>12

-----------------------------------------------------------------------------
\* Between two buffers.

\* It is the one that belongs there.
LEMMA AtFacts ==
  ASSUME NEW x, NEW d \in Datum
  PROVE  /\ AtOf(x) = d => d # "body" /\ x \in MarkPlaces[d]
         /\ d # "body" /\ x \in MarkPlaces[d] => AtOf(x) = d
<1>1. CASE x = "s_header_field"  BY <1>1 DEF AtOf, MarkPlaces, UrlStates, Datum
<1>2. CASE x = "s_header_value"  BY <1>2 DEF AtOf, MarkPlaces, UrlStates, Datum
<1>3. CASE x \in UrlStates
  <2>1. x \notin {"s_header_field", "s_header_value", "s_res_status"}  BY <1>3 DEF UrlStates
  <2>2. AtOf(x) = "url"  BY <1>3, <2>1 DEF AtOf
  <2> QED BY <1>3, <2>1, <2>2 DEF MarkPlaces, Datum
<1>4. CASE x = "s_res_status"  BY <1>4 DEF AtOf, MarkPlaces, UrlStates, Datum
<1>5. CASE x \notin UrlStates \cup {"s_header_field", "s_header_value", "s_res_status"}
  <2>1. AtOf(x) = "none"  BY <1>5 DEF AtOf
  <2> QED BY <1>5, <2>1 DEF MarkPlaces, Datum
<1> QED BY <1>1, <1>2, <1>3, <1>4, <1>5

\* A buffer begins.
LEMMA BeginBufferForm ==
  ASSUME NEW s, DOMAIN s = Fields
  PROVE  LET t == BeginBuffer(s)
         IN  /\ DOMAIN t = Fields /\ Same(s, t) /\ t.http_errno = s.http_errno /\ t.run = s.run /\ t.skip = s.skip
             /\ t.held = s.held /\ t.sent = s.sent /\ t.body = s.body /\ t.answer = s.answer
             /\ t.marks = [d \in Datum |-> IF d = AtOf(s.state) THEN 0 ELSE -1] /\ t.marks \in [Datum -> Int]
<1>1. PICK m : m = [d \in Datum |-> IF d = AtOf(s.state) THEN 0 ELSE -1]  OBVIOUS
<1>2. PICK t : t = [s EXCEPT !.marks = m]  OBVIOUS
<1>3. BeginBuffer(s) = t  BY <1>1, <1>2 DEF BeginBuffer, AtOf
<1>4. /\ DOMAIN t = Fields /\ Same(s, t) /\ t.http_errno = s.http_errno /\ t.run = s.run /\ t.skip = s.skip
      /\ t.held = s.held /\ t.sent = s.sent /\ t.body = s.body /\ t.answer = s.answer /\ t.marks = m
  BY <1>2 DEF Same, Fields
<1>5. m \in [Datum -> Int]  BY <1>1
<1> QED BY <1>1, <1>3, <1>4, <1>5

\* A parser that was not touched where it is compared.
LEMMA LevelKept ==
  ASSUME NEW s, NEW u, NEW t, Level(s, u), DOMAIN t = Fields, Same(s, t), t.marks = s.marks, t.run = s.run, t.skip = s.skip,
         t.sent = s.sent, t.body = s.body
  PROVE  Level(t, u)
<1>1. (Skips(t) <=> Skips(s)) /\ Ready(s)  BY DEF Skips, Level
<1>2. Ready(t)  BY <1>1 DEF Ready
<1>3. PICK x, y : Reads(s, x, y) /\ Reads(u, x, y)  BY DEF Level, Read
<1>4. Reads(t, x, y)  BY <1>3 DEF Reads, Unmarked
<1>5. Same(t, u)  BY DEF Level, Same
<1> QED BY <1>1, <1>2, <1>3, <1>4, <1>5 DEF Level, Read

\* The next buffer goes on where the last one ended.
LEMMA BeginBufferLevel ==
  ASSUME NEW s, NEW u, NEW t, Level(s, u), Unmarked(s), t = BeginBuffer(s),
         \A d \in Datum \ {"body"} : s.state \in MarkPlaces[d] => s.sent.d = d
  PROVE  Level(t, u) /\ Marked(t) /\ t.http_errno = s.http_errno /\ t.held = s.held /\ t.state = s.state
<1>1. DOMAIN s = Fields /\ Ready(s) /\ Record(s.sent) /\ s.body \in Int  BY DEF Level, Ready
<1>2. /\ DOMAIN t = Fields /\ Same(s, t) /\ t.http_errno = s.http_errno /\ t.run = s.run /\ t.skip = s.skip
      /\ t.held = s.held /\ t.sent = s.sent /\ t.body = s.body
      /\ t.marks = [d \in Datum |-> IF d = AtOf(s.state) THEN 0 ELSE -1] /\ t.marks \in [Datum -> Int]
  BY <1>1, BeginBufferForm
<1>3. (Skips(t) <=> Skips(s))  BY <1>2 DEF Skips
<1>4. Ready(t)  BY <1>1, <1>2, <1>3 DEF Ready
<1>5. PICK x, y : Reads(s, x, y) /\ Reads(u, x, y)  BY DEF Level, Read
<1>6. s.sent = x /\ s.body = y  BY <1>5 DEF Reads
<1>7. \A d \in Datum : t.marks[d] >= 0 => t.marks[d] = 0 /\ AtOf(s.state) = d  BY <1>2
<1>8. \A d \in Datum : t.marks[d] >= 0 =>
         With(t.sent, d, t.marks[d]) = x /\ t.body + (IF d = "body" THEN t.marks[d] ELSE 0) = y
  <2> SUFFICES ASSUME NEW d \in Datum, t.marks[d] >= 0
               PROVE  With(t.sent, d, t.marks[d]) = x /\ t.body + (IF d = "body" THEN t.marks[d] ELSE 0) = y
    OBVIOUS
  <2>1. t.marks[d] = 0 /\ d # "body" /\ s.state \in MarkPlaces[d]  BY <1>7, AtFacts
  <2>2. s.sent.d = d  BY <2>1
  <2>3. x = [d |-> d, n |-> x.n] /\ x.n \in Int /\ x.d = d  BY <1>1, <1>6, <2>2 DEF Record
  <2>4. With(x, d, 0) = x  BY <2>3 DEF With
  <2> QED BY <1>1, <1>2, <1>6, <2>1, <2>4
<1>9. Reads(t, x, y)  BY <1>2, <1>6, <1>8 DEF Reads
<1>10. Same(t, u)  BY <1>2 DEF Level, Same
<1>11. Level(t, u)  BY <1>3, <1>4, <1>5, <1>9, <1>10 DEF Level, Read
<1>12. t.state = s.state  BY <1>2 DEF Same
<1>13. Marked(t)
  <2> SUFFICES ASSUME NEW d \in Datum \ {"body"}, t.state \in MarkPlaces[d] PROVE t.marks[d] >= 0  BY DEF Marked
  <2>1. AtOf(s.state) = d  BY <1>12, AtFacts
  <2> QED BY <1>2, <2>1
<1> QED BY <1>2, <1>11, <1>12, <1>13

\* A pause ends.
LEMMA ResumeAgrees ==
  ASSUME NEW s, NEW u, NEW t, Agree(s, u), s.http_errno = "PAUSED", Unmarked(s), t = BeginBuffer(SET_ERRNO(s, "OK"))
  PROVE  Agree(t, u)
<1>1. Level(s, u) /\ Unheld(s) /\ u.http_errno = "OK" /\ Marked(u) /\ Begun(s) /\ Ready(s) /\ DOMAIN s = Fields
      /\ s.marks \in [Datum -> Int]
  BY DEF Agree, Level, Ready
<1>2. PICK v : v = SET_ERRNO(s, "OK")  OBVIOUS
<1>3. /\ DOMAIN v = Fields /\ Same(s, v) /\ v.marks = s.marks /\ v.run = s.run /\ v.skip = s.skip /\ v.held = s.held
      /\ v.sent = s.sent /\ v.body = s.body /\ v.http_errno = "OK"
  BY <1>1, <1>2 DEF SET_ERRNO, Same, Fields
<1>4. Level(v, u) /\ Unmarked(v)
  <2>1. Level(v, u)  BY <1>1, <1>3, LevelKept
  <2>2. Unmarked(v)  BY <1>3 DEF Unmarked
  <2> QED BY <2>1, <2>2
<1>5. \A d \in Datum \ {"body"} : v.state \in MarkPlaces[d] => v.sent.d = d  BY <1>1, <1>3 DEF Begun, Same, Unmarked
<1>6. Level(t, u) /\ Marked(t) /\ t.http_errno = v.http_errno /\ t.held = v.held
  BY <1>2, <1>4, <1>5, BeginBufferLevel
<1>7. Unheld(t) /\ Going(t) /\ Begun(t)  BY <1>1, <1>3, <1>6 DEF Unheld, Going, Begun, Marked
<1> QED BY <1>1, <1>6, <1>7 DEF Agree

\* The end of a buffer.
LEMMA EndBufferHands ==
  ASSUME NEW s0, NEW a, NEW r, Ready(s0), Placed(s0), s0.http_errno = "OK", r = EndBuffer(s0, a)
  PROVE  r.http_errno \in Stops \/ Handed(s0, r, a)
<1>1. /\ DOMAIN s0 = Fields /\ s0.marks \in [Datum -> Int] /\ s0.body \in Int /\ Record(s0.sent) /\ s0.run \in Nat
      /\ s0.skip \in BOOLEAN /\ (Skips(s0) => s0.run > 0)
  BY DEF Ready
<1>2. PICK M : M = {d \in Datum : s0.marks[d] >= 0}  OBVIOUS
<1>3. PICK h : h = (\A d, e \in M : d = e)  OBVIOUS
<1>4. PICK u : u = [s0 EXCEPT !.answer = a]  OBVIOUS
<1>5. PICK s : s = assert(u, h)  OBVIOUS
<1>6. /\ DOMAIN s = Fields /\ Same(s0, s) /\ s.marks = s0.marks /\ s.run = s0.run /\ s.skip = s0.skip /\ s.held = s0.held
      /\ s.sent = s0.sent /\ s.body = s0.body /\ s.http_errno = "OK" /\ s.answer = a
  BY <1>1, <1>4, <1>5 DEF assert, Same, Fields
<1>7. PICK c : c = IF s.run > 0 THEN COUNT_HEADER_SIZE(s, s.run) ELSE s  OBVIOUS
<1>8. /\ DOMAIN c = Fields /\ Same(s0, c) /\ c.marks = s0.marks /\ c.held = s0.held /\ c.sent = s0.sent /\ c.body = s0.body
      /\ c.http_errno \in {"OK", "HEADER_OVERFLOW"} /\ c.answer = a /\ c.run \in Nat
  <2>1. CASE s.run > 0
    <3>1. PICK n : n = s.run  OBVIOUS
    <3>2. c = COUNT_HEADER_SIZE(s, n)  BY <1>7, <2>1, <3>1
    <3>3. /\ DOMAIN c = Fields /\ Same(s, c) /\ c.marks = s.marks /\ c.held = s.held /\ c.sent = s.sent /\ c.body = s.body
          /\ c.http_errno \in {"OK", "HEADER_OVERFLOW"} /\ c.answer = s.answer /\ c.run = 0
      BY <1>6, <3>2 DEF COUNT_HEADER_SIZE, SET_ERRNO, Same, Fields
    <3> QED BY <1>6, <3>3 DEF Same
  <2>2. CASE ~(s.run > 0)  BY <1>1, <1>6, <1>7, <2>2
  <2> QED BY <2>1, <2>2
<1>9. ~Skips(c) /\ c.skip \in BOOLEAN
  <2>1. CASE s.run > 0
    <3>1. c.skip = FALSE  BY <1>6, <1>7, <2>1 DEF COUNT_HEADER_SIZE, SET_ERRNO, Fields
    <3> QED BY <3>1 DEF Skips
  <2>2. CASE ~(s.run > 0)
    <3>1. c.skip = s0.skip  BY <1>6, <1>7, <2>2
    <3> QED BY <1>1, <1>6, <2>2, <3>1 DEF Skips
  <2> QED BY <2>1, <2>2
<1>10. Ready(c)  BY <1>1, <1>8, <1>9 DEF Ready
<1>11. PICK t : t = Then(c, LAMBDA q : IF M = {} THEN q ELSE CALLBACK_DATA(q, CHOOSE d \in M : TRUE))  OBVIOUS
<1>12. r = [t EXCEPT !.answer = NoAnswer]  BY <1>2, <1>3, <1>4, <1>5, <1>7, <1>11 DEF EndBuffer
<1>13. \A d \in Datum : s0.marks[d] \in Int  BY <1>1
<1>14. CASE c.http_errno # "OK"
  <2>1. t = c  BY <1>11, <1>14 DEF Then
  <2>2. r.http_errno = "HEADER_OVERFLOW"  BY <1>8, <1>12, <1>14, <2>1 DEF Fields
  <2> QED BY <2>2 DEF Stops
<1>15. CASE c.http_errno = "OK"
  <2>1. /\ t.http_errno \in {"OK", "PAUSED", "CB"} /\ (t.http_errno = "PAUSED" => a.r = "PAUSED")
        /\ Ready(t) /\ Unmarked(t) /\ Same(s0, t) /\ ~Skips(t)
        /\ t.http_errno # "CB" => (Unheld(s0) => Unheld(t))
        /\ \A x, y : Reads(s0, x, y) => Reads(t, x, y)
        /\ \A d \in Datum \ {"body"} : s0.marks[d] >= 0 => t.sent.d = d
    <3>1. CASE M = {}
      <4>1. t = c  BY <1>11, <1>15, <3>1 DEF Then
      <4>2. Unmarked(s0) /\ \A d \in Datum : ~(s0.marks[d] >= 0)  BY <1>2, <1>13, <3>1 DEF Unmarked
      <4>3. Unmarked(c)  BY <1>8, <4>2 DEF Unmarked
      <4>4. \A x, y : Reads(s0, x, y) => Reads(c, x, y)  BY <1>8, <4>2 DEF Reads, Unmarked
      <4>5. Unheld(s0) => Unheld(c)  BY <1>8 DEF Unheld
      <4> QED BY <1>8, <1>9, <1>10, <1>15, <4>1, <4>2, <4>3, <4>4, <4>5
    <3>2. CASE M # {}
      <4>1. PICK d : d = CHOOSE e \in M : TRUE  OBVIOUS
      <4>2. d \in M /\ d \in Datum /\ s0.marks[d] >= 0 /\ s0.state \in MarkPlaces[d] /\ s0.marks[d] \in Int
        BY <1>2, <1>13, <3>2, <4>1 DEF Placed
      <4>3. OnlyMarked(s0, d)  BY <1>13, <4>2, PlacesApart DEF Placed, OnlyMarked
      <4>4. OnlyMarked(c, d) /\ c.marks[d] >= 0 /\ c.marks[d] \in Int  BY <1>8, <4>2, <4>3 DEF OnlyMarked
      <4>5. PICK n, b : n = c.marks[d] /\ b = FALSE  OBVIOUS
      <4>6. t = CALLBACK_DATA_(c, d, n, b)  BY <1>11, <1>15, <3>2, <4>1, <4>5 DEF Then, CALLBACK_DATA
      <4>7. n \in Int  BY <4>4, <4>5
      <4>8. /\ Ready(t) /\ Unmarked(t) /\ Same(c, t)
            /\ t.http_errno \in {"OK", "PAUSED", "CB"} /\ (Skips(t) => Skips(c))
            /\ t.http_errno = "OK" => t.held = c.held /\ t.run = c.run /\ t.skip = c.skip
            /\ t.http_errno = "PAUSED" => t.held = b /\ c.answer.r = "PAUSED" /\ ~Skips(t)
            /\ c.marks[d] < 0 => t.sent = c.sent /\ t.body = c.body
            /\ c.marks[d] >= 0 => t.sent = With(c.sent, d, n) /\ t.body = c.body + (IF d = "body" THEN n ELSE 0)
        BY <1>10, <1>15, <4>2, <4>4, <4>6, <4>7, DataCalled
      <4>9. t.sent = With(s0.sent, d, s0.marks[d]) /\ t.body = s0.body + (IF d = "body" THEN s0.marks[d] ELSE 0)
        BY <1>8, <4>4, <4>5, <4>8
      <4>10. \A x, y : Reads(s0, x, y) => Reads(t, x, y)
        <5> SUFFICES ASSUME NEW x, NEW y, Reads(s0, x, y) PROVE Reads(t, x, y)  OBVIOUS
        <5>1. t.sent = x /\ t.body = y  BY <4>2, <4>9 DEF Reads
        <5>2. \A e \in Datum : ~(t.marks[e] >= 0)  BY <4>8 DEF Unmarked, Ready
        <5> QED BY <5>1, <5>2 DEF Reads
      <4>11. \A e \in Datum \ {"body"} : s0.marks[e] >= 0 => t.sent.d = e
        <5> SUFFICES ASSUME NEW e \in Datum \ {"body"}, s0.marks[e] >= 0 PROVE t.sent.d = e  OBVIOUS
        <5>1. e = d  BY <1>13, <4>3 DEF OnlyMarked
        <5> QED BY <4>9, <5>1 DEF With
      <4>12. Same(s0, t)  BY <1>8, <4>8 DEF Same
      <4>13. t.http_errno # "CB" => (Unheld(s0) => Unheld(t))  BY <1>8, <4>5, <4>8 DEF Unheld
      <4> QED BY <1>8, <1>9, <4>8, <4>10, <4>11, <4>12, <4>13
    <3> QED BY <3>1, <3>2
  <2>2. DOMAIN t = Fields  BY <2>1 DEF Ready
  <2>3. /\ DOMAIN r = Fields /\ Same(t, r) /\ r.marks = t.marks /\ r.held = t.held /\ r.sent = t.sent /\ r.body = t.body
        /\ r.http_errno = t.http_errno /\ r.answer = NoAnswer /\ r.run = t.run /\ r.skip = t.skip
    BY <1>12, <2>2 DEF Same, Fields
  <2>4. ~Skips(r)  BY <2>1, <2>3 DEF Skips
  <2>5. Ready(r) /\ Unmarked(r)  BY <2>1, <2>3, <2>4 DEF Ready, Unmarked
  <2>6. Same(s0, r)  BY <2>1, <2>3 DEF Same
  <2>7. \A x, y : Reads(s0, x, y) => Reads(r, x, y)  BY <2>1, <2>3 DEF Reads, Unmarked
  <2>8. CASE t.http_errno = "CB"  BY <2>3, <2>8 DEF Stops
  <2>9. CASE t.http_errno # "CB"
    <3>1. Unheld(s0) => Unheld(r)  BY <2>1, <2>3, <2>9 DEF Unheld
    <3>2. r.http_errno \in {"OK", "PAUSED"} /\ (r.http_errno = "PAUSED" => a.r = "PAUSED")  BY <2>1, <2>3, <2>9
    <3>3. \A d \in Datum \ {"body"} : s0.marks[d] >= 0 => r.sent.d = d  BY <2>1, <2>3
    <3> QED BY <2>3, <2>4, <2>5, <2>6, <2>7, <3>1, <3>2, <3>3 DEF Handed
  <2> QED BY <2>8, <2>9
<1> QED BY <1>8, <1>14, <1>15

\* A buffer ends and the next one begins.
LEMMA CutAgrees ==
  ASSUME NEW s, NEW u, NEW a, NEW r, NEW c, Agree(s, u), s.http_errno = "OK", Placed(s), r = EndBuffer(s, a),
         c = IF r.http_errno = "OK" THEN BeginBuffer(r) ELSE r
  PROVE  Ended(c, u) \/ Agree(c, u)
<1>1. Level(s, u) /\ Ready(s) /\ Unheld(s) /\ u.http_errno = "OK" /\ Marked(u) /\ Begun(s)  BY DEF Agree, Level
<1>2. r.http_errno \in Stops \/ Handed(s, r, a)  BY <1>1, EndBufferHands
<1>3. CASE r.http_errno \in Stops
  <2>1. c = r  BY <1>3 DEF Stops
  <2> QED BY <1>3, <2>1 DEF Ended
<1>4. CASE Handed(s, r, a)
  <2>1. Level(r, u)
    <3>1. PICK x, y : Reads(s, x, y) /\ Reads(u, x, y)  BY <1>1 DEF Level, Read
    <3>2. Reads(r, x, y) /\ Ready(r) /\ Same(s, r) /\ ~Skips(r)  BY <1>4, <3>1 DEF Handed
    <3>3. Same(r, u)  BY <1>1, <3>2 DEF Level, Same
    <3> QED BY <1>1, <3>1, <3>2, <3>3 DEF Level, Read
  <2>2. Unmarked(r) /\ Unheld(r) /\ Going(r) /\ r.state = s.state  BY <1>1, <1>4 DEF Handed, Going, Same
  <2>3. \A d \in Datum \ {"body"} : r.state \in MarkPlaces[d] => r.sent.d = d  BY <1>1, <1>4, <2>2 DEF Handed, Begun
  <2>4. CASE r.http_errno = "OK"
    <3>1. c = BeginBuffer(r)  BY <2>4
    <3>2. Level(c, u) /\ Marked(c) /\ c.http_errno = r.http_errno /\ c.held = r.held
      BY <2>1, <2>2, <2>3, <3>1, BeginBufferLevel
    <3>3. Unheld(c) /\ Going(c) /\ Begun(c)  BY <2>2, <2>4, <3>2 DEF Unheld, Going, Begun, Marked
    <3> QED BY <1>1, <3>2, <3>3 DEF Agree
  <2>5. CASE r.http_errno # "OK"
    <3>1. c = r /\ r.http_errno = "PAUSED"  BY <1>4, <2>5 DEF Handed
    <3>2. Begun(r)  BY <2>3, <3>1 DEF Begun
    <3> QED BY <1>1, <2>1, <2>2, <3>1, <3>2 DEF Agree
  <2> QED BY <2>4, <2>5
<1> QED BY <1>2, <1>3, <1>4

\* A stopped parser stays as it is.
LEMMA StoppedStays ==
  ASSUME NEW s, NEW ch, NEW a, DOMAIN s = Fields, s.http_errno # "OK"
  PROVE  ParseByte(s, ch, a) = s /\ EndBuffer(s, a) = s /\ EndOfInput(s) = s
<1>1. ParseByte(s, ch, a) = s  BY DEF ParseByte
<1>2. EndBuffer(s, a) = s  BY DEF EndBuffer
<1>3. EndOfInput(s) = s  BY DEF EndOfInput, Fields
<1> QED BY <1>1, <1>2, <1>3

\* The end of the input.
LEMMA EofAgrees ==
  ASSUME NEW s, NEW u, NEW f, NEW g, NEW c, NEW w, Agree(s, u), s.http_errno = "OK", Placed(s), Placed(u),
         f = EndBuffer(s, NoAnswer), g = EndBuffer(u, NoAnswer), c = EndOfInput(f), w = EndOfInput(g),
         DOMAIN f = Fields, DOMAIN g = Fields
  PROVE  Ended(c, w) \/ Agree(c, w)
<1>1. Level(s, u) /\ Ready(s) /\ Ready(u) /\ Unheld(s) /\ Unheld(u) /\ u.http_errno = "OK" /\ Same(s, u)
  BY DEF Agree, Level
<1>2. PICK n : n = NoAnswer  OBVIOUS
<1>3. f.http_errno \in Stops \/ Handed(s, f, n)  BY <1>1, <1>2, EndBufferHands
<1>4. g.http_errno \in Stops \/ Handed(u, g, n)  BY <1>1, <1>2, EndBufferHands
<1>5. CASE f.http_errno \in Stops
  <2>1. c = f  BY <1>5, StoppedStays DEF Stops
  <2> QED BY <1>5, <2>1 DEF Ended
<1>6. CASE g.http_errno \in Stops
  <2>1. w = g  BY <1>6, StoppedStays DEF Stops
  <2> QED BY <1>6, <2>1 DEF Ended
<1>7. CASE Handed(s, f, n) /\ Handed(u, g, n)
  <2>1. n.r # "PAUSED"  BY <1>2 DEF NoAnswer
  <2>2. /\ f.http_errno = "OK" /\ g.http_errno = "OK" /\ Ready(f) /\ Ready(g) /\ Unmarked(f) /\ Unmarked(g) /\ ~Skips(f)
        /\ f.answer = n /\ g.answer = n /\ Unheld(f) /\ Unheld(g)
    BY <1>1, <1>2, <1>7, <2>1 DEF Handed
  <2>3. Same(f, g)  BY <1>1, <1>7 DEF Handed, Same
  <2>4. Level(f, g)
    <3>1. PICK x, y : Reads(s, x, y) /\ Reads(u, x, y)  BY <1>1 DEF Level, Read
    <3>2. Reads(f, x, y) /\ Reads(g, x, y)  BY <1>7, <3>1 DEF Handed
    <3>3. Unpausing(g)  BY <2>1, <2>2 DEF Unpausing
    <3> QED BY <2>2, <2>3, <3>2, <3>3 DEF Level, Read
  <2>5. PICK e : e = TRUE  OBVIOUS
  <2>6. PICK p, q : p = [f EXCEPT !.out = <<>>, !.exit = e] /\ q = [g EXCEPT !.out = <<>>, !.exit = e]  OBVIOUS
  <2>7. /\ Quiet(f, p) /\ Quiet(g, q) /\ p.http_errno = "OK" /\ q.http_errno = "OK" /\ p.state = f.state /\ q.state = g.state
        /\ p.answer = n
    BY <2>2, <2>6 DEF Quiet, Fields
  <2>8. Same(p, q) /\ q.state = p.state  BY <2>3, <2>6 DEF Same, Fields
  <2>9. Level(p, q) /\ Unmarked(p) /\ Unmarked(q) /\ Unheld(p)
    <3>1. Level(p, q)  BY <2>4, <2>7, <2>8, QuietLevel
    <3> QED BY <2>2, <2>7, <3>1 DEF Unmarked, Quiet, Unheld
  <2>10. CASE p.state = "s_body_identity_eof"
    <3>1. c = CALLBACK_NOTIFY_(p, "message_complete", e) /\ w = CALLBACK_NOTIFY_(q, "message_complete", e)
      BY <2>2, <2>5, <2>6, <2>7, <2>8, <2>10 DEF EndOfInput, CALLBACK_NOTIFY_NOADVANCE
    <3>2. /\ Met(c, w, e) /\ c.state = p.state /\ w.state = q.state  BY <2>7, <2>9, <3>1, NotifyMeets
    <3>3. PICK z : z = [p EXCEPT !.out = Append(p.out, "message_complete")]  OBVIOUS
    <3>4. c.http_errno = "PAUSED" => p.answer.r = "PAUSED"
      <4>1. Announced(p, c, z, "message_complete", e)  BY <2>7, <2>9, <3>1, <3>3, NotifyCalled DEF Level
      <4> QED BY <4>1 DEF Announced
    <3>5. c.http_errno # "PAUSED"  BY <2>1, <2>7, <3>4
    <3>6. CASE c.http_errno = "CB" \/ w.http_errno = "CB"  BY <3>6 DEF Ended, Stops
    <3>7. CASE ~(c.http_errno = "CB" \/ w.http_errno = "CB")
      <4>1. c.http_errno = "OK" /\ w.http_errno = "OK"  BY <3>2, <3>5, <3>7 DEF Met
      <4>2. Level(c, w) /\ Unheld(c)  BY <3>2, <4>1 DEF Met
      <4>3. c.state \in MarkPlaces["body"] /\ w.state = c.state  BY <2>8, <2>10, <3>2 DEF MarkPlaces
      <4>4. NoDatum(c.state)  BY <4>3, BareNoDatum
      <4>5. Marked(w) /\ Begun(c)  BY <4>3, <4>4 DEF Marked, Begun, NoDatum
      <4> QED BY <4>1, <4>2, <4>5 DEF Agree, Going
    <3> QED BY <3>6, <3>7
  <2>11. CASE p.state \in StartStates
    <3>1. c = p /\ w = q
      <4>1. p.state # "s_body_identity_eof"  BY <2>11 DEF StartStates
      <4> QED BY <2>2, <2>5, <2>6, <2>7, <2>8, <2>11, <4>1 DEF EndOfInput, StartStates
    <3>2. p.state \in Bare  BY <2>11 DEF StartStates, Bare
    <3>3. NoDatum(p.state)  BY <3>2, BareNoDatum
    <3>4. Marked(w) /\ Begun(c)  BY <2>8, <3>1, <3>3 DEF Marked, Begun, NoDatum
    <3> QED BY <2>7, <2>9, <3>1, <3>4 DEF Agree, Going
  <2>12. CASE p.state \notin StartStates \cup {"s_body_identity_eof"}
    <3>1. c = SET_ERRNO(p, "INVALID_EOF_STATE") /\ w = SET_ERRNO(q, "INVALID_EOF_STATE")
      BY <2>2, <2>5, <2>6, <2>7, <2>8, <2>12 DEF EndOfInput, StartStates
    <3>2. c.http_errno = "INVALID_EOF_STATE" /\ w.http_errno = "INVALID_EOF_STATE" /\ c.state = p.state /\ w.state = q.state
      <4>1. DOMAIN p = Fields /\ DOMAIN q = Fields  BY <2>7 DEF Quiet
      <4> QED BY <3>1, <4>1 DEF SET_ERRNO, Fields
    <3> QED BY <2>8, <3>2 DEF Ended, Going
  <2> QED BY <2>10, <2>11, <2>12
<1> QED BY <1>3, <1>4, <1>5, <1>6, <1>7

\* A pause ends within a byte.
LEMMA ResumeWaits ==
  ASSUME NEW s, NEW u, NEW ch, NEW t, ~Unheld(s), s.state \in HoldStates, DOMAIN s = Fields, Awaits(s, u, ch),
         t = BeginBuffer(SET_ERRNO(s, "OK"))
  PROVE  t.http_errno = "OK" /\ ~Unheld(t) /\ t.state \in HoldStates /\ Awaits(t, u, ch)
<1>1. PICK v : v = SET_ERRNO(s, "OK")  OBVIOUS
<1>2. /\ DOMAIN v = Fields /\ Same(s, v) /\ v.run = s.run /\ v.skip = s.skip /\ v.held = s.held
      /\ v.sent = s.sent /\ v.body = s.body /\ v.http_errno = "OK"
  BY <1>1 DEF SET_ERRNO, Same, Fields
<1>3. /\ DOMAIN t = Fields /\ Same(v, t) /\ t.http_errno = v.http_errno /\ t.run = v.run /\ t.skip = v.skip
      /\ t.held = v.held /\ t.sent = v.sent /\ t.body = v.body
      /\ t.marks = [d \in Datum |-> IF d = AtOf(v.state) THEN 0 ELSE -1] /\ t.marks \in [Datum -> Int]
  BY <1>1, <1>2, BeginBufferForm
<1>4. Same(s, t) /\ t.run = s.run /\ t.skip = s.skip /\ t.sent = s.sent /\ t.body = s.body /\ v.state = s.state /\ t.state = s.state
  BY <1>2, <1>3 DEF Same
<1>5. Unmarked(t)
  <2> SUFFICES ASSUME NEW d \in Datum PROVE t.marks[d] < 0  BY DEF Unmarked
  <2>1. s.state \notin MarkPlaces[d]  BY DEF HoldStates, MarkPlaces, Datum, UrlStates
  <2>2. AtOf(v.state) # d  BY <1>4, <2>1, AtFacts
  <2> QED BY <1>3, <2>2
<1>6. \A m : Waits(s, m) => Waits(t, m)  BY <1>3, <1>4, <1>5, WaitsKept
<1>7. Awaits(t, u, ch)  BY <1>4, <1>6 DEF Awaits
<1> QED BY <1>2, <1>3, <1>4, <1>7 DEF Unheld

\* http_parser_init
LEMMA InitAgrees ==
  ASSUME NEW t, t \in {"REQUEST", "RESPONSE", "BOTH"}, NEW s, s = http_parser_init(t)
  PROVE  Agree(s, s)
<1>1. /\ DOMAIN s = Fields /\ s.state = StartState[t] /\ s.marks = [d \in Datum |-> -1] /\ s.http_errno = "OK"
      /\ s.run = 0 /\ s.skip = FALSE /\ s.held = FALSE /\ s.answer = NoAnswer /\ s.body = 0
      /\ s.sent = [d |-> "none", n |-> 0]
  BY DEF http_parser_init, Fields
<1>2. ~Skips(s) /\ s.skip \in BOOLEAN /\ Unheld(s)  BY <1>1 DEF Skips, Unheld
<1>3. s.marks \in [Datum -> Int] /\ Unmarked(s) /\ \A d \in Datum : ~(s.marks[d] >= 0)  BY <1>1 DEF Unmarked
<1>4. Record(s.sent)  BY <1>1 DEF Record
<1>5. Ready(s)  BY <1>1, <1>2, <1>3, <1>4 DEF Ready
<1>6. Reads(s, s.sent, s.body)  BY <1>3 DEF Reads
<1>7. Unpausing(s)  BY <1>1 DEF Unpausing, NoAnswer
<1>8. Level(s, s)  BY <1>2, <1>5, <1>6, <1>7 DEF Level, Read, Same
<1>9. s.state \in Bare  BY <1>1 DEF StartState, Bare
<1>10. NoDatum(s.state)  BY <1>9, BareNoDatum
<1>11. Marked(s) /\ Begun(s)  BY <1>10 DEF Marked, Begun, NoDatum
<1> QED BY <1>1, <1>2, <1>8, <1>11 DEF Agree, Going

\* A comparison that has ended is not taken up again: the parser that is cut has stopped, or the other one has.
LEMMA EndedGoing ==
  ASSUME NEW c, NEW u, Ended(c, u), Going(c)
  PROVE  u.http_errno \in Stops
  BY DEF Ended, Going, Missed, Stops

\* What is seen of a parser.
LEMMA SeenForm ==
  ASSUME NEW s, NEW x, NEW y, Ready(s), Placed(s), Reads(s, x, y)
  PROVE  Seen(s) = <<s.state, s.header_state, s.index, s.flags, s.content_length, s.http_major, s.http_minor,
                     s.status_code, s.method, s.upgrade, s.exit, s.out, x, y>>
<1>1. DOMAIN s = Fields /\ \A d \in Datum : s.marks[d] \in Int  BY DEF Ready
<1>2. PICK M : M = {d \in Datum : s.marks[d] >= 0}  OBVIOUS
<1>3. PICK t : t = IF M = {} THEN s ELSE Delivered(s, CHOOSE d \in M : TRUE, s.marks[CHOOSE d \in M : TRUE])  OBVIOUS
<1>4. Seen(s) = <<s.state, s.header_state, s.index, s.flags, s.content_length, s.http_major, s.http_minor,
                  s.status_code, s.method, s.upgrade, s.exit, s.out, t.sent, t.body>>
  BY <1>2, <1>3 DEF Seen
<1>5. t.sent = x /\ t.body = y
  <2>1. CASE M = {}
    <3>1. Unmarked(s)  BY <1>1, <1>2, <2>1 DEF Unmarked
    <3> QED BY <1>3, <2>1, <3>1 DEF Reads
  <2>2. CASE M # {}
    <3>1. PICK d : d = CHOOSE e \in M : TRUE  OBVIOUS
    <3>2. d \in Datum /\ s.marks[d] >= 0  BY <1>2, <2>2, <3>1
    <3>3. t = Delivered(s, d, s.marks[d])  BY <1>3, <2>2, <3>1
    <3>4. t.sent = With(s.sent, d, s.marks[d]) /\ t.body = IF d = "body" THEN s.body + s.marks[d] ELSE s.body
      BY <1>1, <3>3 DEF Delivered, With, Fields
    <3>5. With(s.sent, d, s.marks[d]) = x /\ s.body + (IF d = "body" THEN s.marks[d] ELSE 0) = y  BY <3>2 DEF Reads
    <3>6. s.body \in Int  BY DEF Ready
    <3> QED BY <3>4, <3>5, <3>6
  <2> QED BY <2>1, <2>2
<1> QED BY <1>4, <1>5

\* Parsers that agree look alike.
LEMMA AgreeSeen ==
  ASSUME NEW c, NEW u, Agree(c, u), Placed(c), Placed(u)
  PROVE  Seen(c) = Seen(u)
<1>1. Ready(c) /\ Ready(u) /\ Same(c, u)  BY DEF Agree, Level
<1>2. PICK x, y : Reads(c, x, y) /\ Reads(u, x, y)  BY DEF Agree, Level, Read
<1>3. Seen(c) = <<c.state, c.header_state, c.index, c.flags, c.content_length, c.http_major, c.http_minor,
                  c.status_code, c.method, c.upgrade, c.exit, c.out, x, y>>
  BY <1>1, <1>2, SeenForm
<1>4. Seen(u) = <<u.state, u.header_state, u.index, u.flags, u.content_length, u.http_major, u.http_minor,
                  u.status_code, u.method, u.upgrade, u.exit, u.out, x, y>>
  BY <1>1, <1>2, SeenForm
<1> QED BY <1>1, <1>3, <1>4 DEF Same

\* Where the buffers end and where a callback pauses the parser changes nothing of what http_parser_execute parses.
THEOREM CutsDoNotShowCorrect == Spec => []CutsDoNotShow
<1>1. Init => CutInv
  <2> SUFFICES ASSUME Init PROVE CutInv  OBVIOUS
  <2>1. PICK t \in Types : cut = http_parser_init(t) /\ whole = http_parser_init(t)  BY DEF Init
  <2>2. t \in {"REQUEST", "RESPONSE", "BOTH"}  BY <2>1, TypesAssumption
  <2>3. Agree(cut, whole)  BY <2>1, <2>2, InitAgrees
  <2> QED BY <2>3 DEF CutInv, Together
<1>2. ParsersInv /\ CutInv /\ [Next]_vars => CutInv'
  <2> SUFFICES ASSUME ParsersInv, CutInv, [Next]_vars PROVE CutInv'  OBVIOUS
  <2>1. SUFFICES ASSUME NEW c, NEW w, NEW r, NEW f, c = cut', w = whole', r = rest', f = fed'
                 PROVE  Together(c, w, r, f)
    BY DEF CutInv
  <2>2. PICK o, p : o = TRUE /\ p = FALSE  OBVIOUS
  <2>3. Rested(cut, 0, o) /\ Rested(whole, 0, p)  BY <2>2 DEF ParsersInv
  <2>4. /\ DOMAIN cut = Fields /\ DOMAIN whole = Fields
        /\ cut.http_errno = "PAUSED" => Unmarked(cut)
        /\ Going(cut) => Placed(cut)
        /\ Going(whole) => Placed(whole)
    BY <2>3, RestedFacts
  <2>5. Together(cut, whole, rest, fed)  BY DEF CutInv
  <2>6. CASE Arrive
    <3>1. c = cut /\ w = whole /\ rest = <<>>  BY <2>1, <2>6 DEF Arrive
    <3> QED BY <2>5, <3>1 DEF Together, Waiting
  <2>7. CASE Byte
    <3>1. PICK a : /\ c = ParseByte(cut, Head(rest), a)
                   /\ a # NoAnswer => c # ParseByte(cut, Head(rest), NoAnswer)
                   /\ IF c.held THEN r = rest /\ w = whole
                      ELSE r = Tail(rest) /\ w = ParseByte(whole, Head(rest), Unpaused(a))
      BY <2>1, <2>7 DEF Byte
    <3>2. rest # <<>> /\ cut.http_errno = "OK" /\ Going(cut)  BY <2>7 DEF Byte, Running, Going
    <3>3. /\ ~Unheld(c) => r = rest /\ w = whole
          /\ Unheld(c) => w = ParseByte(whole, Head(rest), Unpaused(a))
      BY <3>1 DEF Unheld
    <3>4. CASE Ended(cut, whole)
      <4>1. whole.http_errno \in Stops  BY <3>2, <3>4, EndedGoing
      <4>2. whole.http_errno # "OK"  BY <4>1 DEF Stops
      <4>3. ParseByte(whole, Head(rest), Unpaused(a)) = whole  BY <2>4, <4>2, StoppedStays
      <4>4. w = whole  BY <3>3, <4>3
      <4> QED BY <4>1, <4>4 DEF Together, Ended
    <3>5. CASE Agree(cut, whole) \/ Waiting(cut, whole, rest, fed)
      <4>1. Agree(cut, whole) \/ (~Unheld(cut) /\ cut.state \in HoldStates /\ Awaits(cut, whole, Head(rest)))
        BY <3>5 DEF Waiting
      <4>2. PICK ch : ch = Head(rest)  OBVIOUS
      <4>3. /\ Unheld(c) => Ended(c, ParseByte(whole, ch, Unpaused(a))) \/ Agree(c, ParseByte(whole, ch, Unpaused(a)))
            /\ ~Unheld(c) /\ Going(c) => c.http_errno = "PAUSED" /\ c.state \in HoldStates /\ Awaits(c, whole, ch)
        BY <2>3, <3>1, <3>2, <4>1, <4>2, ByteStep
      <4>4. CASE Unheld(c)  BY <3>3, <4>2, <4>3, <4>4 DEF Together
      <4>5. CASE ~Unheld(c) /\ ~Going(c)  BY <4>5 DEF Together, Ended
      <4>6. CASE ~Unheld(c) /\ Going(c)  BY <3>2, <3>3, <4>2, <4>3, <4>6 DEF Together, Waiting
      <4> QED BY <4>4, <4>5, <4>6
    <3> QED BY <2>5, <3>4, <3>5 DEF Together
  <2>8. CASE Cut
    <3>1. PICK a : c = (IF EndBuffer(cut, a).http_errno = "OK" THEN BeginBuffer(EndBuffer(cut, a)) ELSE EndBuffer(cut, a))
      BY <2>1, <2>8 DEF Cut
    <3>2. w = whole /\ cut.http_errno = "OK" /\ Going(cut) /\ fed = TRUE  BY <2>1, <2>8 DEF Cut, Running, Going
    <3>3. CASE Ended(cut, whole)
      <4>1. whole.http_errno \in Stops  BY <3>2, <3>3, EndedGoing
      <4> QED BY <3>2, <4>1 DEF Together, Ended
    <3>4. CASE Agree(cut, whole)
      <4>1. PICK s : s = EndBuffer(cut, a)  OBVIOUS
      <4>2. Ended(c, whole) \/ Agree(c, whole)  BY <2>4, <3>1, <3>2, <3>4, <4>1, CutAgrees
      <4> QED BY <3>2, <4>2 DEF Together
    <3>5. CASE Waiting(cut, whole, rest, fed)  BY <3>2, <3>5 DEF Waiting
    <3> QED BY <2>5, <3>3, <3>4, <3>5 DEF Together
  <2>9. CASE Resume
    <3>1. c = BeginBuffer(SET_ERRNO(cut, "OK")) /\ cut.http_errno = "PAUSED" /\ w = whole /\ r = rest /\ f = FALSE /\ Going(cut)
      BY <2>1, <2>9 DEF Resume, Going
    <3>2. CASE Ended(cut, whole)
      <4>1. whole.http_errno \in Stops  BY <3>1, <3>2, EndedGoing
      <4> QED BY <3>1, <4>1 DEF Together, Ended
    <3>3. CASE Agree(cut, whole)
      <4>1. Unmarked(cut)  BY <2>4, <3>1
      <4>2. Agree(c, whole)  BY <3>1, <3>3, <4>1, ResumeAgrees
      <4> QED BY <3>1, <4>2 DEF Together
    <3>4. CASE Waiting(cut, whole, rest, fed)
      <4>1. ~Unheld(cut) /\ cut.state \in HoldStates /\ Awaits(cut, whole, Head(rest)) /\ rest # <<>>
        BY <3>4 DEF Waiting
      <4>2. PICK ch : ch = Head(rest)  OBVIOUS
      <4>3. c.http_errno = "OK" /\ ~Unheld(c) /\ c.state \in HoldStates /\ Awaits(c, whole, ch)
        BY <2>4, <3>1, <4>1, <4>2, ResumeWaits
      <4>4. f # TRUE  BY <3>1
      <4>5. Going(c)  BY <4>3 DEF Going
      <4> QED BY <3>1, <4>1, <4>2, <4>3, <4>4, <4>5 DEF Together, Waiting
    <3> QED BY <2>5, <3>2, <3>3, <3>4 DEF Together
  <2>10. CASE Eof
    <3>1. PICK s, u : s = EndBuffer(cut, NoAnswer) /\ u = EndBuffer(whole, NoAnswer)  OBVIOUS
    <3>2. c = EndOfInput(s) /\ w = EndOfInput(u) /\ cut.http_errno = "OK" /\ Going(cut) /\ rest = <<>>
      BY <2>1, <2>10, <3>1 DEF Eof, Running, Going
    <3>3. CASE Ended(cut, whole)
      <4>1. whole.http_errno \in Stops  BY <3>2, <3>3, EndedGoing
      <4>2. whole.http_errno # "OK"  BY <4>1 DEF Stops
      <4>3. u = whole /\ EndOfInput(whole) = whole  BY <2>4, <3>1, <4>2, StoppedStays
      <4> QED BY <3>2, <4>1, <4>3 DEF Together, Ended
    <3>4. CASE Agree(cut, whole)
      <4>1. Rested(s, 0, o) /\ Rested(u, 0, p)  BY <2>3, <3>1, EndBufferStep
      <4>2. DOMAIN s = Fields /\ DOMAIN u = Fields  BY <4>1, RestedFacts
      <4>3. Placed(cut) /\ Placed(whole)  BY <2>4, <3>2, <3>4 DEF Agree, Going
      <4>4. Ended(c, w) \/ Agree(c, w)  BY <3>1, <3>2, <3>4, <4>2, <4>3, EofAgrees
      <4> QED BY <4>4 DEF Together
    <3>5. CASE Waiting(cut, whole, rest, fed)  BY <3>2, <3>5 DEF Waiting
    <3> QED BY <2>5, <3>3, <3>4, <3>5 DEF Together
  <2>11. CASE UNCHANGED vars
    <3>1. c = cut /\ w = whole /\ r = rest /\ f = fed  BY <2>1, <2>11 DEF vars
    <3> QED BY <2>5, <3>1
  <2> QED BY <2>6, <2>7, <2>8, <2>9, <2>10, <2>11 DEF Next
<1>3. ParsersInv /\ CutInv => CutsDoNotShow
  <2> SUFFICES ASSUME ParsersInv, CutInv PROVE CutsDoNotShow  OBVIOUS
  <2>1. PICK o, p : o = TRUE /\ p = FALSE  OBVIOUS
  <2>2. Rested(cut, 0, o) /\ Rested(whole, 0, p)  BY <2>1 DEF ParsersInv
  <2>3. CASE Ended(cut, whole)  BY <2>3 DEF Ended, Stops, Missed, Skips, Unheld, Going, CutsDoNotShow
  <2>4. CASE Waiting(cut, whole, rest, fed)  BY <2>4 DEF Waiting, Unheld, CutsDoNotShow
  <2>5. CASE Agree(cut, whole)
    <3>1. Going(cut) /\ whole.http_errno = "OK"  BY <2>5 DEF Agree
    <3>2. Placed(cut) /\ Placed(whole)  BY <2>2, <3>1, RestedFacts DEF Going
    <3>3. Seen(cut) = Seen(whole)  BY <2>5, <3>2, AgreeSeen
    <3> QED BY <3>1, <3>3 DEF Going, CutsDoNotShow
  <2> QED BY <2>3, <2>4, <2>5 DEF CutInv, Together
<1> QED BY <1>1, <1>2, <1>3, ParsersCorrect, PTL DEF Spec

=============================================================================
