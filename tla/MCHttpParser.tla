---------------------------- MODULE MCHttpParser ----------------------------
(* Input for model checking HttpParser: lines that belong to a message and *)
(* lines that break one.                                                    *)
EXTENDS HttpParser

Eol == <<CR, LF>>
Http11 == <<"H", "T", "T", "P", "/", "1", ".", "1">>
Http10 == <<"H", "T", "T", "P", "/", "1", ".", "0">>

Responses ==
    {Http11 \o <<SP, "2", "0", "0", SP, "x">> \o Eol, Http10 \o <<SP, "2", "0", "0">> \o Eol,
     Http11 \o <<SP, "2", "0", "4", LF>>, <<CR, LF>>}

Requests ==
    {<<"G", "E", "T", SP, "/", "x", "?", "x", SP>> \o Http11 \o Eol, <<"H", "E", "A", "D", SP, "*", SP>> \o Http10 \o Eol,
     <<"C", "O", "N", "N", "E", "C", "T", SP, "x", ":", "1", SP>> \o Http11 \o Eol,
     <<"P", "O", "S", "T", SP, "/", LF>>}

\* A method and no URL; and words that are no method.
Methods == {method_strings[m] \o <<SP, HT>> : m \in DOMAIN method_strings}
           \cup {<<"G", "E", "T", "S">>, <<"P", "U", SP>>, <<"P", "U", "R", "T">>, <<"M", "-", "E">>, <<"U", "N", "L", "I", "B">>}

MCStartLines == Responses \cup Requests \cup Methods

Name(keyword) == keyword \o <<":">>
MCFieldLines ==
    {Eol, <<LF>>, <<"x">> \o Name(<<"x">>) \o <<SP, "x">> \o Eol, Name(<<"x">>) \o Eol, <<SP, "x">> \o Eol,
     Name(<<"x">>) \o <<"x", "x", "BEL", LF>>,
     Name(CONTENT_LENGTH) \o <<"2">> \o Eol, Name(CONTENT_LENGTH) \o <<SP, "0", LF>>,
     Name(CONTENT_LENGTH) \o <<"5", "9">> \o Eol, Name(CONTENT_LENGTH) \o <<"6", "3">> \o Eol,
     Name(TRANSFER_ENCODING) \o <<SP>> \o CHUNKED \o Eol, Name(TRANSFER_ENCODING) \o CHUNKED \o <<"x", LF>>,
     Name(CONNECTION) \o CLOSE \o Eol, Name(PROXY_CONNECTION) \o KEEP_ALIVE \o <<",">> \o UPGRADE \o Eol,
     Name(CONNECTION) \o <<"x", ",", HT>> \o CLOSE \o Eol,
     Name(UPGRADE) \o <<"x">> \o Eol}

MCChunkLines == {<<"2">> \o Eol, <<"0">> \o Eol, <<"2", "f", ";", "x">> \o Eol, <<"3", "f">> \o Eol, <<"x">>}
MCBodyBytes == {<<"x", "x">>, <<"x", CR, LF>>, <<"x", "x", CR, LF>>}

MCAnswers ==
    [at : Datum \cup DOMAIN Follows, r : {"PAUSED"}] \cup [at : {"headers_complete"}, r : {"1", "2"}]
    \cup [at : {"body", "message_begin"}, r : {"CB"}]
=============================================================================
