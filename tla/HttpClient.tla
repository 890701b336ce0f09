------------------------------ MODULE HttpClient ------------------------------
(***************************************************************************)
(* The HTTP clients of base/net/http and their two users: the downloader   *)
(* (http_downloader_impl.cc) and the AuthManager (auth/auth_util.cc).      *)
(*                                                                         *)
(* A client is a NetConnectionImpl that is its own delegate.  Its handlers *)
(* run on the thread of the IO pump and call the user with delegate_mutex_ *)
(* held, those of OnConnect and OnDisconnect with mutex_ held as well; the *)
(* user calls back under a mutex of its own, once for each callback.  A    *)
(* handler with all its callbacks is one step here: what an application    *)
(* thread can do between two of them, to begin to cancel a download, is a  *)
(* choice in it.  It never ends, and neither does the IO thread, if it     *)
(* locks a mutex its own thread holds.                                     *)
(***************************************************************************)
EXTENDS Integers, Sequences, FiniteSets

CONSTANTS
    Downloads,   \* the clients of downloaders
    Auths,       \* the clients of the AuthManager
    Pieces,      \* the pieces a whole body comes in
    Relock       \* what locking a std::mutex twice does; it is undefined

Clients == Downloads \cup Auths

ASSUME ClientsAssumption == Downloads \cap Auths = {}
ASSUME PiecesAssumption == Pieces \in Nat \ {0}

\* The C++ library blocks for ever where it uses pthreads (Android) and lets the
\* owner pass where it counts the locks of a critical section (older MSVC).
ASSUME RelockAssumption == Relock \in {"blocks", "passes"}

VARIABLE st
vars == <<st>>

Replies == [code : {100, 200}, signed : BOOLEAN]

\* Members of the client, then of its user, then histories.
New == [phase |-> "new", posted |-> <<>>, read |-> FALSE, write |-> FALSE, stage |-> "head",
        stoped |-> FALSE, net |-> TRUE, delegate |-> TRUE, recv_complete |-> FALSE, http_code |-> 404, clean |-> FALSE,
        app |-> "new", held |-> TRUE, dl |-> TRUE, open |-> FALSE, file |-> 0, write_size |-> 0, total_size |-> 0,
        listed |-> FALSE, data |-> 0, reply |-> [code |-> 0, signed |-> FALSE],
        stuck |-> FALSE, due |-> 0, received |-> 0, starts |-> 0, done |-> <<>>, heard |-> <<>>, early |-> FALSE,
        dangled |-> FALSE]

Cancelled == {"cancel1", "cancel2", "cancel3", "cancelled"}

\* Clients share the IO thread and nothing else, and one of them keeps the others
\* from running only by blocking that thread: the instance follows any one.
Init == \E c \in Clients : st = [d \in Clients |-> IF d = c THEN New ELSE [New EXCEPT !.app = "unused"]]

Becomes(c, t) == st' = [st EXCEPT ![c] = t]

IoRuns == \A c \in Clients : ~st[c].stuck
AuthLocked == \E c \in Auths : st[c].stuck

\* Who still holds the client: its user, a running operation, the clean-up.  The
\* DnsResolverImpl does not, although it will call it: it has a plain pointer.
Alive(s) == s.held \/ s.phase = "connecting" \/ s.read \/ s.write
            \/ \E i \in DOMAIN s.posted : s.posted[i] = "cleanup"

-----------------------------------------------------------------------------
(* NetConnectionImpl, as far as the client needs it (NetConnection.tla).   *)

\* The resolver is cancelled.  DoCleanUp shuts the socket down and does not close
\* it: a connect goes on.
HandleCleanUp(s) ==
    IF s.clean THEN s ELSE [s EXCEPT !.clean = TRUE, !.phase = IF @ \in {"resolving", "lookup"} THEN "over" ELSE @]

\* Cancel, and the DisConnect in it, from a callback on the IO thread.
CancelInCallback(s) ==
    IF Relock = "blocks" THEN [s EXCEPT !.stuck = TRUE]
    ELSE IF s.stoped THEN [s EXCEPT !.delegate = FALSE]
    ELSE [s EXCEPT !.delegate = FALSE, !.stoped = TRUE, !.net = FALSE, !.posted = Append(@, "cleanup")]

Unless(s, Op(_)) == IF s.stuck THEN {s} ELSE Op(s)
ThenAll(S, Op(_)) == UNION {Unless(s, Op) : s \in S}

-----------------------------------------------------------------------------
(* HttpDownloaderImpl.                                                     *)

\* HttpDownloaderImpl::Cancel from a callback of the downloader's delegate.
DownloaderCancel(s) == CancelInCallback([s EXCEPT !.dl = FALSE])

\* NotifyDownload...: the application may cancel the download there and then, or
\* begin to on another thread, which clears the downloader's delegate and waits
\* for the client's while the handler goes on.
NotifyDownload(s) ==
    IF ~s.dl THEN {s}
    ELSE {s, DownloaderCancel([s EXCEPT !.app = "cancelled", !.heard = s.done]),
          [s EXCEPT !.app = "cancel1", !.heard = s.done, !.dl = FALSE]}

NotifyDownloadComplte(s, code) ==
    NotifyDownload(IF s.dl THEN [s EXCEPT !.done = Append(@, code)] ELSE s)

\* Mutant: a failed write is not noticed.
WritePieceUnchecked(s) == NotifyDownload([s EXCEPT !.write_size = @ + 1])

\* A failed open or write: report it and cancel.
Abandon(s) == ThenAll(NotifyDownloadComplte(s, -1), LAMBDA t : {DownloaderCancel(t)})

WritePiece(s) ==
    Abandon(s) \cup NotifyDownload([s EXCEPT !.file = @ + 1, !.write_size = @ + 1])

\* OnHttpResponse: the first piece opens the file, which empties it.
DownloadResponse(s) ==
    IF s.open THEN WritePiece(s)
    ELSE Abandon(s) \cup ThenAll(NotifyDownload([s EXCEPT !.open = TRUE, !.file = 0, !.starts = @ + 1]), WritePiece)

DownloadComplete(s) ==
    NotifyDownloadComplte([s EXCEPT !.open = FALSE], IF s.http_code = 200 THEN 0 ELSE -1)

-----------------------------------------------------------------------------
(* AuthManager.                                                            *)

\* OnHttpResponse: data for a client that is not in auth_map_ is dropped.
AuthResponse(s) == {IF s.listed THEN [s EXCEPT !.data = @ + 1] ELSE s}

\* Mutant: the signature is not looked at.
VerdictsUnsigned(s) ==
    IF s.http_code # 200 THEN {s.http_code} ELSE {s.reply.code}

\* What response_data parses to, the result of ParseFromString being ignored: of a
\* response that is not whole, whatever code the rest gives, and the signature if
\* it is in the rest.
Parsed(s) ==
    CASE s.data = Pieces -> {s.reply}
      [] s.data = 0 -> {[code |-> 0, signed |-> FALSE]}
      [] OTHER -> [code : {0, 100, 200}, signed : {FALSE, s.reply.signed}]

\* HandleAuthResponse: what the delegate is told.  The signature is of the request
\* and looked at if the code is 200; any other code is handed on.
Verdicts(s) ==
    IF s.http_code # 200 THEN {s.http_code}
    ELSE {IF r.code # 200 THEN r.code ELSE IF r.signed THEN 200 ELSE 401 : r \in Parsed(s)}

\* Mutant: the entry stays, and so does the client's delegate.
AuthCompleteKeeps(s) ==
    IF ~s.listed THEN {[s EXCEPT !.early = TRUE]}
    ELSE {[s EXCEPT !.done = Append(@, v)] : v \in Verdicts(s)}

\* OnHttpComplete: answer, cancel the client, erase the entry.
AuthComplete(s) ==
    IF ~s.listed THEN {[s EXCEPT !.early = TRUE]}
    ELSE ThenAll({CancelInCallback([s EXCEPT !.done = Append(@, v)]) : v \in Verdicts(s)},
                 LAMBDA t : {[t EXCEPT !.listed = FALSE, !.held = FALSE]})

-----------------------------------------------------------------------------
(* HttpConnectionBase: the callbacks, under delegate_mutex_.               *)

IsDownload(c) == c \in Downloads

NotifyComplete(c, s) ==
    IF ~s.delegate THEN {s} ELSE IF IsDownload(c) THEN DownloadComplete(s) ELSE AuthComplete(s)

NotifyResponse(c, s) ==
    IF ~s.delegate THEN {s} ELSE IF IsDownload(c) THEN DownloadResponse(s) ELSE AuthResponse(s)

\* NotifyDisconnect and OnDisconnect, then HandleCleanUp.
Disconnected(c, s) ==
    ThenAll(IF s.net THEN NotifyComplete(c, s) ELSE {s}, LAMBDA t : {HandleCleanUp(t)})

\* Send, called for its effect on DoSendData only.
Send(s) == IF s.stoped THEN s ELSE [s EXCEPT !.posted = Append(@, "send")]

-----------------------------------------------------------------------------
(* The IO thread.                                                          *)

\* The runnables of Connect and Send hold the client weakly, that of the resolver
\* holds the resolver weakly, which only the client holds.
RunPosted(c) ==
    LET s == [st[c] EXCEPT !.posted = Tail(@)]
        job == Head(st[c].posted)
    IN  /\ IoRuns /\ st[c].posted # <<>>
        /\ Becomes(c, IF job = "cleanup" THEN HandleCleanUp(s)
                      ELSE IF ~Alive(st[c]) THEN s
                      ELSE IF job = "connect" THEN [s EXCEPT !.phase = "resolving", !.posted = Append(@, "resolve")]
                      ELSE IF job = "resolve" THEN [s EXCEPT !.phase = IF @ = "resolving" THEN "lookup" ELSE @]
                      ELSE IF s.clean THEN s
                      ELSE [s EXCEPT !.write = TRUE])

Resolved(c) ==
    /\ IoRuns /\ st[c].phase = "lookup" /\ Alive(st[c])
    /\ Becomes(c, [st[c] EXCEPT !.phase = "connecting"])

\* NotifyResult calls a client that was destroyed meanwhile, which cancels no
\* resolver.  What that does is undefined: the process may end there, or the
\* call come to nothing.
ResolvedFreed(c) ==
    /\ IoRuns /\ st[c].phase = "lookup" /\ ~Alive(st[c])
    /\ \E ends \in BOOLEAN : Becomes(c, [st[c] EXCEPT !.phase = "over", !.dangled = TRUE, !.stuck = ends])

\* Mutant: the failure is not passed on to OnConnect.
ConnectFailsSilently(c) ==
    /\ IoRuns /\ st[c].phase \in {"lookup", "connecting"} /\ Alive(st[c])
    /\ Becomes(c, [HandleCleanUp(st[c]) EXCEPT !.phase = "over"])

\* Resolving, connecting or the TLS handshake fails: OnConnect with a code.
ConnectFails(c) ==
    /\ IoRuns /\ st[c].phase \in {"lookup", "connecting"} /\ Alive(st[c])
    /\ LET s == [HandleCleanUp(st[c]) EXCEPT !.phase = "over"]
       IN  \E t \in (IF s.net THEN NotifyComplete(c, [s EXCEPT !.http_code = 404]) ELSE {s}) : Becomes(c, t)

\* OnConnect sends the request; then the first read starts.
Connected(c) ==
    /\ IoRuns /\ st[c].phase = "connecting"
    /\ LET s == [st[c] EXCEPT !.phase = "open", !.read = TRUE] IN Becomes(c, IF s.net THEN Send(s) ELSE s)

WriteDone(c) ==
    /\ IoRuns /\ st[c].write
    /\ Becomes(c, [st[c] EXCEPT !.write = FALSE])

WriteFails(c) ==
    /\ IoRuns /\ st[c].write
    /\ \E t \in Disconnected(c, [st[c] EXCEPT !.write = FALSE]) : Becomes(c, t)

\* on_response_impl, on_field_impl, on_header_impl and the downloader's
\* OnHttpHeads: the status, and the length of the body if it is announced.
ReadHead(c) ==
    /\ IoRuns /\ st[c].read /\ st[c].stage = "head"
    /\ \E code \in {200, 500}, r \in Replies, due \in {0, Pieces}, announced \in BOOLEAN :
          /\ IF IsDownload(c) THEN r = [code |-> 200, signed |-> TRUE] ELSE due = Pieces /\ ~announced
          /\ Becomes(c, [st[c] EXCEPT !.stage = "body", !.http_code = code, !.reply = r, !.due = due,
                                      !.total_size = IF announced /\ st[c].delegate THEN due ELSE @])

\* on_body_impl, on_chunk_body_impl; HandleRecvData reads again.
ReadBody(c) ==
    /\ IoRuns /\ st[c].read /\ st[c].stage = "body" /\ st[c].received < st[c].due
    /\ \E t \in NotifyResponse(c, [st[c] EXCEPT !.received = @ + 1]) : Becomes(c, t)

\* on_finish_impl; the handler reads no more.
ReadFinish(c) ==
    /\ IoRuns /\ st[c].read /\ st[c].stage = "body" /\ st[c].received = st[c].due
    /\ \E t \in NotifyComplete(c, [st[c] EXCEPT !.stage = "end"]) :
          Becomes(c, IF t.stuck THEN t ELSE [t EXCEPT !.recv_complete = TRUE, !.read = FALSE])

\* The connection breaks, or ends early.
ReadFails(c) ==
    /\ IoRuns /\ st[c].read /\ ~st[c].recv_complete
    /\ \E t \in Disconnected(c, [st[c] EXCEPT !.read = FALSE]) : Becomes(c, t)

-----------------------------------------------------------------------------
(* The application threads.                                                *)

Connect(s) == [s EXCEPT !.posted = Append(@, "connect")]

Start(c) ==
    /\ c \in Downloads /\ st[c].app = "new"
    /\ Becomes(c, [Connect(st[c]) EXCEPT !.app = "running"])

\* Mutant: the downloader's delegate stays.
CancelDownloaderKeeps(c) ==
    /\ c \in Downloads /\ st[c].app = "running" /\ ~st[c].stuck
    /\ Becomes(c, [st[c] EXCEPT !.app = "cancel1", !.heard = st[c].done])
\* HttpDownloaderImpl::Cancel, HttpConnectionBase::Cancel, DisConnect.
CancelDownloader(c) ==
    /\ c \in Downloads /\ st[c].app = "running" /\ ~st[c].stuck
    /\ Becomes(c, [st[c] EXCEPT !.dl = FALSE, !.app = "cancel1", !.heard = st[c].done])
CancelClient(c) ==
    /\ st[c].app = "cancel1" /\ ~st[c].stuck
    /\ Becomes(c, [st[c] EXCEPT !.delegate = FALSE, !.app = "cancel2"])
DisConnect(c) ==
    /\ st[c].app = "cancel2"
    /\ Becomes(c, IF st[c].stoped THEN [st[c] EXCEPT !.app = "cancelled"]
                  ELSE [st[c] EXCEPT !.stoped = TRUE, !.app = "cancel3"])
PostCleanUp(c) ==
    /\ st[c].app = "cancel3" /\ ~st[c].stuck
    /\ Becomes(c, [st[c] EXCEPT !.net = FALSE, !.posted = Append(@, "cleanup"), !.app = "cancelled"])

\* The application lets go of a downloader that calls it no more.
Release(c) ==
    /\ c \in Downloads /\ st[c].held /\ ~st[c].dl /\ st[c].app \in {"running", "cancelled"} /\ ~st[c].stuck
    /\ Becomes(c, [st[c] EXCEPT !.held = FALSE, !.app = "cancelled", !.heard = st[c].done])

\* AuthRequest starts the request first and enters it into auth_map_ then.
AuthRequest(c) ==
    /\ c \in Auths /\ st[c].app = "new"
    /\ Becomes(c, [Connect(st[c]) EXCEPT !.app = "requested"])
AuthInsert(c) ==
    /\ st[c].app = "requested" /\ ~AuthLocked
    /\ Becomes(c, [st[c] EXCEPT !.app = "running", !.listed = TRUE])

\* AuthCancel erases the entry and with it the only lasting hold on the client.
AuthCancel(c) ==
    /\ c \in Auths /\ st[c].app = "running" /\ ~AuthLocked
    /\ Becomes(c, [st[c] EXCEPT !.listed = FALSE, !.held = FALSE, !.app = "cancelled", !.heard = st[c].done])

Next ==
    \E c \in Clients :
        \/ RunPosted(c) \/ Resolved(c) \/ ResolvedFreed(c) \/ ConnectFails(c) \/ Connected(c)
        \/ WriteDone(c) \/ WriteFails(c) \/ ReadHead(c) \/ ReadBody(c) \/ ReadFinish(c) \/ ReadFails(c)
        \/ Start(c) \/ CancelDownloader(c) \/ CancelClient(c) \/ DisConnect(c) \/ PostCleanUp(c) \/ Release(c)
        \/ AuthRequest(c) \/ AuthInsert(c) \/ AuthCancel(c)

Spec == Init /\ [][Next]_vars

-----------------------------------------------------------------------------
\* AuthManager::OnHttpComplete answers a request at most once, although a
\* connection may report its end twice: for a failed write and a failed read.
AuthOnce == \A c \in Auths : Len(st[c].done) <= 1

\* HandleAuthResponse tells a delegate 200 only if a signature of this request
\* came and verified, whatever was lost before auth_map_ knew of the request.  That
\* is all it says of a response that is not whole; a whole one also says 200.
SignedSuccess ==
    \A c \in Auths : st[c].done = <<200>> =>
        st[c].reply.signed /\ st[c].data > 0 /\ (st[c].data = Pieces => st[c].reply.code = 200)

\* An entry of auth_map_ has a client that will still complete: nothing but
\* AuthRequest's own gap, a completion between Request and the insertion, leaves
\* a request unanswered for ever.
NotForgotten ==
    \A c \in Auths : st[c].listed /\ ~st[c].early =>
        /\ st[c].delegate /\ st[c].net
        /\ st[c].posted # <<>> \/ st[c].phase \in {"lookup", "connecting"} \/ st[c].read

\* Every piece received is in the file and counted, until the downloader is
\* cancelled, reports a failure, or opens the file anew: a download that is
\* reported as complete is one file with all that came.
FileHoldsTheBody ==
    \A c \in Downloads :
        LET s == st[c]
        IN  s.delegate /\ ~s.stuck /\ s.starts <= 1 /\ (s.done = <<>> \/ s.done[1] = 0) =>
                /\ s.file = s.received /\ s.write_size = s.received
                /\ s.received > 0 => s.starts = 1
                /\ s.total_size # 0 => s.write_size <= s.total_size

\* Once HttpDownloaderImpl::Cancel has cleared the delegate, also between two
\* callbacks of one handler, or AuthCancel has returned, the application is not told
\* of an end any more.  AuthCancel, which drops the client without DisConnect, may
\* leave it to be called by its resolver when it is destroyed, and then nothing is
\* said; no downloader ever does.
QuietAfterCancel ==
    \A c \in Clients :
        /\ st[c].app \in Cancelled /\ ~st[c].dangled => st[c].done = st[c].heard
        /\ st[c].dangled => c \in Auths /\ st[c].app = "cancelled"

\* http_downloader_impl.cc says of a file that cannot be opened: call back that
\* the download is complete, and leave.  The IO thread comes out of a client's
\* own handlers, an application that cancels from its callback aside.
FailureLeaves == \A c \in Clients : st[c].stuck => st[c].app = "cancelled"
=============================================================================
