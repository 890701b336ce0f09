--------------------------- MODULE HttpClientProofs ---------------------------
(***************************************************************************)
(* Proofs about HttpClient, for any clients and any number of pieces, and  *)
(* for both things that locking a mutex twice may do.                      *)
(***************************************************************************)
EXTENDS HttpClient, SequenceTheorems, TLAPS

Jobs == {"connect", "resolve", "send", "cleanup"}
Fields ==
    {"phase", "posted", "read", "write", "stage", "stoped", "net", "delegate", "recv_complete",
     "http_code", "clean", "app", "held", "dl", "open", "file", "write_size", "total_size", "listed",
     "data", "reply", "stuck", "due", "received", "starts", "done", "heard", "early", "dangled"}

Typed(s) ==
    /\ DOMAIN s = Fields /\ s.posted \in Seq(Jobs) /\ s.done \in Seq(Int) /\ s.heard \in Seq(Int) /\ s.http_code \in Int
    /\ s.file \in Nat /\ s.write_size \in Nat /\ s.total_size \in Nat /\ s.due \in Nat
    /\ s.received \in Nat /\ s.starts \in Nat /\ s.data \in Nat
    /\ s.reply \in [code : Int, signed : BOOLEAN]

-----------------------------------------------------------------------------
(* What both users call.                                                   *)

\* The fields that belong to the user, and the histories.
SameBody(s, t) ==
    /\ t.stage = s.stage /\ t.http_code = s.http_code /\ t.open = s.open /\ t.file = s.file
    /\ t.write_size = s.write_size /\ t.total_size = s.total_size /\ t.due = s.due
    /\ t.received = s.received /\ t.starts = s.starts /\ t.done = s.done
    /\ t.listed = s.listed /\ t.data = s.data /\ t.reply = s.reply
    /\ t.heard = s.heard /\ t.dangled = s.dangled

\* Cancel from a callback: the delegate is gone, or the thread is.
LEMMA CancelEffect ==
    ASSUME NEW s, Typed(s)
    PROVE  LET t == CancelInCallback(s)
           IN  /\ Typed(t) /\ SameBody(s, t) /\ (t.stuck \/ ~t.delegate)
               /\ t.app = s.app /\ t.dl = s.dl /\ t.early = s.early /\ t.held = s.held
               /\ t.phase = s.phase /\ t.read = s.read /\ t.write = s.write /\ t.clean = s.clean
               /\ (t.stuck \/ t.stoped) /\ (s.stoped => t.stoped)
               /\ t.posted = s.posted \/ t.posted = Append(s.posted, "cleanup")
               /\ Relock # "blocks" => t.stuck = s.stuck
  <1> DEFINE q == Append(s.posted, "cleanup")
  <1>1. q \in Seq(Jobs)
    BY AppendProperties DEF Typed, Jobs
  <1>2. CASE Relock = "blocks"
    BY <1>2 DEF CancelInCallback, Typed, Fields, SameBody
  <1>3. CASE Relock # "blocks" /\ s.stoped
    BY <1>3 DEF CancelInCallback, Typed, Fields, SameBody
  <1>4. CASE Relock # "blocks" /\ ~s.stoped
    <2>1. CancelInCallback(s) = [s EXCEPT !.delegate = FALSE, !.stoped = TRUE, !.net = FALSE, !.posted = q]
      BY <1>4 DEF CancelInCallback
    <2>2. q = Append(s.posted, "cleanup")
      OBVIOUS
    <2> HIDE DEF q
    <2> QED  BY <1>1, <1>4, <2>1, <2>2 DEF Typed, Fields, SameBody
  <1> QED  BY <1>2, <1>3, <1>4

\* The clean-up of the connection does not touch the user's fields.
LEMMA CleanUpEffect ==
    ASSUME NEW s, Typed(s)
    PROVE  LET t == HandleCleanUp(s)
           IN  /\ Typed(t) /\ SameBody(s, t) /\ t.stuck = s.stuck /\ t.delegate = s.delegate /\ t.net = s.net
               /\ t.app = s.app /\ t.dl = s.dl /\ t.early = s.early /\ t.held = s.held
               /\ t.posted = s.posted /\ t.read = s.read /\ t.stoped = s.stoped
               /\ t.write = s.write
               /\ s.phase \notin {"resolving", "lookup"} => t.phase = s.phase
               /\ s.phase \in {"resolving", "lookup"} /\ ~s.clean => t.phase = "over"
               /\ s.clean => t = s
  BY DEF HandleCleanUp, Typed, Fields, SameBody

-----------------------------------------------------------------------------
(* The connection, and how far it is.                                      *)

\* Until its resolver has answered.
Begins == {"new", "resolving", "lookup"}

HasCleanUp(s) == \E i \in DOMAIN s.posted : s.posted[i] = "cleanup"

\* The connect is the first thing posted and is posted once; what comes after the
\* resolving comes after it; and a client is dropped before that by a cancel only.
Line(s) ==
    /\ \A i \in DOMAIN s.posted :
          /\ s.posted[i] = "connect" => i = 1 /\ s.phase = "new"
          /\ s.posted[i] = "resolve" => s.phase # "new"
          /\ s.posted[i] = "send" => s.phase \notin Begins
    /\ s.read \/ s.write \/ s.clean => s.phase \notin Begins
    /\ s.phase = "new" /\ s.posted # <<>> => s.posted[1] = "connect"
    /\ s.phase = "new" /\ s.posted = <<>> => s.app \in {"new", "unused", "cancelled"}
    /\ s.app = "new" => s.phase = "new" /\ s.posted = <<>> /\ s.dl
    /\ s.phase \in Begins /\ ~s.held => s.app = "cancelled"

\* A stopped connection that has not come so far is going to be cleaned up.
Posts(s) == s.stoped /\ s.app # "cancel3" /\ s.phase \in Begins => HasCleanUp(s)

\* A client beyond that, whose connect is done.
Late(s) ==
    s.phase \notin Begins /\ s.app # "new" /\ \A i \in DOMAIN s.posted : s.posted[i] # "connect"

\* Which is all that Line asks of it.
LEMMA LateLine ==
    ASSUME NEW s
    PROVE  (Late(s) => Line(s)) /\ (Line(s) /\ s.phase \notin Begins => Late(s))
  BY DEF Late, Line, Begins

\* What the callbacks of a handler leave of the connection as it was.
Calls(s, t) ==
    /\ Typed(t) /\ t.phase = s.phase /\ t.read = s.read /\ t.write = s.write /\ t.clean = s.clean
    /\ t.app = "new" => s.app = "new"
    /\ \A i \in DOMAIN t.posted : t.posted[i] = "cleanup" \/ (i \in DOMAIN s.posted /\ t.posted[i] = s.posted[i])

\* One callback may follow another.
LEMMA CallsTwice ==
    ASSUME NEW s, NEW t, NEW u, Calls(s, t), Calls(t, u)
    PROVE  Calls(s, u)
  BY DEF Calls

\* Callbacks bring no client back to its beginnings.
LEMMA CallsLate == ASSUME NEW s, NEW t, Late(s), Calls(s, t) PROVE Late(t)
  BY DEF Calls, Late

\* Appending puts one entry behind the others.
LEMMA AppendEntries ==
    ASSUME NEW s, Typed(s), NEW x \in Jobs
    PROVE  LET q == Append(s.posted, x)
           IN  /\ q \in Seq(Jobs) /\ q # <<>> /\ (s.posted # <<>> => q[1] = s.posted[1])
               /\ \A i \in DOMAIN q : q[i] = x \/ (i \in DOMAIN s.posted /\ q[i] = s.posted[i])
               /\ \E i \in DOMAIN q : q[i] = x
               /\ \A i \in DOMAIN s.posted : i \in DOMAIN q /\ q[i] = s.posted[i]
  <1> DEFINE q == Append(s.posted, x)
             n == Len(s.posted)
  <1>1. s.posted \in Seq(Jobs)
    BY DEF Typed
  <1>2. n \in Nat /\ DOMAIN s.posted = 1 .. n
    BY <1>1, LenProperties
  <1>3. /\ q \in Seq(Jobs) /\ Len(q) = n + 1 /\ q[n + 1] = x /\ q # <<>>
        /\ \A i \in 1 .. n : q[i] = s.posted[i]
    BY <1>1, AppendProperties
  <1>4. DOMAIN q = 1 .. n + 1
    BY <1>3, LenProperties
  <1>5. s.posted # <<>> => n >= 1
    BY <1>1, <1>2, EmptySeq
  <1> HIDE DEF q, n
  <1>6. /\ s.posted # <<>> => q[1] = s.posted[1]
        /\ \A i \in DOMAIN q : q[i] = x \/ (i \in DOMAIN s.posted /\ q[i] = s.posted[i])
        /\ \E i \in DOMAIN q : q[i] = x
        /\ \A i \in DOMAIN s.posted : i \in DOMAIN q /\ q[i] = s.posted[i]
    BY <1>2, <1>3, <1>4, <1>5
  <1> QED  BY <1>3, <1>6 DEF q

\* A cancel in a callback posts a clean-up at most.
LEMMA CancelCalls ==
    ASSUME NEW s, Typed(s)
    PROVE  Calls(s, CancelInCallback(s)) /\ Calls(s, DownloaderCancel(s))
  <1>1. ASSUME NEW u, Typed(u) PROVE Calls(u, CancelInCallback(u))
    <2> DEFINE t == CancelInCallback(u)
    <2>1. /\ Typed(t) /\ t.app = u.app /\ t.phase = u.phase /\ t.read = u.read /\ t.write = u.write
          /\ t.clean = u.clean /\ (t.posted = u.posted \/ t.posted = Append(u.posted, "cleanup"))
      BY <1>1, CancelEffect
    <2> HIDE DEF t
    <2>2. \A i \in DOMAIN t.posted : t.posted[i] = "cleanup" \/ (i \in DOMAIN u.posted /\ t.posted[i] = u.posted[i])
      <3>1. CASE t.posted = u.posted
        BY <3>1
      <3>2. CASE t.posted = Append(u.posted, "cleanup")
        BY <1>1, <3>2, AppendEntries DEF Jobs
      <3> QED  BY <2>1, <3>1, <3>2
    <2>3. Calls(u, t)
      BY <2>1, <2>2 DEF Calls
    <2> QED  BY <2>3 DEF t
  <1> DEFINE d == [s EXCEPT !.dl = FALSE]
  <1>2. Typed(d) /\ Calls(s, d)
    BY DEF Typed, Fields, Calls
  <1> HIDE DEF d
  <1>3. Calls(d, CancelInCallback(d))
    BY <1>1, <1>2
  <1> QED  BY <1>1, <1>2, <1>3, CallsTwice DEF DownloaderCancel, d

\* So does an application that is called, wherever it cancels.
LEMMA NotifyCalls == ASSUME NEW s, Typed(s), NEW t \in NotifyDownload(s) PROVE Calls(s, t)
  <1> DEFINE u == [s EXCEPT !.app = "cancelled", !.heard = s.done]
             w == [s EXCEPT !.app = "cancel1", !.heard = s.done, !.dl = FALSE]
  <1>1. Calls(s, s) /\ Typed(u) /\ Calls(s, u) /\ Calls(s, w)
    BY DEF Typed, Fields, Calls
  <1>2. t = s \/ t = DownloaderCancel(u) \/ t = w
    BY DEF NotifyDownload
  <1> HIDE DEF u, w
  <1> QED  BY <1>1, <1>2, CancelCalls, CallsTwice

\* And an application that is told of an end.
LEMMA CompleteCalls ==
    ASSUME NEW s, Typed(s), NEW code \in Int, NEW t \in NotifyDownloadComplte(s, code)
    PROVE  Calls(s, t)
  <1> DEFINE q == Append(s.done, code)
             u == IF s.dl THEN [s EXCEPT !.done = q] ELSE s
  <1>1. q \in Seq(Int)
    BY AppendProperties DEF Typed
  <1>2. t \in NotifyDownload(u)
    BY DEF NotifyDownloadComplte
  <1> HIDE DEF q
  <1>3. Typed(u) /\ Calls(s, u)
    BY <1>1 DEF Typed, Fields, Calls
  <1> HIDE DEF u
  <1> QED  BY <1>2, <1>3, NotifyCalls, CallsTwice

\* A failed open or write goes no further than that.
LEMMA AbandonCalls == ASSUME NEW s, Typed(s), NEW t \in Abandon(s) PROVE Calls(s, t)
  <1>1. PICK u \in NotifyDownloadComplte(s, -1) : t \in (IF u.stuck THEN {u} ELSE {DownloaderCancel(u)})
    BY DEF Abandon, ThenAll, Unless
  <1>2. Calls(s, u) /\ Typed(u)
    BY CompleteCalls DEF Calls
  <1>3. t = u \/ t = DownloaderCancel(u)
    BY <1>1
  <1> QED  BY <1>2, <1>3, CancelCalls, CallsTwice

\* Nor do a write and the first piece.
LEMMA ResponseCalls ==
    ASSUME NEW s, Typed(s)
    PROVE  (\A t \in WritePiece(s) : Calls(s, t)) /\ (\A t \in DownloadResponse(s) : Calls(s, t))
  <1>1. ASSUME NEW w, Typed(w), NEW t \in WritePiece(w) PROVE Calls(w, t)
    <2> DEFINE a == w.file + 1
               b == w.write_size + 1
               u == [w EXCEPT !.file = a, !.write_size = b]
    <2>0. w.file \in Nat /\ w.write_size \in Nat
      BY <1>1 DEF Typed
    <2>1. a \in Nat /\ b \in Nat
      BY <2>0
    <2>2. t \in Abandon(w) \/ t \in NotifyDownload(u)
      BY <1>1 DEF WritePiece
    <2> HIDE DEF a, b
    <2>3. Typed(u) /\ Calls(w, u)
      BY <1>1, <2>1 DEF Typed, Fields, Calls
    <2> HIDE DEF u
    <2> QED  BY <1>1, <2>2, <2>3, AbandonCalls, NotifyCalls, CallsTwice
  <1>2. ASSUME NEW t \in DownloadResponse(s) PROVE Calls(s, t)
    <2> DEFINE n == s.starts + 1
               u == [s EXCEPT !.open = TRUE, !.file = 0, !.starts = n]
    <2>1. n \in Nat
      BY DEF Typed
    <2>2. \/ t \in WritePiece(s) \/ t \in Abandon(s)
          \/ \E w \in NotifyDownload(u) : t \in (IF w.stuck THEN {w} ELSE WritePiece(w))
      BY <1>2 DEF DownloadResponse, ThenAll, Unless
    <2> HIDE DEF n
    <2>3. Typed(u) /\ Calls(s, u)
      BY <2>1 DEF Typed, Fields, Calls
    <2> HIDE DEF u
    <2>4. ASSUME NEW w \in NotifyDownload(u), t \in (IF w.stuck THEN {w} ELSE WritePiece(w)) PROVE Calls(s, t)
      <3>1. Calls(u, w) /\ Typed(w)
        BY <2>3, <2>4, NotifyCalls DEF Calls
      <3>2. t = w \/ t \in WritePiece(w)
        BY <2>4
      <3> QED  BY <1>1, <2>3, <3>1, <3>2, CallsTwice
    <2> QED  BY <1>1, <2>2, <2>4, AbandonCalls
  <1> QED  BY <1>1, <1>2

\* HandleAuthResponse says 200 only if a signature of the request came, and of a
\* whole response only if it says so.
LEMMA VerdictSound ==
    ASSUME NEW s, Typed(s), NEW v \in Verdicts(s)
    PROVE  /\ v \in Int
           /\ v = 200 => /\ s.http_code = 200 /\ s.reply.signed /\ s.data > 0
                         /\ s.data = Pieces => s.reply.code = 200
  <1>0. s.data \in Nat /\ Pieces \in Nat /\ Pieces # 0 /\ s.reply.code \in Int /\ s.reply.signed \in BOOLEAN
    BY PiecesAssumption DEF Typed
  <1>1. CASE s.http_code # 200
    BY <1>1 DEF Verdicts, Typed
  <1>2. CASE s.http_code = 200
    <2>1. PICK r \in Parsed(s) : v = IF r.code # 200 THEN r.code ELSE IF r.signed THEN 200 ELSE 401
      BY <1>2 DEF Verdicts
    <2>2. CASE s.data = Pieces
      <3>1. r \in {s.reply}
        BY <1>0, <2>2 DEF Parsed
      <3> QED  BY <1>0, <1>2, <2>1, <2>2, <3>1
    <2>3. CASE s.data # Pieces /\ s.data = 0
      <3>1. r = [code |-> 0, signed |-> FALSE]
        BY <2>3 DEF Parsed
      <3>2. v = 0
        BY <2>1, <3>1
      <3> QED  BY <3>2
    <2>4. CASE s.data # Pieces /\ s.data # 0
      <3>1. r \in [code : {0, 100, 200}, signed : {FALSE, s.reply.signed}]
        BY <2>4 DEF Parsed
      <3>2. r.code \in {0, 100, 200} /\ r.signed \in {FALSE, s.reply.signed}
        BY <3>1
      <3>3. v \in {0, 100, 200, 401} /\ (v = 200 => r.signed)
        BY <2>1, <3>2
      <3>4. r.signed => s.reply.signed
        BY <3>2
      <3>5. s.data > 0
        BY <1>0, <2>4
      <3> QED  BY <1>2, <2>4, <3>3, <3>4, <3>5
    <2> QED  BY <2>2, <2>3, <2>4
  <1> QED  BY <1>1, <1>2

\* Whoever uses the client, its callbacks leave the connection alone.
LEMMA NotifiedCalls ==
    ASSUME NEW c, NEW s, Typed(s)
    PROVE  (\A t \in NotifyComplete(c, s) : Calls(s, t)) /\ (\A t \in NotifyResponse(c, s) : Calls(s, t))
  <1>0. Calls(s, s)
    BY DEF Calls
  <1>1. ASSUME NEW t \in DownloadComplete(s) PROVE Calls(s, t)
    <2> DEFINE u == [s EXCEPT !.open = FALSE]
    <2>1. PICK code \in {0, -1} : t \in NotifyDownloadComplte(u, code)
      BY <1>1 DEF DownloadComplete
    <2>2. Typed(u) /\ Calls(s, u)
      BY DEF Typed, Fields, Calls
    <2> HIDE DEF u
    <2> QED  BY <2>1, <2>2, CompleteCalls, CallsTwice
  <1>2. ASSUME NEW t \in AuthResponse(s) PROVE Calls(s, t)
    <2> DEFINE k == s.data + 1
    <2>1. k \in Nat
      BY DEF Typed
    <2>2. t = s \/ t = [s EXCEPT !.data = k]
      BY <1>2 DEF AuthResponse
    <2> HIDE DEF k
    <2>3. CASE t = [s EXCEPT !.data = k]
      BY <2>1, <2>3 DEF Typed, Fields, Calls
    <2> QED  BY <1>0, <2>2, <2>3
  <1>3. ASSUME NEW t \in AuthComplete(s) PROVE Calls(s, t)
    <2>1. CASE t = [s EXCEPT !.early = TRUE]
      BY <2>1 DEF Typed, Fields, Calls
    <2>2. CASE t # [s EXCEPT !.early = TRUE]
      <3>1. PICK v \in Verdicts(s) :
               LET w == CancelInCallback([s EXCEPT !.done = Append(@, v)])
               IN  t \in (IF w.stuck THEN {w} ELSE {[w EXCEPT !.listed = FALSE, !.held = FALSE]})
        BY <1>3, <2>2 DEF AuthComplete, ThenAll, Unless
      <3> DEFINE q == Append(s.done, v)
                 u == [s EXCEPT !.done = q]
                 w == CancelInCallback(u)
                 e == [w EXCEPT !.listed = FALSE, !.held = FALSE]
      <3>2. v \in Int
        BY VerdictSound
      <3>3. q \in Seq(Int)
        BY <3>2, AppendProperties DEF Typed
      <3>4. t = w \/ t = e
        BY <3>1
      <3> HIDE DEF q
      <3>5. Typed(u) /\ Calls(s, u)
        BY <3>3 DEF Typed, Fields, Calls
      <3> HIDE DEF u
      <3>6. Calls(u, w) /\ Typed(w)
        BY <3>5, CancelCalls DEF Calls
      <3> HIDE DEF w
      <3>7. Calls(w, e)
        BY <3>6 DEF Typed, Fields, Calls
      <3> HIDE DEF e
      <3> QED  BY <3>4, <3>5, <3>6, <3>7, CallsTwice
    <2> QED  BY <2>1, <2>2
  <1>4. \A t \in NotifyComplete(c, s) : Calls(s, t)
    BY <1>0, <1>1, <1>3 DEF NotifyComplete
  <1>5. \A t \in NotifyResponse(c, s) : Calls(s, t)
    BY <1>0, <1>2, ResponseCalls DEF NotifyResponse
  <1> QED  BY <1>4, <1>5

\* Nor do they when the connection ends; then it is cleaned up.
LEMMA DisconnectedLate ==
    ASSUME NEW c, NEW s, Typed(s), Late(s), NEW t \in Disconnected(c, s)
    PROVE  Late(t)
  <1>1. PICK u \in (IF s.net THEN NotifyComplete(c, s) ELSE {s}) : t \in (IF u.stuck THEN {u} ELSE {HandleCleanUp(u)})
    BY DEF Disconnected, ThenAll, Unless
  <1>2. Typed(u) /\ Late(u)
    BY <1>1, NotifiedCalls, CallsLate DEF Calls
  <1> DEFINE h == HandleCleanUp(u)
  <1>3. t = u \/ t = h
    BY <1>1
  <1>4. h.phase = u.phase /\ h.app = u.app /\ h.posted = u.posted
    BY <1>2, CleanUpEffect DEF Late, Begins
  <1> HIDE DEF h
  <1> QED  BY <1>2, <1>3, <1>4 DEF Late

-----------------------------------------------------------------------------
(* A downloader's client.                                                  *)

\* The file is still the one body: nobody cancelled, failed or opened it anew.
Undisturbed(s) == s.delegate /\ ~s.stuck /\ s.starts <= 1 /\ (s.done = <<>> \/ s.done[1] = 0)

\* All pieces are in the file but the last k.
Filed(s, k) ==
    Undisturbed(s) =>
        /\ s.file + k = s.received /\ s.write_size + k = s.received
        /\ s.received > k => s.starts = 1

\* What the head said of the length bounds what came.
Sizes(s) ==
    /\ s.stage = "head" => s.received = 0 /\ s.total_size = 0
    /\ s.stage # "head" => s.received <= s.due
    /\ s.total_size # 0 => s.total_size = s.due
    /\ s.open => s.starts >= 1

\* A downloader that calls nobody has stopped its client, or is about to, and one
\* that was let go of has.
Stops(s) ==
    /\ s.app = "cancel3" => s.stoped
    /\ ~s.dl /\ s.app \in {"running", "cancelled"} /\ ~s.stuck => s.stoped
    /\ ~s.held => s.app = "cancelled" /\ s.stoped

Sound(s) == Typed(s) /\ Sizes(s) /\ Stops(s) /\ s.app # "requested" /\ ~s.dangled

\* An application that cancels hears nothing from then on.
Silent(s) == s.app \in Cancelled => ~s.dl /\ s.done = s.heard

Download(s, k) == Sound(s) /\ Filed(s, k) /\ Silent(s)

\* Cancel leaves a downloader that hears nothing, whose file no longer counts.
LEMMA CancelDownload ==
    ASSUME NEW k, NEW s, Sound(s), s.app \in Cancelled => s.done = s.heard
    PROVE  Download(DownloaderCancel(s), k) /\ DownloaderCancel(s).open = s.open
  <1> DEFINE u == [s EXCEPT !.dl = FALSE]
             t == CancelInCallback(u)
  <1>1. /\ Typed(u) /\ SameBody(s, u) /\ ~u.dl /\ u.app = s.app /\ u.held = s.held /\ u.stoped = s.stoped
    BY DEF Sound, Typed, Fields, SameBody
  <1> HIDE DEF u
  <1>2. /\ Typed(t) /\ SameBody(u, t) /\ (t.stuck \/ ~t.delegate) /\ t.dl = u.dl /\ t.app = u.app
        /\ t.held = u.held /\ (t.stuck \/ t.stoped) /\ (u.stoped => t.stoped)
    BY <1>1, CancelEffect
  <1>3. t = DownloaderCancel(s)
    BY DEF DownloaderCancel, u
  <1> HIDE DEF t
  <1>4. Sound(t) /\ t.open = s.open
    BY <1>1, <1>2 DEF Sound, SameBody, Sizes, Stops
  <1>5. Filed(t, k)
    BY <1>2 DEF Filed, Undisturbed
  <1>6. Silent(t)
    BY <1>1, <1>2 DEF Silent, SameBody
  <1> QED  BY <1>3, <1>4, <1>5, <1>6 DEF Download

\* A progress callback, with whatever the application does in it or beside it,
\* keeps the download in order.
LEMMA NotifyKeeps ==
    ASSUME NEW k, NEW s, Download(s, k), NEW t \in NotifyDownload(s)
    PROVE  Download(t, k) /\ t.open = s.open
  <1> DEFINE u == [s EXCEPT !.app = "cancelled", !.heard = s.done]
             w == [s EXCEPT !.app = "cancel1", !.heard = s.done, !.dl = FALSE]
  <1>1. CASE s.dl
    <2>1. s.held
      BY <1>1 DEF Download, Sound, Stops, Silent, Cancelled
    <2>2. Sound(u) /\ u.open = s.open /\ u.done = u.heard
      BY <1>1, <2>1 DEF Download, Sound, Typed, Fields, Sizes, Stops
    <2>3. Sound(w) /\ w.open = s.open /\ Silent(w)
      BY <1>1, <2>1 DEF Download, Sound, Typed, Fields, Sizes, Stops, Silent
    <2>4. Filed(w, k)
      BY DEF Download, Sound, Typed, Fields, Filed, Undisturbed
    <2>5. t = s \/ t = DownloaderCancel(u) \/ t = w
      BY <1>1 DEF NotifyDownload
    <2> HIDE DEF u, w
    <2> QED  BY <2>2, <2>3, <2>4, <2>5, CancelDownload DEF Download
  <1>2. CASE ~s.dl
    BY <1>2 DEF NotifyDownload
  <1> QED  BY <1>1, <1>2

\* The first of a sequence of ends stays the first.
LEMMA FirstStays ==
    ASSUME NEW s \in Seq(Int), NEW x \in Int
    PROVE  /\ Append(s, x) \in Seq(Int) /\ Append(s, x) # <<>>
           /\ s # <<>> => Append(s, x)[1] = s[1]
  <1>1. /\ Append(s, x) \in Seq(Int) /\ Len(Append(s, x)) = Len(s) + 1
        /\ \A i \in 1 .. Len(s) : Append(s, x)[i] = s[i] /\ Len(s) \in Nat
    BY AppendProperties, LenProperties
  <1>2. Append(s, x) # <<>>
    BY <1>1, EmptySeq
  <1>3. s # <<>> => Len(s) >= 1
    BY EmptySeq, LenProperties
  <1> QED  BY <1>1, <1>2, <1>3

\* So does the completion callback.
LEMMA CompleteKeeps ==
    ASSUME NEW k, NEW s, Download(s, k), NEW code \in Int,
           NEW t \in NotifyDownloadComplte(s, code)
    PROVE  Download(t, k)
  <1> DEFINE q == Append(s.done, code)
             u == IF s.dl THEN [s EXCEPT !.done = q] ELSE s
  <1>1. q \in Seq(Int) /\ q # <<>> /\ (s.done # <<>> => q[1] = s.done[1])
    BY FirstStays DEF Download, Sound, Typed
  <1>2. t \in NotifyDownload(u)
    BY DEF NotifyDownloadComplte
  <1>3. Download(u, k)
    <2>1. CASE s.dl
      <3> HIDE DEF q
      <3>1. Sound(u)
        BY <1>1, <2>1 DEF Download, Sound, Typed, Fields, Sizes, Stops
      <3>2. Filed(u, k) /\ Silent(u)
        BY <1>1, <2>1 DEF Download, Sound, Typed, Fields, Filed, Undisturbed, Silent
      <3> QED  BY <3>1, <3>2 DEF Download
    <2>2. CASE ~s.dl
      BY <2>2
    <2> QED  BY <2>1, <2>2
  <1> HIDE DEF u
  <1> QED  BY <1>2, <1>3, NotifyKeeps

\* An open or a write that failed ends with a Cancel.
LEMMA AbandonKeeps ==
    ASSUME NEW j, NEW k, NEW s, Download(s, j), NEW t \in Abandon(s)
    PROVE  Download(t, k)
  <1>1. PICK u \in NotifyDownloadComplte(s, -1) : t \in (IF u.stuck THEN {u} ELSE {DownloaderCancel(u)})
    BY DEF Abandon, ThenAll, Unless
  <1>2. Download(u, j)
    BY CompleteKeeps
  <1>3. CASE u.stuck
    BY <1>1, <1>2, <1>3 DEF Download, Filed, Undisturbed
  <1>4. CASE ~u.stuck
    BY <1>1, <1>2, <1>4, CancelDownload DEF Download, Silent
  <1> QED  BY <1>3, <1>4

\* Writing the piece that was just received catches the file up with the body.
LEMMA WriteKeeps ==
    ASSUME NEW s, Download(s, 1), s.open, NEW t \in WritePiece(s)
    PROVE  Download(t, 0)
  <1> DEFINE u == [s EXCEPT !.file = @ + 1, !.write_size = @ + 1]
  <1>1. CASE t \in Abandon(s)
    BY <1>1, AbandonKeeps
  <1>2. CASE t \in NotifyDownload(u)
    <2>1. Download(u, 0)
      <3> DEFINE a == s.file + 1
                 b == s.write_size + 1
      <3>1. a \in Nat /\ b \in Nat
        BY DEF Download, Sound, Typed
      <3>2. u = [s EXCEPT !.file = a, !.write_size = b]
        OBVIOUS
      <3> HIDE DEF u
      <3>3. Sound(u) /\ Silent(u)
        <4> HIDE DEF a, b
        <4> QED  BY <3>1, <3>2 DEF Download, Sound, Typed, Fields, Sizes, Stops, Silent
      <3>4. Filed(u, 0)
        BY <3>2 DEF Download, Sound, Typed, Fields, Sizes, Filed, Undisturbed
      <3> QED  BY <3>3, <3>4 DEF Download
    <2> HIDE DEF u
    <2> QED  BY <1>2, <2>1, NotifyKeeps
  <1> QED  BY <1>1, <1>2 DEF WritePiece

\* A piece that was received is written, or the download is over.
LEMMA ResponseKeeps ==
    ASSUME NEW s, Download(s, 1), NEW t \in DownloadResponse(s)
    PROVE  Download(t, 0)
  <1>1. CASE s.open
    BY <1>1, WriteKeeps DEF DownloadResponse
  <1>2. CASE ~s.open /\ t \in Abandon(s)
    BY <1>2, AbandonKeeps
  <1>3. CASE ~s.open /\ t \notin Abandon(s)
    <2> DEFINE u == [s EXCEPT !.open = TRUE, !.file = 0, !.starts = @ + 1]
    <2>1. PICK w \in NotifyDownload(u) : t \in (IF w.stuck THEN {w} ELSE WritePiece(w))
      BY <1>3 DEF DownloadResponse, ThenAll, Unless
    <2>2. Download(u, 1) /\ u.open
      <3> DEFINE n == s.starts + 1
      <3>1. n \in Nat
        BY DEF Download, Sound, Typed
      <3>2. u = [s EXCEPT !.open = TRUE, !.file = 0, !.starts = n]
        OBVIOUS
      <3> HIDE DEF u
      <3>3. Sound(u) /\ Silent(u) /\ u.open
        BY <3>1, <3>2 DEF Download, Sound, Typed, Fields, Sizes, Stops, Silent
      <3>4. Filed(u, 1)
        BY <3>2 DEF Download, Sound, Typed, Fields, Filed, Undisturbed
      <3> QED  BY <3>3, <3>4 DEF Download
    <2> HIDE DEF u
    <2>3. Download(w, 1) /\ w.open
      BY <2>1, <2>2, NotifyKeeps
    <2>4. CASE w.stuck
      BY <2>1, <2>3, <2>4 DEF Download, Filed, Undisturbed
    <2>5. CASE ~w.stuck
      BY <2>1, <2>3, <2>5, WriteKeeps
    <2> QED  BY <2>4, <2>5
  <1> QED  BY <1>1, <1>2, <1>3

\* The end of the response closes a file that is whole, or reports a failure.
LEMMA DownloadCompleteKeeps ==
    ASSUME NEW s, Download(s, 0), NEW t \in DownloadComplete(s)
    PROVE  Download(t, 0)
  <1> DEFINE u == [s EXCEPT !.open = FALSE]
  <1>1. Download(u, 0)
    BY DEF Download, Sound, Typed, Fields, Sizes, Stops, Silent, Filed, Undisturbed
  <1>2. PICK code \in {0, -1} : t \in NotifyDownloadComplte(u, code)
    BY DEF DownloadComplete
  <1> HIDE DEF u
  <1> QED  BY <1>1, <1>2, CompleteKeeps

\* A step that touches no field of the downloader.
LEMMA PlumbingKeeps ==
    ASSUME NEW k, NEW s, Download(s, k), NEW t, Typed(t), SameBody(s, t),
           t.delegate => s.delegate, s.stuck => t.stuck, Silent(t), Stops(t), t.app = "requested" => s.app = "requested"
    PROVE  Download(t, k)
  <1>1. Sound(t)
    BY DEF Download, Sound, SameBody, Sizes
  <1>2. Filed(t, k)
    BY DEF Download, SameBody, Filed, Undisturbed
  <1> QED  BY <1>1, <1>2 DEF Download

\* OnConnect and OnDisconnect of a downloader's client.
LEMMA DownloadNotified ==
    ASSUME NEW c \in Downloads, NEW s, Download(s, 0)
    PROVE  /\ \A t \in NotifyComplete(c, s) : Download(t, 0)
           /\ \A t \in Disconnected(c, s) : Download(t, 0)
  <1>1. ASSUME NEW t \in NotifyComplete(c, s) PROVE Download(t, 0)
    <2>1. t = s \/ t \in DownloadComplete(s)
      BY <1>1 DEF NotifyComplete, IsDownload
    <2> QED  BY <2>1, DownloadCompleteKeeps
  <1>2. ASSUME NEW t \in Disconnected(c, s) PROVE Download(t, 0)
    <2>1. PICK u \in (IF s.net THEN NotifyComplete(c, s) ELSE {s}) :
             t \in (IF u.stuck THEN {u} ELSE {HandleCleanUp(u)})
      BY <1>2 DEF Disconnected, ThenAll, Unless
    <2>2. Download(u, 0)
      BY <1>1, <2>1
    <2> DEFINE h == HandleCleanUp(u)
    <2>3. /\ Typed(h) /\ SameBody(u, h) /\ h.delegate = u.delegate /\ h.stuck = u.stuck
          /\ h.dl = u.dl /\ h.app = u.app /\ h.held = u.held /\ h.stoped = u.stoped
      BY <2>2, CleanUpEffect DEF Download, Sound
    <2>4. t = u \/ t = h
      BY <2>1
    <2> HIDE DEF h
    <2>5. Silent(h) /\ Stops(h)
      BY <2>2, <2>3 DEF Download, Sound, Silent, Stops, SameBody
    <2>6. Download(h, 0)
      BY <2>2, <2>3, <2>5, PlumbingKeeps
    <2> QED  BY <2>2, <2>4, <2>6
  <1> QED  BY <1>1, <1>2

\* The steps of the connection that call nobody.
Quiets(c) ==
    \/ RunPosted(c) \/ Resolved(c) \/ Connected(c) \/ WriteDone(c)
    \/ Start(c) \/ CancelClient(c) \/ DisConnect(c) \/ PostCleanUp(c)

\* What such a step makes of the client.
Plumbed(c, t) ==
    LET s == st[c]
    IN  /\ Typed(t) /\ SameBody(s, t) /\ t.dl = s.dl /\ (t.delegate => s.delegate) /\ t.stuck = s.stuck
        /\ t.early = s.early /\ (t.app \in Cancelled => s.app \in Cancelled)
        /\ t.app = "requested" => s.app = "requested"
        /\ Stops(s) => Stops(t)

\* Which is so if nothing else changes, and if a cancel goes on.
LEMMA PlumbedBy ==
    ASSUME NEW c, NEW t, LET s == st[c]
           IN  /\ Typed(t) /\ SameBody(s, t) /\ t.dl = s.dl /\ (t.delegate => s.delegate) /\ t.stuck = s.stuck
               /\ t.early = s.early /\ t.held = s.held
               /\ \/ t.app = s.app /\ t.stoped = s.stoped
                  \/ s.app \in Cancelled /\ s.app # "cancelled" /\ t.app = "cancel2" /\ t.stoped = s.stoped
                  \/ s.app \in Cancelled /\ s.app # "cancelled" /\ t.app \in {"cancel3", "cancelled"} /\ t.stoped
    PROVE  Plumbed(c, t)
  BY DEF Plumbed, Stops, Cancelled

\* What the connection does without telling the client moves only the plumbing.
LEMMA QuietsPlumb ==
    ASSUME NEW c \in Clients, Typed(st[c]), Line(st[c]), DOMAIN st = Clients, Quiets(c)
    PROVE  Plumbed(c, st'[c])
  <1> DEFINE s == st[c]
  <1>0. \A x \in Jobs : Append(s.posted, x) \in Seq(Jobs)
    BY AppendProperties DEF Typed
  <1>1. ASSUME NEW t, Becomes(c, t) PROVE st'[c] = t
    BY <1>1 DEF Becomes
  <1>2. CASE RunPosted(c)
    <2> DEFINE p == Tail(s.posted)
               u == [s EXCEPT !.posted = p]
    <2>0. p \in Seq(Jobs)
      BY <1>2, HeadTailProperties DEF Typed, RunPosted
    <2> HIDE DEF p
    <2>1. Typed(u) /\ SameBody(s, u) /\ u.dl = s.dl /\ u.delegate = s.delegate /\ u.stuck = s.stuck
            /\ u.early = s.early /\ u.app = s.app /\ u.held = s.held /\ u.stoped = s.stoped
      BY <2>0 DEF Typed, Fields, SameBody
    <2> DEFINE q == Append(p, "resolve")
    <2>8. q \in Seq(Jobs)
      BY <2>0, AppendProperties DEF Jobs
    <2>9. u.posted = p
      BY DEF Typed, Fields
    <2>2. \/ st'[c] = HandleCleanUp(u) \/ st'[c] = u
          \/ st'[c] = [u EXCEPT !.phase = "resolving", !.posted = q]
          \/ st'[c] = [u EXCEPT !.phase = IF @ = "resolving" THEN "lookup" ELSE @]
          \/ st'[c] = [u EXCEPT !.write = TRUE]
      BY <1>1, <1>2, <2>9 DEF RunPosted, p
    <2> HIDE DEF u, s, q
    <2>3. /\ Typed(HandleCleanUp(u)) /\ SameBody(u, HandleCleanUp(u)) /\ HandleCleanUp(u).dl = u.dl
          /\ HandleCleanUp(u).delegate = u.delegate /\ HandleCleanUp(u).stuck = u.stuck
          /\ HandleCleanUp(u).early = u.early /\ HandleCleanUp(u).app = u.app
          /\ HandleCleanUp(u).held = u.held /\ HandleCleanUp(u).stoped = u.stoped
      BY <2>1, CleanUpEffect
    <2>4. CASE st'[c] = HandleCleanUp(u)
      BY <2>1, <2>3, <2>4 DEF Plumbed, SameBody, Stops, s
    <2>5. CASE st'[c] = u
      BY <2>1, <2>5 DEF Plumbed, SameBody, Stops, s
    <2>6. CASE st'[c] = [u EXCEPT !.phase = "resolving", !.posted = q]
      <3> DEFINE w == [u EXCEPT !.phase = "resolving", !.posted = q]
      <3>1. /\ Typed(w) /\ SameBody(u, w) /\ w.dl = u.dl /\ w.delegate = u.delegate /\ w.stuck = u.stuck
            /\ w.early = u.early /\ w.held = u.held /\ w.app = u.app /\ w.stoped = u.stoped
        BY <2>1, <2>8 DEF SameBody, Typed, Fields
      <3> HIDE DEF w
      <3>2. SameBody(s, w)
        BY <2>1, <3>1 DEF SameBody
      <3>3. Plumbed(c, w)
        BY <2>1, <3>1, <3>2, PlumbedBy DEF s
      <3> QED  BY <2>6, <3>3 DEF w
    <2>10. CASE st'[c] = [u EXCEPT !.phase = IF @ = "resolving" THEN "lookup" ELSE @]
      <3> DEFINE w == [u EXCEPT !.phase = IF @ = "resolving" THEN "lookup" ELSE @]
      <3>1. /\ Typed(w) /\ SameBody(u, w) /\ w.dl = u.dl /\ w.delegate = u.delegate /\ w.stuck = u.stuck
            /\ w.early = u.early /\ w.held = u.held /\ w.app = u.app /\ w.stoped = u.stoped
        BY <2>1 DEF SameBody, Typed, Fields
      <3> HIDE DEF w
      <3>2. SameBody(s, w)
        BY <2>1, <3>1 DEF SameBody
      <3>3. Plumbed(c, w)
        BY <2>1, <3>1, <3>2, PlumbedBy DEF s
      <3> QED  BY <2>10, <3>3 DEF w
    <2>7. CASE st'[c] = [u EXCEPT !.write = TRUE]
      <3> DEFINE w == [u EXCEPT !.write = TRUE]
      <3>1. /\ Typed(w) /\ SameBody(u, w) /\ w.dl = u.dl /\ w.delegate = u.delegate /\ w.stuck = u.stuck
            /\ w.early = u.early /\ w.held = u.held /\ w.app = u.app /\ w.stoped = u.stoped
        BY <2>1 DEF SameBody, Typed, Fields
      <3> HIDE DEF w
      <3>2. SameBody(s, w)
        BY <2>1, <3>1 DEF SameBody
      <3>3. Plumbed(c, w)
        BY <2>1, <3>1, <3>2, PlumbedBy DEF s
      <3> QED  BY <2>7, <3>3 DEF w
    <2> QED  BY <2>2, <2>4, <2>5, <2>6, <2>7, <2>10
  <1>3. CASE Resolved(c)
    <2>1. st'[c] = [s EXCEPT !.phase = "connecting"]
      BY <1>1, <1>3 DEF Resolved
    <2> QED  BY <2>1 DEF Plumbed, SameBody, Typed, Fields, Stops, Cancelled
  <1>4. CASE Connected(c)
    <2> DEFINE u == [s EXCEPT !.phase = "open", !.read = TRUE]
               q == Append(s.posted, "send")
    <2>1. q \in Seq(Jobs)
      BY <1>0 DEF Jobs
    <2>2. st'[c] = u \/ st'[c] = Send(u)
      BY <1>1, <1>4 DEF Connected
    <2>3. u.posted = s.posted
      BY DEF Typed, Fields
    <2>4. Send(u) = u \/ Send(u) = [u EXCEPT !.posted = q]
      BY <2>3 DEF Send
    <2> HIDE DEF q
    <2>5. st'[c] = u \/ st'[c] = [u EXCEPT !.posted = q]
      BY <2>2, <2>4
    <2>6. CASE st'[c] = u
      BY <2>6 DEF Plumbed, SameBody, Typed, Fields, Stops, Cancelled
    <2>7. CASE st'[c] = [u EXCEPT !.posted = q]
      <3>1. st'[c] = [s EXCEPT !.phase = "open", !.read = TRUE, !.posted = q]
        BY <2>7
      <3> QED  BY <2>1, <3>1 DEF Plumbed, SameBody, Typed, Fields, Stops, Cancelled
    <2> QED  BY <2>5, <2>6, <2>7
  <1>5. CASE WriteDone(c)
    <2>1. st'[c] = [s EXCEPT !.write = FALSE]
      BY <1>1, <1>5 DEF WriteDone
    <2> QED  BY <2>1 DEF Plumbed, SameBody, Typed, Fields, Stops, Cancelled
  <1>6. CASE Start(c)
    <2> DEFINE q == Append(s.posted, "connect")
    <2>1. q \in Seq(Jobs)
      BY <1>0 DEF Jobs
    <2>2. st'[c] = [[s EXCEPT !.posted = q] EXCEPT !.app = "running"]
      BY <1>1, <1>6 DEF Start, Connect
    <2> HIDE DEF q
    <2> QED  BY <1>6, <2>1, <2>2 DEF Plumbed, SameBody, Typed, Fields, Stops, Cancelled, Line, Start
  <1>7. CASE CancelClient(c)
    <2> DEFINE t == [s EXCEPT !.delegate = FALSE, !.app = "cancel2"]
    <2>1. st'[c] = t /\ s.app = "cancel1"
      BY <1>1, <1>7 DEF CancelClient
    <2>2. /\ Typed(t) /\ SameBody(s, t) /\ t.dl = s.dl /\ ~t.delegate /\ t.stuck = s.stuck
          /\ t.early = s.early /\ t.held = s.held /\ t.app = "cancel2" /\ t.stoped = s.stoped
      BY DEF SameBody, Typed, Fields
    <2> HIDE DEF t
    <2> QED  BY <2>1, <2>2, PlumbedBy DEF Cancelled
  <1>8. CASE DisConnect(c)
    <2> DEFINE t == [s EXCEPT !.app = "cancelled"]
               w == [s EXCEPT !.stoped = TRUE, !.app = "cancel3"]
    <2>1. s.app = "cancel2" /\ ((s.stoped /\ st'[c] = t) \/ st'[c] = w)
      BY <1>1, <1>8 DEF DisConnect
    <2>2. /\ Typed(t) /\ SameBody(s, t) /\ t.dl = s.dl /\ t.delegate = s.delegate /\ t.stuck = s.stuck
          /\ t.early = s.early /\ t.held = s.held /\ t.app = "cancelled" /\ t.stoped = s.stoped
      BY DEF SameBody, Typed, Fields
    <2>3. /\ Typed(w) /\ SameBody(s, w) /\ w.dl = s.dl /\ w.delegate = s.delegate /\ w.stuck = s.stuck
          /\ w.early = s.early /\ w.held = s.held /\ w.app = "cancel3" /\ w.stoped
      BY DEF SameBody, Typed, Fields
    <2> HIDE DEF t, w
    <2> QED  BY <2>1, <2>2, <2>3, PlumbedBy DEF Cancelled
  <1>9. CASE PostCleanUp(c)
    <2> DEFINE q == Append(s.posted, "cleanup")
               t == [s EXCEPT !.net = FALSE, !.posted = q, !.app = "cancelled"]
    <2>1. q \in Seq(Jobs) /\ s.app = "cancel3"
      BY <1>0, <1>9 DEF Jobs, PostCleanUp
    <2>2. st'[c] = t
      BY <1>1, <1>9 DEF PostCleanUp
    <2> HIDE DEF q
    <2>3. /\ Typed(t) /\ SameBody(s, t) /\ t.dl = s.dl /\ t.delegate = s.delegate /\ t.stuck = s.stuck
          /\ t.early = s.early /\ t.held = s.held /\ t.app = "cancelled" /\ t.stoped = s.stoped
      BY <2>1 DEF SameBody, Typed, Fields
    <2> HIDE DEF t
    <2>4. Stops(s) => Stops(t)
      BY <2>1, <2>3 DEF Stops
    <2> QED  BY <2>1, <2>2, <2>3, <2>4 DEF Plumbed, Cancelled
  <1> QED  BY <1>2, <1>3, <1>4, <1>5, <1>6, <1>7, <1>8, <1>9 DEF Quiets

Step(c) ==
    \/ RunPosted(c) \/ Resolved(c) \/ ResolvedFreed(c) \/ ConnectFails(c) \/ Connected(c)
    \/ WriteDone(c) \/ WriteFails(c) \/ ReadHead(c) \/ ReadBody(c) \/ ReadFinish(c) \/ ReadFails(c)
    \/ Start(c) \/ CancelDownloader(c) \/ CancelClient(c) \/ DisConnect(c) \/ PostCleanUp(c) \/ Release(c)
    \/ AuthRequest(c) \/ AuthInsert(c) \/ AuthCancel(c)

\* Every step of a downloader's client keeps its download in order.
LEMMA DownloadStep ==
    ASSUME NEW c \in Downloads, Download(st[c], 0), Line(st[c]), Posts(st[c]), DOMAIN st = Clients, Step(c)
    PROVE  Download(st'[c], 0)
  <1> DEFINE s == st[c]
  <1>0. c \in Clients /\ c \notin Auths /\ Typed(s)
    BY ClientsAssumption DEF Clients, Download, Sound
  <1>1. ASSUME NEW t, Becomes(c, t) PROVE st'[c] = t
    BY <1>0, <1>1 DEF Becomes
  <1>2. CASE Quiets(c)
    <2>1. Plumbed(c, st'[c])
      BY <1>0, <1>2, QuietsPlumb
    <2>2. Silent(st'[c])
      BY <2>1 DEF Plumbed, Download, Silent, SameBody
    <2> QED  BY <2>1, <2>2, PlumbingKeeps DEF Plumbed, Download, Sound
  <1>3. CASE CancelDownloader(c) \/ Release(c)
    <2> DEFINE u == [s EXCEPT !.dl = FALSE, !.app = "cancel1", !.heard = s.done]
               w == [s EXCEPT !.held = FALSE, !.app = "cancelled", !.heard = s.done]
    <2>1. CASE CancelDownloader(c)
      <3>1. st'[c] = u /\ s.held
        BY <1>1, <2>1 DEF CancelDownloader, Download, Sound, Stops
      <3>2. Sound(u) /\ Silent(u)
        BY <1>0, <3>1 DEF Download, Sound, Typed, Fields, Sizes, Stops, Silent
      <3>3. Filed(u, 0)
        BY <1>0 DEF Download, Typed, Fields, Filed, Undisturbed
      <3> QED  BY <3>1, <3>2, <3>3 DEF Download
    <2>2. CASE Release(c)
      <3>1. st'[c] = w /\ ~s.dl /\ s.stoped
        BY <1>1, <2>2 DEF Release, Download, Sound, Stops
      <3>2. Sound(w) /\ Silent(w)
        BY <1>0, <3>1 DEF Download, Sound, Typed, Fields, Sizes, Stops, Silent
      <3>3. Filed(w, 0)
        BY <1>0 DEF Download, Typed, Fields, Filed, Undisturbed
      <3> QED  BY <3>1, <3>2, <3>3 DEF Download
    <2> QED  BY <1>3, <2>1, <2>2
  <1>4. CASE ConnectFails(c)
    <2> DEFINE h == HandleCleanUp(s)
               u == [h EXCEPT !.phase = "over"]
               w == [u EXCEPT !.http_code = 404]
    <2>1. PICK t \in (IF u.net THEN NotifyComplete(c, w) ELSE {u}) : Becomes(c, t)
      BY <1>4 DEF ConnectFails
    <2>4. /\ Typed(h) /\ SameBody(s, h) /\ h.delegate = s.delegate /\ h.stuck = s.stuck
          /\ h.dl = s.dl /\ h.app = s.app /\ h.held = s.held /\ h.stoped = s.stoped
      BY <1>0, CleanUpEffect
    <2> HIDE DEF h
    <2>5. Silent(h) /\ Stops(h)
      BY <2>4 DEF Download, Sound, Silent, Stops, SameBody
    <2>2. Download(h, 0)
      BY <2>4, <2>5, PlumbingKeeps
    <2>3. Download(u, 0) /\ Download(w, 0)
      BY <2>2 DEF Download, Sound, Typed, Fields, Sizes, Stops, Silent, Filed, Undisturbed
    <2> HIDE DEF u, w
    <2> QED  BY <1>1, <2>1, <2>3, DownloadNotified
  <1>5. CASE WriteFails(c)
    <2> DEFINE u == [s EXCEPT !.write = FALSE]
    <2>1. PICK t \in Disconnected(c, u) : Becomes(c, t)
      BY <1>5 DEF WriteFails
    <2>2. Download(u, 0)
      BY DEF Download, Sound, Typed, Fields, Sizes, Stops, Silent, Filed, Undisturbed
    <2> HIDE DEF u
    <2> QED  BY <1>1, <2>1, <2>2, DownloadNotified
  <1>6. CASE ReadFails(c)
    <2> DEFINE u == [s EXCEPT !.read = FALSE]
    <2>1. PICK t \in Disconnected(c, u) : Becomes(c, t)
      BY <1>6 DEF ReadFails
    <2>2. Download(u, 0)
      BY DEF Download, Sound, Typed, Fields, Sizes, Stops, Silent, Filed, Undisturbed
    <2> HIDE DEF u
    <2> QED  BY <1>1, <2>1, <2>2, DownloadNotified
  <1>7. CASE ReadFinish(c)
    <2> DEFINE u == [s EXCEPT !.stage = "end"]
    <2>1. PICK t \in NotifyComplete(c, u) :
             Becomes(c, IF t.stuck THEN t ELSE [t EXCEPT !.recv_complete = TRUE, !.read = FALSE])
      BY <1>7 DEF ReadFinish
    <2>2. Download(u, 0)
      BY <1>7 DEF Download, Sound, Typed, Fields, Sizes, Stops, Silent, Filed, Undisturbed, ReadFinish
    <2> HIDE DEF u
    <2>3. Download(t, 0)
      BY <2>1, <2>2, DownloadNotified
    <2>4. Download([t EXCEPT !.recv_complete = TRUE, !.read = FALSE], 0)
      BY <2>3 DEF Download, Sound, Typed, Fields, Sizes, Stops, Silent, Filed, Undisturbed
    <2> QED  BY <1>1, <2>1, <2>3, <2>4
  <1>8. CASE ReadBody(c)
    <2> DEFINE n == s.received + 1
               u == [s EXCEPT !.received = n]
    <2>1. PICK t \in NotifyResponse(c, u) : Becomes(c, t)
      BY <1>8 DEF ReadBody
    <2>2. n \in Nat /\ n <= s.due /\ s.stage # "head"
      BY <1>0, <1>8 DEF Typed, ReadBody
    <2>3. Sound(u) /\ Silent(u)
      <3> HIDE DEF n
      <3> QED  BY <2>2 DEF Download, Sound, Typed, Fields, Sizes, Stops, Silent
    <2>4. Filed(u, 1)
      BY DEF Download, Sound, Typed, Fields, Filed, Undisturbed
    <2>5. ~u.delegate => Filed(u, 0)
      BY DEF Filed, Undisturbed
    <2> HIDE DEF u
    <2>6. CASE ~u.delegate
      <3>1. t = u
        BY <2>1, <2>6 DEF NotifyResponse
      <3> QED  BY <1>1, <2>1, <2>3, <2>5, <2>6, <3>1 DEF Download
    <2>7. CASE u.delegate
      <3>1. t \in DownloadResponse(u)
        BY <2>1, <2>7 DEF NotifyResponse, IsDownload
      <3> QED  BY <1>1, <2>1, <2>3, <2>4, <3>1, ResponseKeeps DEF Download
    <2> QED  BY <2>6, <2>7
  <1>9. CASE ReadHead(c)
    <2>1. PICK code \in {200, 500}, r \in Replies, due \in {0, Pieces}, announced \in BOOLEAN :
             /\ IF IsDownload(c) THEN r = [code |-> 200, signed |-> TRUE] ELSE due = Pieces /\ ~announced
             /\ Becomes(c, [s EXCEPT !.stage = "body", !.http_code = code, !.reply = r, !.due = due,
                                     !.total_size = IF announced /\ s.delegate THEN due ELSE @])
      BY <1>9 DEF ReadHead
    <2> DEFINE total == IF announced /\ s.delegate THEN due ELSE s.total_size
               u == [s EXCEPT !.stage = "body", !.http_code = code, !.reply = r, !.due = due,
                              !.total_size = total]
    <2>2. st'[c] = u
      BY <1>1, <2>1
    <2>3. s.received = 0 /\ s.total_size = 0 /\ due \in Nat
      BY <1>9, PiecesAssumption DEF ReadHead, Download, Sound, Sizes
    <2>4. total \in Nat /\ (total # 0 => total = due)
      BY <2>3
    <2>5. r \in [code : Int, signed : BOOLEAN] /\ code \in Int
      BY DEF Replies
    <2> HIDE DEF total
    <2>6. Typed(u) /\ Sizes(u)
      BY <1>0, <2>3, <2>4, <2>5 DEF Download, Sound, Typed, Fields, Sizes
    <2>7. Filed(u, 0) /\ Silent(u) /\ Stops(u) /\ u.app # "requested" /\ ~u.dangled
      BY <1>0 DEF Download, Sound, Typed, Fields, Stops, Silent, Filed, Undisturbed
    <2> HIDE DEF u
    <2> QED  BY <2>2, <2>6, <2>7 DEF Download, Sound
  <1>10. ~(AuthRequest(c) \/ AuthInsert(c) \/ AuthCancel(c))
    BY <1>0 DEF AuthRequest, AuthInsert, AuthCancel, Download, Sound
  <1>11. ~ResolvedFreed(c)
    <2> SUFFICES ASSUME ResolvedFreed(c) PROVE FALSE
      OBVIOUS
    <2>1. s.phase = "lookup" /\ ~s.held /\ ~HasCleanUp(s)
      BY DEF ResolvedFreed, Alive, HasCleanUp
    <2>2. s.app = "cancelled" /\ s.stoped
      BY <2>1 DEF Download, Sound, Stops
    <2> QED  BY <2>1, <2>2 DEF Posts, Begins
  <1> QED  BY <1>2, <1>3, <1>4, <1>5, <1>6, <1>7, <1>8, <1>9, <1>10, <1>11 DEF Step, Quiets

-----------------------------------------------------------------------------
(* The connection goes its way, whoever uses it.                           *)

\* Taking the first entry off a queue leaves the others, each one place further on.
LEMMA TailEntries ==
    ASSUME NEW s, Typed(s), s.posted # <<>>
    PROVE  LET p == Tail(s.posted)
           IN  /\ p \in Seq(Jobs) /\ Head(s.posted) = s.posted[1] /\ 1 \in DOMAIN s.posted
               /\ \A i \in DOMAIN p : i + 1 \in DOMAIN s.posted /\ i + 1 # 1 /\ p[i] = s.posted[i + 1]
               /\ \A i \in DOMAIN s.posted \ {1} : i - 1 \in DOMAIN p /\ p[i - 1] = s.posted[i]
               /\ p # <<>> => 1 \in DOMAIN p
  <1> DEFINE p == Tail(s.posted)
  <1>1. s.posted \in Seq(Jobs)
    BY DEF Typed
  <1>2. Len(s.posted) \in Nat /\ Len(s.posted) # 0 /\ DOMAIN s.posted = 1 .. Len(s.posted)
    BY <1>1, LenProperties, EmptySeq
  <1>3. /\ p \in Seq(Jobs) /\ Head(s.posted) = s.posted[1] /\ Len(p) = Len(s.posted) - 1
        /\ \A i \in 1 .. Len(p) : p[i] = s.posted[i + 1]
    BY <1>1, <1>2, HeadTailProperties
  <1>4. DOMAIN p = 1 .. Len(p) /\ (p # <<>> => Len(p) # 0)
    BY <1>3, LenProperties, EmptySeq
  <1> HIDE DEF p
  <1>5. /\ 1 \in DOMAIN s.posted
        /\ \A i \in DOMAIN p : i + 1 \in DOMAIN s.posted /\ i + 1 # 1 /\ p[i] = s.posted[i + 1]
    BY <1>2, <1>3, <1>4
  <1>6. ASSUME NEW i \in DOMAIN s.posted \ {1} PROVE i - 1 \in DOMAIN p /\ p[i - 1] = s.posted[i]
    <2>1. i \in 1 .. Len(s.posted) /\ i # 1 /\ i \in Int
      BY <1>2
    <2>2. i - 1 \in 1 .. Len(p) /\ (i - 1) + 1 = i
      BY <1>2, <1>3, <2>1
    <2> QED  BY <1>3, <1>4, <2>2
  <1>7. p # <<>> => 1 \in DOMAIN p
    BY <1>2, <1>3, <1>4
  <1> QED  BY <1>3, <1>5, <1>6, <1>7 DEF p

\* A client whose connect is done asks for no more.
LEMMA LateOrder == ASSUME NEW s, Late(s) PROVE Line(s) /\ Posts(s)
  BY LateLine DEF Posts, Late

\* The runnables keep the order.
LEMMA LineRunPosted ==
    ASSUME NEW c \in Clients, Typed(st[c]), Line(st[c]), Posts(st[c]), DOMAIN st = Clients, RunPosted(c)
    PROVE  Line(st'[c]) /\ Posts(st'[c])
  <1> DEFINE s == st[c]
             p == Tail(s.posted)
             u == [s EXCEPT !.posted = p]
             q == Append(p, "resolve")
             job == Head(s.posted)
             t == st'[c]
             h == HandleCleanUp(u)
             r == [u EXCEPT !.phase = "resolving", !.posted = q]
             l == [u EXCEPT !.phase = IF @ = "resolving" THEN "lookup" ELSE @]
             w == [u EXCEPT !.write = TRUE]
  <1>1. s.posted # <<>> /\ s.app # "new"
    BY DEF RunPosted, Line
  <1>2. /\ p \in Seq(Jobs) /\ job = s.posted[1] /\ 1 \in DOMAIN s.posted
        /\ \A i \in DOMAIN p : i + 1 \in DOMAIN s.posted /\ i + 1 # 1 /\ p[i] = s.posted[i + 1]
        /\ \A i \in DOMAIN s.posted \ {1} : i - 1 \in DOMAIN p /\ p[i - 1] = s.posted[i]
        /\ p # <<>> => 1 \in DOMAIN p
    BY <1>1, TailEntries
  <1>3. job \in Jobs
    BY <1>2 DEF Typed
  <1>4. u.posted = p
    BY DEF Typed, Fields
  <1>5. t = IF job = "cleanup" THEN h
            ELSE IF ~Alive(s) THEN u
            ELSE IF job = "connect" THEN r
            ELSE IF job = "resolve" THEN l
            ELSE IF u.clean THEN u
            ELSE w
    BY <1>4 DEF RunPosted, Becomes
  <1> HIDE DEF p, job, t
  <1>6. /\ Typed(u) /\ u.posted = p /\ u.phase = s.phase /\ u.app = s.app /\ u.held = s.held /\ u.stoped = s.stoped
        /\ u.read = s.read /\ u.write = s.write /\ u.clean = s.clean /\ u.dl = s.dl
    BY <1>2 DEF Typed, Fields
  <1>7. \A i \in DOMAIN p : p[i] # "connect"
    BY <1>2 DEF Line
  <1>8. s.phase \notin Begins => Late(u)
    BY <1>1, <1>6, <1>7 DEF Late
  <1> HIDE DEF q, u, s
  <1>9. CASE job = "cleanup"
    <2>1. s.phase # "new"
      BY <1>1, <1>2, <1>9 DEF Line, s
    <2>2. /\ h.app = u.app /\ h.posted = u.posted
          /\ u.phase \notin {"resolving", "lookup"} => h.phase = u.phase
          /\ u.phase \in {"resolving", "lookup"} /\ ~u.clean => h.phase = "over"
          /\ u.clean => h = u
      BY <1>6, CleanUpEffect
    <2> HIDE DEF h
    <2>3. s.clean => s.phase \notin Begins
      BY DEF Line, s
    <2>4. h.phase \notin Begins
      BY <1>6, <2>1, <2>2, <2>3 DEF Begins
    <2>5. Late(h)
      BY <1>1, <1>6, <1>7, <2>2, <2>4 DEF Late
    <2> QED  BY <1>5, <1>9, <2>5, LateOrder DEF t
  <1>10. CASE job # "cleanup" /\ ~Alive(s)
    <2>1. t = u
      BY <1>5, <1>10
    <2>2. ~s.held /\ ~s.read /\ ~s.write /\ ~HasCleanUp(s)
      BY <1>10 DEF Alive, HasCleanUp
    <2>3. ~(s.stoped /\ s.app # "cancel3" /\ s.phase \in Begins)
      BY <2>2 DEF Posts, s
    <2>4. Posts(u)
      BY <1>6, <2>3 DEF Posts
    <2>5. CASE s.phase \in Begins
      <3>1. s.app = "cancelled"
        BY <2>2, <2>5 DEF Line, s
      <3>2. s.phase = "new" => p = <<>>
        <4> SUFFICES ASSUME s.phase = "new", p # <<>> PROVE FALSE
          OBVIOUS
        <4>1. 1 \in DOMAIN p /\ 1 + 1 \in DOMAIN s.posted /\ p[1] = s.posted[1 + 1]
          BY <1>2
        <4>2. p[1] \in Jobs
          BY <1>2, <4>1
        <4>3. p[1] # "cleanup" /\ p[1] # "connect"
          BY <1>7, <2>2, <4>1 DEF HasCleanUp
        <4>4. p[1] # "resolve" /\ p[1] # "send"
          BY <2>5, <4>1 DEF Line, s
        <4> QED  BY <4>2, <4>3, <4>4 DEF Jobs
      <3>3. \A i \in DOMAIN p : (p[i] = "resolve" => s.phase # "new") /\ p[i] # "send"
        BY <1>2, <2>5 DEF Line, s
      <3>4. ~s.clean
        BY <2>5 DEF Line, s
      <3>5. Line(u)
        BY <1>6, <1>7, <2>2, <3>1, <3>2, <3>3, <3>4 DEF Line
      <3> QED  BY <2>1, <2>4, <3>5 DEF t
    <2>6. CASE s.phase \notin Begins
      BY <1>8, <2>1, <2>6, LateOrder DEF t
    <2> QED  BY <2>5, <2>6
  <1>11. CASE job = "connect" /\ Alive(s)
    <2>1. t = r
      BY <1>5, <1>11
    <2>2. s.phase = "new" /\ ~s.read /\ ~s.write /\ ~s.clean
      BY <1>2, <1>11 DEF Line, Begins, s
    <2>3. /\ \A i \in DOMAIN q : q[i] = "resolve" \/ (i \in DOMAIN p /\ q[i] = p[i])
          /\ \A i \in DOMAIN p : i \in DOMAIN q /\ q[i] = p[i]
      BY <1>6, AppendEntries DEF Jobs, q
    <2>4. /\ r.posted = q /\ r.phase = "resolving" /\ r.app = s.app /\ r.held = s.held /\ r.stoped = s.stoped
          /\ r.read = s.read /\ r.write = s.write /\ r.clean = s.clean /\ r.dl = s.dl
      BY <1>6 DEF Typed, Fields
    <2> HIDE DEF r
    <2>5. \A i \in DOMAIN p : p[i] # "send"
      BY <1>2, <2>2 DEF Line, Begins, s
    <2>6. ~s.held => s.app = "cancelled"
      BY <2>2 DEF Line, Begins, s
    <2>7. Line(r)
      BY <1>1, <1>7, <2>2, <2>3, <2>4, <2>5, <2>6 DEF Line
    <2>8. HasCleanUp(s) => HasCleanUp(r)
      <3> SUFFICES ASSUME NEW i \in DOMAIN s.posted, s.posted[i] = "cleanup" PROVE HasCleanUp(r)
        BY DEF HasCleanUp
      <3>1. i # 1
        BY <1>2, <1>11
      <3>2. i - 1 \in DOMAIN q /\ q[i - 1] = "cleanup"
        BY <1>2, <2>3, <3>1
      <3> QED  BY <2>4, <3>2 DEF HasCleanUp
    <2>9. Posts(r)
      BY <2>2, <2>4, <2>8 DEF Posts, Begins, s
    <2> QED  BY <2>1, <2>7, <2>9 DEF t
  <1>12. CASE job = "resolve" /\ Alive(s)
    <2>1. t = l
      BY <1>5, <1>12
    <2>2. /\ l.posted = p /\ l.app = s.app /\ l.held = s.held /\ l.stoped = s.stoped
          /\ l.read = s.read /\ l.write = s.write /\ l.clean = s.clean /\ l.dl = s.dl
          /\ l.phase = IF s.phase = "resolving" THEN "lookup" ELSE s.phase
      BY <1>6 DEF Typed, Fields
    <2>3. s.phase # "new"
      BY <1>2, <1>12 DEF Line, s
    <2> HIDE DEF l
    <2>4. CASE s.phase \in Begins
      <3>1. l.phase = "lookup"
        BY <2>2, <2>3, <2>4 DEF Begins
      <3>2. \A i \in DOMAIN p : p[i] # "send"
        BY <1>2, <2>4 DEF Line, s
      <3>3. (~s.held => s.app = "cancelled") /\ ~s.read /\ ~s.write /\ ~s.clean
        BY <2>4 DEF Line, s
      <3>4. Line(l)
        BY <1>1, <1>7, <2>2, <3>1, <3>2, <3>3 DEF Line
      <3>5. HasCleanUp(s) => HasCleanUp(l)
        <4> SUFFICES ASSUME NEW i \in DOMAIN s.posted, s.posted[i] = "cleanup" PROVE HasCleanUp(l)
          BY DEF HasCleanUp
        <4>1. i # 1
          BY <1>2, <1>12
        <4>2. i - 1 \in DOMAIN p /\ p[i - 1] = "cleanup"
          BY <1>2, <4>1
        <4> QED  BY <2>2, <4>2 DEF HasCleanUp
      <3>6. Posts(l)
        BY <2>2, <2>4, <3>5 DEF Posts, s
      <3> QED  BY <2>1, <3>4, <3>6 DEF t
    <2>5. CASE s.phase \notin Begins
      <3>1. Late(l)
        BY <1>1, <1>7, <2>2, <2>5 DEF Late, Begins
      <3> QED  BY <2>1, <3>1, LateOrder DEF t
    <2> QED  BY <2>4, <2>5
  <1>13. CASE job = "send" /\ Alive(s)
    <2>1. s.phase \notin Begins
      BY <1>2, <1>13 DEF Line, s
    <2>2. Late(u)
      BY <1>8, <2>1
    <2>3. w.phase = u.phase /\ w.app = u.app /\ w.posted = u.posted
      BY <1>6 DEF Typed, Fields
    <2>4. t = u \/ t = w
      BY <1>5, <1>13
    <2> HIDE DEF w
    <2>5. Late(t)
      BY <2>2, <2>3, <2>4 DEF Late
    <2> QED  BY <2>5, LateOrder DEF t
  <1> QED  BY <1>3, <1>9, <1>10, <1>11, <1>12, <1>13 DEF Jobs

\* The handlers of an operation, which runs only once the connect is done.
LEMMA HandlersLate ==
    ASSUME NEW c \in Clients, Typed(st[c]), Line(st[c]), DOMAIN st = Clients,
           WriteDone(c) \/ WriteFails(c) \/ ReadHead(c) \/ ReadBody(c) \/ ReadFinish(c) \/ ReadFails(c)
    PROVE  Late(st'[c])
  <1> DEFINE s == st[c]
  <1>1. ASSUME NEW t, Becomes(c, t) PROVE st'[c] = t
    BY <1>1 DEF Becomes
  <1>2. s.read \/ s.write
    BY DEF WriteDone, WriteFails, ReadHead, ReadBody, ReadFinish, ReadFails
  <1>3. Late(s)
    BY <1>2, LateLine DEF Line
  <1>4. ASSUME NEW u, Typed(u), u.phase = s.phase, u.app = s.app, u.posted = s.posted PROVE Late(u)
    BY <1>3, <1>4 DEF Late
  <1>5. CASE WriteDone(c)
    <2>1. st'[c] = [s EXCEPT !.write = FALSE]
      BY <1>1, <1>5 DEF WriteDone
    <2> QED  BY <1>3, <2>1 DEF Late, Typed, Fields
  <1>6. CASE WriteFails(c)
    <2> DEFINE u == [s EXCEPT !.write = FALSE]
    <2>1. PICK t \in Disconnected(c, u) : Becomes(c, t)
      BY <1>6 DEF WriteFails
    <2>2. Typed(u) /\ u.phase = s.phase /\ u.app = s.app /\ u.posted = s.posted
      BY DEF Typed, Fields
    <2> HIDE DEF u, s
    <2> QED  BY <1>1, <1>4, <2>1, <2>2, DisconnectedLate
  <1>7. CASE ReadFails(c)
    <2> DEFINE u == [s EXCEPT !.read = FALSE]
    <2>1. PICK t \in Disconnected(c, u) : Becomes(c, t)
      BY <1>7 DEF ReadFails
    <2>2. Typed(u) /\ u.phase = s.phase /\ u.app = s.app /\ u.posted = s.posted
      BY DEF Typed, Fields
    <2> HIDE DEF u, s
    <2> QED  BY <1>1, <1>4, <2>1, <2>2, DisconnectedLate
  <1>8. CASE ReadHead(c)
    <2>1. PICK code \in {200, 500}, r \in Replies, due \in {0, Pieces}, announced \in BOOLEAN :
             /\ IF IsDownload(c) THEN r = [code |-> 200, signed |-> TRUE] ELSE due = Pieces /\ ~announced
             /\ Becomes(c, [s EXCEPT !.stage = "body", !.http_code = code, !.reply = r, !.due = due,
                                     !.total_size = IF announced /\ s.delegate THEN due ELSE @])
      BY <1>8 DEF ReadHead
    <2> DEFINE total == IF announced /\ s.delegate THEN due ELSE s.total_size
               u == [s EXCEPT !.stage = "body", !.http_code = code, !.reply = r, !.due = due,
                              !.total_size = total]
    <2>2. st'[c] = u
      BY <1>1, <2>1
    <2> HIDE DEF total
    <2>3. u.phase = s.phase /\ u.app = s.app /\ u.posted = s.posted
      BY DEF Typed, Fields
    <2> HIDE DEF u
    <2> QED  BY <1>3, <2>2, <2>3 DEF Late
  <1>9. CASE ReadBody(c)
    <2> DEFINE n == s.received + 1
               u == [s EXCEPT !.received = n]
    <2>1. PICK t \in NotifyResponse(c, u) : Becomes(c, t)
      BY <1>9 DEF ReadBody
    <2>2. n \in Nat
      BY DEF Typed
    <2> HIDE DEF n
    <2>3. Typed(u) /\ u.phase = s.phase /\ u.app = s.app /\ u.posted = s.posted
      BY <2>2 DEF Typed, Fields
    <2> HIDE DEF u, s
    <2>4. Late(u) /\ Calls(u, t)
      BY <1>4, <2>1, <2>3, NotifiedCalls
    <2> QED  BY <1>1, <2>1, <2>4, CallsLate
  <1>10. CASE ReadFinish(c)
    <2> DEFINE u == [s EXCEPT !.stage = "end"]
    <2>1. PICK t \in NotifyComplete(c, u) :
             Becomes(c, IF t.stuck THEN t ELSE [t EXCEPT !.recv_complete = TRUE, !.read = FALSE])
      BY <1>10 DEF ReadFinish
    <2>2. Typed(u) /\ u.phase = s.phase /\ u.app = s.app /\ u.posted = s.posted
      BY DEF Typed, Fields
    <2> HIDE DEF u, s
    <2>3. Late(t) /\ Typed(t)
      BY <1>4, <2>1, <2>2, NotifiedCalls, CallsLate DEF Calls
    <2>4. Late([t EXCEPT !.recv_complete = TRUE, !.read = FALSE])
      BY <2>3 DEF Late, Typed, Fields
    <2>5. st'[c] = t \/ st'[c] = [t EXCEPT !.recv_complete = TRUE, !.read = FALSE]
      BY <1>1, <2>1
    <2> QED  BY <2>3, <2>4, <2>5
  <1> QED  BY <1>5, <1>6, <1>7, <1>8, <1>9, <1>10

\* Every step keeps the order, and the clean-up of a stopped connection coming.
LEMMA LineStep ==
    ASSUME NEW c \in Clients, Typed(st[c]), Line(st[c]), Posts(st[c]), DOMAIN st = Clients, Step(c)
    PROVE  Line(st'[c]) /\ Posts(st'[c])
  <1> DEFINE s == st[c]
  <1>1. ASSUME NEW t, Becomes(c, t) PROVE st'[c] = t
    BY <1>1 DEF Becomes
  <1>2. CASE RunPosted(c)
    BY <1>2, LineRunPosted
  <1>3. CASE WriteDone(c) \/ WriteFails(c) \/ ReadHead(c) \/ ReadBody(c) \/ ReadFinish(c) \/ ReadFails(c)
    BY <1>3, HandlersLate, LateOrder
  <1>4. CASE Resolved(c) \/ ResolvedFreed(c)
    <2>1. s.phase = "lookup"
      BY <1>4 DEF Resolved, ResolvedFreed
    <2>2. s.app # "new" /\ \A i \in DOMAIN s.posted : s.posted[i] # "connect"
      BY <2>1 DEF Line
    <2>3. \/ st'[c] = [s EXCEPT !.phase = "connecting"]
          \/ \E ends \in BOOLEAN : st'[c] = [s EXCEPT !.phase = "over", !.dangled = TRUE, !.stuck = ends]
      BY <1>1, <1>4 DEF Resolved, ResolvedFreed
    <2>4. st'[c].app = s.app /\ st'[c].posted = s.posted /\ st'[c].phase \notin Begins
      <3>1. CASE st'[c] = [s EXCEPT !.phase = "connecting"]
        BY <3>1 DEF Typed, Fields, Begins
      <3>2. ASSUME NEW ends \in BOOLEAN, st'[c] = [s EXCEPT !.phase = "over", !.dangled = TRUE, !.stuck = ends]
            PROVE  st'[c].app = s.app /\ st'[c].posted = s.posted /\ st'[c].phase \notin Begins
        BY <3>2 DEF Typed, Fields, Begins
      <3> QED  BY <2>3, <3>1, <3>2
    <2>5. Late(st'[c])
      BY <2>2, <2>4 DEF Late
    <2> QED  BY <2>5, LateOrder
  <1>5. CASE ConnectFails(c)
    <2> DEFINE h == HandleCleanUp(s)
               u == [h EXCEPT !.phase = "over"]
               w == [u EXCEPT !.http_code = 404]
    <2>1. PICK t \in (IF u.net THEN NotifyComplete(c, w) ELSE {u}) : Becomes(c, t)
      BY <1>5 DEF ConnectFails
    <2>2. s.app # "new" /\ \A i \in DOMAIN s.posted : s.posted[i] # "connect"
      BY <1>5 DEF Line, ConnectFails
    <2>3. Typed(h) /\ h.app = s.app /\ h.posted = s.posted
      BY CleanUpEffect
    <2> HIDE DEF h
    <2>4. Typed(u) /\ Typed(w) /\ u.phase = "over" /\ w.phase = "over" /\ u.app = s.app /\ w.app = s.app
          /\ u.posted = s.posted /\ w.posted = s.posted
      BY <2>3 DEF Typed, Fields
    <2> HIDE DEF u, w, s
    <2>5. Late(u) /\ Late(w)
      BY <2>2, <2>4 DEF Late, Begins
    <2>6. Late(t)
      BY <2>1, <2>4, <2>5, NotifiedCalls, CallsLate
    <2> QED  BY <1>1, <2>1, <2>6, LateOrder
  <1>6. CASE Connected(c)
    <2> DEFINE u == [s EXCEPT !.phase = "open", !.read = TRUE]
               q == Append(s.posted, "send")
    <2>1. Late(s)
      BY <1>6, LateLine DEF Connected, Begins
    <2>2. u.posted = s.posted /\ u.app = s.app /\ u.phase = "open" /\ Typed(u)
      BY DEF Typed, Fields
    <2>3. Late(u)
      BY <2>1, <2>2 DEF Late, Begins
    <2>4. \A i \in DOMAIN q : q[i] = "send" \/ (i \in DOMAIN s.posted /\ q[i] = s.posted[i])
      BY AppendEntries DEF Jobs
    <2>5. st'[c] = u \/ st'[c] = [u EXCEPT !.posted = q]
      BY <1>1, <1>6, <2>2 DEF Connected, Send
    <2> HIDE DEF q, u
    <2>6. Late([u EXCEPT !.posted = q])
      BY <2>1, <2>2, <2>3, <2>4 DEF Late, Typed, Fields
    <2> QED  BY <2>3, <2>5, <2>6, LateOrder
  <1>7. CASE Start(c) \/ AuthRequest(c)
    <2> DEFINE q == Append(s.posted, "connect")
    <2>1. s.app = "new" /\ s.posted = <<>> /\ s.phase = "new"
      BY <1>7 DEF Start, AuthRequest, Line
    <2>2. q = <<"connect">>
      BY <2>1
    <2>3. DOMAIN q = {1} /\ q[1] = "connect" /\ q # <<>>
      BY <2>2
    <2>4. PICK a \in {"running", "requested"} : st'[c] = [[s EXCEPT !.posted = q] EXCEPT !.app = a]
      BY <1>1, <1>7 DEF Start, AuthRequest, Connect
    <2> HIDE DEF q
    <2>5. ~HasCleanUp(s)
      BY <2>1 DEF HasCleanUp
    <2>6. ~s.stoped
      BY <2>1, <2>5 DEF Posts, Begins
    <2>7. /\ st'[c].posted = q /\ st'[c].app = a /\ st'[c].phase = "new" /\ st'[c].stoped = s.stoped
          /\ st'[c].held = s.held /\ st'[c].read = s.read /\ st'[c].write = s.write /\ st'[c].clean = s.clean
      BY <2>1, <2>4 DEF Typed, Fields
    <2>8. s.held /\ ~s.read /\ ~s.write /\ ~s.clean
      BY <2>1 DEF Line, Begins
    <2>9. Line(st'[c])
      BY <2>3, <2>7, <2>8 DEF Line
    <2> QED  BY <2>6, <2>7, <2>9 DEF Posts
  <1>8. CASE CancelDownloader(c) \/ CancelClient(c) \/ AuthInsert(c) \/ Release(c) \/ AuthCancel(c) \/ DisConnect(c)
    <2> DEFINE t == st'[c]
    <2>1. /\ t.posted = s.posted /\ t.phase = s.phase /\ t.read = s.read /\ t.write = s.write /\ t.clean = s.clean
          /\ t.app \in {"running", "cancel1", "cancel2", "cancel3", "cancelled"} /\ s.app \notin {"new", "unused", "cancel3"}
          /\ (t.stoped = s.stoped \/ t.app = "cancel3")
          /\ (t.held = s.held \/ t.app = "cancelled")
          /\ (s.app = "cancelled" => t.app = "cancelled")
      <3>1. CASE CancelDownloader(c)
        <4>1. t = [s EXCEPT !.dl = FALSE, !.app = "cancel1", !.heard = s.done] /\ s.app = "running"
          BY <1>1, <3>1 DEF CancelDownloader
        <4> QED  BY <4>1 DEF Typed, Fields
      <3>2. CASE CancelClient(c)
        <4>1. t = [s EXCEPT !.delegate = FALSE, !.app = "cancel2"] /\ s.app = "cancel1"
          BY <1>1, <3>2 DEF CancelClient
        <4> QED  BY <4>1 DEF Typed, Fields
      <3>3. CASE AuthInsert(c)
        <4>1. t = [s EXCEPT !.app = "running", !.listed = TRUE] /\ s.app = "requested"
          BY <1>1, <3>3 DEF AuthInsert
        <4> QED  BY <4>1 DEF Typed, Fields
      <3>4. CASE Release(c)
        <4>1. t = [s EXCEPT !.held = FALSE, !.app = "cancelled", !.heard = s.done] /\ s.app \in {"running", "cancelled"}
          BY <1>1, <3>4 DEF Release
        <4> QED  BY <4>1 DEF Typed, Fields
      <3>5. CASE AuthCancel(c)
        <4>1. /\ t = [s EXCEPT !.listed = FALSE, !.held = FALSE, !.app = "cancelled", !.heard = s.done]
              /\ s.app = "running"
          BY <1>1, <3>5 DEF AuthCancel
        <4> QED  BY <4>1 DEF Typed, Fields
      <3>6. CASE DisConnect(c)
        <4>1. /\ s.app = "cancel2"
              /\ t = [s EXCEPT !.app = "cancelled"] \/ t = [s EXCEPT !.stoped = TRUE, !.app = "cancel3"]
          BY <1>1, <3>6 DEF DisConnect
        <4>2. CASE t = [s EXCEPT !.app = "cancelled"]
          BY <4>1, <4>2 DEF Typed, Fields
        <4>3. CASE t = [s EXCEPT !.stoped = TRUE, !.app = "cancel3"]
          BY <4>1, <4>3 DEF Typed, Fields
        <4> QED  BY <4>1, <4>2, <4>3
      <3> QED  BY <1>8, <3>1, <3>2, <3>3, <3>4, <3>5, <3>6
    <2> HIDE DEF t
    <2>2. Line(t)
      <3>1. \A i \in DOMAIN t.posted :
               /\ t.posted[i] = "connect" => i = 1 /\ t.phase = "new"
               /\ t.posted[i] = "resolve" => t.phase # "new"
               /\ t.posted[i] = "send" => t.phase \notin Begins
        BY <2>1 DEF Line
      <3>2. /\ t.read \/ t.write \/ t.clean => t.phase \notin Begins
            /\ t.phase = "new" /\ t.posted # <<>> => t.posted[1] = "connect"
            /\ t.app # "new"
        BY <2>1 DEF Line
      <3>3. t.phase = "new" /\ t.posted = <<>> => t.app \in {"new", "unused", "cancelled"}
        BY <2>1 DEF Line
      <3>4. t.phase \in Begins /\ ~t.held => t.app = "cancelled"
        BY <2>1 DEF Line
      <3> QED  BY <3>1, <3>2, <3>3, <3>4 DEF Line
    <2>3. Posts(t)
      BY <2>1 DEF Posts, HasCleanUp
    <2> QED  BY <2>2, <2>3 DEF t
  <1>9. CASE PostCleanUp(c)
    <2> DEFINE q == Append(s.posted, "cleanup")
               t == [s EXCEPT !.net = FALSE, !.posted = q, !.app = "cancelled"]
    <2>1. st'[c] = t /\ s.app = "cancel3"
      BY <1>1, <1>9 DEF PostCleanUp
    <2>2. /\ q # <<>> /\ (s.posted # <<>> => q[1] = s.posted[1])
          /\ \A i \in DOMAIN q : q[i] = "cleanup" \/ (i \in DOMAIN s.posted /\ q[i] = s.posted[i])
          /\ \E i \in DOMAIN q : q[i] = "cleanup"
      BY AppendEntries DEF Jobs
    <2> HIDE DEF q
    <2>3. /\ t.posted = q /\ t.phase = s.phase /\ t.read = s.read /\ t.write = s.write /\ t.clean = s.clean
          /\ t.app = "cancelled"
      BY DEF Typed, Fields
    <2> HIDE DEF t
    <2>4. s.phase = "new" => s.posted # <<>>
      BY <2>1 DEF Line
    <2>5. Line(t)
      BY <2>2, <2>3, <2>4 DEF Line
    <2>6. Posts(t)
      BY <2>2, <2>3 DEF Posts, HasCleanUp
    <2> QED  BY <2>1, <2>5, <2>6
  <1> QED  BY <1>2, <1>3, <1>4, <1>5, <1>6, <1>7, <1>8, <1>9 DEF Step

-----------------------------------------------------------------------------
(* A client of the AuthManager.                                            *)

\* Nothing runs yet for a client that AuthRequest has not used.
Fresh(s) ==
    /\ s.phase = "new" /\ s.posted = <<>> /\ ~s.read /\ ~s.write
    /\ s.held /\ s.delegate /\ s.net

\* An answer is the first and, the client's delegate being gone, the last; a
\* 200 was the code of the head, and a signature of the request came with it.
Answered(s) ==
    /\ s.done # <<>> => Len(s.done) = 1 /\ (~s.delegate \/ s.stuck)
    /\ s.http_code = 200 => s.stage # "head"
    /\ s.done = <<200>> =>
         s.stage # "head" /\ s.reply.signed /\ s.data > 0 /\ (s.data = Pieces => s.reply.code = 200)

\* AuthCancel leaves no entry and hears nothing from then on; no other call drops
\* the client while it may still be called.
Entered(s) ==
    /\ s.app \notin {"cancel1", "cancel2", "cancel3"}
    /\ s.listed => s.app = "running"
    /\ s.app = "new" => Fresh(s)
    /\ s.app = "cancelled" => s.done = s.heard
    /\ s.dangled => s.app = "cancelled"

Auth(s) == Typed(s) /\ Answered(s) /\ Entered(s)

\* A request that was made and has not completed, seen from auth_map_.
Active(s) == (s.app = "requested" \/ s.listed) /\ ~s.early

NoCleanUp(s) == \A i \in DOMAIN s.posted : s.posted[i] # "cleanup"

\* The connect is posted, under way, or done and followed by a read.
Coming(s) ==
    \/ s.phase = "new" /\ s.posted # <<>> /\ Head(s.posted) = "connect"
    \/ s.phase = "resolving" /\ s.posted # <<>> /\ Head(s.posted) = "resolve"
    \/ s.phase \in {"lookup", "connecting"}
    \/ s.phase = "open" /\ s.read

Awaits(s) == Relock = "passes" /\ Active(s) => s.held /\ s.delegate /\ s.net /\ NoCleanUp(s) /\ Coming(s)

\* A step that touches no field of the manager.
LEMMA PlumbingAnswers ==
    ASSUME NEW s, Auth(s), NEW t, Typed(t), SameBody(s, t),
           t.delegate => s.delegate, s.stuck => t.stuck, t.app = s.app, s.app # "new"
    PROVE  Auth(t)
  <1>1. Answered(t)
    BY DEF Auth, Answered, SameBody
  <1>2. Entered(t)
    BY DEF Auth, Entered, SameBody
  <1> QED  BY <1>1, <1>2 DEF Auth

\* OnHttpComplete answers a request of auth_map_, and waits for it no more.
LEMMA AuthCompletes ==
    ASSUME NEW s, Auth(s), ~s.stuck, s.delegate, s.app # "new",
           NEW t \in AuthComplete(s)
    PROVE  Auth(t) /\ t.app = s.app /\ (Relock = "passes" => ~Active(t) /\ ~t.stuck)
  <1>0. Typed(s)
    BY DEF Auth
  <1>1. CASE ~s.listed
    <2>1. t = [s EXCEPT !.early = TRUE]
      BY <1>1 DEF AuthComplete
    <2>2. /\ Typed(t) /\ SameBody(s, t) /\ t.delegate = s.delegate /\ t.stuck = s.stuck
          /\ t.app = s.app /\ t.early
      BY <1>0, <2>1 DEF Typed, Fields, SameBody
    <2>3. Auth(t)
      BY <2>2, PlumbingAnswers
    <2> QED  BY <2>2, <2>3 DEF Active
  <1>2. CASE s.listed
    <2>1. PICK v \in Verdicts(s) :
             LET w == CancelInCallback([s EXCEPT !.done = Append(@, v)])
             IN  t \in (IF w.stuck THEN {w} ELSE {[w EXCEPT !.listed = FALSE, !.held = FALSE]})
      BY <1>2 DEF AuthComplete, ThenAll, Unless
    <2> DEFINE q == Append(s.done, v)
               u == [s EXCEPT !.done = q]
               w == CancelInCallback(u)
               e == [w EXCEPT !.listed = FALSE, !.held = FALSE]
    <2>2. /\ v \in Int
          /\ v = 200 => /\ s.http_code = 200 /\ s.reply.signed /\ s.data > 0
                        /\ s.data = Pieces => s.reply.code = 200
      BY <1>0, VerdictSound
    <2>3. s.done = <<>>
      BY DEF Auth, Answered
    <2>4. q = <<v>> /\ q \in Seq(Int) /\ Len(q) = 1
      BY <2>2, <2>3
    <2>5. v = 200 => s.stage # "head"
      BY <2>2 DEF Auth, Answered
    <2>6. IF w.stuck THEN t = w ELSE t = e
      BY <2>1
    <2> HIDE DEF q
    <2>7. /\ Typed(u) /\ u.done = q /\ u.app = s.app /\ u.stuck = s.stuck /\ u.stage = s.stage
          /\ u.http_code = s.http_code /\ u.reply = s.reply /\ u.data = s.data /\ u.listed = s.listed
          /\ u.heard = s.heard /\ u.dangled = s.dangled
      BY <1>0, <2>4 DEF Typed, Fields
    <2> HIDE DEF u
    <2>8. /\ Typed(w) /\ SameBody(u, w) /\ (w.stuck \/ ~w.delegate) /\ w.app = u.app
          /\ (Relock # "blocks" => w.stuck = u.stuck)
      BY <2>7, CancelEffect
    <2> HIDE DEF w
    <2>9. /\ Typed(e) /\ e.stuck = w.stuck /\ e.delegate = w.delegate /\ e.app = w.app /\ ~e.listed
          /\ e.done = w.done /\ e.stage = w.stage /\ e.http_code = w.http_code /\ e.reply = w.reply
          /\ e.data = w.data /\ e.heard = w.heard /\ e.dangled = w.dangled
      BY <2>8 DEF Typed, Fields
    <2> HIDE DEF e
    <2>10. /\ Typed(t) /\ t.done = q /\ t.app = s.app /\ t.stage = s.stage /\ t.http_code = s.http_code
           /\ t.reply = s.reply /\ t.data = s.data /\ (t.stuck \/ ~t.delegate)
           /\ t.heard = s.heard /\ t.dangled = s.dangled
           /\ (t.listed => s.listed) /\ (Relock = "passes" => ~t.listed /\ ~t.stuck)
      BY <2>6, <2>7, <2>8, <2>9 DEF SameBody
    <2>11. q = <<200>> => v = 200
      BY <2>4
    <2>12. Answered(t)
      BY <2>2, <2>4, <2>5, <2>10, <2>11 DEF Auth, Answered
    <2>13. s.app = "running"
      BY <1>2 DEF Auth, Entered
    <2>14. Entered(t)
      BY <2>10, <2>13 DEF Auth, Entered
    <2> QED  BY <2>10, <2>12, <2>13, <2>14 DEF Auth, Active
  <1> QED  BY <1>1, <1>2

\* OnConnect with a failure, OnDisconnect and the end of the reply.
LEMMA AuthNotified ==
    ASSUME NEW c, c \notin Downloads, NEW s, Auth(s), ~s.stuck, s.app # "new",
           Relock = "passes" /\ Active(s) => s.delegate /\ s.net
    PROVE  /\ \A t \in NotifyComplete(c, s) : Auth(t) /\ t.app = s.app /\ (Relock = "passes" => ~Active(t))
           /\ \A t \in Disconnected(c, s) : Auth(t) /\ (Relock = "passes" => ~Active(t))
  <1>1. ASSUME NEW t \in NotifyComplete(c, s)
        PROVE  Auth(t) /\ t.app = s.app /\ (Relock = "passes" => ~Active(t))
    <2>1. CASE ~s.delegate
      BY <1>1, <2>1 DEF NotifyComplete
    <2>2. CASE s.delegate
      <3>1. t \in AuthComplete(s)
        BY <1>1, <2>2 DEF NotifyComplete, IsDownload
      <3> QED  BY <2>2, <3>1, AuthCompletes
    <2> QED  BY <2>1, <2>2
  <1>2. ASSUME NEW t \in Disconnected(c, s)
        PROVE  Auth(t) /\ (Relock = "passes" => ~Active(t))
    <2>1. PICK u \in (IF s.net THEN NotifyComplete(c, s) ELSE {s}) :
             t \in (IF u.stuck THEN {u} ELSE {HandleCleanUp(u)})
      BY <1>2 DEF Disconnected, ThenAll, Unless
    <2>2. Auth(u) /\ u.app = s.app /\ (Relock = "passes" => ~Active(u))
      BY <1>1, <2>1
    <2> DEFINE h == HandleCleanUp(u)
    <2>3. /\ Typed(h) /\ SameBody(u, h) /\ h.delegate = u.delegate /\ h.stuck = u.stuck
          /\ h.app = u.app /\ h.early = u.early
      BY <2>2, CleanUpEffect DEF Auth
    <2>4. t = u \/ t = h
      BY <2>1
    <2> HIDE DEF h
    <2>5. Auth(h)
      BY <2>2, <2>3, PlumbingAnswers
    <2>6. Active(h) => Active(u)
      BY <2>3 DEF Active, SameBody
    <2> QED  BY <2>2, <2>4, <2>5, <2>6
  <1> QED  BY <1>1, <1>2

\* The runnables of a request that waits: the connect, the resolving, the send.
LEMMA AuthRunPosted ==
    ASSUME NEW c \in Auths, Auth(st[c]), Awaits(st[c]), Line(st[c]), DOMAIN st = Clients, RunPosted(c)
    PROVE  Auth(st'[c]) /\ Awaits(st'[c])
  <1> DEFINE s == st[c]
             p == Tail(s.posted)
             u == [s EXCEPT !.posted = p]
             q == Append(p, "resolve")
             job == Head(s.posted)
             t == st'[c]
             h == HandleCleanUp(u)
             r == [u EXCEPT !.phase = "resolving", !.posted = q]
             l == [u EXCEPT !.phase = IF @ = "resolving" THEN "lookup" ELSE @]
             w == [u EXCEPT !.write = TRUE]
  <1>0. c \in Clients /\ Typed(s)
    BY DEF Clients, Auth
  <1>1. s.posted # <<>> /\ s.app # "new"
    BY DEF RunPosted, Auth, Entered, Fresh
  <1>2. /\ p \in Seq(Jobs) /\ job = s.posted[1] /\ 1 \in DOMAIN s.posted
        /\ \A i \in DOMAIN p : i + 1 \in DOMAIN s.posted /\ i + 1 # 1 /\ p[i] = s.posted[i + 1]
        /\ p # <<>> => 1 \in DOMAIN p
    BY <1>0, <1>1, TailEntries
  <1>9. u.posted = p
    BY <1>0 DEF Typed, Fields
  <1>3. t = IF job = "cleanup" THEN h
            ELSE IF ~Alive(s) THEN u
            ELSE IF job = "connect" THEN r
            ELSE IF job = "resolve" THEN l
            ELSE IF u.clean THEN u
            ELSE w
    BY <1>0, <1>9 DEF RunPosted, Becomes
  <1> HIDE DEF p, job, t
  <1>4. /\ Typed(u) /\ SameBody(s, u) /\ u.delegate = s.delegate /\ u.stuck = s.stuck /\ u.app = s.app
        /\ u.early = s.early /\ u.held = s.held /\ u.net = s.net /\ u.phase = s.phase /\ u.read = s.read
        /\ u.posted = p
    BY <1>0, <1>2 DEF Typed, Fields, SameBody
  <1>10. q \in Seq(Jobs) /\ (p = <<>> => q = <<"resolve">>)
    <2>1. q \in Seq(Jobs)
      BY <1>2, AppendProperties DEF Jobs
    <2>2. Append(<<>>, "resolve") = <<"resolve">>
      OBVIOUS
    <2> QED  BY <2>1, <2>2
  <1> HIDE DEF u, s, q
  <1>5. Auth(u)
    BY <1>1, <1>4, PlumbingAnswers DEF s
  <1>6. /\ Typed(h) /\ SameBody(u, h) /\ h.delegate = u.delegate /\ h.stuck = u.stuck /\ h.app = u.app
        /\ h.early = u.early
    BY <1>4, CleanUpEffect
  <1> HIDE DEF h
  <1>7. CASE job = "cleanup"
    <2>1. Auth(h)
      BY <1>1, <1>4, <1>5, <1>6, PlumbingAnswers
    <2>2. ~(Relock = "passes" /\ Active(s))
      BY <1>2, <1>7 DEF Awaits, NoCleanUp, s
    <2>3. Active(h) => Active(s)
      BY <1>4, <1>6 DEF Active, SameBody
    <2> QED  BY <1>3, <1>7, <2>1, <2>2, <2>3 DEF Awaits, t
  <1>8. CASE job # "cleanup"
    <2>1. /\ Typed(r) /\ SameBody(u, r) /\ r.delegate = u.delegate /\ r.stuck = u.stuck /\ r.app = u.app
          /\ r.early = u.early /\ r.held = u.held /\ r.net = u.net /\ r.phase = "resolving" /\ r.posted = q
      BY <1>4, <1>10 DEF Typed, Fields, SameBody
    <2>2. /\ Typed(w) /\ SameBody(u, w) /\ w.delegate = u.delegate /\ w.stuck = u.stuck /\ w.app = u.app
          /\ w.early = u.early /\ w.held = u.held /\ w.net = u.net /\ w.phase = u.phase /\ w.posted = p
          /\ w.read = u.read
      BY <1>4 DEF Typed, Fields, SameBody
    <2>7. /\ Typed(l) /\ SameBody(u, l) /\ l.delegate = u.delegate /\ l.stuck = u.stuck /\ l.app = u.app
          /\ l.early = u.early /\ l.held = u.held /\ l.net = u.net /\ l.posted = p /\ l.read = u.read
          /\ l.phase = IF u.phase = "resolving" THEN "lookup" ELSE u.phase
      BY <1>4 DEF Typed, Fields, SameBody
    <2>4. t = u \/ t = r \/ t = l \/ t = w
      BY <1>3, <1>8
    <2>8. /\ job = "connect" /\ Alive(s) => t = r
          /\ job = "resolve" /\ Alive(s) => t = l
          /\ job # "connect" /\ Alive(s) => t = u \/ t = l \/ t = w
      BY <1>3, <1>8
    <2> HIDE DEF r, w, l
    <2>3. Auth(r) /\ Auth(w) /\ Auth(l)
      BY <1>1, <1>4, <1>5, <2>1, <2>2, <2>7, PlumbingAnswers
    <2>5. Auth(t)
      BY <1>5, <2>3, <2>4
    <2>6. ASSUME Relock = "passes", Active(t)
          PROVE  t.held /\ t.delegate /\ t.net /\ NoCleanUp(t) /\ Coming(t)
      <3>1. Active(s)
        <4>1. (u.app = s.app /\ u.listed = s.listed /\ u.early = s.early)
          BY <1>4 DEF SameBody
        <4>2. t.app = s.app /\ t.listed = s.listed /\ t.early = s.early
          BY <2>1, <2>2, <2>4, <2>7, <4>1 DEF SameBody
        <4> QED  BY <2>6, <4>2 DEF Active
      <3>2. s.held /\ s.delegate /\ s.net /\ NoCleanUp(s) /\ Coming(s) /\ Alive(s)
        BY <2>6, <3>1 DEF Awaits, Alive, s
      <3>3. t.held /\ t.delegate /\ t.net
        BY <1>4, <2>1, <2>2, <2>4, <2>7, <3>2
      <3>4. \A i \in DOMAIN p : p[i] # "cleanup"
        BY <1>2, <3>2 DEF NoCleanUp
      <3>5. CASE job = "connect"
        <4>1. t = r
          BY <2>8, <3>2, <3>5
        <4>2. s.phase = "new"
          BY <1>2, <3>5 DEF Line, s
        <4>3. p = <<>>
          <5> SUFFICES ASSUME p # <<>> PROVE FALSE
            OBVIOUS
          <5>1. 1 \in DOMAIN p /\ 1 + 1 \in DOMAIN s.posted /\ 1 + 1 # 1 /\ p[1] = s.posted[1 + 1]
            BY <1>2
          <5>2. p[1] \in Jobs
            BY <1>2, <5>1
          <5>3. p[1] # "cleanup"
            BY <3>4, <5>1
          <5>4. p[1] # "resolve" /\ p[1] # "send" /\ p[1] # "connect"
            BY <4>2, <5>1 DEF Line, Begins, s
          <5> QED  BY <5>2, <5>3, <5>4 DEF Jobs
        <4>4. t.posted = <<"resolve">> /\ t.phase = "resolving"
          BY <1>10, <2>1, <4>1, <4>3
        <4>5. NoCleanUp(t) /\ Coming(t)
          BY <4>4 DEF NoCleanUp, Coming
        <4> QED  BY <3>3, <4>5
      <3>6. CASE job # "connect"
        <4>1. s.phase # "new"
          BY <3>2, <3>6 DEF Coming, job
        <4>2. t = u \/ t = l \/ t = w
          BY <2>8, <3>2, <3>6
        <4>3. t.read = s.read /\ t.posted = p
          BY <1>4, <2>2, <2>7, <4>2
        <4>4. NoCleanUp(t)
          BY <3>4, <4>3 DEF NoCleanUp
        <4>5. CASE s.phase = "resolving"
          <5>1. job = "resolve"
            BY <3>2, <4>5 DEF Coming, job
          <5>2. t.phase = "lookup"
            BY <1>4, <2>7, <2>8, <3>2, <4>5, <5>1
          <5> QED  BY <3>3, <4>4, <5>2 DEF Coming
        <4>6. CASE s.phase # "resolving"
          <5>1. t.phase = s.phase
            BY <1>4, <2>2, <2>7, <4>2, <4>6
          <5> QED  BY <3>2, <3>3, <4>1, <4>3, <4>4, <4>6, <5>1 DEF Coming
        <4> QED  BY <4>5, <4>6
      <3> QED  BY <3>5, <3>6
    <2> QED  BY <2>5, <2>6 DEF Awaits, t
  <1> QED  BY <1>7, <1>8

\* No step of the client, the manager or the application loses an answer.
LEMMA AuthStep ==
    ASSUME NEW c \in Auths, Auth(st[c]), Awaits(st[c]), Line(st[c]), DOMAIN st = Clients, Step(c)
    PROVE  Auth(st'[c]) /\ Awaits(st'[c])
  <1> DEFINE s == st[c]
  <1>0. c \in Clients /\ c \notin Downloads /\ Typed(s)
    BY ClientsAssumption DEF Clients, Auth
  <1>1. ASSUME NEW t, Becomes(c, t) PROVE st'[c] = t
    BY <1>0, <1>1 DEF Becomes
  <1>2. ASSUME NEW t, Relock = "passes" => ~Active(t) PROVE Awaits(t)
    BY <1>2 DEF Awaits
  <1>3. CASE RunPosted(c)
    BY <1>0, <1>3, AuthRunPosted
  <1>4. CASE Resolved(c)
    <2> DEFINE t == [s EXCEPT !.phase = "connecting"]
    <2>1. st'[c] = t /\ s.app # "new"
      BY <1>1, <1>4 DEF Resolved, Auth, Entered, Fresh
    <2>2. /\ Typed(t) /\ SameBody(s, t) /\ t.delegate = s.delegate /\ t.stuck = s.stuck /\ t.app = s.app
          /\ t.early = s.early /\ t.held = s.held /\ t.net = s.net /\ t.phase = "connecting" /\ t.posted = s.posted
      BY <1>0 DEF Typed, Fields, SameBody
    <2> HIDE DEF t
    <2>3. Auth(t)
      BY <2>1, <2>2, PlumbingAnswers
    <2>4. Awaits(t)
      BY <2>2 DEF Awaits, Active, NoCleanUp, Coming, SameBody
    <2> QED  BY <2>1, <2>3, <2>4
  <1>5. CASE Connected(c)
    <2> DEFINE u == [s EXCEPT !.phase = "open", !.read = TRUE]
               q == Append(s.posted, "send")
               t == [s EXCEPT !.phase = "open", !.read = TRUE, !.posted = q]
    <2>1. s.app # "new"
      BY <1>5 DEF Connected, Auth, Entered, Fresh
    <2>2. q \in Seq(Jobs) /\ (NoCleanUp(s) => \A i \in DOMAIN q : q[i] # "cleanup")
      <3>1. s.posted \in Seq(Jobs) /\ "send" \in Jobs
        BY <1>0 DEF Typed, Jobs
      <3>2. /\ q \in Seq(Jobs) /\ Len(q) = Len(s.posted) + 1 /\ q[Len(s.posted) + 1] = "send"
            /\ \A i \in 1 .. Len(s.posted) : q[i] = s.posted[i]
        BY <3>1, AppendProperties
      <3>3. DOMAIN s.posted = 1 .. Len(s.posted) /\ DOMAIN q = 1 .. Len(q) /\ Len(s.posted) \in Nat
        BY <3>1, <3>2, LenProperties
      <3> QED  BY <3>2, <3>3 DEF NoCleanUp
    <2>3. st'[c] = u \/ st'[c] = Send(u)
      BY <1>1, <1>5 DEF Connected
    <2>4. u.posted = s.posted
      BY <1>0 DEF Typed, Fields
    <2>5. Send(u) = u \/ Send(u) = [u EXCEPT !.posted = q]
      BY <2>4 DEF Send
    <2>6. st'[c] = u \/ st'[c] = t
      BY <2>3, <2>5
    <2> HIDE DEF q
    <2>7. /\ Typed(u) /\ SameBody(s, u) /\ u.delegate = s.delegate /\ u.stuck = s.stuck /\ u.app = s.app
          /\ u.early = s.early /\ u.held = s.held /\ u.net = s.net /\ u.phase = "open" /\ u.read
      BY <1>0 DEF Typed, Fields, SameBody
    <2>8. /\ Typed(t) /\ SameBody(s, t) /\ t.delegate = s.delegate /\ t.stuck = s.stuck /\ t.app = s.app
          /\ t.early = s.early /\ t.held = s.held /\ t.net = s.net /\ t.phase = "open" /\ t.read
          /\ t.posted = q
      BY <1>0, <2>2 DEF Typed, Fields, SameBody
    <2> HIDE DEF u, t
    <2>9. Auth(u) /\ Auth(t)
      BY <2>1, <2>7, <2>8, PlumbingAnswers
    <2>10. Awaits(u)
      BY <2>4, <2>7 DEF Awaits, Active, NoCleanUp, Coming, SameBody
    <2>11. Awaits(t)
      <3>1. Active(t) => Active(s)
        BY <2>8 DEF Active, SameBody
      <3>2. NoCleanUp(s) => NoCleanUp(t)
        BY <2>2, <2>8 DEF NoCleanUp
      <3> QED  BY <2>8, <3>1, <3>2 DEF Awaits, Coming
    <2> QED  BY <2>6, <2>9, <2>10, <2>11
  <1>6. CASE WriteDone(c)
    <2> DEFINE t == [s EXCEPT !.write = FALSE]
    <2>1. st'[c] = t /\ s.app # "new"
      BY <1>1, <1>6 DEF WriteDone, Auth, Entered, Fresh
    <2>2. /\ Typed(t) /\ SameBody(s, t) /\ t.delegate = s.delegate /\ t.stuck = s.stuck /\ t.app = s.app
          /\ t.early = s.early /\ t.held = s.held /\ t.net = s.net /\ t.phase = s.phase /\ t.posted = s.posted
          /\ t.read = s.read
      BY <1>0 DEF Typed, Fields, SameBody
    <2> HIDE DEF t
    <2>3. Auth(t)
      BY <2>1, <2>2, PlumbingAnswers
    <2>4. Awaits(t)
      BY <2>2 DEF Awaits, Active, NoCleanUp, Coming, SameBody
    <2> QED  BY <2>1, <2>3, <2>4
  <1>7. CASE ConnectFails(c)
    <2> DEFINE h == HandleCleanUp(s)
               u == [h EXCEPT !.phase = "over"]
               w == [u EXCEPT !.http_code = 404]
    <2>1. PICK t \in (IF u.net THEN NotifyComplete(c, w) ELSE {u}) : Becomes(c, t)
      BY <1>7 DEF ConnectFails
    <2>2. s.app # "new" /\ ~s.stuck
      BY <1>0, <1>7 DEF ConnectFails, IoRuns, Auth, Entered, Fresh
    <2>3. /\ Typed(h) /\ SameBody(s, h) /\ h.stuck = s.stuck /\ h.delegate = s.delegate /\ h.net = s.net
          /\ h.app = s.app /\ h.early = s.early
      BY <1>0, CleanUpEffect
    <2> HIDE DEF h
    <2>4. /\ Typed(u) /\ SameBody(h, u) /\ u.stuck = h.stuck /\ u.delegate = h.delegate /\ u.net = h.net
          /\ u.app = h.app /\ u.early = h.early
      BY <2>3 DEF Typed, Fields, SameBody
    <2> HIDE DEF u
    <2>5. Auth(u)
      <3>1. SameBody(s, u)
        BY <2>3, <2>4 DEF SameBody
      <3> QED  BY <2>2, <2>3, <2>4, <3>1, PlumbingAnswers
    <2>6. Active(u) => Active(s)
      BY <2>3, <2>4 DEF Active, SameBody
    <2>7. Relock = "passes" /\ Active(u) => u.delegate /\ u.net
      BY <2>3, <2>4, <2>6 DEF Awaits
    <2>8. /\ Auth(w) /\ ~w.stuck /\ w.app # "new" /\ w.delegate = u.delegate /\ w.net = u.net
          /\ (Active(w) => Active(u))
      <3>1. /\ Typed(w) /\ w.stuck = u.stuck /\ w.delegate = u.delegate /\ w.net = u.net
            /\ w.app = u.app /\ w.listed = u.listed /\ w.early = u.early /\ w.done = u.done
            /\ w.stage = u.stage /\ w.http_code = 404 /\ w.reply = u.reply /\ w.data = u.data
            /\ w.heard = u.heard /\ w.dangled = u.dangled
        BY <2>4 DEF Typed, Fields
      <3> HIDE DEF w
      <3>2. Answered(w)
        BY <2>5, <3>1 DEF Auth, Answered
      <3>3. Entered(w)
        BY <2>2, <2>3, <2>4, <2>5, <3>1 DEF Auth, Entered
      <3> QED  BY <2>2, <2>3, <2>4, <3>1, <3>2, <3>3 DEF Auth, Active
    <2> HIDE DEF w
    <2>9. CASE u.net
      <3>1. t \in NotifyComplete(c, w)
        BY <2>1, <2>9
      <3>2. Auth(t) /\ (Relock = "passes" => ~Active(t))
        BY <1>0, <2>7, <2>8, <3>1, AuthNotified
      <3> QED  BY <1>1, <1>2, <2>1, <3>2
    <2>10. CASE ~u.net
      <3>1. t = u /\ (Relock = "passes" => ~Active(u))
        BY <2>1, <2>7, <2>10
      <3> QED  BY <1>1, <1>2, <2>1, <2>5, <3>1
    <2> QED  BY <2>9, <2>10
  <1>8. CASE WriteFails(c) \/ ReadFails(c)
    <2>1. PICK u \in {[s EXCEPT !.write = FALSE], [s EXCEPT !.read = FALSE]} :
             /\ \E t \in Disconnected(c, u) : Becomes(c, t)
             /\ s.app # "new" /\ ~s.stuck
      <3>1. s.app # "new" /\ ~s.stuck
        BY <1>0, <1>8 DEF WriteFails, ReadFails, IoRuns, Auth, Entered, Fresh
      <3> QED  BY <1>8, <3>1 DEF WriteFails, ReadFails
    <2>2. /\ Typed(u) /\ SameBody(s, u) /\ u.delegate = s.delegate /\ u.stuck = s.stuck /\ u.app = s.app
          /\ u.early = s.early /\ u.net = s.net
      <3>1. CASE u = [s EXCEPT !.write = FALSE]
        BY <1>0, <3>1 DEF Typed, Fields, SameBody
      <3>2. CASE u = [s EXCEPT !.read = FALSE]
        BY <1>0, <3>2 DEF Typed, Fields, SameBody
      <3> QED  BY <3>1, <3>2
    <2>3. Auth(u)
      BY <2>1, <2>2, PlumbingAnswers
    <2>4. Relock = "passes" /\ Active(u) => u.delegate /\ u.net
      BY <2>2 DEF Awaits, Active, SameBody
    <2>5. PICK t \in Disconnected(c, u) : Becomes(c, t)
      BY <2>1
    <2>6. Auth(t) /\ (Relock = "passes" => ~Active(t))
      BY <1>0, <2>1, <2>2, <2>3, <2>4, AuthNotified
    <2> QED  BY <1>1, <1>2, <2>5, <2>6
  <1>9. CASE ReadFinish(c)
    <2> DEFINE u == [s EXCEPT !.stage = "end"]
    <2>1. PICK t \in NotifyComplete(c, u) :
             Becomes(c, IF t.stuck THEN t ELSE [t EXCEPT !.recv_complete = TRUE, !.read = FALSE])
      BY <1>9 DEF ReadFinish
    <2>2. s.app # "new" /\ ~s.stuck /\ s.stage = "body"
      BY <1>0, <1>9 DEF ReadFinish, IoRuns, Auth, Entered, Fresh
    <2>3. /\ Typed(u) /\ u.stuck = s.stuck /\ u.delegate = s.delegate /\ u.net = s.net
          /\ u.app = s.app /\ u.listed = s.listed /\ u.early = s.early /\ u.done = s.done
          /\ u.stage = "end" /\ u.http_code = s.http_code /\ u.reply = s.reply /\ u.data = s.data
          /\ u.heard = s.heard /\ u.dangled = s.dangled
      BY <1>0 DEF Typed, Fields
    <2> HIDE DEF u
    <2>4. Answered(u)
      BY <2>3 DEF Auth, Answered
    <2>5. Entered(u)
      BY <2>2, <2>3 DEF Auth, Entered
    <2>6. Relock = "passes" /\ Active(u) => u.delegate /\ u.net
      BY <2>3 DEF Awaits, Active
    <2>7. Auth(t) /\ t.app = u.app /\ (Relock = "passes" => ~Active(t))
      BY <1>0, <2>1, <2>2, <2>3, <2>4, <2>5, <2>6, AuthNotified DEF Auth
    <2> DEFINE e == [t EXCEPT !.recv_complete = TRUE, !.read = FALSE]
    <2>8. /\ Typed(e) /\ SameBody(t, e) /\ e.delegate = t.delegate /\ e.stuck = t.stuck /\ e.app = t.app
          /\ e.early = t.early
      BY <2>7 DEF Auth, Typed, Fields, SameBody
    <2>9. st'[c] = t \/ st'[c] = e
      BY <1>1, <2>1
    <2> HIDE DEF e
    <2>10. Auth(e)
      BY <2>2, <2>3, <2>7, <2>8, PlumbingAnswers
    <2>11. Active(e) => Active(t)
      BY <2>8 DEF Active, SameBody
    <2> QED  BY <1>2, <2>7, <2>9, <2>10, <2>11
  <1>10. CASE ReadBody(c)
    <2> DEFINE n == s.received + 1
               u == [s EXCEPT !.received = n]
               k == s.data + 1
               w == [u EXCEPT !.data = k]
    <2>1. PICK t \in NotifyResponse(c, u) : Becomes(c, t)
      BY <1>10 DEF ReadBody
    <2>0. s.received \in Nat /\ s.data \in Nat
      BY <1>0 DEF Typed
    <2>2. n \in Nat /\ k \in Nat /\ s.app # "new" /\ ~s.stuck
      <3>1. n \in Nat /\ k \in Nat
        BY <2>0
      <3>2. s.app # "new" /\ ~s.stuck
        BY <1>0, <1>10 DEF ReadBody, IoRuns, Auth, Entered, Fresh
      <3> QED  BY <3>1, <3>2
    <2>3. u.data = s.data /\ u.delegate = s.delegate
      BY <1>0 DEF Typed, Fields
    <2>4. t = u \/ (s.delegate /\ t = w)
      BY <1>0, <2>1, <2>3 DEF NotifyResponse, AuthResponse, IsDownload
    <2> HIDE DEF n, k
    <2>5. /\ Typed(u) /\ u.stuck = s.stuck /\ u.delegate = s.delegate /\ u.net = s.net /\ u.held = s.held
          /\ u.app = s.app /\ u.listed = s.listed /\ u.early = s.early /\ u.done = s.done
          /\ u.stage = s.stage /\ u.http_code = s.http_code /\ u.reply = s.reply /\ u.data = s.data
          /\ u.phase = s.phase /\ u.posted = s.posted /\ u.read = s.read
          /\ u.heard = s.heard /\ u.dangled = s.dangled
      BY <1>0, <2>2 DEF Typed, Fields
    <2> HIDE DEF u
    <2>6. /\ Typed(w) /\ w.stuck = u.stuck /\ w.delegate = u.delegate /\ w.net = u.net /\ w.held = u.held
          /\ w.app = u.app /\ w.listed = u.listed /\ w.early = u.early /\ w.done = u.done
          /\ w.stage = u.stage /\ w.http_code = u.http_code /\ w.reply = u.reply
          /\ w.phase = u.phase /\ w.posted = u.posted /\ w.read = u.read
          /\ w.heard = u.heard /\ w.dangled = u.dangled
      BY <2>2, <2>5 DEF Typed, Fields
    <2> HIDE DEF w
    <2>7. Answered(t)
      <3>1. CASE t = u
        BY <2>5, <3>1 DEF Auth, Answered
      <3>2. CASE s.delegate /\ t = w
        <4>1. s.done = <<>>
          BY <2>2, <3>2 DEF Auth, Answered
        <4>0. <<>> # <<200>>
          OBVIOUS
        <4>2. t.done # <<200>> /\ t.done = <<>>
          BY <2>5, <2>6, <3>2, <4>0, <4>1
        <4> QED  BY <2>5, <2>6, <3>2, <4>2 DEF Auth, Answered
      <3> QED  BY <2>4, <3>1, <3>2
    <2>8. Entered(t)
      BY <2>2, <2>4, <2>5, <2>6 DEF Auth, Entered
    <2>9. Awaits(t)
      BY <2>4, <2>5, <2>6 DEF Awaits, Active, NoCleanUp, Coming
    <2> QED  BY <1>1, <2>1, <2>4, <2>5, <2>6, <2>7, <2>8, <2>9 DEF Auth
  <1>11. CASE ReadHead(c)
    <2>1. PICK code \in {200, 500}, r \in Replies, due \in {0, Pieces}, announced \in BOOLEAN :
             /\ IF IsDownload(c) THEN r = [code |-> 200, signed |-> TRUE] ELSE due = Pieces /\ ~announced
             /\ Becomes(c, [s EXCEPT !.stage = "body", !.http_code = code, !.reply = r, !.due = due,
                                     !.total_size = IF announced /\ s.delegate THEN due ELSE @])
      BY <1>11 DEF ReadHead
    <2> DEFINE total == IF announced /\ s.delegate THEN due ELSE s.total_size
               u == [s EXCEPT !.stage = "body", !.http_code = code, !.reply = r, !.due = due,
                              !.total_size = total]
    <2>2. st'[c] = u
      BY <1>1, <2>1
    <2>3. s.stage = "head" /\ s.app # "new" /\ due \in Nat
      BY <1>11, PiecesAssumption DEF ReadHead, Auth, Entered, Fresh
    <2>4. total \in Nat
      BY <1>0, <2>3 DEF Typed
    <2>5. r \in [code : Int, signed : BOOLEAN] /\ code \in Int
      BY DEF Replies
    <2> HIDE DEF total
    <2>6. /\ Typed(u) /\ u.stuck = s.stuck /\ u.delegate = s.delegate /\ u.net = s.net /\ u.held = s.held
          /\ u.app = s.app /\ u.listed = s.listed /\ u.early = s.early /\ u.done = s.done
          /\ u.stage = "body" /\ u.phase = s.phase /\ u.posted = s.posted /\ u.read = s.read
          /\ u.heard = s.heard /\ u.dangled = s.dangled
      BY <1>0, <2>3, <2>4, <2>5 DEF Typed, Fields
    <2> HIDE DEF u
    <2>7. Answered(u)
      BY <2>3, <2>6 DEF Auth, Answered
    <2>8. Entered(u)
      BY <2>3, <2>6 DEF Auth, Entered
    <2>9. Awaits(u)
      BY <2>6 DEF Awaits, Active, NoCleanUp, Coming
    <2> QED  BY <2>2, <2>6, <2>7, <2>8, <2>9 DEF Auth
  <1>12. CASE AuthRequest(c)
    <2> DEFINE q == Append(s.posted, "connect")
               t == [s EXCEPT !.posted = q, !.app = "requested"]
    <2>1. s.app = "new" /\ Fresh(s)
      BY <1>12 DEF AuthRequest, Auth, Entered
    <2>2. q = <<"connect">> /\ q \in Seq(Jobs)
      BY <2>1 DEF Fresh, Jobs
    <2>3. st'[c] = t
      BY <1>1, <1>12 DEF AuthRequest, Connect
    <2> HIDE DEF q
    <2>4. /\ Typed(t) /\ SameBody(s, t) /\ t.delegate = s.delegate /\ t.stuck = s.stuck /\ t.app = "requested"
          /\ t.held = s.held /\ t.net = s.net /\ t.phase = s.phase /\ t.posted = q
      BY <1>0, <2>2 DEF Typed, Fields, SameBody
    <2> HIDE DEF t
    <2>5. Answered(t)
      BY <2>4 DEF Auth, Answered, SameBody
    <2>6. Entered(t)
      BY <2>1, <2>4 DEF Auth, Entered, SameBody
    <2>7. NoCleanUp(t) /\ Coming(t) /\ t.held /\ t.delegate /\ t.net
      BY <2>1, <2>2, <2>4 DEF NoCleanUp, Coming, Fresh
    <2> QED  BY <2>3, <2>4, <2>5, <2>6, <2>7 DEF Auth, Awaits
  <1>13. CASE AuthInsert(c)
    <2> DEFINE t == [s EXCEPT !.app = "running", !.listed = TRUE]
    <2>1. s.app = "requested" /\ st'[c] = t
      BY <1>1, <1>13 DEF AuthInsert
    <2>2. /\ Typed(t) /\ t.stuck = s.stuck /\ t.delegate = s.delegate /\ t.net = s.net /\ t.held = s.held
          /\ t.app = "running" /\ t.early = s.early /\ t.done = s.done
          /\ t.stage = s.stage /\ t.http_code = s.http_code /\ t.reply = s.reply /\ t.data = s.data
          /\ t.phase = s.phase /\ t.posted = s.posted /\ t.read = s.read
          /\ t.heard = s.heard /\ t.dangled = s.dangled
      BY <1>0 DEF Typed, Fields
    <2> HIDE DEF t
    <2>3. Answered(t)
      BY <2>2 DEF Auth, Answered
    <2>4. Entered(t)
      BY <2>1, <2>2 DEF Auth, Entered
    <2>5. Awaits(t)
      BY <2>1, <2>2 DEF Awaits, Active, NoCleanUp, Coming
    <2> QED  BY <2>1, <2>2, <2>3, <2>4, <2>5 DEF Auth
  <1>14. CASE AuthCancel(c)
    <2> DEFINE t == [s EXCEPT !.listed = FALSE, !.held = FALSE, !.app = "cancelled", !.heard = s.done]
    <2>1. s.app = "running" /\ st'[c] = t
      BY <1>1, <1>14 DEF AuthCancel
    <2>2. /\ Typed(t) /\ t.stuck = s.stuck /\ t.delegate = s.delegate
          /\ t.app = "cancelled" /\ ~t.listed /\ t.done = s.done /\ t.heard = s.done
          /\ t.stage = s.stage /\ t.http_code = s.http_code /\ t.reply = s.reply /\ t.data = s.data
      BY <1>0 DEF Typed, Fields
    <2> HIDE DEF t
    <2>3. Answered(t)
      BY <2>2 DEF Auth, Answered
    <2>4. Entered(t)
      BY <2>1, <2>2 DEF Auth, Entered
    <2>5. ~Active(t)
      BY <2>2 DEF Active
    <2> QED  BY <1>2, <2>1, <2>2, <2>3, <2>4, <2>5 DEF Auth
  <1>15. ~(Start(c) \/ CancelDownloader(c) \/ CancelClient(c) \/ DisConnect(c) \/ PostCleanUp(c) \/ Release(c))
    BY <1>0 DEF Start, CancelDownloader, CancelClient, DisConnect, PostCleanUp, Release, Auth, Entered
  <1>16. CASE ResolvedFreed(c)
    <2>1. PICK ends \in BOOLEAN : Becomes(c, [s EXCEPT !.phase = "over", !.dangled = TRUE, !.stuck = ends])
      BY <1>16 DEF ResolvedFreed
    <2> DEFINE t == [s EXCEPT !.phase = "over", !.dangled = TRUE, !.stuck = ends]
    <2>2. st'[c] = t
      BY <1>1, <2>1
    <2>3. s.app = "cancelled" /\ ~s.stuck
      BY <1>0, <1>16 DEF ResolvedFreed, Alive, Line, Begins, IoRuns
    <2>4. /\ Typed(t) /\ t.delegate = s.delegate /\ t.app = s.app /\ t.listed = s.listed /\ t.done = s.done
          /\ t.stage = s.stage /\ t.http_code = s.http_code /\ t.reply = s.reply /\ t.data = s.data
          /\ t.heard = s.heard
      BY <1>0 DEF Typed, Fields
    <2> HIDE DEF t
    <2>5. Answered(t)
      BY <2>3, <2>4 DEF Auth, Answered
    <2>6. Entered(t)
      BY <2>3, <2>4 DEF Auth, Entered
    <2>7. ~Active(t)
      BY <2>3, <2>4 DEF Active, Auth, Entered
    <2> QED  BY <1>2, <2>2, <2>4, <2>5, <2>6, <2>7 DEF Auth
  <1> QED  BY <1>3, <1>4, <1>5, <1>6, <1>7, <1>8, <1>9, <1>10, <1>11, <1>12, <1>13, <1>14, <1>15, <1>16 DEF Step

IInv ==
    /\ DOMAIN st = Clients
    /\ \A c \in Clients : Line(st[c]) /\ Posts(st[c])
    /\ \A c \in Downloads : Download(st[c], 0)
    /\ \A c \in Auths : Auth(st[c]) /\ Awaits(st[c])

-----------------------------------------------------------------------------
(* The theorems.                                                           *)

\* Nobody is stuck, answered or cancelled at the start, and nothing is on its way.
LEMMA InitInvariant == Init => IInv
  <1> SUFFICES ASSUME Init PROVE IInv
    OBVIOUS
  <1> DEFINE Unused == [New EXCEPT !.app = "unused"]
  <1>1. DOMAIN st = Clients /\ \A c \in Clients : st[c] = New \/ st[c] = Unused
    BY DEF Init
  <1>2. \A s \in {New, Unused} :
           /\ Typed(s) /\ s.stage = "head" /\ s.received = 0 /\ s.total_size = 0 /\ ~s.open /\ s.file = 0
           /\ s.write_size = 0 /\ s.starts = 0 /\ s.done = <<>> /\ s.http_code = 404 /\ ~s.listed
           /\ s.app \in {"new", "unused"} /\ Fresh(s) /\ ~s.stoped /\ ~s.clean /\ s.dl /\ ~s.dangled
    <2>1. <<>> \in Seq(Jobs) /\ <<>> \in Seq(Int)
      BY EmptySeq
    <2>2. 404 \in Int /\ 0 \in Nat /\ [code |-> 0, signed |-> FALSE] \in [code : Int, signed : BOOLEAN]
      OBVIOUS
    <2>3. DOMAIN New = Fields /\ Typed(New) /\ Fresh(New)
      <3>1. DOMAIN New = Fields
        BY DEF New, Fields
      <3>2. Fresh(New)
        BY DEF New, Fresh
      <3>3. New.posted \in Seq(Jobs) /\ New.done \in Seq(Int) /\ New.heard \in Seq(Int)
        BY <2>1 DEF New
      <3>4. /\ New.http_code \in Int /\ New.file \in Nat /\ New.write_size \in Nat /\ New.total_size \in Nat
            /\ New.due \in Nat /\ New.received \in Nat /\ New.starts \in Nat /\ New.data \in Nat
        BY <2>2 DEF New
      <3>5. New.reply \in [code : Int, signed : BOOLEAN]
        BY <2>2 DEF New
      <3> QED  BY <3>1, <3>2, <3>3, <3>4, <3>5 DEF Typed
    <2>4. /\ New.stage = "head" /\ New.received = 0 /\ New.total_size = 0 /\ ~New.open /\ New.file = 0
          /\ New.write_size = 0 /\ New.starts = 0 /\ New.done = <<>> /\ New.http_code = 404 /\ ~New.listed
          /\ New.app = "new" /\ ~New.stoped /\ ~New.clean /\ New.dl /\ ~New.dangled
      BY DEF New
    <2>5. /\ Typed(Unused) /\ Unused.app = "unused" /\ Fresh(Unused) /\ SameBody(New, Unused)
          /\ Unused.stoped = New.stoped /\ Unused.clean = New.clean /\ Unused.dl = New.dl
      BY <2>3 DEF Typed, Fields, Fresh, SameBody
    <2> HIDE DEF Unused
    <2>6. /\ Unused.stage = "head" /\ Unused.received = 0 /\ Unused.total_size = 0 /\ ~Unused.open /\ Unused.file = 0
          /\ Unused.write_size = 0 /\ Unused.starts = 0 /\ Unused.done = <<>> /\ Unused.http_code = 404
          /\ ~Unused.listed /\ ~Unused.stoped /\ ~Unused.clean /\ Unused.dl /\ ~Unused.dangled
      BY <2>4, <2>5 DEF SameBody
    <2> QED  BY <2>3, <2>4, <2>5, <2>6
  <1> HIDE DEF Unused
  <1>3. ASSUME NEW c \in Downloads PROVE Download(st[c], 0)
    <2> DEFINE s == st[c]
    <2>1. s \in {New, Unused}
      BY <1>1 DEF Clients
    <2> HIDE DEF s
    <2>2. Sizes(s) /\ Filed(s, 0) /\ Typed(s) /\ s.app \in {"new", "unused"} /\ ~s.dangled
      BY <1>2, <2>1 DEF Sizes, Filed
    <2>3. Stops(s) /\ Silent(s)
      BY <1>2, <2>1, <2>2 DEF Stops, Silent, Cancelled, Fresh
    <2> QED  BY <2>2, <2>3 DEF Download, Sound, s
  <1>4. ASSUME NEW c \in Auths PROVE Auth(st[c]) /\ Awaits(st[c])
    <2> DEFINE s == st[c]
    <2>1. s \in {New, Unused}
      BY <1>1 DEF Clients
    <2>0. <<>> # <<200>>
      OBVIOUS
    <2> HIDE DEF s
    <2>5. s.done = <<>> /\ s.http_code = 404
      BY <1>2, <2>1
    <2>2. Answered(s)
      BY <2>0, <2>5 DEF Answered
    <2>3. Entered(s) /\ Typed(s)
      BY <1>2, <2>1 DEF Entered
    <2>4. ~Active(s)
      BY <1>2, <2>1 DEF Active
    <2> QED  BY <2>2, <2>3, <2>4 DEF Auth, Awaits, s
  <1>5. ASSUME NEW c \in Clients PROVE Line(st[c]) /\ Posts(st[c])
    <2> DEFINE s == st[c]
    <2>1. s \in {New, Unused}
      BY <1>1
    <2> HIDE DEF s
    <2>2. /\ s.phase = "new" /\ s.posted = <<>> /\ ~s.read /\ ~s.write /\ ~s.clean /\ s.held /\ s.dl /\ ~s.stoped
          /\ s.app \in {"new", "unused"}
      BY <1>2, <2>1 DEF Fresh
    <2>3. DOMAIN s.posted = {}
      BY <2>2
    <2> QED  BY <2>2, <2>3 DEF Line, Posts, s
  <1> QED  BY <1>1, <1>3, <1>4, <1>5 DEF IInv

\* A step is a step of one client, and the others stay as they are.
LEMMA OneSteps ==
    ASSUME Next, DOMAIN st = Clients
    PROVE  /\ DOMAIN st' = Clients
           /\ \E c \in Clients : Step(c) /\ \A d \in Clients \ {c} : st'[d] = st[d]
  <1>1. PICK c \in Clients : Step(c)
    BY DEF Next, Step
  <1>2. ASSUME NEW t, Becomes(c, t)
        PROVE  DOMAIN st' = Clients /\ \A d \in Clients \ {c} : st'[d] = st[d]
    BY <1>2 DEF Becomes
  <1>3. \E t : Becomes(c, t)
    BY <1>1 DEF Step, RunPosted, Resolved, ResolvedFreed, ConnectFails, Connected, WriteDone, WriteFails, ReadHead, ReadBody,
        ReadFinish, ReadFails, Start, CancelDownloader, CancelClient, DisConnect, PostCleanUp, Release,
        AuthRequest, AuthInsert, AuthCancel
  <1> QED  BY <1>1, <1>2, <1>3

\* Every step preserves the invariant.
LEMMA NextInvariant == IInv /\ [Next]_vars => IInv'
  <1> SUFFICES ASSUME IInv, [Next]_vars PROVE IInv'
    OBVIOUS
  <1>1. CASE Next
    <2>0. DOMAIN st = Clients
      BY DEF IInv
    <2>1. PICK c \in Clients : Step(c) /\ \A d \in Clients \ {c} : st'[d] = st[d]
      BY <1>1, <2>0, OneSteps
    <2>2. DOMAIN st' = Clients
      BY <1>1, <2>0, OneSteps
    <2>3. ASSUME NEW d \in Downloads PROVE Download(st'[d], 0)
      <3>1. CASE d = c
        BY <2>0, <2>1, <3>1, DownloadStep DEF IInv, Clients
      <3>2. CASE d # c
        BY <2>1, <3>2 DEF IInv, Clients
      <3> QED  BY <3>1, <3>2
    <2>4. ASSUME NEW d \in Auths PROVE Auth(st'[d]) /\ Awaits(st'[d])
      <3>1. CASE d = c
        BY <2>0, <2>1, <3>1, AuthStep DEF IInv, Clients
      <3>2. CASE d # c
        BY <2>1, <3>2 DEF IInv, Clients
      <3> QED  BY <3>1, <3>2
    <2>5. ASSUME NEW d \in Clients PROVE Line(st'[d]) /\ Posts(st'[d])
      <3>1. Typed(st[d]) /\ Line(st[d]) /\ Posts(st[d])
        BY DEF IInv, Clients, Download, Sound, Auth
      <3>2. CASE d = c
        BY <2>0, <2>1, <3>1, <3>2, LineStep
      <3>3. CASE d # c
        BY <2>1, <3>1, <3>3
      <3> QED  BY <3>2, <3>3
    <2> QED  BY <2>2, <2>3, <2>4, <2>5 DEF IInv
  <1>2. CASE UNCHANGED vars
    <2>1. st' = st
      BY <1>2 DEF vars
    <2> QED  BY <2>1 DEF IInv
  <1> QED  BY <1>1, <1>2

\* The inductive invariant holds, for any clients, any body and both mutexes.
THEOREM Invariant == Spec => []IInv
  <1> QED  BY InitInvariant, NextInvariant, PTL DEF Spec

\* AuthManager::OnHttpComplete answers a request at most once, however often the
\* connection reports its end.
THEOREM AnsweredOnce == Spec => []AuthOnce
  <1>1. IInv => AuthOnce
    <2> SUFFICES ASSUME IInv, NEW c \in Auths PROVE Len(st[c].done) <= 1
      BY DEF AuthOnce
    <2>1. Answered(st[c])
      BY DEF IInv, Auth
    <2>2. CASE st[c].done = <<>>
      BY <2>2
    <2>3. CASE st[c].done # <<>>
      <3>1. Len(st[c].done) = 1
        BY <2>1, <2>3 DEF Answered
      <3> QED  BY <3>1
    <2> QED  BY <2>2, <2>3
  <1> QED  BY <1>1, Invariant, PTL

\* A delegate of AuthManager hears 200 only if a signature of its request came in
\* the reply, whatever of the reply was lost, and for a whole reply only if that
\* says 200.
THEOREM SuccessIsSigned == Spec => []SignedSuccess
  <1>1. IInv => SignedSuccess
    BY DEF IInv, Auth, Answered, SignedSuccess
  <1> QED  BY <1>1, Invariant, PTL

\* Where locking a mutex twice passes, an entry of auth_map_ whose request has
\* not completed before it was entered has a client that still has work to do.
THEOREM StillAnswered ==
    ASSUME Relock = "passes"
    PROVE  Spec => []NotForgotten
  <1>1. IInv => NotForgotten
    <2> SUFFICES ASSUME IInv, NEW c \in Auths, st[c].listed, ~st[c].early
                 PROVE  /\ st[c].delegate /\ st[c].net
                        /\ st[c].posted # <<>> \/ st[c].phase \in {"lookup", "connecting"} \/ st[c].read
      BY DEF NotForgotten
    <2>1. Awaits(st[c])
      BY DEF IInv
    <2>2. st[c].delegate /\ st[c].net /\ Coming(st[c])
      BY <2>1 DEF Awaits, Active
    <2> QED  BY <2>2 DEF Coming
  <1> QED  BY <1>1, Invariant, PTL

\* A download that was neither cancelled nor failed, and whose file was opened
\* once, has all the received pieces in its file.
THEOREM FileIsWhole == Spec => []FileHoldsTheBody
  <1>1. IInv => FileHoldsTheBody
    <2> SUFFICES ASSUME IInv, NEW c \in Downloads, Undisturbed(st[c])
                 PROVE  /\ st[c].file = st[c].received /\ st[c].write_size = st[c].received
                        /\ st[c].received > 0 => st[c].starts = 1
                        /\ st[c].total_size # 0 => st[c].write_size <= st[c].total_size
      BY DEF FileHoldsTheBody, Undisturbed
    <2> DEFINE s == st[c]
    <2>1. Typed(s) /\ Sizes(s) /\ Filed(s, 0)
      BY DEF IInv, Download, Sound
    <2> HIDE DEF s
    <2>2. s.file = s.received /\ s.write_size = s.received /\ (s.received > 0 => s.starts = 1)
      BY <2>1 DEF Filed, Typed, s
    <2>3. s.total_size # 0 => s.received <= s.total_size
      BY <2>1 DEF Sizes, Typed
    <2> QED  BY <2>2, <2>3 DEF s
  <1> QED  BY <1>1, Invariant, PTL

\* An application that has cancelled a download or a request is told of no end,
\* also if it cancelled between two callbacks of a handler; and only AuthCancel
\* leaves a resolver the pointer to a client that is destroyed.
THEOREM CancelIsQuiet == Spec => []QuietAfterCancel
  <1>1. IInv => QuietAfterCancel
    <2> SUFFICES ASSUME IInv, NEW c \in Clients
                 PROVE  /\ st[c].app \in Cancelled => st[c].done = st[c].heard
                        /\ st[c].dangled => c \in Auths /\ st[c].app = "cancelled"
      BY DEF QuietAfterCancel
    <2>1. CASE c \in Downloads
      BY <2>1 DEF IInv, Download, Sound, Silent
    <2>2. CASE c \in Auths
      BY <2>2 DEF IInv, Auth, Entered, Cancelled
    <2> QED  BY <2>1, <2>2 DEF Clients
  <1> QED  BY <1>1, Invariant, PTL
=============================================================================
