------------------------------ MODULE JniProofs ------------------------------
(***************************************************************************)
(* Proofs about Jni, for any threads, any Java side and any number of      *)
(* failing calls.                                                          *)
(***************************************************************************)
EXTENDS Jni, TLAPS

Fields ==
    {"attached", "key", "alive", "pending", "locals", "pins", "ret", "abuse", "sent", "excuse",
     "lookup", "leak"}
OpFields == Fields \cup {"map", "faults", "java"}

\* An environment in an operation.  Only a call that failed leaves an exception,
\* one that Java threw leaves no result, and none of those was met by a call.
Sane(e) ==
    /\ DOMAIN e = OpFields /\ e.locals \in Int /\ e.pins \in Int
    /\ e.ret \in BOOLEAN /\ e.sent \in BOOLEAN /\ e.excuse \in BOOLEAN /\ e.lookup \in BOOLEAN
    /\ e.pending # "none" => e.excuse \/ e.lookup
    /\ e.pending = "java" => ~e.ret
    /\ "java" \notin e.abuse

Calm(e) == Sane(e) /\ e.pending # "java"

\* What was noted stays noted, and what was cached stays cached.
Mono(e, x) ==
    /\ e.excuse => x.excuse
    /\ e.lookup => x.lookup
    /\ e.sent => x.sent
    /\ e.map \subseteq x.map

\* x comes after e with d references and p characters more, unless a call failed.
Keeps(e, x, d, p) ==
    /\ Mono(e, x)
    /\ x.excuse \/ x.lookup \/ (x.locals <= e.locals + d /\ x.pins <= e.pins + p)

-----------------------------------------------------------------------------
(* The Java VM.                                                            *)

\* A call that fails.
LEMMA FailsEffect ==
    ASSUME NEW e, Sane(e), NEW k, k # "none", NEW x \in Fails(e, k)
    PROVE  /\ Sane(x) /\ Mono(e, x) /\ x.excuse /\ x.pending = k /\ ~x.ret
  BY DEF Fails, Sane, OpFields, Fields, Mono

\* A new reference, or a failure.
LEMMA NewRefEffect ==
    ASSUME NEW e, Calm(e), NEW x \in NewRef(e)
    PROVE  /\ Calm(x) /\ Keeps(e, x, 1, 0) /\ (x.pending # "none" => x.excuse \/ x.lookup)
           /\ x.ret => x.pending = "none" /\ e.pending = "none"
           /\ ~x.ret => x.excuse \/ x.lookup
  <1>1. CASE e.pending # "none"
    <2>1. x = [e EXCEPT !.abuse = @ \cup {e.pending}, !.ret = FALSE]
      BY <1>1 DEF NewRef, Strict
    <2> QED  BY <1>1, <2>1 DEF Calm, Sane, OpFields, Fields, Mono, Keeps
  <1>2. CASE e.pending = "none" /\ x \in Fails(e, "oom")
    BY <1>2, FailsEffect DEF Calm, Keeps
  <1>3. CASE e.pending = "none" /\ x = [e EXCEPT !.ret = TRUE, !.locals = @ + 1]
    BY <1>3 DEF Calm, Sane, OpFields, Fields, Mono, Keeps
  <1> QED  BY <1>1, <1>2, <1>3 DEF NewRef, Strict

\* Without a new reference there is an excuse.
LEMMA NewRefFails ==
    ASSUME NEW e, Calm(e), NEW x \in NewRef(e), ~x.ret, e.pending # "none" => e.excuse
    PROVE  x.excuse
  <1>1. CASE e.pending # "none"
    <2>1. x = [e EXCEPT !.abuse = @ \cup {e.pending}, !.ret = FALSE]
      BY <1>1 DEF NewRef, Strict
    <2> QED  BY <1>1, <2>1 DEF Calm, Sane, OpFields, Fields
  <1>2. CASE e.pending = "none" /\ x \in Fails(e, "oom")
    BY <1>2, FailsEffect DEF Calm
  <1>3. CASE e.pending = "none" /\ x = [e EXCEPT !.ret = TRUE, !.locals = @ + 1]
    BY <1>3 DEF Calm, Sane, OpFields, Fields
  <1> QED  BY <1>1, <1>2, <1>3 DEF NewRef, Strict

\* Characters, or a failure.
LEMMA PinEffect ==
    ASSUME NEW e, Calm(e), NEW x \in Pin(e)
    PROVE  /\ Calm(x) /\ Keeps(e, x, 0, 1)
           /\ x.ret => x.pending = "none" /\ e.pending = "none"
           /\ ~x.ret => x.excuse \/ x.lookup
  <1>1. CASE e.pending # "none"
    <2>1. x = [e EXCEPT !.abuse = @ \cup {e.pending}, !.ret = FALSE]
      BY <1>1 DEF Pin, Strict
    <2> QED  BY <1>1, <2>1 DEF Calm, Sane, OpFields, Fields, Mono, Keeps
  <1>2. CASE e.pending = "none" /\ x \in Fails(e, "oom")
    BY <1>2, FailsEffect DEF Calm, Keeps
  <1>3. CASE e.pending = "none" /\ x = [e EXCEPT !.ret = TRUE, !.pins = @ + 1]
    BY <1>3 DEF Calm, Sane, OpFields, Fields, Mono, Keeps
  <1> QED  BY <1>1, <1>2, <1>3 DEF Pin, Strict

\* Giving a reference or characters back.
LEMMA GivesBack ==
    ASSUME NEW e, Sane(e)
    PROVE  /\ LET x == DeleteLocalRef(e)
              IN  /\ Sane(x) /\ Keeps(e, x, -1, 0) /\ x.ret = e.ret /\ x.pending = e.pending
                  /\ x.excuse = e.excuse /\ x.lookup = e.lookup
           /\ LET x == Unpin(e)
              IN  /\ Sane(x) /\ Keeps(e, x, 0, -1) /\ x.ret = e.ret /\ x.pending = e.pending
                  /\ x.excuse = e.excuse /\ x.lookup = e.lookup
  BY DEF DeleteLocalRef, Unpin, Sane, OpFields, Fields, Mono, Keeps

\* An exception that was looked at, and cleared.
LEMMA ExceptionEffect ==
    ASSUME NEW e, Sane(e)
    PROVE  /\ LET x == ExceptionOccurred(e)
              IN  Sane(x) /\ Keeps(e, x, 0, 0) /\ x.pending = e.pending /\ x.ret = e.ret
           /\ LET x == ExceptionClear(e)
              IN  Calm(x) /\ Keeps(e, x, 0, 0) /\ x.pending = "none" /\ x.ret = e.ret
  BY DEF ExceptionOccurred, ExceptionClear, Calm, Sane, OpFields, Fields, Mono, Keeps

\* A call that was not allowed is noted, with the exception that forbade it.
LEMMA StrictEffect ==
    ASSUME NEW e, Calm(e), NEW S, NEW x \in Strict(e, S)
    PROVE  \/ e.pending = "none" /\ x \in S
           \/ /\ Calm(x) /\ Keeps(e, x, 0, 0) /\ e.pending # "none" /\ ~x.ret
              /\ x.excuse \/ x.lookup
  <1>1. CASE e.pending # "none"
    <2>1. x = [e EXCEPT !.abuse = @ \cup {e.pending}, !.ret = FALSE]
      BY <1>1 DEF Strict
    <2> QED  BY <1>1, <2>1 DEF Calm, Sane, OpFields, Fields, Mono, Keeps
  <1> QED  BY <1>1 DEF Strict

-----------------------------------------------------------------------------
(* Logging an exception.                                                   *)

\* The summary of an exception ends without one, or with one that is not Java's.
LEMMA SummaryEffect ==
    ASSUME NEW e, Calm(e), NEW r \in getExceptionSummary(e)
    PROVE  Calm(r) /\ Mono(e, r)
  <1> DEFINE message(x) == Bind(NewRef(x) \cup Fails(x, "message"), LAMBDA y :
                          IF ~y.ret THEN {y}
                          ELSE {DeleteLocalRef(ExceptionClear(z)) : z \in Pinning(y, LAMBDA w : {w})})
             name(x) == Pinning(x, LAMBDA y : {[z EXCEPT !.ret = TRUE] : z \in message(y)})
             held == [e EXCEPT !.locals = @ + 2]
  <1>1. ASSUME NEW x, Calm(x), NEW v \in message(x) PROVE Calm(v) /\ Mono(x, v)
    <2>1. PICK y \in NewRef(x) \cup Fails(x, "message") :
             v \in IF ~y.ret THEN {y}
                   ELSE {DeleteLocalRef(ExceptionClear(z)) : z \in Pinning(y, LAMBDA w : {w})}
      BY <1>1 DEF Bind
    <2>2. Calm(y) /\ Mono(x, y)
      BY <1>1, <2>1, NewRefEffect, FailsEffect DEF Calm, Keeps
    <2>3. CASE ~y.ret
      BY <2>1, <2>2, <2>3
    <2>4. CASE y.ret
      <3>1. PICK z \in Pinning(y, LAMBDA w : {w}) : v = DeleteLocalRef(ExceptionClear(z))
        BY <2>1, <2>4
      <3>2. PICK q \in Pin(y) : z = Unpin(q) \/ z = q
        BY <3>1 DEF Pinning, Bind
      <3>3. Calm(q) /\ Mono(y, q)
        BY <2>2, PinEffect DEF Keeps
      <3>4. Calm(z) /\ Mono(q, z)
        <4>1. Calm(Unpin(q)) /\ Mono(q, Unpin(q)) /\ Mono(q, q)
          BY <3>3, GivesBack DEF Calm, Keeps, Mono
        <4> QED  BY <3>2, <3>3, <4>1
      <3>5. Calm(v) /\ Mono(z, v)
        <4>1. Calm(ExceptionClear(z)) /\ Mono(z, ExceptionClear(z))
          BY <3>4, ExceptionEffect DEF Calm, Keeps
        <4> QED  BY <3>1, <4>1, GivesBack DEF Calm, Keeps, Mono
      <3> QED  BY <2>2, <3>3, <3>4, <3>5 DEF Mono
    <2> QED  BY <2>3, <2>4
  <1> HIDE DEF message
  <1>2. ASSUME NEW x, Calm(x), NEW v \in name(x) PROVE Calm(v) /\ Mono(x, v)
    <2>1. PICK q \in Pin(x) :
             v \in IF q.ret THEN {Unpin(y) : y \in {[z EXCEPT !.ret = TRUE] : z \in message(q)}} ELSE {q}
      BY <1>2 DEF Pinning, Bind
    <2>2. Calm(q) /\ Mono(x, q)
      BY <1>2, PinEffect DEF Keeps
    <2>3. CASE q.ret
      <3>1. PICK z \in message(q) : v = Unpin([z EXCEPT !.ret = TRUE])
        BY <2>1, <2>3
      <3>2. Calm(z) /\ Mono(q, z)
        BY <1>1, <2>2
      <3>3. Calm([z EXCEPT !.ret = TRUE]) /\ Mono(z, [z EXCEPT !.ret = TRUE])
        BY <3>2 DEF Calm, Sane, OpFields, Fields, Mono
      <3>4. Calm(v) /\ Mono([z EXCEPT !.ret = TRUE], v)
        BY <3>1, <3>3, GivesBack DEF Calm, Keeps
      <3> QED  BY <2>2, <3>2, <3>3, <3>4 DEF Mono
    <2> QED  BY <2>1, <2>2, <2>3
  <1> HIDE DEF name
  <1>3. Calm(held) /\ Mono(e, held)
    BY DEF Calm, Sane, OpFields, Fields, Mono
  <1>4. PICK x \in Holding(held, name) :
           r = [x EXCEPT !.locals = @ - 2, !.pending = IF x.ret THEN @ ELSE "none"]
    BY DEF getExceptionSummary, name, message
  <1> HIDE DEF held
  <1>5. PICK q \in NewRef(held) : x \in IF q.ret THEN {DeleteLocalRef(y) : y \in name(q)} ELSE {q}
    BY <1>4 DEF Holding, Bind
  <1>6. Calm(q) /\ Mono(held, q)
    BY <1>3, NewRefEffect DEF Keeps
  <1>7. Calm(x) /\ Mono(q, x)
    <2>1. CASE q.ret
      <3>1. PICK y \in name(q) : x = DeleteLocalRef(y)
        BY <1>5, <2>1
      <3>2. Calm(y) /\ Mono(q, y)
        BY <1>2, <1>6
      <3> QED  BY <3>1, <3>2, GivesBack DEF Calm, Keeps, Mono
    <2> QED  BY <1>5, <1>6, <2>1 DEF Mono
  <1>8. Calm(r) /\ Mono(x, r)
    BY <1>4, <1>7 DEF Calm, Sane, OpFields, Fields, Mono
  <1> QED  BY <1>3, <1>6, <1>7, <1>8 DEF Mono

\* Printing the stack may end with an exception of Java's, and then without a result.
LEMMA PrintEffect ==
    ASSUME NEW e, Calm(e), NEW r \in printStackTrace(e)
    PROVE  Calm(r) /\ Mono(e, r)
  <1> DEFINE text(x) == Holding(x, LAMBDA y : {y})
             trace(x) == {DeleteLocalRef(y) : y \in Bind({[x EXCEPT !.locals = @ + 1]}, LAMBDA z : text(z) \cup Fails(z, "java"))}
             writer(x) == Holding(x, trace)
             writers(x) == Holding(x, writer)
             third(x) == Holding(x, writers)
             all == Holding(e, third)
  <1>a. ASSUME NEW x, Calm(x)
        PROVE  Calm([x EXCEPT !.locals = @ + 1]) /\ Mono(x, [x EXCEPT !.locals = @ + 1])
    BY <1>a DEF Calm, Sane, OpFields, Fields, Mono
  <1>1. ASSUME NEW x, Calm(x), NEW v \in text(x) PROVE Sane(v) /\ Mono(x, v)
    <2>1. PICK q \in NewRef(x) : v = DeleteLocalRef(q) \/ v = q
      BY <1>1 DEF Holding, Bind
    <2>2. Calm(q) /\ Mono(x, q)
      BY <1>1, NewRefEffect DEF Keeps
    <2>3. Sane(DeleteLocalRef(q)) /\ Mono(q, DeleteLocalRef(q)) /\ Mono(q, q)
      BY <2>2, GivesBack DEF Calm, Keeps, Mono
    <2> QED  BY <2>1, <2>2, <2>3 DEF Calm, Mono
  <1> HIDE DEF text
  <1>2. ASSUME NEW x, Calm(x), NEW v \in trace(x) PROVE Sane(v) /\ Mono(x, v)
    <2> DEFINE w == [x EXCEPT !.locals = @ + 1]
    <2>1. PICK y \in text(w) \cup Fails(w, "java") : v = DeleteLocalRef(y)
      BY <1>2 DEF Bind
    <2>2. Calm(w) /\ Mono(x, w)
      BY <1>2, <1>a
    <2> HIDE DEF w
    <2>3. Sane(y) /\ Mono(w, y)
      BY <1>1, <2>1, <2>2, FailsEffect DEF Calm
    <2>4. Sane(v) /\ Mono(y, v)
      BY <2>1, <2>3, GivesBack DEF Keeps
    <2> QED  BY <2>2, <2>3, <2>4 DEF Mono
  <1> HIDE DEF trace
  \* The same argument, three times.
  <1>3. ASSUME NEW x, Calm(x), NEW v, NEW q \in NewRef(x), NEW S, \A y \in S : Sane(y) /\ Mono(q, y),
               v \in IF q.ret THEN {DeleteLocalRef(y) : y \in S} ELSE {q}
        PROVE  Sane(v) /\ Mono(x, v)
    <2>1. Calm(q) /\ Mono(x, q)
      BY <1>3, NewRefEffect DEF Keeps
    <2>2. CASE q.ret
      <3>1. PICK y \in S : v = DeleteLocalRef(y)
        BY <1>3, <2>2
      <3>2. Sane(v) /\ Mono(y, v)
        BY <1>3, <3>1, GivesBack DEF Keeps
      <3> QED  BY <1>3, <2>1, <3>2 DEF Mono
    <2> QED  BY <1>3, <2>1, <2>2 DEF Calm
  <1>4. ASSUME NEW x, Calm(x), NEW v \in writer(x) PROVE Sane(v) /\ Mono(x, v)
    <2>1. PICK q \in NewRef(x) : v \in IF q.ret THEN {DeleteLocalRef(y) : y \in trace(q)} ELSE {q}
      BY <1>4 DEF Holding, Bind
    <2>2. \A y \in trace(q) : Sane(y) /\ Mono(q, y)
      BY <1>2, <1>4, NewRefEffect
    <2> QED  BY <1>3, <1>4, <2>1, <2>2
  <1>5. ASSUME NEW x, Calm(x), NEW v \in writers(x) PROVE Sane(v) /\ Mono(x, v)
    <2> HIDE DEF writer
    <2>1. PICK q \in NewRef(x) : v \in IF q.ret THEN {DeleteLocalRef(y) : y \in writer(q)} ELSE {q}
      BY <1>5 DEF Holding, Bind
    <2>2. \A y \in writer(q) : Sane(y) /\ Mono(q, y)
      BY <1>4, <1>5, NewRefEffect
    <2> QED  BY <1>3, <1>5, <2>1, <2>2
  <1>6. ASSUME NEW x, Calm(x), NEW v \in third(x) PROVE Sane(v) /\ Mono(x, v)
    <2> HIDE DEF writers
    <2>1. PICK q \in NewRef(x) : v \in IF q.ret THEN {DeleteLocalRef(y) : y \in writers(q)} ELSE {q}
      BY <1>6 DEF Holding, Bind
    <2>2. \A y \in writers(q) : Sane(y) /\ Mono(q, y)
      BY <1>5, <1>6, NewRefEffect
    <2> QED  BY <1>3, <1>6, <2>1, <2>2
  <1>7. ASSUME NEW v \in all PROVE Sane(v) /\ Mono(e, v)
    <2> HIDE DEF third
    <2>1. PICK q \in NewRef(e) : v \in IF q.ret THEN {DeleteLocalRef(y) : y \in third(q)} ELSE {q}
      BY <1>7 DEF Holding, Bind
    <2>2. \A y \in third(q) : Sane(y) /\ Mono(q, y)
      BY <1>6, NewRefEffect
    <2> QED  BY <1>3, <2>1, <2>2
  <1>8. PICK x \in all : r \in IF x.ret THEN {x} ELSE getExceptionSummary(ExceptionClear(x))
    BY DEF printStackTrace, Bind, text, trace
  <1> HIDE DEF all
  <1>9. Sane(x) /\ Mono(e, x)
    BY <1>7
  <1>10. CASE x.ret
    BY <1>8, <1>9, <1>10 DEF Calm, Sane
  <1>11. CASE ~x.ret
    <2>1. Calm(ExceptionClear(x)) /\ Mono(x, ExceptionClear(x))
      BY <1>9, ExceptionEffect DEF Keeps
    <2>2. Calm(r) /\ Mono(ExceptionClear(x), r)
      BY <1>8, <1>11, <2>1, SummaryEffect
    <2> QED  BY <1>9, <2>1, <2>2 DEF Mono
  <1> QED  BY <1>10, <1>11

\* After jniLogException no exception of Java's is left, whatever failed in it.
LEMMA LogEffect ==
    ASSUME NEW e, Sane(e), NEW r \in jniLogException(e)
    PROVE  Calm(r) /\ Keeps(e, r, 0, 0)
  <1>1. CASE e.pending = "none"
    BY <1>1 DEF jniLogException, Calm, Sane, Keeps, Mono
  <1>2. CASE e.pending # "none"
    <2> DEFINE x == ExceptionOccurred(e)
               y == ExceptionClear(x)
    <2>1. Sane(x) /\ Mono(e, x)
      BY ExceptionEffect DEF Keeps
    <2>2. Calm(y) /\ Mono(x, y)
      BY <2>1, ExceptionEffect DEF Keeps
    <2>3. r \in printStackTrace(y)
      BY <1>2 DEF jniLogException
    <2> HIDE DEF x, y
    <2>4. Calm(r) /\ Mono(y, r)
      BY <2>2, <2>3, PrintEffect
    <2>5. Mono(e, r)
      BY <2>1, <2>2, <2>4 DEF Mono
    <2> QED  BY <1>2, <2>4, <2>5 DEF Sane, Keeps, Mono
  <1> QED  BY <1>1, <1>2

-----------------------------------------------------------------------------
(* The lookups.                                                            *)

\* A lookup that fails is noted, and gives nothing.
LEMMA LookupFailsEffect ==
    ASSUME NEW e, Sane(e), NEW r \in LookupFails(e)
    PROVE  Calm(r) /\ Mono(e, r) /\ r.lookup /\ ~r.ret
  <1> DEFINE f == [e EXCEPT !.locals = @ + 1, !.lookup = TRUE]
             h == ExceptionClear(f)
  <1>1. Sane(f) /\ Mono(e, f) /\ f.lookup
    BY DEF Sane, OpFields, Fields, Mono
  <1>2. PICK x \in NewRef(h) : r \in Strict(x, {[x EXCEPT !.pending = "link", !.ret = FALSE]})
    BY DEF LookupFails, Bind
  <1> HIDE DEF f
  <1>3. Calm(h) /\ Mono(f, h)
    BY <1>1, ExceptionEffect DEF Keeps
  <1> HIDE DEF h
  <1>4. Calm(x) /\ Mono(h, x) /\ Mono(e, x) /\ x.lookup
    BY <1>1, <1>2, <1>3, NewRefEffect DEF Keeps, Mono
  <1>5. CASE r = [x EXCEPT !.pending = "link", !.ret = FALSE]
    <2>1. Calm(r) /\ Mono(x, r) /\ ~r.ret
      BY <1>4, <1>5 DEF Calm, Sane, OpFields, Fields, Mono
    <2> QED  BY <1>4, <2>1 DEF Mono
  <1>6. CASE Calm(r) /\ Keeps(x, r, 0, 0) /\ ~r.ret
    BY <1>4, <1>6 DEF Keeps, Mono
  <1> QED  BY <1>2, <1>4, <1>5, <1>6, StrictEffect

\* What the cache has is found; what is found is in the cache.
LEMMA GetClassEffect ==
    ASSUME NEW e, Calm(e), NEW c, NEW r \in GetClass(e, c)
    PROVE  /\ Calm(r) /\ Keeps(e, r, 0, 0)
           /\ r.ret => <<c, TRUE>> \in r.map /\ r.pending = "none"
           /\ e.pending = "none" /\ <<c, TRUE>> \in e.map => r.ret
  <1>1. CASE e.pending # "none"
    <2> DEFINE x == ExceptionOccurred(e)
    <2>1. Calm(x) /\ Mono(e, x) /\ x.pending = e.pending
      BY ExceptionEffect DEF Calm, Keeps
    <2>2. r = [x EXCEPT !.ret = FALSE]
      BY <1>1 DEF GetClass
    <2> HIDE DEF x
    <2>3. Calm(r) /\ Mono(x, r) /\ ~r.ret /\ r.pending = e.pending
      BY <2>1, <2>2 DEF Calm, Sane, OpFields, Fields, Mono
    <2>4. Mono(e, r)
      BY <2>1, <2>3 DEF Mono
    <2> QED  BY <1>1, <2>3, <2>4 DEF Keeps, Calm, Sane
  <1>2. CASE e.pending = "none" /\ <<c, TRUE>> \in e.map
    <2>1. r = [e EXCEPT !.ret = TRUE]
      BY <1>2 DEF GetClass
    <2> QED  BY <1>2, <2>1 DEF Calm, Sane, OpFields, Fields, Keeps, Mono
  <1>3. CASE r = [e EXCEPT !.ret = TRUE, !.map = @ \cup {<<c, TRUE>>}] /\ e.pending = "none"
    <2> DEFINE k == <<c, TRUE>>
    <2>1. r = [e EXCEPT !.ret = TRUE, !.map = @ \cup {k}] /\ e.pending = "none"
      BY <1>3
    <2>2. e.pending = "none" /\ <<c, TRUE>> \in e.map => r.ret
      BY <1>3 DEF Calm, Sane, OpFields, Fields
    <2> HIDE DEF k
    <2>3. Calm(r) /\ Keeps(e, r, 0, 0) /\ k \in r.map /\ r.pending = "none"
      BY <2>1 DEF Calm, Sane, OpFields, Fields, Keeps, Mono
    <2> QED  BY <2>2, <2>3 DEF k
  <1>4. ASSUME NEW x \in Fails(e, "oom"), r \in LookupFails(x), <<c, TRUE>> \notin e.map
        PROVE  Calm(r) /\ Keeps(e, r, 0, 0) /\ ~r.ret
    <2>1. Sane(x) /\ Mono(e, x)
      BY FailsEffect DEF Calm
    <2> QED  BY <1>4, <2>1, LookupFailsEffect DEF Keeps, Mono
  <1>5. ASSUME r \in LookupFails(e) PROVE Calm(r) /\ Keeps(e, r, 0, 0) /\ ~r.ret
    BY <1>5, LookupFailsEffect DEF Calm, Keeps
  <1>6. CASE e.pending = "none" /\ <<c, TRUE>> \notin e.map
    <2>1. \/ r = [e EXCEPT !.ret = FALSE]
          \/ r \in KeepsNull(e, c)
          \/ r = [e EXCEPT !.ret = TRUE, !.map = @ \cup {<<c, TRUE>>}]
          \/ \E x \in Fails(e, "oom") : r \in LookupFails(x)
          \/ r \in LookupFails(e)
      BY <1>6 DEF GetClass, Bind
    <2>2. CASE r \in LookupFails(e)
      BY <1>5, <1>6, <2>2
    <2>3. CASE r = [e EXCEPT !.ret = FALSE]
      BY <1>6, <2>3 DEF Calm, Sane, OpFields, Fields, Keeps, Mono
    <2>4. CASE r \in KeepsNull(e, c)
      <3>1. PICK x \in Fails(e, "oom"), p \in {"none", "oom"} :
               r = [x EXCEPT !.pending = p, !.map = @ \cup {<<c, FALSE>>}]
        BY <2>4 DEF KeepsNull, Bind
      <3>2. Sane(x) /\ Mono(e, x) /\ x.excuse /\ ~x.ret
        BY FailsEffect DEF Calm
      <3>3. Calm(r) /\ Mono(x, r) /\ r.excuse /\ ~r.ret
        BY <3>1, <3>2 DEF Calm, Sane, OpFields, Fields, Mono
      <3> QED  BY <1>6, <3>2, <3>3 DEF Keeps, Mono
    <2> QED  BY <1>3, <1>4, <1>6, <2>1, <2>2, <2>3, <2>4
  <1> QED  BY <1>1, <1>2, <1>6

\* A member is found if there is a class and the Java side has the member, unless
\* the VM is out of memory.
LEMMA GetIdEffect ==
    ASSUME NEW e, Calm(e), NEW m, NEW r \in GetId(e, m)
    PROVE  /\ Calm(r) /\ Keeps(e, r, 0, 0)
           /\ r.ret => e.ret /\ e.pending = "none" /\ m \notin missing /\ r = e
           /\ e.ret /\ e.pending = "none" /\ m \notin missing => r = e \/ r.excuse
  <1>1. CASE e.pending # "none"
    <2> DEFINE x == ExceptionOccurred(e)
    <2>1. Calm(x) /\ Mono(e, x) /\ x.pending = e.pending
      BY ExceptionEffect DEF Calm, Keeps
    <2>2. r = [x EXCEPT !.ret = FALSE]
      BY <1>1 DEF GetId
    <2> HIDE DEF x
    <2>3. Calm(r) /\ Mono(x, r) /\ ~r.ret /\ r.pending = e.pending
      BY <2>1, <2>2 DEF Calm, Sane, OpFields, Fields, Mono
    <2>4. Mono(e, r)
      BY <2>1, <2>3 DEF Mono
    <2> QED  BY <1>1, <2>3, <2>4 DEF Keeps, Calm, Sane
  <1>4. ASSUME NEW x \in Fails(e, "oom"), r \in LookupFails(x)
        PROVE  Calm(r) /\ Keeps(e, r, 0, 0) /\ ~r.ret /\ r.excuse
    <2>1. Sane(x) /\ Mono(e, x) /\ x.excuse
      BY FailsEffect DEF Calm
    <2> QED  BY <1>4, <2>1, LookupFailsEffect DEF Keeps, Mono
  <1>2. CASE e.pending = "none" /\ (~e.ret \/ m \notin missing)
    <2>1. r = e \/ \E x \in Fails(e, "oom") : r \in LookupFails(x)
      BY <1>2 DEF GetId, Bind
    <2>2. CASE r = e
      BY <1>2, <2>2 DEF Keeps, Mono, Calm, Sane
    <2> QED  BY <1>2, <1>4, <2>1, <2>2
  <1>3. CASE e.pending = "none" /\ e.ret /\ m \in missing
    <2>1. r \in LookupFails(e)
      BY <1>3 DEF GetId
    <2> QED  BY <1>3, <2>1, LookupFailsEffect DEF Keeps, Calm
  <1> QED  BY <1>1, <1>2, <1>3

-----------------------------------------------------------------------------
(* The helpers.                                                            *)

\* A call of a Java method reaches it, unless an exception was pending.
LEMMA CallJavaEffect ==
    ASSUME NEW e, Calm(e), NEW r \in CallJava(e)
    PROVE  Sane(r) /\ Keeps(e, r, 0, 0) /\ (e.pending = "none" => r.sent)
  <1> DEFINE x == [e EXCEPT !.sent = TRUE]
  <1>1. Calm(x) /\ Keeps(e, x, 0, 0) /\ x.sent
    BY DEF Calm, Sane, OpFields, Fields, Keeps, Mono
  <1>2. r \in Strict(e, {x} \cup Fails(x, "java"))
    BY DEF CallJava
  <1> HIDE DEF x
  <1>3. CASE r \in Fails(x, "java")
    <2>1. Sane(r) /\ Mono(x, r) /\ r.excuse
      BY <1>1, <1>3, FailsEffect DEF Calm
    <2> QED  BY <1>1, <2>1 DEF Keeps, Mono
  <1>4. CASE r = x
    BY <1>1, <1>4 DEF Calm
  <1> QED  BY <1>2, <1>3, <1>4, StrictEffect DEF Calm

\* Access to a field.
LEMMA AccessEffect ==
    ASSUME NEW e, Calm(e), NEW r \in Access(e)
    PROVE  Calm(r) /\ Keeps(e, r, 0, 0) /\ (e.pending = "none" => r = e)
  <1>1. r \in Strict(e, {e})
    BY DEF Access
  <1>2. Keeps(e, e, 0, 0)
    BY DEF Calm, Sane, Keeps, Mono
  <1> QED  BY <1>1, <1>2, StrictEffect

\* What follows a lookup that found something, and the log of its exception.
LEMMA FoundEffect ==
    ASSUME NEW S, \A y \in S : Calm(y)
    PROVE  /\ \A r \in IfFound(S, CallJava) : \E y \in S :
                 Calm(r) /\ Keeps(y, r, 0, 0) /\ (y.ret /\ y.pending = "none" => r.sent)
           /\ \A r \in IfFound(S, Access) : \E y \in S : Calm(r) /\ Keeps(y, r, 0, 0)
  <1>0. \A y \in S : Keeps(y, y, 0, 0)
    BY DEF Calm, Sane, Keeps, Mono
  <1>1. ASSUME NEW r \in IfFound(S, CallJava)
        PROVE  \E y \in S : Calm(r) /\ Keeps(y, r, 0, 0) /\ (y.ret /\ y.pending = "none" => r.sent)
    <2>1. PICK y \in S : r \in IF y.ret THEN Bind(CallJava(y), jniLogException) ELSE {y}
      BY <1>1 DEF IfFound, Bind
    <2>2. CASE y.ret
      <3>1. PICK x \in CallJava(y) : r \in jniLogException(x)
        BY <2>1, <2>2 DEF Bind
      <3>2. Sane(x) /\ Keeps(y, x, 0, 0) /\ (y.pending = "none" => x.sent)
        BY CallJavaEffect
      <3>3. Calm(r) /\ Keeps(x, r, 0, 0)
        BY <3>1, <3>2, LogEffect
      <3>4. Keeps(y, r, 0, 0)
        BY <3>2, <3>3 DEF Calm, Sane, Keeps, Mono
      <3> QED  BY <3>2, <3>3, <3>4 DEF Keeps, Mono
    <2> QED  BY <1>0, <2>1, <2>2
  <1>2. ASSUME NEW r \in IfFound(S, Access)
        PROVE  \E y \in S : Calm(r) /\ Keeps(y, r, 0, 0)
    <2>1. PICK y \in S : r \in IF y.ret THEN Bind(Access(y), jniLogException) ELSE {y}
      BY <1>2 DEF IfFound, Bind
    <2>2. CASE y.ret
      <3>1. PICK x \in Access(y) : r \in jniLogException(x)
        BY <2>1, <2>2 DEF Bind
      <3>2. Calm(x) /\ Keeps(y, x, 0, 0)
        BY AccessEffect
      <3>3. Calm(r) /\ Keeps(x, r, 0, 0)
        BY <3>1, <3>2, LogEffect DEF Calm
      <3>4. Keeps(y, r, 0, 0)
        BY <3>2, <3>3 DEF Calm, Sane, Keeps, Mono
      <3> QED  BY <3>3, <3>4
    <2> QED  BY <1>0, <2>1, <2>2
  <1> QED  BY <1>1, <1>2

\* A static method of the application's class: it is called if the class is
\* cached and has it.
LEMMA CallStaticEffect ==
    ASSUME NEW e, Calm(e), NEW r \in JNU_CallStaticMethodByMethodInfo(e)
    PROVE  /\ Calm(r) /\ Keeps(e, r, 0, 0)
           /\ e.pending = "none" /\ <<"app", TRUE>> \in e.map /\ "method" \notin missing => r.sent \/ r.excuse
  <1>1. PICK x \in GetClass(e, "app") : r \in IfFound(GetId(x, "method"), CallJava)
    BY DEF JNU_CallStaticMethodByMethodInfo, JNU_CallStaticMethodByName, GetStaticMethodId, Bind
  <1>2. /\ Calm(x) /\ Keeps(e, x, 0, 0)
        /\ x.ret => x.pending = "none"
        /\ e.pending = "none" /\ <<"app", TRUE>> \in e.map => x.ret
    BY GetClassEffect
  <1>3. \A y \in GetId(x, "method") : /\ Calm(y) /\ Keeps(x, y, 0, 0)
                                      /\ x.ret /\ x.pending = "none" /\ "method" \notin missing => y = x \/ y.excuse
    BY <1>2, GetIdEffect
  <1>4. PICK y \in GetId(x, "method") : /\ Calm(r) /\ Keeps(y, r, 0, 0)
                                        /\ y.ret /\ y.pending = "none" => r.sent
    BY <1>1, <1>3, FoundEffect
  <1>5. Keeps(e, r, 0, 0)
    <2>1. Calm(y) /\ Keeps(x, y, 0, 0)
      BY <1>3
    <2> QED  BY <1>2, <1>4, <2>1 DEF Calm, Sane, Keeps, Mono
  <1>6. y.excuse => r.excuse
    BY <1>4 DEF Keeps, Mono
  <1> QED  BY <1>2, <1>3, <1>4, <1>5, <1>6

\* A notification leaves nothing behind, and arrives if the class is cached, it
\* has the method, and nothing fails.
LEMMA NotifyEffect ==
    ASSUME NEW e, Calm(e), NEW r \in CallWithJbyteArray(e)
    PROVE  /\ Calm(r) /\ Keeps(e, r, 0, 0)
           /\ (e.pending # "none" => e.excuse) /\ <<"app", TRUE>> \in e.map /\ "method" \notin missing =>
                r.sent \/ r.excuse
  <1>1. PICK x \in NewRef(e) : \E y \in Bind(Access(x), JNU_CallStaticMethodByMethodInfo) :
           r = IF x.ret THEN DeleteLocalRef(y) ELSE y
    BY DEF CallWithJbyteArray, Unchecked, Bind
  <1>2. PICK w \in Access(x) : \E y \in JNU_CallStaticMethodByMethodInfo(w) :
           r = IF x.ret THEN DeleteLocalRef(y) ELSE y
    BY <1>1 DEF Bind
  <1>3. PICK y \in JNU_CallStaticMethodByMethodInfo(w) : r = IF x.ret THEN DeleteLocalRef(y) ELSE y
    BY <1>2
  <1>4. /\ Calm(x) /\ Keeps(e, x, 1, 0) /\ (x.ret => x.pending = "none")
        /\ ~x.ret => x.excuse \/ x.lookup
    BY NewRefEffect
  <1>5. Calm(w) /\ Keeps(x, w, 0, 0) /\ (x.pending = "none" => w = x)
    BY <1>4, AccessEffect
  <1>6. /\ Calm(y) /\ Keeps(w, y, 0, 0)
        /\ w.pending = "none" /\ <<"app", TRUE>> \in w.map /\ "method" \notin missing => y.sent \/ y.excuse
    BY <1>5, CallStaticEffect
  <1>7. CASE x.ret
    <2>1. Calm(r) /\ Keeps(y, r, -1, 0)
      BY <1>3, <1>6, <1>7, GivesBack DEF Calm
    <2>2. Keeps(e, r, 0, 0)
      BY <1>4, <1>5, <1>6, <2>1 DEF Calm, Sane, Keeps, Mono
    <2> QED  BY <1>4, <1>5, <1>6, <1>7, <2>1, <2>2 DEF Keeps, Mono
  <1>8. CASE ~x.ret
    <2>1. r = y
      BY <1>3, <1>8
    <2>2. Mono(e, r) /\ (r.excuse \/ r.lookup) /\ Mono(x, r)
      BY <1>4, <1>5, <1>6, <1>8, <2>1 DEF Keeps, Mono
    <2>3. (e.pending # "none" => e.excuse) => x.excuse
      BY <1>8, NewRefFails
    <2> QED  BY <1>6, <2>1, <2>2, <2>3 DEF Keeps, Mono
  <1> QED  BY <1>7, <1>8

\* A reference that is used whether or not it was made, around something that
\* keeps nothing.
LEMMA UncheckedEffect ==
    ASSUME NEW e, Calm(e), NEW x \in NewRef(e), NEW y, Calm(y), Keeps(x, y, 0, 0),
           NEW r, r = IF x.ret THEN DeleteLocalRef(y) ELSE y
    PROVE  Calm(r) /\ Keeps(e, r, 0, 0)
  <1>1. Calm(x) /\ Keeps(e, x, 1, 0) /\ (~x.ret => x.excuse \/ x.lookup)
    BY NewRefEffect
  <1>2. CASE x.ret
    <2>1. Calm(r) /\ Keeps(y, r, -1, 0)
      BY <1>2, GivesBack DEF Calm
    <2> QED  BY <1>1, <2>1 DEF Calm, Sane, Keeps, Mono
  <1>3. CASE ~x.ret
    BY <1>1, <1>3 DEF Keeps, Mono
  <1> QED  BY <1>2, <1>3

\* References and characters held over a conversion: text and arrays.
LEMMA HoldEffect ==
    ASSUME NEW e, Calm(e)
    PROVE  /\ \A r \in Holding(e, LAMBDA x : {x}) : Calm(r) /\ Keeps(e, r, 0, 0)
           /\ \A r \in Pinning(e, LAMBDA x : {x}) : Calm(r) /\ Keeps(e, r, 0, 0)
  <1>a. ASSUME NEW x, Calm(x) PROVE Keeps(x, x, 0, 0)
    BY <1>a DEF Calm, Sane, Keeps, Mono
  <1>b. ASSUME NEW x, Calm(x), NEW r, Calm(r), Keeps(e, x, 0, 1), Keeps(x, r, 0, -1) PROVE Keeps(e, r, 0, 0)
    BY <1>b DEF Calm, Sane, Keeps, Mono
  <1>1. ASSUME NEW r \in Holding(e, LAMBDA x : {x}) PROVE Calm(r) /\ Keeps(e, r, 0, 0)
    <2>1. PICK x \in NewRef(e) : r = IF x.ret THEN DeleteLocalRef(x) ELSE x
      BY <1>1 DEF Holding, Bind
    <2>2. Calm(x)
      BY NewRefEffect
    <2>3. Keeps(x, x, 0, 0)
      BY <1>a, <2>2
    <2> QED  BY <2>1, <2>2, <2>3, UncheckedEffect
  <1>2. ASSUME NEW r \in Pinning(e, LAMBDA x : {x}) PROVE Calm(r) /\ Keeps(e, r, 0, 0)
    <2>1. PICK x \in Pin(e) : r = IF x.ret THEN Unpin(x) ELSE x
      BY <1>2 DEF Pinning, Bind
    <2>2. Calm(x) /\ Keeps(e, x, 0, 1) /\ (~x.ret => x.excuse \/ x.lookup)
      BY PinEffect
    <2>3. CASE x.ret
      <3>1. Calm(r) /\ Keeps(x, r, 0, -1)
        BY <2>1, <2>2, <2>3, GivesBack DEF Calm
      <3> QED  BY <1>b, <2>2, <3>1
    <2>4. CASE ~x.ret
      BY <2>1, <2>2, <2>4 DEF Keeps
    <2> QED  BY <2>3, <2>4
  <1> QED  BY <1>1, <1>2

\* The references of a new String, one held within the other.
Encoded(e) == Holding(e, LAMBDA w : {w})
Bytes(e) == Unchecked(e, Encoded)
Chars(e) == Unchecked(e, Bytes)

\* They are given back.
LEMMA StringEffect ==
    ASSUME NEW e, Calm(e)
    PROVE  /\ \A r \in Bytes(e) : Calm(r) /\ Keeps(e, r, 0, 0)
           /\ \A r \in Chars(e) : Calm(r) /\ Keeps(e, r, 0, 0)
           /\ \A r \in Unchecked(e, Chars) : Calm(r) /\ Keeps(e, r, 0, 0)
  <1>1. \A x : Calm(x) => \A r \in Encoded(x) : Calm(r) /\ Keeps(x, r, 0, 0)
    BY HoldEffect DEF Encoded
  <1>2. ASSUME NEW x, Calm(x), NEW r \in Bytes(x) PROVE Calm(r) /\ Keeps(x, r, 0, 0)
    <2>1. PICK y \in NewRef(x) : \E z \in Encoded(y) : r = IF y.ret THEN DeleteLocalRef(z) ELSE z
      BY <1>2 DEF Bytes, Unchecked, Bind
    <2>2. PICK z \in Encoded(y) : r = IF y.ret THEN DeleteLocalRef(z) ELSE z
      BY <2>1
    <2>3. Calm(y)
      BY <1>2, NewRefEffect
    <2>4. Calm(z) /\ Keeps(y, z, 0, 0)
      BY <1>1, <2>3
    <2> QED  BY <1>2, <2>2, <2>4, UncheckedEffect
  <1>3. ASSUME NEW x, Calm(x), NEW r \in Chars(x) PROVE Calm(r) /\ Keeps(x, r, 0, 0)
    <2>1. PICK y \in NewRef(x) : \E z \in Bytes(y) : r = IF y.ret THEN DeleteLocalRef(z) ELSE z
      BY <1>3 DEF Chars, Unchecked, Bind
    <2>2. PICK z \in Bytes(y) : r = IF y.ret THEN DeleteLocalRef(z) ELSE z
      BY <2>1
    <2>3. Calm(y)
      BY <1>3, NewRefEffect
    <2>4. Calm(z) /\ Keeps(y, z, 0, 0)
      BY <1>2, <2>3
    <2> QED  BY <1>3, <2>2, <2>4, UncheckedEffect
  <1>4. ASSUME NEW r \in Unchecked(e, Chars) PROVE Calm(r) /\ Keeps(e, r, 0, 0)
    <2>1. PICK y \in NewRef(e) : \E z \in Chars(y) : r = IF y.ret THEN DeleteLocalRef(z) ELSE z
      BY <1>4 DEF Unchecked, Bind
    <2>2. PICK z \in Chars(y) : r = IF y.ret THEN DeleteLocalRef(z) ELSE z
      BY <2>1
    <2>3. Calm(y)
      BY NewRefEffect
    <2>4. Calm(z) /\ Keeps(y, z, 0, 0)
      BY <1>3, <2>3
    <2> QED  BY <2>2, <2>4, UncheckedEffect
  <1> QED  BY <1>2, <1>3, <1>4

\* A method of an object: the reference to its class is given back.
LEMMA CallMethodEffect ==
    ASSUME NEW e, Calm(e), NEW r \in JNU_CallMethodByName(e)
    PROVE  Calm(r) /\ Keeps(e, r, 0, 0)
  <1> DEFINE a == [e EXCEPT !.ret = TRUE, !.locals = @ + 1]
  <1>4. CASE r \in Strict(e, Fails(e, "oom"))
    <2>1. (Calm(r) /\ Keeps(e, r, 0, 0)) \/ r \in Fails(e, "oom")
      BY <1>4, StrictEffect
    <2> QED  BY <2>1, FailsEffect DEF Calm, Keeps
  <1> SUFFICES ASSUME r \notin Strict(e, Fails(e, "oom")) PROVE Calm(r) /\ Keeps(e, r, 0, 0)
    BY <1>4
  <1>1. PICK x \in Strict(e, {a}) :
           r \in IF e.pending # "none" THEN {ExceptionOccurred(x)}
                 ELSE {DeleteLocalRef(y) : y \in IfFound(GetMethodId(x, "method"), CallJava)}
    BY DEF JNU_CallMethodByName, Bind
  <1>2. CASE e.pending # "none"
    <2>1. r = ExceptionOccurred(x) /\ Calm(x) /\ Keeps(e, x, 0, 0)
      BY <1>1, <1>2, StrictEffect
    <2>2. Calm(r) /\ Keeps(x, r, 0, 0)
      BY <2>1, ExceptionEffect DEF Calm
    <2> QED  BY <2>1, <2>2 DEF Calm, Sane, Keeps, Mono
  <1>3. CASE e.pending = "none"
    <2>1. x = a
      BY <1>1, <1>3, StrictEffect
    <2>2. Calm(a) /\ Keeps(e, a, 1, 0)
      BY <1>3 DEF Calm, Sane, OpFields, Fields, Keeps, Mono
    <2> HIDE DEF a
    <2>3. PICK y \in IfFound(GetMethodId(x, "method"), CallJava) : r = DeleteLocalRef(y)
      BY <1>1, <1>3
    <2>4. \A z \in GetMethodId(x, "method") : Calm(z) /\ Keeps(x, z, 0, 0)
      BY <2>1, <2>2, GetIdEffect DEF GetMethodId
    <2>5. PICK z \in GetMethodId(x, "method") : Calm(y) /\ Keeps(z, y, 0, 0)
      BY <2>4, FoundEffect
    <2>6. Calm(r) /\ Keeps(y, r, -1, 0)
      BY <2>3, <2>5, GivesBack DEF Calm
    <2>7. Calm(z) /\ Keeps(x, z, 0, 0)
      BY <2>4
    <2> QED  BY <2>1, <2>2, <2>5, <2>6, <2>7 DEF Calm, Sane, Keeps, Mono
  <1> QED  BY <1>2, <1>3

\* The fields, static and of an object.
LEMMA FieldEffect ==
    ASSUME NEW e, Calm(e), NEW r \in JNU_GetStaticField(e) \cup JNU_SetField(e) \cup JNU_GetField(e)
    PROVE  Calm(r) /\ Keeps(e, r, 0, 0)
  <1> DEFINE S == {DeleteLocalRef(x) : x \in GetFieldId([e EXCEPT !.ret = TRUE, !.locals = @ + 1])}
  <1>1. CASE r \in JNU_GetStaticField(e)
    <2> DEFINE T == Bind(GetClass(e, "app"), GetStaticFieldId)
    <2>1. ASSUME NEW y \in T PROVE Calm(y) /\ Keeps(e, y, 0, 0)
      <3>1. PICK x \in GetClass(e, "app") : y \in GetId(x, "field")
        BY DEF Bind, GetStaticFieldId
      <3>2. Calm(x) /\ Keeps(e, x, 0, 0)
        BY GetClassEffect
      <3>3. Calm(y) /\ Keeps(x, y, 0, 0)
        BY <3>1, <3>2, GetIdEffect
      <3> QED  BY <3>2, <3>3 DEF Calm, Sane, Keeps, Mono
    <2>2. r \in IfFound(T, Access)
      BY <1>1 DEF JNU_GetStaticField
    <2> HIDE DEF T
    <2>3. PICK y \in T : Calm(r) /\ Keeps(y, r, 0, 0)
      BY <2>1, <2>2, FoundEffect
    <2>4. Calm(y) /\ Keeps(e, y, 0, 0)
      BY <2>1
    <2> QED  BY <2>3, <2>4 DEF Calm, Sane, Keeps, Mono
  <1>2. CASE e.pending # "none" /\ r = ExceptionOccurred(e)
    BY <1>2, ExceptionEffect DEF Calm
  <1>3. CASE e.pending = "none" /\ r \in IfFound(S, Access)
    <2> DEFINE a == [e EXCEPT !.ret = TRUE, !.locals = @ + 1]
    <2>1. Calm(a) /\ Keeps(e, a, 1, 0)
      BY <1>3 DEF Calm, Sane, OpFields, Fields, Keeps, Mono
    <2>2. S = {DeleteLocalRef(x) : x \in GetFieldId(a)}
      OBVIOUS
    <2> HIDE DEF a, S
    <2>3. ASSUME NEW y \in S PROVE Calm(y) /\ Keeps(e, y, 0, 0)
      <3>1. PICK x \in GetId(a, "field") : y = DeleteLocalRef(x)
        BY <2>2 DEF GetFieldId
      <3>2. Calm(x) /\ Keeps(a, x, 0, 0)
        BY <2>1, GetIdEffect
      <3>3. Calm(y) /\ Keeps(x, y, -1, 0)
        BY <3>1, <3>2, GivesBack DEF Calm
      <3> QED  BY <2>1, <3>2, <3>3 DEF Calm, Sane, Keeps, Mono
    <2>4. PICK y \in S : Calm(r) /\ Keeps(y, r, 0, 0)
      BY <1>3, <2>3, FoundEffect
    <2>5. Calm(y) /\ Keeps(e, y, 0, 0)
      BY <2>3
    <2> QED  BY <2>4, <2>5 DEF Calm, Sane, Keeps, Mono
  <1> QED  BY <1>1, <1>2, <1>3 DEF JNU_SetField, JNU_GetField

\* The conversions of strings.
LEMMA ConvertEffect ==
    ASSUME NEW e, Calm(e),
           NEW r \in JNU_Jstring2Wchar(e) \cup JNU_Wstring2Jstring(e) \cup JNU_Chars2Jstring(e)
                     \cup JNU_JbyteArray2Buffer(e) \cup ScopedJstring(e) \cup ScopedJstringOf(e)
    PROVE  Calm(r) /\ Keeps(e, r, 0, 0)
  <1>1. CASE r \in JNU_Jstring2Wchar(e)
    BY <1>1, HoldEffect DEF JNU_Jstring2Wchar
  <1>6. CASE r \in JNU_JbyteArray2Buffer(e)
    <2>1. PICK x \in Pin(e) : r = IF x.ret THEN Unpin(x) ELSE x
      BY <1>6 DEF JNU_JbyteArray2Buffer, Bind
    <2>2. Calm(x) /\ Keeps(e, x, 0, 1) /\ (~x.ret => x.excuse \/ x.lookup)
      BY PinEffect
    <2>3. CASE x.ret
      <3>1. Calm(r) /\ Keeps(x, r, 0, -1)
        BY <2>1, <2>2, <2>3, GivesBack DEF Calm
      <3> QED  BY <2>2, <3>1 DEF Calm, Sane, Keeps, Mono
    <2>4. CASE ~x.ret
      BY <2>1, <2>2, <2>4 DEF Keeps
    <2> QED  BY <2>3, <2>4
  <1>2. CASE r \in JNU_Wstring2Jstring(e)
    BY <1>2, HoldEffect DEF JNU_Wstring2Jstring
  <1>3. CASE r \in JNU_Chars2Jstring(e)
    <2>1. PICK x \in GetClass(e, "java/lang/String") : \E y \in GetId(x, "java/lang/String") : r \in Chars(y)
      BY <1>3 DEF JNU_Chars2Jstring, GetMethodId, Bind, Chars, Bytes, Encoded
    <2>2. PICK y \in GetId(x, "java/lang/String") : r \in Chars(y)
      BY <2>1
    <2>3. Calm(x) /\ Keeps(e, x, 0, 0)
      BY GetClassEffect
    <2>4. Calm(y) /\ Keeps(x, y, 0, 0)
      BY <2>3, GetIdEffect
    <2>5. Calm(r) /\ Keeps(y, r, 0, 0)
      BY <2>2, <2>4, StringEffect
    <2> QED  BY <2>3, <2>4, <2>5 DEF Calm, Sane, Keeps, Mono
  <1>4. CASE r \in ScopedJstring(e)
    <2>1. PICK x \in NewRef(e) :
             r \in IF ~x.ret THEN {x}
                   ELSE Bind(Pin(x), LAMBDA y : IF y.pending # "none" THEN {ExceptionOccurred(y)} ELSE {DeleteLocalRef(Unpin(y))})
      BY <1>4 DEF ScopedJstring, Bind
    <2>2. Calm(x) /\ Keeps(e, x, 1, 0) /\ (~x.ret => x.excuse \/ x.lookup)
      BY NewRefEffect
    <2>3. CASE ~x.ret
      BY <2>1, <2>2, <2>3 DEF Keeps
    <2>4. CASE x.ret
      <3>1. PICK y \in Pin(x) : r = IF y.pending # "none" THEN ExceptionOccurred(y) ELSE DeleteLocalRef(Unpin(y))
        BY <2>1, <2>4 DEF Bind
      <3>2. Calm(y) /\ Keeps(x, y, 0, 1)
        BY <2>2, PinEffect
      <3>3. CASE y.pending # "none"
        <4>1. Calm(r) /\ Keeps(y, r, 0, 0) /\ (y.excuse \/ y.lookup)
          BY <3>1, <3>2, <3>3, ExceptionEffect DEF Calm, Sane
        <4> QED  BY <2>2, <3>2, <4>1 DEF Keeps, Mono
      <3>4. CASE y.pending = "none"
        <4>1. Calm(Unpin(y)) /\ Keeps(y, Unpin(y), 0, -1)
          BY <3>2, GivesBack DEF Calm
        <4>2. Calm(r) /\ Keeps(Unpin(y), r, -1, 0)
          BY <3>1, <3>4, <4>1, GivesBack DEF Calm
        <4> QED  BY <2>2, <3>2, <4>1, <4>2 DEF Calm, Sane, Keeps, Mono
      <3> QED  BY <3>3, <3>4
    <2> QED  BY <2>3, <2>4
  <1>5. CASE r \in ScopedJstringOf(e)
    <2>1. CASE e.pending # "none"
      BY <1>5, <2>1, ExceptionEffect DEF ScopedJstringOf, Calm
    <2>2. CASE e.pending = "none"
      <3>1. r \in Unchecked(e, Chars)
        BY <1>5, <2>2 DEF ScopedJstringOf, Chars, Bytes, Encoded
      <3> QED  BY <3>1, StringEffect
    <2> QED  BY <2>1, <2>2
  <1> QED  BY <1>1, <1>2, <1>3, <1>4, <1>5, <1>6

\* Every helper.
LEMMA HelperEffect ==
    ASSUME NEW e, Calm(e), NEW r \in UNION Helpers(e)
    PROVE  Calm(r) /\ Keeps(e, r, 0, 0)
  BY CallMethodEffect, FieldEffect, ConvertEffect DEF Helpers

\* JNI_OnLoad has a result only when the class was cached and has the method.
LEMMA LoadEffect ==
    ASSUME NEW e, Calm(e), NEW r \in Bind(LoadClass(e), LoadStaticMethod)
    PROVE  /\ Calm(r) /\ Keeps(e, r, 0, 0)
           /\ r.ret => <<"app", TRUE>> \in r.map /\ "method" \notin missing
  <1>1. PICK x \in GetClass(e, "app") : r \in LoadStaticMethod(x)
    BY DEF LoadClass, Bind
  <1>2. PICK y \in GetClass(x, "app") : r \in GetId(y, "method")
    BY <1>1 DEF LoadStaticMethod, GetStaticMethodId, Bind
  <1>3. Calm(x) /\ Keeps(e, x, 0, 0)
    BY GetClassEffect
  <1>4. Calm(y) /\ Keeps(x, y, 0, 0) /\ (y.ret => <<"app", TRUE>> \in y.map)
    BY <1>3, GetClassEffect
  <1>5. /\ Calm(r) /\ Keeps(y, r, 0, 0)
        /\ r.ret => y.ret /\ "method" \notin missing /\ r = y
    BY <1>2, <1>4, GetIdEffect
  <1>6. Keeps(e, r, 0, 0)
    BY <1>3, <1>4, <1>5 DEF Calm, Sane, Keeps, Mono
  <1> QED  BY <1>4, <1>5, <1>6

-----------------------------------------------------------------------------
(* Threads.                                                                *)

\* The environment of a thread between two operations.
Settled(v) ==
    /\ DOMAIN v = Fields /\ v.locals \in Int /\ v.pins \in Int
    /\ v.ret \in BOOLEAN /\ v.sent \in BOOLEAN /\ v.excuse \in BOOLEAN /\ v.lookup \in BOOLEAN
    /\ v.pending # "java" /\ "java" \notin v.abuse
    /\ v.leak => v.excuse \/ v.lookup

\* What JNI_OnLoad found is in the cache until the library is released.
Loaded == library = "loaded" => <<"app", TRUE>> \in class_map_ /\ "method" \notin missing

\* A notification that did not arrive has an excuse.
Sent == \A t \in Threads : env[t].sent \/ env[t].excuse \/ library \in {"incomplete", "released"}

IInv == DOMAIN env = Threads /\ (\A t \in Threads : Settled(env[t])) /\ Loaded /\ Sent

\* An operation begins without an exception of Java's, and knows of any other.
LEMMA EnterEffect ==
    ASSUME NEW t \in Threads, Settled(env[t])
    PROVE  /\ Calm(Enter(t)) /\ Enter(t).map = class_map_ /\ Enter(t).sent
           /\ Enter(t).pending # "none" => Enter(t).excuse
  <1> DEFINE own == [env[t] EXCEPT !.sent = TRUE, !.excuse = env[t].pending # "none", !.lookup = FALSE]
             shared == [map |-> class_map_, faults |-> faults, java |-> env[t].attached = "java"]
  <1>1. /\ DOMAIN own = Fields /\ own.locals \in Int /\ own.pins \in Int
        /\ own.ret \in BOOLEAN /\ own.sent = TRUE /\ own.lookup = FALSE
        /\ own.pending # "java" /\ "java" \notin own.abuse
    BY DEF Settled, Fields
  <1>2. own.excuse \in BOOLEAN /\ (own.pending # "none" => own.excuse)
    BY DEF Settled, Fields
  <1>3. DOMAIN shared = {"map", "faults", "java"} /\ shared.map = class_map_
    OBVIOUS
  <1>4. Enter(t) = [f \in DOMAIN own \cup DOMAIN shared |-> IF f \in DOMAIN own THEN own[f] ELSE shared[f]]
    BY DEF Enter
  <1> HIDE DEF own, shared
  <1>5. Enter(t) = [f \in OpFields |-> IF f \in Fields THEN own[f] ELSE shared[f]]
    BY <1>1, <1>3, <1>4 DEF OpFields
  <1>6. PICK x : x = Enter(t)
    OBVIOUS
  <1>7. /\ DOMAIN x = OpFields /\ x.map = class_map_ /\ x.locals = own.locals /\ x.pins = own.pins
        /\ x.ret = own.ret /\ x.sent = own.sent /\ x.lookup = own.lookup /\ x.excuse = own.excuse
        /\ x.pending = own.pending /\ x.abuse = own.abuse
    BY <1>3, <1>5, <1>6 DEF OpFields, Fields
  <1>8. Calm(x) /\ x.map = class_map_ /\ x.sent /\ (x.pending # "none" => x.excuse)
    BY <1>1, <1>2, <1>7 DEF Calm, Sane
  <1> QED  BY <1>6, <1>7, <1>8 DEF OpFields

\* Attaching the thread changes nothing of this.
LEMMA AttachEffect ==
    ASSUME NEW e, Calm(e)
    PROVE  LET x == Attach(e)
           IN  /\ Calm(x) /\ Keeps(e, x, 0, 0) /\ x.pending = e.pending /\ x.map = e.map
               /\ x.locals = e.locals /\ x.pins = e.pins /\ x.excuse = e.excuse /\ x.sent = e.sent
  BY DEF Attach, Calm, Sane, OpFields, Fields, Keeps, Mono

\* After what led from e to r nothing is held that was not before, unless a call failed.
Balanced(e, r) == r.excuse \/ r.lookup \/ (r.locals <= e.locals /\ r.pins <= e.pins)

\* What the thread is left with, after what led from e to r.
LEMMA LeaveEffect ==
    ASSUME NEW t \in Threads, DOMAIN env = Threads, Settled(env[t]),
           NEW e, Calm(e), NEW r, Calm(r), Balanced(e, r),
           NEW x \in ScopeJEnv(e, {r}), Leave(t, x)
    PROVE  /\ DOMAIN env' = Threads /\ \A u \in Threads \ {t} : env'[u] = env[u]
           /\ Settled(env'[t]) /\ env'[t].sent = r.sent /\ env'[t].excuse = r.excuse
           /\ class_map_' = r.map /\ x.ret = r.ret
  <1>1. x = [r EXCEPT !.locals = e.locals, !.leak = r.locals > e.locals \/ r.pins > e.pins]
    BY DEF ScopeJEnv
  <1>2. /\ DOMAIN x = OpFields /\ x.locals \in Int
        /\ x.ret = r.ret /\ x.sent = r.sent /\ x.excuse = r.excuse /\ x.lookup = r.lookup
        /\ x.pending = r.pending /\ x.abuse = r.abuse /\ x.map = r.map
    BY <1>1 DEF Calm, Sane, OpFields, Fields
  <1>3. x.leak => x.excuse \/ x.lookup
    <2>1. x.leak = (r.locals > e.locals \/ r.pins > e.pins)
      BY <1>1 DEF Calm, Sane, OpFields, Fields
    <2> QED  BY <1>2, <2>1 DEF Calm, Sane, Balanced
  <1>4. PICK y : y = Return(t, x)
    OBVIOUS
  <1>5. /\ DOMAIN y = OpFields /\ y.locals \in Int /\ y.pins = 0 /\ y.ret = FALSE
        /\ y.sent = r.sent /\ y.excuse = r.excuse /\ y.lookup = r.lookup /\ y.abuse = r.abuse
        /\ y.pending \in {"none", r.pending} /\ y.leak = x.leak
    BY <1>2, <1>4 DEF Return, OpFields, Fields
  <1>6. PICK z : z = [f \in Fields |-> y[f]]
    OBVIOUS
  <1>7. /\ DOMAIN z = Fields /\ z.locals \in Int /\ z.pins = 0 /\ z.ret = FALSE
        /\ z.sent = r.sent /\ z.excuse = r.excuse /\ z.lookup = r.lookup /\ z.abuse = r.abuse
        /\ z.pending \in {"none", r.pending} /\ z.leak = x.leak
    BY <1>5, <1>6 DEF Fields
  <1>8. Settled(z)
    <2>1. z.leak => z.excuse \/ z.lookup
      BY <1>2, <1>3, <1>7
    <2>2. z.ret \in BOOLEAN /\ z.sent \in BOOLEAN /\ z.excuse \in BOOLEAN /\ z.lookup \in BOOLEAN
      BY <1>7, Zenon DEF Calm, Sane
    <2>3. z.pending # "java" /\ "java" \notin z.abuse
      BY <1>7 DEF Calm, Sane
    <2> QED  BY <1>7, <2>1, <2>2, <2>3 DEF Settled
  <1>9. env' = [env EXCEPT ![t] = z]
    <2>1. DOMAIN env[t] = Fields
      BY DEF Settled
    <2> QED  BY <1>4, <1>6, <2>1 DEF Leave
  <1> QED  BY <1>2, <1>7, <1>8, <1>9 DEF Leave

-----------------------------------------------------------------------------
(* IInv is inductive.                                                      *)

\* It holds at the start.
LEMMA InitIInv == Init => IInv
  <1> SUFFICES ASSUME Init PROVE IInv
    OBVIOUS
  <1>1. \A t \in Threads : env[t] = NewEnv(IF t \in JavaThreads THEN "java" ELSE "no")
    BY DEF Init
  <1>2. ASSUME NEW how PROVE Settled(NewEnv(how)) /\ NewEnv(how).sent
    BY DEF NewEnv, Settled, Fields
  <1> QED  BY <1>1, <1>2 DEF Init, IInv, Loaded, Sent

\* JNI_OnLoad: what it returns tells whether the class and the method were found.
LEMMA OnLoadStep ==
    ASSUME IInv, NEW t \in Threads, JNI_OnLoad(t)
    PROVE  IInv'
  <1>1. PICK x \in ScopeJEnv(Enter(t), Bind(LoadClass(Attach(Enter(t))), LoadStaticMethod)) :
           Leave(t, x) /\ library' = IF x.ret THEN "loaded" ELSE "incomplete"
    BY DEF JNI_OnLoad
  <1> DEFINE S == Bind(LoadClass(Attach(Enter(t))), LoadStaticMethod)
  <1>2. PICK e : e = Enter(t)
    OBVIOUS
  <1>3. PICK a : a = Attach(e)
    OBVIOUS
  <1>4. PICK r \in S : x \in ScopeJEnv(e, {r})
    BY <1>1, <1>2 DEF ScopeJEnv
  <1>5. /\ Calm(a) /\ Keeps(e, a, 0, 0) /\ Calm(e) /\ e.map = class_map_ /\ e.sent /\ Settled(env[t])
    BY <1>2, <1>3, EnterEffect, AttachEffect DEF IInv
  <1>6. Calm(r) /\ Keeps(a, r, 0, 0) /\ (r.ret => <<"app", TRUE>> \in r.map /\ "method" \notin missing)
    BY <1>2, <1>3, <1>5, LoadEffect
  <1> HIDE DEF S
  <1>7. Balanced(e, r) /\ r.sent
    BY <1>5, <1>6 DEF Calm, Sane, Keeps, Mono, Balanced
  <1>8. /\ DOMAIN env' = Threads /\ \A u \in Threads \ {t} : env'[u] = env[u]
        /\ Settled(env'[t]) /\ env'[t].sent = r.sent /\ env'[t].excuse = r.excuse
        /\ class_map_' = r.map /\ x.ret = r.ret
    <2>1. DOMAIN env = Threads /\ Leave(t, x)
      BY <1>1 DEF IInv
    <2>2. Calm(e) /\ Settled(env[t]) /\ Calm(r) /\ Balanced(e, r)
      BY <1>5, <1>6, <1>7
    <2> QED  BY <1>4, <2>1, <2>2, LeaveEffect
  <1>9. Loaded'
    BY <1>1, <1>6, <1>8 DEF Loaded, JNI_OnLoad
  <1>10. Sent'
    BY <1>7, <1>8 DEF Sent, IInv, JNI_OnLoad
  <1> QED  BY <1>8, <1>9, <1>10 DEF IInv

\* A notification.
LEMMA NotifyStep ==
    ASSUME IInv, NEW t \in Threads, Notify(t)
    PROVE  IInv'
  <1>1. PICK x \in ScopeJEnv(Enter(t), CallWithJbyteArray([Attach(Enter(t)) EXCEPT !.sent = FALSE])) : Leave(t, x)
    BY DEF Notify
  <1>2. PICK e : e = Enter(t)
    OBVIOUS
  <1>3. PICK b : b = Attach(e)
    OBVIOUS
  <1>4. PICK a : a = [b EXCEPT !.sent = FALSE]
    OBVIOUS
  <1>5. PICK r \in CallWithJbyteArray(a) : x \in ScopeJEnv(e, {r})
    BY <1>1, <1>2, <1>3, <1>4 DEF ScopeJEnv
  <1>6. /\ Calm(e) /\ e.map = class_map_ /\ Settled(env[t])
        /\ e.pending # "none" => e.excuse
    BY <1>2, EnterEffect DEF IInv
  <1>7. /\ Calm(b) /\ b.map = e.map /\ b.pending = e.pending /\ b.excuse = e.excuse
        /\ b.locals = e.locals /\ b.pins = e.pins
    BY <1>3, <1>6, AttachEffect
  <1>8. /\ Calm(a) /\ a.map = b.map /\ a.pending = b.pending /\ a.excuse = b.excuse
        /\ a.locals = b.locals /\ a.pins = b.pins
    BY <1>4, <1>7 DEF Calm, Sane, OpFields, Fields
  <1>9. /\ Calm(r) /\ Keeps(a, r, 0, 0)
        /\ (a.pending # "none" => a.excuse) /\ <<"app", TRUE>> \in a.map /\ "method" \notin missing =>
             r.sent \/ r.excuse
    BY <1>5, <1>8, NotifyEffect
  <1>10. Balanced(e, r) /\ class_map_ \subseteq r.map
    BY <1>6, <1>7, <1>8, <1>9 DEF Calm, Sane, Keeps, Mono, Balanced
  <1>11. /\ DOMAIN env' = Threads /\ \A u \in Threads \ {t} : env'[u] = env[u]
         /\ Settled(env'[t]) /\ env'[t].sent = r.sent /\ env'[t].excuse = r.excuse
         /\ class_map_' = r.map
    BY <1>1, <1>5, <1>6, <1>9, <1>10, LeaveEffect DEF IInv
  <1>12. library' = library /\ missing' = missing /\ library \in {"loaded", "incomplete"}
    BY DEF Notify, InUse
  <1>13. library = "loaded" => r.sent \/ r.excuse
    BY <1>6, <1>7, <1>8, <1>9 DEF IInv, Loaded
  <1>14. Loaded'
    BY <1>10, <1>11, <1>12 DEF Loaded, IInv
  <1>15. Sent'
    BY <1>11, <1>12, <1>13 DEF Sent, IInv
  <1> QED  BY <1>11, <1>14, <1>15 DEF IInv

\* Any other helper.
LEMMA HelperStep ==
    ASSUME IInv, NEW t \in Threads, CallHelper(t)
    PROVE  IInv'
  <1>1. PICK x \in ScopeJEnv(Enter(t), UNION Helpers(Attach(Enter(t)))) : Leave(t, x)
    BY DEF CallHelper
  <1>2. PICK e : e = Enter(t)
    OBVIOUS
  <1>3. PICK a : a = Attach(e)
    OBVIOUS
  <1>4. PICK r \in UNION Helpers(a) : x \in ScopeJEnv(e, {r})
    BY <1>1, <1>2, <1>3 DEF ScopeJEnv
  <1>5. Calm(a) /\ Keeps(e, a, 0, 0) /\ Calm(e) /\ e.map = class_map_ /\ e.sent /\ Settled(env[t])
    BY <1>2, <1>3, EnterEffect, AttachEffect DEF IInv
  <1>6. Calm(r) /\ Keeps(a, r, 0, 0)
    BY <1>4, <1>5, HelperEffect
  <1>7. Balanced(e, r) /\ r.sent /\ class_map_ \subseteq r.map
    BY <1>5, <1>6 DEF Calm, Sane, Keeps, Mono, Balanced
  <1>8. /\ DOMAIN env' = Threads /\ \A u \in Threads \ {t} : env'[u] = env[u]
        /\ Settled(env'[t]) /\ env'[t].sent = r.sent /\ env'[t].excuse = r.excuse
        /\ class_map_' = r.map
    <2>1. DOMAIN env = Threads /\ Leave(t, x)
      BY <1>1 DEF IInv
    <2>2. Calm(e) /\ Settled(env[t]) /\ Calm(r) /\ Balanced(e, r)
      BY <1>5, <1>6, <1>7
    <2> QED  BY <1>4, <2>1, <2>2, LeaveEffect
  <1>9. library' = library /\ missing' = missing
    BY DEF CallHelper
  <1>10. Loaded'
    BY <1>7, <1>8, <1>9 DEF Loaded, IInv
  <1>11. Sent'
    BY <1>7, <1>8, <1>9 DEF Sent, IInv
  <1> QED  BY <1>8, <1>10, <1>11 DEF IInv

\* A thread that ends keeps what it did.
LEMMA ExitStep ==
    ASSUME IInv, NEW t \in Threads, ThreadExits(t)
    PROVE  IInv'
  <1>1. PICK z : z = [env[t] EXCEPT !.alive = FALSE,
                                    !.attached = IF env[t].key /\ library # "released" THEN "no" ELSE @]
    OBVIOUS
  <1>2. env' = [env EXCEPT ![t] = z]
    BY <1>1 DEF ThreadExits, IInv
  <1>3. Settled(z) /\ z.sent = env[t].sent /\ z.excuse = env[t].excuse
    BY <1>1 DEF IInv, Settled, Fields
  <1>4. library' = library /\ missing' = missing /\ class_map_' = class_map_
    BY DEF ThreadExits
  <1> QED  BY <1>2, <1>3, <1>4 DEF IInv, Loaded, Sent

\* Every step keeps it.
LEMMA NextIInv == IInv /\ [Next]_vars => IInv'
  <1> SUFFICES ASSUME IInv, [Next]_vars PROVE IInv'
    OBVIOUS
  <1>1. CASE JNI_OnUnload
    BY <1>1 DEF JNI_OnUnload, IInv, Loaded, Sent
  <1>2. CASE UNCHANGED vars
    BY <1>2 DEF vars, IInv, Loaded, Sent
  <1> QED  BY <1>1, <1>2, OnLoadStep, NotifyStep, HelperStep, ExitStep DEF Next

\* Between operations every environment is settled, the cache holds what
\* JNI_OnLoad found, and what did not arrive has an excuse.
THEOREM Invariant == Spec => []IInv
  BY InitIInv, NextIInv, PTL DEF Spec

\* jniLogException ends every exception that a Java method threw, whatever fails
\* while it is logged, and no JNI call is made while one is pending.
THEOREM ExceptionsEnd == Spec => []CallbackExceptionsEnd
  <1>1. IInv => CallbackExceptionsEnd
    BY DEF IInv, Settled, CallbackExceptionsEnd
  <1> QED  BY <1>1, Invariant, PTL

\* NotifyEventFired and NotifyPropertyChanged reach Java from every thread, with
\* the class JNI_OnLoad cached, unless a call failed.
THEOREM NotifiedFromAnyThread == Spec => []NotifiesArrive
  <1>1. IInv => NotifiesArrive
    BY DEF IInv, Sent, NotifiesArrive
  <1> QED  BY <1>1, Invariant, PTL

\* Every helper of comm_function.cc gives back the references and the characters
\* it took, unless a call in it failed.
THEOREM GivenBack == Spec => []HelpersKeepNothing
  <1>1. IInv => HelpersKeepNothing
    BY DEF IInv, Settled, HelpersKeepNothing
  <1> QED  BY <1>1, Invariant, PTL
=============================================================================
