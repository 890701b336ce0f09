---------------------------- MODULE UiPumpProofs ----------------------------
(***************************************************************************)
(* Proofs about UiPump, for any threads, runnables, delays and bound of    *)
(* the clock, on both platforms.                                           *)
(***************************************************************************)
EXTENDS UiPump, FiniteSetTheorems, SequenceTheorems, WellFoundedInduction, NaturalsInduction, TLAPS

Phases == {"new", "waiting", "taken", "started", "done", "cancelled"}
Steps == {"idle", "ask", "got", "insert", "wake"}
Ticket == [expired_time : Nat, id : Nat]
Call == [at : Steps, task : Runnables, expired_time : Nat]
Frame == [at : {"kill", "work", "run"}, now : Nat, batch : Seq(Runnables), modal : BOOLEAN]
Sys == [open : BOOLEAN, posted : Nat, timer : Nat \cup {None}, ready : BOOLEAN]

TypeOK ==
    /\ os \in {"win", "android"} /\ now \in Nat /\ stoped \in BOOLEAN
    /\ ticket \in [Runnables -> Ticket] /\ phase \in [Runnables -> Phases]
    /\ sys \in Sys /\ stack \in Seq(Frame) /\ call \in [Threads -> Call]
    /\ manager \in {"none", "live"} /\ unint \in {"no", "stop", "posting", "join", "done"}

Known == {t \in Runnables : phase[t] # "new"}

\* The ids of what has been inserted differ, and the next one is larger.
Ids ==
    /\ \A t \in Runnables : ticket[t].id <= Cardinality(Known)
    /\ \A t, u \in Known : t # u => ticket[t].id # ticket[u].id

\* A runnable is inserted once, by one thread, and DoStop by Stop only.
Posts ==
    /\ \A p \in Threads : call[p].at = "insert" =>
          /\ phase[call[p].task] = "new"
          /\ call[p].task = StopTask => unint = "posting" /\ p = Main
          /\ \A q \in Threads \ {p} : call[q].at = "insert" => call[q].task # call[p].task
    /\ unint \in {"no", "stop"} => phase[StopTask] = "new"
    /\ unint = "stop" => call[Main].at = "idle"
    /\ manager = "none" /\ unint = "no" =>
          /\ \A t \in Runnables : phase[t] = "new"
          /\ \A p \in Threads : call[p].at \in {"idle", "ask"}

\* A handler on the main thread: its batch is taken, the head may have started.
FrameOK(f, ph, o, n) ==
    /\ f.now <= n
    /\ f.at # "run" => f.batch = <<>>
    /\ o = "win" => Len(f.batch) <= 1
    /\ f.modal => f.at = "run" /\ o = "win" /\ f.batch # <<>> /\ ph[f.batch[1]] = "started"
    /\ \A k \in DOMAIN f.batch :
         ph[f.batch[k]] = "taken" \/ (k = 1 /\ ph[f.batch[k]] = "started")
    /\ \A k, l \in DOMAIN f.batch : f.batch[k] = f.batch[l] => k = l

\* Handlers are nested by dialogs only, and share no runnable.
Frames(stk, ph, o, n) ==
    /\ \A i \in DOMAIN stk : FrameOK(stk[i], ph, o, n) /\ (i > 1 => stk[i].modal)
    /\ \A i, j \in DOMAIN stk : i # j =>
          \A k \in DOMAIN stk[i].batch, l \in DOMAIN stk[j].batch : stk[i].batch[k] # stk[j].batch[l]

\* Once UnintMessageLoop is called, the handler on top is in a runnable, and
\* once the window is destroyed nothing calls another.
Stopped ==
    /\ stoped => unint \in {"join", "done"}
    /\ os = "win" => ~sys.ready
    /\ os = "win" /\ unint \notin {"no", "stop"} => ~sys.open /\ sys.posted = 0 /\ sys.timer = None
    /\ os = "win" /\ unint # "no" /\ stack # <<>> =>
          stack[1].modal \/ (stack[1].at = "run" /\ stack[1].batch # <<>> /\ phase[stack[1].batch[1]] = "started")

\* NoLostWakeup, of a pump that nobody holds any more too.
Woken ==
    Waiting # {} /\ (os = "win" => sys.open) =>
        \/ sys.posted > 0 \/ sys.timer # None \/ sys.ready
        \/ \E p \in Threads : call[p].at = "wake"
        \/ stack # <<>> /\ (stack[1].at \in {"kill", "work"} \/ os = "android")

IInv == TypeOK /\ Ids /\ Posts /\ Frames(stack, phase, os, now) /\ Stopped /\ Woken

-----------------------------------------------------------------------------
(* Sequences of frames.                                                    *)

Tops(s, f, t) ==
    /\ t \in Seq(Frame) /\ t # <<>> /\ t[1] = f
    /\ \A i \in DOMAIN t : i \in Nat /\ (i > 1 => i \in DOMAIN s /\ t[i] = s[i])
Pushes(s, f, t) ==
    /\ t \in Seq(Frame) /\ t # <<>> /\ t[1] = f
    /\ \A i \in DOMAIN t : i \in Nat /\ (i > 1 => i - 1 \in DOMAIN s /\ t[i] = s[i - 1])
Pops(s, t) ==
    /\ t \in Seq(Frame)
    /\ \A i \in DOMAIN t : i \in Nat /\ i >= 1 /\ i + 1 \in DOMAIN s /\ t[i] = s[i + 1]

\* A sequence that is not empty: its first member and the others.
LEMMA FirstOf ==
    ASSUME NEW F, NEW s \in Seq(F), s # <<>>
    PROVE  /\ 1 \in DOMAIN s /\ s[1] \in F /\ Head(s) = s[1] /\ Tail(s) \in Seq(F)
           /\ \A i \in DOMAIN Tail(s) : i \in Nat /\ i >= 1 /\ i + 1 \in DOMAIN s /\ Tail(s)[i] = s[i + 1]
  <1>1. Len(s) \in Nat \ {0} /\ DOMAIN s = 1 .. Len(s) /\ s \in [1 .. Len(s) -> F]
    BY EmptySeq, LenProperties
  <1>2. /\ Tail(s) \in Seq(F) /\ Len(Tail(s)) = Len(s) - 1
        /\ \A i \in 1 .. Len(Tail(s)) : Tail(s)[i] = s[i + 1]
    BY HeadTailProperties
  <1>3. DOMAIN Tail(s) = 1 .. Len(Tail(s))
    BY <1>2, LenProperties
  <1>4. 1 \in DOMAIN s /\ s[1] \in F /\ Head(s) = s[1]
    BY <1>1
  <1> QED  BY <1>1, <1>2, <1>3, <1>4

\* Pushing, replacing and popping the top frame.
LEMMA PushPop ==
    ASSUME NEW s \in Seq(Frame), NEW f \in Frame
    PROVE  /\ Pushes(s, f, <<f>> \o s)
           /\ s # <<>> => Tops(s, f, <<f>> \o Tail(s)) /\ Pops(s, Tail(s))
  <1>1. ASSUME NEW r \in Seq(Frame)
        PROVE  /\ <<f>> \o r \in Seq(Frame) /\ <<f>> \o r # <<>> /\ (<<f>> \o r)[1] = f
               /\ \A i \in DOMAIN (<<f>> \o r) :
                    i \in Nat /\ (i > 1 => i - 1 \in DOMAIN r /\ (<<f>> \o r)[i] = r[i - 1])
    <2> DEFINE t == <<f>> \o r
    <2>0. <<f>> \in Seq(Frame) /\ Len(<<f>>) = 1 /\ <<f>>[1] = f
      OBVIOUS
    <2>1. /\ t \in Seq(Frame) /\ Len(t) = 1 + Len(r)
          /\ \A i \in 1 .. 1 + Len(r) : t[i] = IF i <= 1 THEN <<f>>[i] ELSE r[i - 1]
      BY <2>0, ConcatProperties
    <2>2. Len(r) \in Nat /\ DOMAIN r = 1 .. Len(r) /\ DOMAIN t = 1 .. Len(t)
      BY <2>1, LenProperties
    <2> HIDE DEF t
    <2>3. t # <<>>
      BY <2>1, <2>2, EmptySeq
    <2>4. t[1] = f
      BY <2>0, <2>1, <2>2
    <2>5. ASSUME NEW i \in DOMAIN t PROVE i \in Nat /\ (i > 1 => i - 1 \in DOMAIN r /\ t[i] = r[i - 1])
      BY <2>1, <2>2
    <2> QED  BY <2>1, <2>3, <2>4, <2>5 DEF t
  <1>2. Pushes(s, f, <<f>> \o s)
    BY <1>1 DEF Pushes
  <1>3. ASSUME s # <<>> PROVE Tops(s, f, <<f>> \o Tail(s)) /\ Pops(s, Tail(s))
    <2> DEFINE r == Tail(s)
               t == <<f>> \o r
    <2>1. /\ r \in Seq(Frame)
          /\ \A i \in DOMAIN r : i \in Nat /\ i >= 1 /\ i + 1 \in DOMAIN s /\ r[i] = s[i + 1]
      BY <1>3, FirstOf
    <2> HIDE DEF r
    <2>2. /\ t \in Seq(Frame) /\ t # <<>> /\ t[1] = f
          /\ \A i \in DOMAIN t : i \in Nat /\ (i > 1 => i - 1 \in DOMAIN r /\ t[i] = r[i - 1])
      BY <1>1, <2>1
    <2> HIDE DEF t
    <2>3. ASSUME NEW i \in DOMAIN t, i > 1 PROVE i \in DOMAIN s /\ t[i] = s[i]
      <3>1. i \in Nat /\ i - 1 \in DOMAIN r /\ t[i] = r[i - 1]
        BY <2>2, <2>3
      <3>2. (i - 1) + 1 \in DOMAIN s /\ r[i - 1] = s[(i - 1) + 1]
        BY <2>1, <3>1
      <3>3. (i - 1) + 1 = i
        BY <3>1
      <3> QED  BY <3>1, <3>2, <3>3
    <2>4. Pops(s, r)
      BY <2>1 DEF Pops
    <2>5. Tops(s, f, t)
      BY <2>2, <2>3 DEF Tops
    <2> QED  BY <2>4, <2>5 DEF r, t
  <1> QED  BY <1>2, <1>3

\* A frame does not notice the phase of what is in other batches, or the clock.
LEMMA FrameKeeps ==
    ASSUME NEW f \in Frame, NEW ph, NEW ph2, NEW o, NEW n \in Nat, NEW n2 \in Nat, n <= n2, FrameOK(f, ph, o, n),
           \A k \in DOMAIN f.batch : ph2[f.batch[k]] = ph[f.batch[k]]
    PROVE  FrameOK(f, ph2, o, n2)
  <1>1. f.now \in Nat /\ f.batch \in Seq(Runnables)
    BY DEF Frame
  <1>2. f.now <= n2
    BY <1>1 DEF FrameOK
  <1>3. f.batch # <<>> => 1 \in DOMAIN f.batch
    BY <1>1, FirstOf
  <1> QED  BY <1>2, <1>3 DEF FrameOK

\* Nor do all the frames of the stack together.
LEMMA FramesKeep ==
    ASSUME NEW s \in Seq(Frame), NEW ph, NEW ph2, NEW o, NEW n \in Nat, NEW n2 \in Nat, n <= n2, Frames(s, ph, o, n),
           \A i \in DOMAIN s : \A k \in DOMAIN s[i].batch : ph2[s[i].batch[k]] = ph[s[i].batch[k]]
    PROVE  Frames(s, ph2, o, n2)
  <1>1. ASSUME NEW i \in DOMAIN s PROVE FrameOK(s[i], ph2, o, n2)
    <2>1. s[i] \in Frame
      BY <1>1, LenProperties
    <2> QED  BY <1>1, <2>1, FrameKeeps DEF Frames
  <1> QED  BY <1>1 DEF Frames

\* The top frame may change its batch if no frame below shares a runnable with it.
LEMMA FramesTop ==
    ASSUME NEW s \in Seq(Frame), NEW f, NEW t, Tops(s, f, t), NEW ph, NEW ph2, NEW o, NEW n \in Nat, Frames(s, ph, o, n),
           FrameOK(f, ph2, o, n),
           \A i \in DOMAIN s : i > 1 => \A k \in DOMAIN s[i].batch : ph2[s[i].batch[k]] = ph[s[i].batch[k]],
           \A i \in DOMAIN s : i > 1 =>
               \A k \in DOMAIN s[i].batch, l \in DOMAIN f.batch : s[i].batch[k] # f.batch[l]
    PROVE  Frames(t, ph2, o, n)
  <1>0. DOMAIN t \subseteq Nat /\ 1 \in DOMAIN t /\ \A i \in DOMAIN t : i # 1 => i > 1
    BY LenProperties, FirstOf DEF Tops
  <1>1. ASSUME NEW i \in DOMAIN t PROVE FrameOK(t[i], ph2, o, n) /\ (i > 1 => t[i].modal)
    <2>1. CASE i = 1
      BY <2>1 DEF Tops
    <2>2. CASE i # 1
      <3>1. i \in DOMAIN s /\ t[i] = s[i] /\ i > 1
        BY <1>0, <1>1, <2>2 DEF Tops
      <3>2. s[i] \in Frame /\ FrameOK(s[i], ph, o, n) /\ s[i].modal
        BY <3>1, LenProperties DEF Frames
      <3>3. \A k \in DOMAIN s[i].batch : ph2[s[i].batch[k]] = ph[s[i].batch[k]]
        BY <3>1
      <3>4. FrameOK(s[i], ph2, o, n)
        BY <3>2, <3>3, FrameKeeps
      <3> QED  BY <3>1, <3>2, <3>4
    <2> QED  BY <2>1, <2>2
  <1>2. ASSUME NEW i \in DOMAIN t, NEW j \in DOMAIN t, i # j,
               NEW k \in DOMAIN t[i].batch, NEW l \in DOMAIN t[j].batch
        PROVE  t[i].batch[k] # t[j].batch[l]
    <2>1. CASE i = 1
      <3>1. j > 1 /\ j \in DOMAIN s /\ t[j] = s[j] /\ t[i] = f
        BY <1>0, <1>2, <2>1 DEF Tops
      <3> QED  BY <1>2, <3>1
    <2>2. CASE j = 1
      <3>1. i > 1 /\ i \in DOMAIN s /\ t[i] = s[i] /\ t[j] = f
        BY <1>0, <1>2, <2>2 DEF Tops
      <3> QED  BY <1>2, <3>1
    <2>3. CASE i # 1 /\ j # 1
      <3>1. i \in DOMAIN s /\ j \in DOMAIN s /\ t[i] = s[i] /\ t[j] = s[j]
        BY <1>0, <1>2, <2>3 DEF Tops
      <3> QED  BY <1>2, <3>1 DEF Frames
    <2> QED  BY <2>1, <2>2, <2>3
  <1> QED  BY <1>1, <1>2 DEF Frames

\* A nested DoWork begins with an empty batch, above a frame that is modal.
LEMMA FramesPush ==
    ASSUME NEW s \in Seq(Frame), NEW f, NEW t, Pushes(s, f, t), NEW ph, NEW o, NEW n, Frames(s, ph, o, n),
           FrameOK(f, ph, o, n), f.batch = <<>>, s # <<>> => s[1].modal
    PROVE  Frames(t, ph, o, n)
  <1>0. DOMAIN t \subseteq Nat /\ \A i \in DOMAIN t : i # 1 => i > 1
    BY LenProperties DEF Pushes
  <1>1. \A i \in DOMAIN s : s[i].modal
    <2>1. \A i \in DOMAIN s : i \in Nat /\ (i = 1 \/ i > 1)
      BY LenProperties
    <2>2. \A i \in DOMAIN s : s # <<>>
      BY EmptySeq, LenProperties
    <2> QED  BY <2>1, <2>2 DEF Frames
  <1>2. ASSUME NEW i \in DOMAIN t PROVE FrameOK(t[i], ph, o, n) /\ (i > 1 => t[i].modal)
    <2>1. CASE i = 1
      BY <2>1 DEF Pushes
    <2>2. CASE i # 1
      <3>1. i - 1 \in DOMAIN s /\ t[i] = s[i - 1]
        BY <1>0, <1>2, <2>2 DEF Pushes
      <3> QED  BY <1>1, <3>1 DEF Frames
    <2> QED  BY <2>1, <2>2
  <1>3. DOMAIN f.batch = {}
    BY EmptySeq
  <1>4. ASSUME NEW i \in DOMAIN t, NEW j \in DOMAIN t, i # j,
               NEW k \in DOMAIN t[i].batch, NEW l \in DOMAIN t[j].batch
        PROVE  t[i].batch[k] # t[j].batch[l]
    <2>1. CASE i = 1 \/ j = 1
      BY <1>3, <1>4, <2>1 DEF Pushes
    <2>2. CASE i # 1 /\ j # 1
      <3>1. /\ i - 1 \in DOMAIN s /\ j - 1 \in DOMAIN s /\ t[i] = s[i - 1] /\ t[j] = s[j - 1]
        BY <1>0, <1>4, <2>2 DEF Pushes
      <3>2. i - 1 # j - 1
        BY <1>0, <1>4
      <3> QED  BY <1>4, <3>1, <3>2 DEF Frames
    <2> QED  BY <2>1, <2>2
  <1> QED  BY <1>2, <1>4 DEF Frames

\* When it returns, the frame below is the modal one that called it.
LEMMA FramesPop ==
    ASSUME NEW s \in Seq(Frame), NEW t, Pops(s, t), NEW ph, NEW ph2, NEW o, NEW n \in Nat, Frames(s, ph, o, n),
           \A i \in DOMAIN s : i > 1 => \A k \in DOMAIN s[i].batch : ph2[s[i].batch[k]] = ph[s[i].batch[k]]
    PROVE  Frames(t, ph2, o, n) /\ (t # <<>> => t[1].modal)
  <1>1. ASSUME NEW i \in DOMAIN t PROVE FrameOK(t[i], ph2, o, n) /\ t[i].modal
    <2>1. i + 1 \in DOMAIN s /\ t[i] = s[i + 1] /\ i + 1 > 1
      BY <1>1 DEF Pops
    <2>2. s[i + 1] \in Frame /\ FrameOK(s[i + 1], ph, o, n) /\ s[i + 1].modal
      BY <2>1, LenProperties DEF Frames
    <2>3. \A k \in DOMAIN s[i + 1].batch : ph2[s[i + 1].batch[k]] = ph[s[i + 1].batch[k]]
      BY <2>1
    <2>4. FrameOK(s[i + 1], ph2, o, n)
      BY <2>2, <2>3, FrameKeeps
    <2> QED  BY <2>1, <2>2, <2>4
  <1>2. ASSUME NEW i \in DOMAIN t, NEW j \in DOMAIN t, i # j,
               NEW k \in DOMAIN t[i].batch, NEW l \in DOMAIN t[j].batch
        PROVE  t[i].batch[k] # t[j].batch[l]
    <2>1. i + 1 \in DOMAIN s /\ j + 1 \in DOMAIN s /\ t[i] = s[i + 1] /\ t[j] = s[j + 1] /\ i + 1 # j + 1
      BY <1>2 DEF Pops
    <2> QED  BY <1>2, <2>1 DEF Frames
  <1>3. t # <<>> => 1 \in DOMAIN t
    BY FirstOf DEF Pops
  <1> QED  BY <1>1, <1>2, <1>3 DEF Frames

-----------------------------------------------------------------------------
(* runable_set_ and its wakeups.                                           *)

\* A set of natural numbers has a least member.
LEMMA NatLeast ==
    ASSUME NEW T \in SUBSET Nat, T # {}
    PROVE  \E m \in T : \A k \in T : m <= k
  <1> DEFINE Lower == OpToRel(<, Nat)
  <1>1. \A x, y \in Nat : <<x, y>> \in Lower <=> x < y
    BY DEF OpToRel
  <1>2. PICK m \in T : \A k \in T : ~(<<k, m>> \in Lower)
    BY WFMin, NatLessThanWellFounded
  <1> HIDE DEF Lower
  <1>3. \A k \in T : ~(k < m)
    BY <1>1, <1>2
  <1>4. \A k \in T : m <= k
    BY <1>3
  <1> QED  BY <1>4

\* runable_set_ has a begin(), so the wakeup is for a time that somebody asked for.
LEMMA FirstExists ==
    ASSUME TypeOK, Ids, NEW S \in SUBSET Known, S # {}
    PROVE  \E t \in S : IsFirst(t, S)
  <1>0. \A t \in S : ticket[t].expired_time \in Nat /\ ticket[t].id \in Nat
    BY DEF TypeOK, Known, Ticket
  <1> DEFINE Es == {ticket[t].expired_time : t \in S}
  <1>1. PICK e \in Es : \A k \in Es : e <= k
    <2>1. Es # {} /\ Es \in SUBSET Nat
      BY <1>0
    <2> QED  BY <2>1, NatLeast
  <1> DEFINE R == {t \in S : ticket[t].expired_time = e}
             Is == {ticket[t].id : t \in R}
  <1>2. PICK i \in Is : \A k \in Is : i <= k
    <2>1. Is # {} /\ Is \in SUBSET Nat
      BY <1>0, <1>1
    <2> QED  BY <2>1, NatLeast
  <1>3. PICK t \in R : ticket[t].id = i
    BY <1>2
  <1>4. ASSUME NEW u \in S \ {t} PROVE Less(t, u)
    <2>1. e <= ticket[u].expired_time /\ ticket[t].expired_time = e
      BY <1>1, <1>3
    <2>2. CASE ticket[u].expired_time = e
      <3>1. i <= ticket[u].id
        BY <1>2, <2>2
      <3>2. ticket[u].id # ticket[t].id
        BY <1>3 DEF Ids
      <3> QED  BY <1>0, <1>3, <2>1, <2>2, <3>1, <3>2 DEF Less
    <2>3. CASE ticket[u].expired_time # e
      BY <1>0, <1>3, <2>1, <2>3 DEF Less
    <2> QED  BY <2>2, <2>3
  <1> QED  BY <1>3, <1>4 DEF IsFirst

\* What a wakeup does to the window or the timerfd.
LEMMA WakeupEffect ==
    ASSUME TypeOK, NEW e \in Nat
    PROVE  LET w == Wakeup(sys, e)
           IN  /\ w \in Sys /\ w.open = sys.open
               /\ os = "win" => w.ready = sys.ready
               /\ os = "win" /\ ~sys.open => w = sys
               /\ (os = "win" => sys.open) => w.posted > 0 \/ w.timer # None \/ w.ready
  <1> DEFINE n == sys.posted + 1
  <1>1. n \in Nat /\ n > 0 /\ e # None
    BY DEF TypeOK, Sys, None
  <1>2. CASE os = "win" /\ ~sys.open
    BY <1>2 DEF Wakeup, WakeupWin, TypeOK
  <1>3. CASE os = "win" /\ sys.open /\ e > now
    BY <1>1, <1>3 DEF Wakeup, WakeupWin, TypeOK, Sys
  <1>4. CASE os = "win" /\ sys.open /\ ~(e > now)
    <2>1. Wakeup(sys, e) = [sys EXCEPT !.posted = n]
      BY <1>4 DEF Wakeup, WakeupWin
    <2> HIDE DEF n
    <2> QED  BY <1>1, <1>4, <2>1 DEF TypeOK, Sys
  <1>5. CASE os # "win"
    BY <1>5 DEF Wakeup, WakeupAndroid, TypeOK, Sys
  <1> QED  BY <1>2, <1>3, <1>4, <1>5

\* WakeFirst for a set that is not empty leaves a message, a timer or a signal.
LEMMA WakeFirstEffect ==
    ASSUME TypeOK, Ids, NEW S \in SUBSET Waiting
    PROVE  LET w == WakeFirst(sys, S)
           IN  /\ w \in Sys /\ w.open = sys.open
               /\ os = "win" => w.ready = sys.ready
               /\ os = "win" /\ ~sys.open => w = sys
               /\ S # {} /\ (os = "win" => sys.open) => w.posted > 0 \/ w.timer # None \/ w.ready
  <1>1. CASE S = {}
    BY <1>1 DEF WakeFirst, TypeOK
  <1>2. CASE S # {}
    <2> DEFINE t == CHOOSE t \in S : IsFirst(t, S)
               e == ticket[t].expired_time
    <2>1. S \subseteq Known /\ S \subseteq Runnables
      BY DEF Waiting, Known
    <2>2. t \in S
      BY <1>2, <2>1, FirstExists
    <2>3. e \in Nat
      BY <2>1, <2>2 DEF TypeOK, Ticket
    <2>4. WakeFirst(sys, S) = Wakeup(sys, e)
      BY <1>2 DEF WakeFirst
    <2> HIDE DEF e
    <2> QED  BY <2>3, <2>4, WakeupEffect
  <1> QED  BY <1>1, <1>2

-----------------------------------------------------------------------------
(* The parts of the invariant, one lemma each.                             *)

USE DEF set, loops

\* Each variable keeps its type.
LEMMA TypeInductive == TypeOK /\ Ids /\ Posts /\ Frames(stack, phase, os, now) /\ Next => TypeOK'
  <1> SUFFICES ASSUME TypeOK, Ids, Posts, Frames(stack, phase, os, now), Next PROVE TypeOK'
    OBVIOUS
  <1>0. /\ stack # <<>> => stack[1] \in Frame
        /\ stack # <<>> => Tail(stack) \in Seq(Frame)
        /\ StopTask \in Runnables
    BY FirstOf DEF TypeOK, Runnables
  <1>1. ASSUME NEW f \in Frame PROVE <<f>> \o stack \in Seq(Frame) /\ (stack # <<>> => <<f>> \o Tail(stack) \in Seq(Frame))
    BY <1>1, PushPop DEF TypeOK, Pushes, Tops
  <1>2. ASSUME NEW a \in {"kill", "work"}, Push(a) PROVE stack' \in Seq(Frame)
    <2> DEFINE f == [at |-> a, now |-> now, batch |-> <<>>, modal |-> FALSE]
    <2>1. f \in Frame
      BY <1>2 DEF Frame, TypeOK
    <2> HIDE DEF f
    <2>2. stack' = <<f>> \o stack
      BY <1>2 DEF Push, f
    <2> QED  BY <1>1, <2>1, <2>2
  <1>3. CASE InitMessageLoop
    BY <1>3 DEF InitMessageLoop, TypeOK, Sys
  <1>4. CASE UnintMessageLoop
    BY <1>4 DEF UnintMessageLoop, TypeOK
  <1>5. CASE StopWin
    BY <1>5 DEF StopWin, TypeOK, Sys
  <1>6. CASE StopAndroid
    BY <1>0, <1>6 DEF StopAndroid, TypeOK, Call, Steps
  <1>7. CASE SetStoped
    BY <1>7 DEF SetStoped, TypeOK
  <1>8. ASSUME NEW w \in Workers, StopWorker(w) PROVE TypeOK'
    BY <1>8 DEF StopWorker, TypeOK
  <1>9. CASE UnintReturns
    BY <1>9 DEF UnintReturns, TypeOK
  <1>10. CASE DispatchCustom
    <2>1. stack' \in Seq(Frame)
      BY <1>2, <1>10 DEF DispatchCustom
    <2>2. sys' \in Sys
      BY <1>10 DEF DispatchCustom, TypeOK, Sys
    <2> QED  BY <1>10, <2>1, <2>2 DEF DispatchCustom, TypeOK
  <1>11. CASE DispatchTimer
    <2>1. stack' \in Seq(Frame)
      BY <1>2, <1>11 DEF DispatchTimer
    <2> QED  BY <1>11, <2>1 DEF DispatchTimer, TypeOK
  <1>12. CASE KillTimer
    <2> DEFINE f == [stack[1] EXCEPT !.at = "work", !.now = now]
    <2>1. f \in Frame /\ stack' = <<f>> \o Tail(stack)
      BY <1>0, <1>12 DEF KillTimer, Top, Frame, TypeOK
    <2> HIDE DEF f
    <2>2. stack' \in Seq(Frame)
      BY <1>1, <1>12, <2>1 DEF KillTimer
    <2>3. sys' \in Sys
      BY <1>12 DEF KillTimer, TypeOK, Sys
    <2> QED  BY <1>12, <2>2, <2>3 DEF KillTimer, TypeOK
  <1>13. CASE DispatchFd
    <2>1. stack' \in Seq(Frame)
      BY <1>2, <1>13 DEF DispatchFd
    <2>2. sys' \in Sys
      BY <1>13 DEF DispatchFd, TypeOK, Sys
    <2> QED  BY <1>13, <2>1, <2>2 DEF DispatchFd, TypeOK
  <1>14. CASE DoOneWork
    <2>1. CASE Due = {}
      <3>1. Pop /\ sys' = WakeFirst(sys, Waiting) /\ phase' = phase
        BY <1>14, <2>1 DEF DoOneWork
      <3>2. sys' \in Sys
        BY <3>1, WakeFirstEffect
      <3> QED  BY <1>0, <1>14, <3>1, <3>2 DEF DoOneWork, TypeOK, Pop
    <2>2. CASE Due # {}
      <3>1. PICK t \in Due :
              /\ phase' = [phase EXCEPT ![t] = "taken"]
              /\ sys' = WakeFirst(sys, Waiting \ {t})
              /\ Top([stack[1] EXCEPT !.at = "run", !.batch = <<t>>])
        BY <1>14, <2>2 DEF DoOneWork
      <3>2. sys' \in Sys
        BY <3>1, WakeFirstEffect
      <3> DEFINE f == [stack[1] EXCEPT !.at = "run", !.batch = <<t>>]
      <3>3. f \in Frame
        <4>1. <<t>> \in Seq(Runnables)
          BY DEF Due, Waiting
        <4> QED  BY <1>0, <1>14, <4>1 DEF DoOneWork, Frame
      <3>4. stack' = <<f>> \o Tail(stack) /\ phase' \in [Runnables -> Phases]
        BY <3>1 DEF Top, TypeOK, Phases
      <3> HIDE DEF f
      <3>5. stack' \in Seq(Frame)
        BY <1>1, <1>14, <3>3, <3>4 DEF DoOneWork
      <3> QED  BY <1>14, <3>2, <3>4, <3>5 DEF DoOneWork, TypeOK
    <2> QED  BY <2>1, <2>2
  <1>15. CASE DoWork
    <2>1. PICK b \in [1..Cardinality(Due) -> Due] : Top([stack[1] EXCEPT !.at = "run", !.batch = b])
      BY <1>15 DEF DoWork
    <2>2. b \in Seq(Runnables)
      <3>1. IsFiniteSet(Due)
        <4>1. IsFiniteSet(Runnables)
          BY TasksAssumption, FS_AddElement DEF Runnables
        <4> QED  BY <4>1, FS_Subset DEF Due, Waiting
      <3>2. Cardinality(Due) \in Nat
        BY <3>1, FS_CardinalityType
      <3>3. Due \subseteq Runnables
        BY DEF Due, Waiting
      <3> QED  BY <3>2, <3>3
    <2> DEFINE f == [stack[1] EXCEPT !.at = "run", !.batch = b]
    <2>3. f \in Frame
      BY <1>0, <1>15, <2>2 DEF DoWork, Frame
    <2>4. stack' = <<f>> \o Tail(stack)
      BY <2>1 DEF Top
    <2> HIDE DEF f
    <2>5. stack' \in Seq(Frame)
      BY <1>1, <1>15, <2>3, <2>4 DEF DoWork
    <2>6. phase' \in [Runnables -> Phases]
      BY <1>15 DEF DoWork, TypeOK, Phases
    <2> QED  BY <1>15, <2>5, <2>6 DEF DoWork, TypeOK
  <1>16. CASE StartRunnable
    BY <1>16 DEF StartRunnable, TypeOK, Phases
  <1>17. CASE Rearm
    <2>1. sys' \in Sys /\ stack' \in Seq(Frame)
      BY <1>0, <1>17, WakeFirstEffect DEF Rearm, Pop
    <2> QED  BY <1>17, <2>1 DEF Rearm, TypeOK
  <1>18. CASE DoModal
    <2> DEFINE f == [stack[1] EXCEPT !.modal = TRUE]
    <2>1. f \in Frame /\ stack' = <<f>> \o Tail(stack)
      BY <1>0, <1>18 DEF DoModal, InRunnable, Top, Frame
    <2> HIDE DEF f
    <2>2. stack' \in Seq(Frame)
      BY <1>1, <1>18, <2>1 DEF DoModal, InRunnable
    <2> QED  BY <1>18, <2>2 DEF DoModal, TypeOK
  <1>19. CASE FinishRunnable
    <2>1. phase' \in [Runnables -> Phases]
      BY <1>19 DEF FinishRunnable, TypeOK, Phases
    <2>2. CASE os = "win"
      BY <1>0, <1>19, <2>1, <2>2 DEF FinishRunnable, TypeOK, Pop
    <2>3. CASE os # "win"
      <3> DEFINE b == Tail(stack[1].batch)
                 f == [stack[1] EXCEPT !.batch = b]
      <3>1. stack[1].batch # <<>>
        BY <1>19, FirstOf DEF FinishRunnable, InRunnable, Frames, FrameOK, TypeOK
      <3>2. b \in Seq(Runnables)
        <4>1. stack[1].batch \in Seq(Runnables)
          BY <1>0, <1>19 DEF FinishRunnable, Frame
        <4> QED  BY <3>1, <4>1, FirstOf
      <3>3. stack' = <<f>> \o Tail(stack)
        BY <1>19, <2>3 DEF FinishRunnable, Top
      <3> HIDE DEF b
      <3>4. f \in Frame
        BY <1>0, <1>19, <3>2 DEF FinishRunnable, Frame
      <3> HIDE DEF f
      <3>5. stack' \in Seq(Frame)
        BY <1>1, <1>19, <3>3, <3>4 DEF FinishRunnable
      <3> QED  BY <1>19, <2>1, <3>5 DEF FinishRunnable, TypeOK
    <2> QED  BY <2>2, <2>3
  <1>20. CASE Tick
    BY <1>20 DEF Tick, TypeOK
  <1>21. ASSUME NEW p \in Threads, Ask(p) PROVE TypeOK'
    BY <1>21 DEF Ask, TypeOK, Call, Steps
  <1>22. ASSUME NEW p \in Threads, GetMessagePumpByType(p) PROVE TypeOK'
    BY <1>22 DEF GetMessagePumpByType, GivenTo, TypeOK, Call, Steps
  <1>23. ASSUME NEW p \in Threads, BeginPost(p) PROVE TypeOK'
    <2>1. Idle \in Call
      BY <1>0 DEF Idle, Call, Steps
    <2>2. call' \in [Threads -> Call]
      <3>1. CASE call' = [call EXCEPT ![p] = Idle]
        BY <2>1, <3>1 DEF TypeOK
      <3>2. CASE \E t \in Tasks, d \in Delays :
                   call' = [call EXCEPT ![p] = [at |-> "insert", task |-> t, expired_time |-> now + d]]
        <4>1. PICK t \in Tasks, d \in Delays :
                   call' = [call EXCEPT ![p] = [at |-> "insert", task |-> t, expired_time |-> now + d]]
          BY <3>2
        <4>2. now + d \in Nat
          BY TimeAssumption DEF TypeOK
        <4>3. [at |-> "insert", task |-> t, expired_time |-> now + d] \in Call
          BY <4>2 DEF Call, Steps, Runnables
        <4> QED  BY <4>1, <4>3 DEF TypeOK
      <3> QED  BY <1>23, <3>1, <3>2 DEF BeginPost
    <2> QED  BY <1>23, <2>2 DEF BeginPost, TypeOK
  <1>24. ASSUME NEW p \in Threads, Insert(p) PROVE TypeOK'
    <2> DEFINE n == Cardinality(Known)
               c == IF NeedsWakeup(call[p].expired_time) THEN [call[p] EXCEPT !.at = "wake"] ELSE Idle
               k == [expired_time |-> call[p].expired_time, id |-> 1 + n]
    <2>1. n \in Nat
      <3>1. IsFiniteSet(Runnables)
        BY TasksAssumption, FS_AddElement DEF Runnables
      <3>2. IsFiniteSet(Known)
        BY <3>1, FS_Subset DEF Known
      <3> QED  BY <3>2, FS_CardinalityType
    <2>2. call[p] \in Call
      BY DEF TypeOK
    <2>3. c \in Call
      BY <1>0, <2>2 DEF Call, Steps, Idle
    <2>4. k \in Ticket
      BY <2>1, <2>2 DEF Ticket, Call
    <2>5. ticket' = [ticket EXCEPT ![call[p].task] = k] /\ call' = [call EXCEPT ![p] = c]
      BY <1>24 DEF Insert, Known
    <2> HIDE DEF c, k, n
    <2> QED  BY <1>24, <2>3, <2>4, <2>5 DEF Insert, TypeOK, Phases
  <1>25. ASSUME NEW p \in Threads, PostWakeup(p) PROVE TypeOK'
    <2>1. call[p].expired_time \in Nat /\ Idle \in Call
      BY <1>0 DEF TypeOK, Call, Idle, Steps
    <2>2. sys' \in Sys
      BY <1>25, <2>1, WakeupEffect DEF PostWakeup
    <2> QED  BY <1>25, <2>1, <2>2 DEF PostWakeup, TypeOK
  <1>26. ASSUME NEW p \in Threads, Cancel(p) PROVE TypeOK'
    BY <1>26 DEF Cancel, TypeOK, Phases
  <1> QED  BY <1>3, <1>4, <1>5, <1>6, <1>7, <1>8, <1>9, <1>10, <1>11, <1>12, <1>13, <1>14, <1>15, <1>16, <1>17, <1>18,
              <1>19, <1>20, <1>21, <1>22, <1>23, <1>24, <1>25, <1>26 DEF Next, Unint, Handlers

\* The runnable a handler is at: it was taken, and may have started.
LEMMA TopTask ==
    ASSUME TypeOK, Frames(stack, phase, os, now), stack # <<>>, stack[1].batch # <<>> \/ stack[1].modal
    PROVE  LET t == Head(stack[1].batch)
           IN  /\ stack[1].batch # <<>> /\ t = stack[1].batch[1] /\ t \in Runnables
               /\ phase[t] \in {"taken", "started"}
               /\ stack[1].modal => phase[t] = "started"
               /\ \A i \in DOMAIN stack : i > 1 => \A k \in DOMAIN stack[i].batch : stack[i].batch[k] # t
               /\ \A k \in DOMAIN stack[1].batch : k # 1 => stack[1].batch[k] # t
  <1> DEFINE f == stack[1]
  <1>1. f \in Frame /\ 1 \in DOMAIN stack /\ f.batch \in Seq(Runnables)
    <2>1. stack[1] \in Frame /\ 1 \in DOMAIN stack
      BY FirstOf DEF TypeOK
    <2> QED  BY <2>1 DEF Frame
  <1>2. FrameOK(f, phase, os, now)
    BY <1>1 DEF Frames
  <1>3. f.batch # <<>>
    BY <1>2 DEF FrameOK
  <1>4. 1 \in DOMAIN f.batch /\ Head(f.batch) = f.batch[1] /\ f.batch[1] \in Runnables
    BY <1>1, <1>3, FirstOf
  <1>5. phase[f.batch[1]] \in {"taken", "started"} /\ (f.modal => phase[f.batch[1]] = "started")
    BY <1>2, <1>4 DEF FrameOK
  <1>6. \A k \in DOMAIN f.batch : k # 1 => f.batch[k] # f.batch[1]
    BY <1>2, <1>4 DEF FrameOK
  <1>7. \A i \in DOMAIN stack : i > 1 => \A k \in DOMAIN stack[i].batch : stack[i].batch[k] # f.batch[1]
    <2>1. \A i \in DOMAIN stack : i > 1 => i # 1
      OBVIOUS
    <2> QED  BY <1>1, <1>4, <2>1 DEF Frames
  <1> QED  BY <1>3, <1>4, <1>5, <1>6, <1>7

\* Whatever the step, an inserted runnable stays known, and Insert adds one.
LEMMA IdsInductive == TypeOK /\ Ids /\ Posts /\ Frames(stack, phase, os, now) /\ Next => Ids'
  <1> SUFFICES ASSUME TypeOK, Ids, Posts, Frames(stack, phase, os, now), Next PROVE Ids'
    OBVIOUS
  <1>1. ASSUME ticket' = ticket, \A t \in Runnables : phase'[t] = "new" <=> phase[t] = "new" PROVE Ids'
    <2>1. Known' = Known
      BY <1>1 DEF Known
    <2> QED  BY <1>1, <2>1 DEF Ids
  <1>2. ASSUME NEW p \in Threads, Insert(p) PROVE Ids'
    <2> DEFINE t == call[p].task
               n == Cardinality(Known)
               k == [expired_time |-> call[p].expired_time, id |-> 1 + n]
    <2>1. IsFiniteSet(Known)
      <3>1. IsFiniteSet(Runnables)
        BY TasksAssumption, FS_AddElement DEF Runnables
      <3> QED  BY <3>1, FS_Subset DEF Known
    <2>2. n \in Nat
      BY <2>1, FS_CardinalityType
    <2>3. t \in Runnables /\ phase[t] = "new"
      BY <1>2 DEF TypeOK, Call, Insert, Posts
    <2>4. ticket' = [ticket EXCEPT ![t] = k] /\ phase' = [phase EXCEPT ![t] = "waiting"]
      BY <1>2 DEF Insert, Known
    <2> HIDE DEF t
    <2>5. Known' = Known \cup {t}
      BY <2>3, <2>4 DEF Known, TypeOK
    <2>6. Cardinality(Known') = n + 1
      <3>1. t \notin Known
        BY <2>3 DEF Known
      <3> QED  BY <2>1, <2>5, <3>1, FS_AddElement
    <2> HIDE DEF n
    <2>7. \A u \in Runnables : ticket[u].id \in Nat /\ ticket[u].id <= n
      BY DEF Ids, TypeOK, Ticket, n
    <2>8. \A u \in Runnables : ticket'[u] = IF u = t THEN k ELSE ticket[u]
      BY <2>3, <2>4 DEF TypeOK
    <2>9. \A u \in Runnables : ticket'[u].id = IF u = t THEN 1 + n ELSE ticket[u].id
      BY <2>8
    <2>10. \A u \in Runnables : ticket'[u].id <= n + 1
      BY <2>2, <2>7, <2>9
    <2>11. ASSUME NEW u \in Known \cup {t}, NEW v \in Known \cup {t}, u # v PROVE ticket'[u].id # ticket'[v].id
      <3>1. u \in Runnables /\ v \in Runnables
        BY <2>3 DEF Known
      <3>2. CASE u # t /\ v # t
        BY <2>9, <2>11, <3>1, <3>2 DEF Ids
      <3>3. CASE u = t
        BY <2>2, <2>7, <2>9, <2>11, <3>1, <3>3
      <3>4. CASE v = t
        BY <2>2, <2>7, <2>9, <2>11, <3>1, <3>4
      <3> QED  BY <3>2, <3>3, <3>4
    <2> QED  BY <2>5, <2>6, <2>10, <2>11 DEF Ids
  <1>3. CASE DoOneWork
    BY <1>1, <1>3 DEF DoOneWork, Due, Waiting, TypeOK
  <1>4. CASE DoWork
    BY <1>1, <1>4 DEF DoWork, Due, Waiting, TypeOK
  <1>5. CASE StartRunnable
    <2>1. phase[Head(stack[1].batch)] # "new" /\ Head(stack[1].batch) \in Runnables
      BY <1>5, TopTask DEF StartRunnable
    <2> QED  BY <1>1, <1>5, <2>1 DEF StartRunnable, TypeOK
  <1>6. CASE FinishRunnable
    <2>1. phase[Head(stack[1].batch)] # "new" /\ Head(stack[1].batch) \in Runnables
      BY <1>6, TopTask DEF FinishRunnable, InRunnable
    <2> QED  BY <1>1, <1>6, <2>1 DEF FinishRunnable, TypeOK
  <1>7. ASSUME NEW p \in Threads, Cancel(p) PROVE Ids'
    BY <1>1, <1>7 DEF Cancel, Waiting, TypeOK
  <1>8. CASE UNCHANGED set
    BY <1>1, <1>8
  <1>9. ASSUME NEW p \in Threads, Ask(p) \/ GetMessagePumpByType(p) \/ BeginPost(p) \/ PostWakeup(p) PROVE UNCHANGED set
    BY <1>9 DEF Ask, GetMessagePumpByType, BeginPost, PostWakeup
  <1>10. ASSUME InitMessageLoop \/ UnintMessageLoop \/ Unint \/ DoModal \/ Tick PROVE UNCHANGED set
    BY <1>10 DEF InitMessageLoop, UnintMessageLoop, Unint, StopWin, StopAndroid, SetStoped, UnintReturns, StopWorker,
        DoModal, Tick
  <1>11. ASSUME DispatchCustom \/ DispatchTimer \/ KillTimer \/ DispatchFd \/ Rearm PROVE UNCHANGED set
    BY <1>11 DEF DispatchCustom, DispatchTimer, KillTimer, DispatchFd, Rearm
  <1> QED  BY <1>2, <1>3, <1>4, <1>5, <1>6, <1>7, <1>8, <1>9, <1>10, <1>11 DEF Next, Handlers

\* Which thread inserts what.
LEMMA PostsInductive == TypeOK /\ Posts /\ Frames(stack, phase, os, now) /\ Next => Posts'
  <1> SUFFICES ASSUME TypeOK, Posts, Frames(stack, phase, os, now), Next PROVE Posts'
    OBVIOUS
  \* Only Insert ends the newness of a runnable.
  <1>1. ASSUME call' = call, unint' = unint, manager' = manager,
               \A t \in Runnables : phase'[t] = "new" <=> phase[t] = "new"
        PROVE  Posts'
    <2>1. \A p \in Threads : call[p].task \in Runnables
      BY DEF TypeOK, Call
    <2>2. StopTask \in Runnables
      BY DEF Runnables
    <2> QED  BY <1>1, <2>1, <2>2 DEF Posts
  <1>2. CASE UNCHANGED <<set, call, unint, manager>>
    BY <1>1, <1>2
  <1>3. CASE InitMessageLoop
    BY <1>3 DEF InitMessageLoop, Posts
  <1>4. CASE UnintMessageLoop
    BY <1>4 DEF UnintMessageLoop, MainFree, Posts
  <1>5. CASE StopWin
    BY <1>5 DEF StopWin, Posts
  <1>6. CASE StopAndroid
    <2> DEFINE c == [at |-> "insert", task |-> StopTask, expired_time |-> now]
    <2>1. /\ call' = [call EXCEPT ![Main] = c] /\ phase' = phase /\ unint = "stop" /\ unint' = "posting"
          /\ Main \in Threads
      BY <1>6 DEF StopAndroid, Threads
    <2>2. \A p \in Threads : call'[p] = IF p = Main THEN c ELSE call[p]
      BY <2>1 DEF TypeOK
    <2>3. phase[StopTask] = "new" /\ \A p \in Threads : call[p].at = "insert" => call[p].task # StopTask
      BY <2>1 DEF Posts
    <2>4. c.at = "insert" /\ c.task = StopTask
      OBVIOUS
    <2> HIDE DEF c
    <2> QED  BY <2>1, <2>2, <2>3, <2>4 DEF Posts
  <1>7. CASE SetStoped
    BY <1>7 DEF SetStoped, Posts, Threads
  <1>8. ASSUME NEW w \in Workers, StopWorker(w) PROVE Posts'
    BY <1>2, <1>8 DEF StopWorker
  <1>9. CASE UnintReturns
    BY <1>9 DEF UnintReturns, Posts
  <1>10. ASSUME NEW p \in Threads, Ask(p) PROVE Posts'
    <2>1. \A q \in Threads : call'[q] = IF q = p THEN [call[p] EXCEPT !.at = "ask"] ELSE call[q]
      BY <1>10 DEF Ask, TypeOK
    <2>2. \A q \in Threads : call'[q].at = (IF q = p THEN "ask" ELSE call[q].at) /\ call'[q].task = call[q].task
      BY <2>1 DEF TypeOK, Call
    <2>3. phase' = phase /\ unint' = unint /\ manager' = manager
      BY <1>10 DEF Ask
    <2>4. Main \in Threads /\ (unint = "stop" => p # Main)
      BY <1>10 DEF Ask, MainFree, Threads
    <2> QED  BY <2>2, <2>3, <2>4 DEF Posts
  <1>11. ASSUME NEW p \in Threads, GetMessagePumpByType(p) PROVE Posts'
    <2> DEFINE a == GivenTo(manager)
    <2>1. \A q \in Threads : call'[q] = IF q = p THEN [call[p] EXCEPT !.at = a] ELSE call[q]
      BY <1>11 DEF GetMessagePumpByType, TypeOK
    <2>2. a \in {"got", "idle"} /\ (manager = "none" => a = "idle")
      BY DEF GivenTo, TypeOK
    <2> HIDE DEF a
    <2>3. \A q \in Threads : call'[q].at = (IF q = p THEN a ELSE call[q].at) /\ call'[q].task = call[q].task
      BY <2>1 DEF TypeOK, Call
    <2>4. phase' = phase /\ unint' = unint /\ manager' = manager
      BY <1>11 DEF GetMessagePumpByType
    <2>5. Main \in Threads /\ (unint = "stop" => p # Main)
      BY <1>11 DEF GetMessagePumpByType, Posts, Threads
    <2> QED  BY <2>2, <2>3, <2>4, <2>5 DEF Posts
  <1>12. ASSUME NEW p \in Threads, BeginPost(p) PROVE Posts'
    <2>0. phase' = phase /\ unint' = unint /\ manager' = manager /\ call[p].at = "got"
      BY <1>12 DEF BeginPost
    <2>1. ~(manager = "none" /\ unint = "no") /\ Main \in Threads /\ (unint = "stop" => p # Main)
      BY <2>0 DEF Posts, Threads
    <2>2. CASE call' = [call EXCEPT ![p] = Idle]
      <3>1. \A q \in Threads : call'[q] = IF q = p THEN Idle ELSE call[q]
        BY <2>2 DEF TypeOK
      <3>2. Idle.at = "idle"
        BY DEF Idle
      <3> QED  BY <2>0, <2>1, <3>1, <3>2 DEF Posts
    <2>3. CASE call' # [call EXCEPT ![p] = Idle]
      <3>1. PICK t \in Tasks, d \in Delays :
               /\ phase[t] = "new" /\ \A q \in Threads \ {p} : call[q].task # t
               /\ call' = [call EXCEPT ![p] = [at |-> "insert", task |-> t, expired_time |-> now + d]]
        BY <1>12, <2>3 DEF BeginPost
      <3> DEFINE c == [at |-> "insert", task |-> t, expired_time |-> now + d]
      <3>2. \A q \in Threads : call'[q] = IF q = p THEN c ELSE call[q]
        BY <3>1 DEF TypeOK
      <3>3. c.at = "insert" /\ c.task = t /\ t # StopTask
        BY TasksAssumption
      <3> HIDE DEF c
      <3> QED  BY <2>0, <2>1, <3>1, <3>2, <3>3 DEF Posts
    <2> QED  BY <2>2, <2>3
  <1>13. ASSUME NEW p \in Threads, Insert(p) PROVE Posts'
    <2> DEFINE t == call[p].task
    <2>1. /\ call[p].at = "insert" /\ phase' = [phase EXCEPT ![t] = "waiting"] /\ unint' = unint /\ manager' = manager
          /\ call' = [call EXCEPT ![p] = IF NeedsWakeup(call[p].expired_time) THEN [call[p] EXCEPT !.at = "wake"] ELSE Idle]
      BY <1>13 DEF Insert
    <2>2. t \in Runnables /\ call[p] \in Call
      BY DEF TypeOK, Call
    <2>3. call'[p].at # "insert" /\ \A q \in Threads \ {p} : call'[q] = call[q]
      BY <2>1, <2>2 DEF TypeOK, Call, Idle
    <2>4. \A u \in Runnables : phase'[u] = IF u = t THEN "waiting" ELSE phase[u]
      BY <2>1, <2>2 DEF TypeOK
    <2>5. ~(manager = "none" /\ unint = "no") /\ (t = StopTask => unint = "posting")
      BY <2>1 DEF Posts
    <2>6. \A q \in Threads \ {p} : call[q].at = "insert" => call[q].task # t /\ call[q].task \in Runnables
      BY <2>1 DEF Posts, TypeOK, Call
    <2>7. StopTask \in Runnables
      BY DEF Runnables
    <2>8. ASSUME NEW q \in Threads, call'[q].at = "insert"
          PROVE  /\ phase'[call'[q].task] = "new"
                 /\ call'[q].task = StopTask => unint' = "posting" /\ q = Main
                 /\ \A r \in Threads \ {q} : call'[r].at = "insert" => call'[r].task # call'[q].task
      <3>1. q # p /\ call'[q] = call[q]
        BY <2>3, <2>8
      <3>2. phase'[call[q].task] = "new"
        BY <2>4, <2>6, <2>8, <3>1 DEF Posts
      <3> QED  BY <2>1, <2>3, <2>8, <3>1, <3>2 DEF Posts
    <2>9. unint \in {"no", "stop"} => phase'[StopTask] = "new"
      BY <2>4, <2>5, <2>7 DEF Posts
    <2>10. unint = "stop" => call'[Main].at = "idle"
      BY <2>1, <2>3 DEF Posts, Threads
    <2> QED  BY <2>1, <2>5, <2>8, <2>9, <2>10 DEF Posts
  <1>14. ASSUME NEW p \in Threads, PostWakeup(p) PROVE Posts'
    <2>1. \A q \in Threads : call'[q] = IF q = p THEN Idle ELSE call[q]
      BY <1>14 DEF PostWakeup, TypeOK
    <2>2. Idle.at = "idle"
      BY DEF Idle
    <2>3. phase' = phase /\ unint' = unint /\ manager' = manager
      BY <1>14 DEF PostWakeup
    <2>4. Main \in Threads
      BY DEF Threads
    <2> QED  BY <2>1, <2>2, <2>3, <2>4 DEF Posts
  <1>15. ASSUME NEW p \in Threads, Cancel(p) PROVE Posts'
    BY <1>1, <1>15 DEF Cancel, Waiting, TypeOK
  <1>16. CASE DoOneWork
    BY <1>1, <1>16 DEF DoOneWork, Due, Waiting, TypeOK
  <1>17. CASE DoWork
    BY <1>1, <1>17 DEF DoWork, Due, Waiting, TypeOK
  <1>18. CASE StartRunnable
    <2>1. phase[Head(stack[1].batch)] # "new" /\ Head(stack[1].batch) \in Runnables
      BY <1>18, TopTask DEF StartRunnable
    <2> QED  BY <1>1, <1>18, <2>1 DEF StartRunnable, TypeOK
  <1>19. CASE FinishRunnable
    <2>1. phase[Head(stack[1].batch)] # "new" /\ Head(stack[1].batch) \in Runnables
      BY <1>19, TopTask DEF FinishRunnable, InRunnable
    <2> QED  BY <1>1, <1>19, <2>1 DEF FinishRunnable, TypeOK
  <1>20. ASSUME DispatchCustom \/ DispatchTimer \/ KillTimer \/ DispatchFd \/ Rearm \/ DoModal \/ Tick
         PROVE  UNCHANGED <<set, call, unint, manager>>
    BY <1>20 DEF DispatchCustom, DispatchTimer, KillTimer, DispatchFd, Rearm, DoModal, Tick
  <1> QED  BY <1>2, <1>3, <1>4, <1>5, <1>6, <1>7, <1>8, <1>9, <1>10, <1>11, <1>12, <1>13, <1>14, <1>15, <1>16, <1>17,
              <1>18, <1>19, <1>20 DEF Next, Unint, Handlers

\* A sequence is its first member and the others.
LEMMA TopSame ==
    ASSUME NEW s \in Seq(Frame), s # <<>>
    PROVE  s = <<s[1]>> \o Tail(s)
  <1> DEFINE r == Tail(s)
             f == s[1]
             t == <<f>> \o r
  <1>1. Len(s) \in Nat \ {0} /\ DOMAIN s = 1 .. Len(s) /\ s[1] \in Frame
    BY EmptySeq, LenProperties
  <1>2. r \in Seq(Frame) /\ Len(r) = Len(s) - 1 /\ \A i \in 1 .. Len(r) : r[i] = s[i + 1]
    BY HeadTailProperties
  <1>3. <<f>> \in Seq(Frame) /\ Len(<<f>>) = 1 /\ <<f>>[1] = f
    BY <1>1
  <1>4. /\ t \in Seq(Frame) /\ Len(t) = 1 + Len(r)
        /\ \A i \in 1 .. 1 + Len(r) : t[i] = IF i <= 1 THEN <<f>>[i] ELSE r[i - 1]
    BY <1>2, <1>3, ConcatProperties
  <1>5. DOMAIN t = 1 .. Len(t)
    BY <1>4, LenProperties
  <1> HIDE DEF r, t
  <1>6. ASSUME NEW i \in 1 .. Len(s) PROVE s[i] = t[i]
    <2>1. CASE i = 1
      BY <1>1, <1>2, <1>3, <1>4, <2>1
    <2>2. CASE i # 1
      <3>1. i - 1 \in 1 .. Len(r) /\ (i - 1) + 1 = i
        BY <1>1, <1>2, <2>2
      <3>2. r[i - 1] = s[i]
        BY <1>2, <3>1
      <3> QED  BY <1>1, <1>2, <1>4, <2>2, <3>2
    <2> QED  BY <2>1, <2>2
  <1>7. Len(t) = Len(s)
    BY <1>1, <1>2, <1>4
  <1>8. s = t
    BY <1>1, <1>4, <1>5, <1>6, <1>7, SeqEqual
  <1> QED  BY <1>8 DEF r, t

\* Handlers nest in dialogs, and what one has taken no other has.
LEMMA FramesInductive ==
    TypeOK /\ Posts /\ Frames(stack, phase, os, now) /\ Next => Frames(stack', phase', os', now')
  <1> SUFFICES ASSUME TypeOK, Posts, Frames(stack, phase, os, now), Next PROVE Frames(stack', phase', os', now')
    OBVIOUS
  <1>0. stack \in Seq(Frame) /\ now \in Nat
    BY DEF TypeOK
  <1>1. CASE UNCHANGED <<stack, phase, os, now>>
    BY <1>1
  \* What is in a batch is neither new nor waiting.
  <1>2. \A i \in DOMAIN stack : \A k \in DOMAIN stack[i].batch :
           phase[stack[i].batch[k]] \in {"taken", "started"} /\ stack[i].batch[k] \in Runnables
    <2> SUFFICES ASSUME NEW i \in DOMAIN stack, NEW k \in DOMAIN stack[i].batch
                 PROVE  phase[stack[i].batch[k]] \in {"taken", "started"} /\ stack[i].batch[k] \in Runnables
      OBVIOUS
    <2>1. stack[i] \in Frame
      BY <1>0, LenProperties
    <2>2. stack[i].batch \in Seq(Runnables)
      BY <2>1 DEF Frame
    <2>3. stack[i].batch[k] \in Runnables
      BY <2>2, LenProperties
    <2> QED  BY <2>3 DEF Frames, FrameOK
  <1>3. ASSUME NEW t \in Runnables, NEW x, phase' = [phase EXCEPT ![t] = x], phase[t] \in {"new", "waiting"},
               UNCHANGED <<stack, os, now>>
        PROVE  Frames(stack', phase', os', now')
    <2>1. \A i \in DOMAIN stack : \A k \in DOMAIN stack[i].batch : phase'[stack[i].batch[k]] = phase[stack[i].batch[k]]
      BY <1>2, <1>3 DEF TypeOK
    <2>2. Frames(stack, phase', os, now)
      BY <1>0, <2>1, FramesKeep
    <2> QED  BY <1>3, <2>2
  <1>4. ASSUME NEW a \in {"kill", "work"}, InLoop, Push(a), UNCHANGED <<phase, os, now>>
        PROVE  Frames(stack', phase', os', now')
    <2> DEFINE f == [at |-> a, now |-> now, batch |-> <<>>, modal |-> FALSE]
    <2>1. f \in Frame
      BY <1>0, <1>4 DEF Frame
    <2>2. FrameOK(f, phase, os, now) /\ f.batch = <<>>
      <3>1. DOMAIN f.batch = {} /\ Len(f.batch) = 0 /\ f.batch = <<>>
        BY EmptySeq
      <3> QED  BY <1>0, <3>1 DEF FrameOK
    <2>3. stack' = <<f>> \o stack
      BY <1>4 DEF Push
    <2> HIDE DEF f
    <2>4. Pushes(stack, f, stack')
      BY <1>0, <2>1, <2>3, PushPop
    <2>5. Frames(stack', phase, os, now)
      BY <1>0, <1>4, <2>2, <2>4, FramesPush DEF InLoop
    <2> QED  BY <1>4, <2>5
  <1>5. CASE DispatchCustom
    BY <1>4, <1>5 DEF DispatchCustom
  <1>6. CASE DispatchTimer
    BY <1>4, <1>6 DEF DispatchTimer
  <1>7. CASE DispatchFd
    BY <1>4, <1>7 DEF DispatchFd
  \* A step that replaces the handler on top.
  <1>8. ASSUME NEW f \in Frame, stack # <<>>, Top(f), FrameOK(f, phase', os, now), os' = os, now' = now,
               \A i \in DOMAIN stack : i > 1 => \A k \in DOMAIN stack[i].batch :
                   phase'[stack[i].batch[k]] = phase[stack[i].batch[k]],
               \A i \in DOMAIN stack : i > 1 =>
                   \A k \in DOMAIN stack[i].batch, l \in DOMAIN f.batch : stack[i].batch[k] # f.batch[l]
        PROVE  Frames(stack', phase', os', now')
    <2>1. Tops(stack, f, stack')
      BY <1>0, <1>8, PushPop DEF Top
    <2>2. Frames(stack', phase', os, now)
      BY <1>0, <1>8, <2>1, FramesTop
    <2> QED  BY <1>8, <2>2
  <1>9. ASSUME stack # <<>>, Pop, os' = os, now' = now,
               \A i \in DOMAIN stack : i > 1 => \A k \in DOMAIN stack[i].batch :
                   phase'[stack[i].batch[k]] = phase[stack[i].batch[k]]
        PROVE  Frames(stack', phase', os', now')
    <2>1. stack[1] \in Frame
      BY <1>0, <1>9, FirstOf
    <2>2. Pops(stack, stack')
      BY <1>0, <1>9, <2>1, PushPop DEF Pop
    <2>3. Frames(stack', phase', os, now)
      BY <1>0, <1>9, <2>2, FramesPop
    <2> QED  BY <1>9, <2>3
  <1>10. stack # <<>> => stack[1] \in Frame /\ FrameOK(stack[1], phase, os, now) /\ 1 \in DOMAIN stack
    BY <1>0, FirstOf DEF Frames
  <1>11. CASE KillTimer
    <2> DEFINE f == [stack[1] EXCEPT !.at = "work", !.now = now]
    <2>1. stack # <<>> /\ stack[1].at = "kill" /\ Top(f) /\ UNCHANGED <<phase, os, now>>
      BY <1>11 DEF KillTimer
    <2>2. f \in Frame /\ f.batch = stack[1].batch /\ f.at = "work" /\ f.now = now /\ f.modal = stack[1].modal
      BY <1>0, <1>10, <2>1 DEF Frame
    <2> HIDE DEF f
    <2>3. stack[1].batch = <<>> /\ ~stack[1].modal
      BY <1>10, <2>1 DEF FrameOK
    <2>4. DOMAIN f.batch = {} /\ Len(f.batch) = 0 /\ f.batch = <<>>
      BY <2>2, <2>3, EmptySeq
    <2>5. FrameOK(f, phase, os, now)
      BY <1>0, <2>2, <2>3, <2>4 DEF FrameOK
    <2> QED  BY <1>8, <2>1, <2>2, <2>4, <2>5
  <1>12. CASE DoOneWork
    <2>0. os = "win" /\ stack # <<>> /\ stack[1].at = "work" /\ os' = os /\ now' = now
      BY <1>12 DEF DoOneWork
    <2>1. CASE Due = {}
      BY <1>9, <1>12, <2>0, <2>1 DEF DoOneWork
    <2>2. CASE Due # {}
      <3>1. PICK t \in Due :
              /\ phase' = [phase EXCEPT ![t] = "taken"]
              /\ Top([stack[1] EXCEPT !.at = "run", !.batch = <<t>>])
        BY <1>12, <2>2 DEF DoOneWork
      <3>2. t \in Runnables /\ phase[t] = "waiting"
        BY DEF Due, Waiting
      <3> DEFINE f == [stack[1] EXCEPT !.at = "run", !.batch = <<t>>]
      <3>3. f \in Frame /\ f.batch = <<t>> /\ f.at = "run" /\ f.modal = stack[1].modal /\ f.now = stack[1].now
        <4>1. <<t>> \in Seq(Runnables)
          BY <3>2
        <4> QED  BY <1>10, <2>0, <4>1 DEF Frame
      <3>4. Top(f)
        BY <3>1
      <3> HIDE DEF f
      <3>5. ~f.modal /\ f.now <= now
        BY <1>10, <2>0, <3>3 DEF FrameOK
      <3>6. DOMAIN f.batch = {1} /\ Len(f.batch) = 1 /\ f.batch[1] = t /\ f.batch # <<>>
        BY <3>3
      <3>7. phase'[t] = "taken" /\ \A u \in Runnables : u # t => phase'[u] = phase[u]
        BY <3>1, <3>2 DEF TypeOK
      <3>8. FrameOK(f, phase', os, now)
        BY <3>3, <3>5, <3>6, <3>7 DEF FrameOK
      <3>9. \A i \in DOMAIN stack : \A k \in DOMAIN stack[i].batch : stack[i].batch[k] # t
        BY <1>2, <3>2
      <3>10. \A i \in DOMAIN stack : \A k \in DOMAIN stack[i].batch : phase'[stack[i].batch[k]] = phase[stack[i].batch[k]]
        BY <1>2, <3>7, <3>9
      <3>11. \A i \in DOMAIN stack : \A k \in DOMAIN stack[i].batch, l \in DOMAIN f.batch : stack[i].batch[k] # f.batch[l]
        BY <3>6, <3>9
      <3> QED  BY <1>8, <2>0, <3>3, <3>4, <3>8, <3>10, <3>11
    <2> QED  BY <2>1, <2>2
  <1>13. CASE DoWork
    <2>0. os = "android" /\ stack # <<>> /\ stack[1].at = "work" /\ os' = os /\ now' = now
      BY <1>13 DEF DoWork
    <2>1. PICK b \in [1..Cardinality(Due) -> Due] :
             /\ \A i, j \in DOMAIN b : i < j => Less(b[i], b[j])
             /\ Top([stack[1] EXCEPT !.at = "run", !.batch = b])
      BY <1>13 DEF DoWork
    <2>2. IsFiniteSet(Due) /\ Due \subseteq Runnables /\ \A t \in Due : phase[t] = "waiting"
      <3>1. IsFiniteSet(Runnables)
        BY TasksAssumption, FS_AddElement DEF Runnables
      <3> QED  BY <3>1, FS_Subset DEF Due, Waiting
    <2>3. Cardinality(Due) \in Nat
      BY <2>2, FS_CardinalityType
    <2>4. b \in Seq(Runnables)
      BY <2>2, <2>3
    <2>5. \A t \in Runnables : phase'[t] = IF t \in Due THEN "taken" ELSE phase[t]
      BY <1>13 DEF DoWork
    <2> DEFINE f == [stack[1] EXCEPT !.at = "run", !.batch = b]
    <2>6. f \in Frame /\ f.batch = b /\ f.at = "run" /\ f.modal = stack[1].modal /\ f.now = stack[1].now
      BY <1>10, <2>0, <2>4 DEF Frame
    <2>7. Top(f)
      BY <2>1
    <2> HIDE DEF f
    <2>8. ~f.modal /\ f.now <= now
      BY <1>10, <2>0, <2>6 DEF FrameOK
    <2>9. \A k \in DOMAIN b : b[k] \in Due /\ phase'[b[k]] = "taken" /\ k \in Nat
      BY <2>2, <2>3, <2>5
    <2>10. \A t \in Runnables : ticket[t].id \in Nat /\ ticket[t].expired_time \in Nat
      BY DEF TypeOK, Ticket
    <2>11. ASSUME NEW k \in DOMAIN b, NEW l \in DOMAIN b, b[k] = b[l] PROVE k = l
      <3>1. ~Less(b[k], b[k])
        BY <2>2, <2>9, <2>10, <2>11 DEF Less
      <3>2. k \in Nat /\ l \in Nat /\ ~(k < l) /\ ~(l < k)
        BY <2>1, <2>9, <2>11, <3>1
      <3> QED  BY <3>2
    <2>12. FrameOK(f, phase', os, now)
      BY <2>0, <2>6, <2>8, <2>9, <2>11 DEF FrameOK
    <2>13. \A i \in DOMAIN stack : \A k \in DOMAIN stack[i].batch : stack[i].batch[k] \notin Due
      BY <1>2, <2>2
    <2>14. \A i \in DOMAIN stack : \A k \in DOMAIN stack[i].batch : phase'[stack[i].batch[k]] = phase[stack[i].batch[k]]
      BY <1>2, <2>5, <2>13
    <2>15. \A i \in DOMAIN stack : \A k \in DOMAIN stack[i].batch, l \in DOMAIN f.batch : stack[i].batch[k] # f.batch[l]
      BY <2>6, <2>9, <2>13
    <2> QED  BY <1>8, <2>0, <2>6, <2>7, <2>12, <2>14, <2>15
  <1>14. CASE StartRunnable
    <2> DEFINE t == Head(stack[1].batch)
               f == stack[1]
    <2>1. stack # <<>> /\ f.batch # <<>> /\ f.at = "run" /\ ~f.modal /\ UNCHANGED <<stack, os, now>>
      BY <1>14 DEF StartRunnable
    <2>2. /\ t = f.batch[1] /\ t \in Runnables
          /\ \A i \in DOMAIN stack : i > 1 => \A k \in DOMAIN stack[i].batch : stack[i].batch[k] # t
          /\ \A k \in DOMAIN f.batch : k # 1 => f.batch[k] # t
      BY <2>1, TopTask
    <2>3. \A u \in Runnables : phase'[u] = IF u = t THEN "started" ELSE phase[u]
      BY <1>14, <2>2 DEF StartRunnable, TypeOK
    <2>4. Top(f)
      BY <1>0, <2>1, TopSame DEF Top
    <2>5. f \in Frame /\ FrameOK(f, phase, os, now) /\ 1 \in DOMAIN stack
      BY <1>10, <2>1
    <2> HIDE DEF t, f
    <2>6. \A i \in DOMAIN stack : i > 1 => \A k \in DOMAIN stack[i].batch :
             phase'[stack[i].batch[k]] = phase[stack[i].batch[k]]
      BY <1>2, <2>2, <2>3
    <2>7. \A k \in DOMAIN f.batch : f.batch[k] \in Runnables
      BY <1>2, <2>5 DEF f
    <2>8. FrameOK(f, phase', os, now)
      BY <2>1, <2>2, <2>3, <2>5, <2>7 DEF FrameOK
    <2>9. \A i \in DOMAIN stack : i > 1 =>
             \A k \in DOMAIN stack[i].batch, l \in DOMAIN f.batch : stack[i].batch[k] # f.batch[l]
      BY <2>5 DEF Frames, f
    <2> QED  BY <1>8, <2>1, <2>4, <2>5, <2>6, <2>8, <2>9
  <1>15. CASE DoModal
    <2> DEFINE f == [stack[1] EXCEPT !.modal = TRUE]
    <2>1. /\ stack # <<>> /\ stack[1].batch # <<>> /\ stack[1].at = "run" /\ os = "win" /\ Top(f)
          /\ UNCHANGED <<phase, os, now>> /\ phase[Head(stack[1].batch)] = "started"
      BY <1>15 DEF DoModal, InRunnable
    <2>2. f \in Frame /\ f.batch = stack[1].batch /\ f.at = "run" /\ f.now = stack[1].now
      BY <1>10, <2>1 DEF Frame
    <2>3. Head(stack[1].batch) = stack[1].batch[1]
      BY <2>1, TopTask
    <2> HIDE DEF f
    <2>4. FrameOK(f, phase, os, now)
      BY <1>10, <2>1, <2>2, <2>3 DEF FrameOK
    <2>5. \A i \in DOMAIN stack : i > 1 =>
             \A k \in DOMAIN stack[i].batch, l \in DOMAIN f.batch : stack[i].batch[k] # f.batch[l]
      BY <1>10, <2>1, <2>2 DEF Frames
    <2> QED  BY <1>8, <2>1, <2>2, <2>4, <2>5
  <1>16. CASE FinishRunnable
    <2> DEFINE t == Head(stack[1].batch)
    <2>1. stack # <<>> /\ (stack[1].modal \/ stack[1].batch # <<>>) /\ os' = os /\ now' = now
      BY <1>16 DEF FinishRunnable, InRunnable
    <2>2. /\ t = stack[1].batch[1] /\ t \in Runnables /\ stack[1].batch # <<>>
          /\ \A i \in DOMAIN stack : i > 1 => \A k \in DOMAIN stack[i].batch : stack[i].batch[k] # t
          /\ \A k \in DOMAIN stack[1].batch : k # 1 => stack[1].batch[k] # t
      BY <2>1, TopTask
    <2>3. \A u \in Runnables : phase'[u] = IF u = t THEN "done" ELSE phase[u]
      BY <1>16, <2>2 DEF FinishRunnable, TypeOK
    <2>4. \A i \in DOMAIN stack : i > 1 => \A k \in DOMAIN stack[i].batch :
             phase'[stack[i].batch[k]] = phase[stack[i].batch[k]]
      BY <1>2, <2>2, <2>3
    <2>5. CASE os = "win"
      BY <1>9, <1>16, <2>1, <2>4, <2>5 DEF FinishRunnable
    <2>6. CASE os # "win"
      <3> DEFINE a == stack[1].batch
                 b == Tail(a)
                 f == [stack[1] EXCEPT !.batch = b]
      <3>1. a \in Seq(Runnables) /\ a # <<>>
        BY <1>10, <2>1, <2>2 DEF Frame
      <3>2. b \in Seq(Runnables) /\ \A i \in DOMAIN b : i \in Nat /\ i >= 1 /\ i + 1 \in DOMAIN a /\ b[i] = a[i + 1]
        BY <3>1, FirstOf
      <3>3. Top(f)
        BY <1>16, <2>6 DEF FinishRunnable
      <3>4. f \in Frame /\ f.batch = b /\ f.at = stack[1].at /\ f.now = stack[1].now /\ f.modal = stack[1].modal
        BY <1>10, <2>1, <3>2 DEF Frame
      <3> HIDE DEF f, b
      <3>5. ~f.modal /\ f.now <= now /\ f.at = "run"
        BY <1>10, <2>1, <2>2, <2>6, <3>4 DEF FrameOK
      <3>6. \A k \in DOMAIN b : phase'[b[k]] = "taken"
        <4> SUFFICES ASSUME NEW k \in DOMAIN b PROVE phase'[b[k]] = "taken"
          OBVIOUS
        <4>1. k + 1 \in DOMAIN a /\ k + 1 # 1 /\ b[k] = a[k + 1]
          BY <3>2
        <4>2. phase[a[k + 1]] = "taken"
          BY <1>10, <2>1, <4>1 DEF FrameOK
        <4>3. a[k + 1] # t /\ a[k + 1] \in Runnables
          BY <1>2, <1>10, <2>1, <2>2, <4>1
        <4> QED  BY <2>3, <4>1, <4>2, <4>3
      <3>7. ASSUME NEW k \in DOMAIN b, NEW l \in DOMAIN b, b[k] = b[l] PROVE k = l
        <4>1. k + 1 = l + 1
          BY <1>10, <2>1, <3>2, <3>7 DEF FrameOK
        <4> QED  BY <3>2, <4>1
      <3>8. FrameOK(f, phase', os, now)
        BY <2>6, <3>4, <3>5, <3>6, <3>7 DEF FrameOK
      <3>9. \A i \in DOMAIN stack : i > 1 =>
               \A k \in DOMAIN stack[i].batch, l \in DOMAIN f.batch : stack[i].batch[k] # f.batch[l]
        BY <1>10, <2>1, <3>2, <3>4 DEF Frames
      <3> QED  BY <1>8, <2>1, <2>4, <3>3, <3>4, <3>8, <3>9
    <2> QED  BY <2>5, <2>6
  <1>17. CASE Rearm
    BY <1>9, <1>17 DEF Rearm
  <1>18. CASE Tick
    <2>1. now' \in Nat /\ now <= now' /\ UNCHANGED <<stack, phase, os>>
      BY <1>0, <1>18 DEF Tick
    <2>2. Frames(stack, phase, os, now')
      BY <1>0, <2>1, FramesKeep
    <2> QED  BY <2>1, <2>2
  <1>19. ASSUME NEW p \in Threads, Insert(p) PROVE Frames(stack', phase', os', now')
    <2>1. call[p].task \in Runnables /\ phase[call[p].task] = "new"
      BY <1>19 DEF TypeOK, Call, Insert, Posts
    <2> QED  BY <1>3, <1>19, <2>1 DEF Insert
  <1>20. ASSUME NEW p \in Threads, Cancel(p) PROVE Frames(stack', phase', os', now')
    <2>1. PICK t \in Waiting : phase' = [phase EXCEPT ![t] = "cancelled"]
      BY <1>20 DEF Cancel
    <2>2. t \in Runnables /\ phase[t] = "waiting"
      BY DEF Waiting
    <2> QED  BY <1>3, <1>20, <2>1, <2>2 DEF Cancel
  <1>21. ASSUME NEW p \in Threads, Ask(p) \/ GetMessagePumpByType(p) \/ BeginPost(p) \/ PostWakeup(p)
         PROVE  UNCHANGED <<stack, phase, os, now>>
    BY <1>21 DEF Ask, GetMessagePumpByType, BeginPost, PostWakeup
  <1>22. ASSUME InitMessageLoop \/ UnintMessageLoop \/ Unint PROVE UNCHANGED <<stack, phase, os, now>>
    BY <1>22 DEF InitMessageLoop, UnintMessageLoop, Unint, StopWin, StopAndroid, SetStoped, UnintReturns, StopWorker
  <1> QED  BY <1>1, <1>5, <1>6, <1>7, <1>11, <1>12, <1>13, <1>14, <1>15, <1>16, <1>17, <1>18, <1>19, <1>20, <1>21,
              <1>22 DEF Next, Handlers

\* A stopped pump of Windows has no window, and no handler that would start more.
LEMMA StoppedInductive ==
    TypeOK /\ Ids /\ Posts /\ Frames(stack, phase, os, now) /\ Stopped /\ Next => Stopped'
  <1> SUFFICES ASSUME TypeOK, Ids, Posts, Frames(stack, phase, os, now), Stopped, Next PROVE Stopped'
    OBVIOUS
  <1>0. stack \in Seq(Frame) /\ now \in Nat
    BY DEF TypeOK
  <1>1. CASE UNCHANGED <<os, stoped, sys, stack, unint, phase>>
    BY <1>1 DEF Stopped
  <1>2. CASE InitMessageLoop
    <2>1. sys'.ready = sys.ready /\ unint = "no" /\ UNCHANGED <<os, stoped, stack, unint, phase>>
      BY <1>2 DEF InitMessageLoop, TypeOK, Sys
    <2> QED  BY <2>1 DEF Stopped
  <1>3. CASE UnintMessageLoop
    <2>1. /\ unint' = "stop" /\ UNCHANGED <<os, stoped, sys, stack, phase>> /\ ~stoped
          /\ stack = <<>> \/ InRunnable
      BY <1>3 DEF UnintMessageLoop, MainFree, Stopped
    <2>2. InRunnable => /\ stack # <<>> /\ stack[1].at = "run" /\ stack[1].batch # <<>>
                        /\ phase[stack[1].batch[1]] = "started"
      BY TopTask DEF InRunnable
    <2> QED  BY <2>1, <2>2 DEF Stopped
  <1>4. CASE StopWin
    <2>1. /\ ~sys'.open /\ sys'.posted = 0 /\ sys'.timer = None /\ sys'.ready = sys.ready
          /\ unint = "stop" /\ unint' = "join" /\ UNCHANGED <<os, stack, phase>>
      BY <1>4 DEF StopWin, TypeOK, Sys
    <2> QED  BY <2>1 DEF Stopped
  <1>5. CASE StopAndroid
    BY <1>5 DEF StopAndroid, Stopped
  <1>6. CASE SetStoped
    BY <1>6 DEF SetStoped, Stopped
  <1>7. ASSUME NEW w \in Workers, StopWorker(w) PROVE UNCHANGED <<os, stoped, sys, stack, unint, phase>>
    BY <1>7 DEF StopWorker
  <1>8. CASE UnintReturns
    BY <1>8 DEF UnintReturns, Stopped
  <1>9. CASE DispatchCustom
    <2>1. sys.posted > 0 /\ unint \in {"no", "done"} /\ UNCHANGED <<os, stoped, unint, phase>> /\ sys'.ready = sys.ready
      BY <1>9 DEF DispatchCustom, InLoop, TypeOK, Sys
    <2>2. os = "win" => unint = "no"
      BY <2>1 DEF Stopped
    <2> QED  BY <2>1, <2>2 DEF Stopped
  <1>10. CASE DispatchTimer
    <2>1. sys.timer # None /\ unint \in {"no", "done"} /\ UNCHANGED <<os, stoped, unint, phase, sys>>
      BY <1>10 DEF DispatchTimer, InLoop
    <2>2. os = "win" => unint = "no"
      BY <2>1 DEF Stopped
    <2> QED  BY <2>1, <2>2 DEF Stopped
  <1>11. CASE DispatchFd
    <2>1. sys.ready /\ UNCHANGED <<os, stoped, unint, phase>>
      BY <1>11 DEF DispatchFd
    <2>2. os # "win"
      BY <2>1 DEF Stopped
    <2> QED  BY <2>1, <2>2 DEF Stopped
  <1>12. ASSUME stack # <<>>, stack[1].at \in {"kill", "work"} PROVE os = "win" => unint = "no"
    <2>1. ~stack[1].modal
      <3>1. 1 \in DOMAIN stack
        BY <1>0, <1>12, FirstOf
      <3> QED  BY <1>12, <3>1 DEF Frames, FrameOK
    <2> QED  BY <1>12, <2>1 DEF Stopped
  <1>13. CASE KillTimer
    <2>1. sys'.ready = sys.ready /\ UNCHANGED <<os, stoped, unint, phase>> /\ (os = "win" => unint = "no")
      BY <1>12, <1>13 DEF KillTimer, TypeOK, Sys
    <2> QED  BY <2>1 DEF Stopped
  <1>14. CASE DoOneWork
    <2>1. UNCHANGED <<os, stoped, unint>> /\ os = "win" /\ unint = "no"
      BY <1>12, <1>14 DEF DoOneWork
    <2>2. \E S \in SUBSET Waiting : sys' = WakeFirst(sys, S)
      BY <1>14 DEF DoOneWork
    <2>3. sys'.ready = sys.ready
      BY <2>1, <2>2, WakeFirstEffect
    <2> QED  BY <2>1, <2>3 DEF Stopped
  <1>15. CASE DoWork
    BY <1>15 DEF DoWork, Stopped
  <1>16. CASE StartRunnable
    <2> DEFINE t == Head(stack[1].batch)
    <2>1. UNCHANGED <<os, stoped, unint, sys, stack>> /\ stack # <<>> /\ stack[1].at = "run" /\ stack[1].batch # <<>>
      BY <1>16 DEF StartRunnable
    <2>2. t = stack[1].batch[1] /\ t \in Runnables
      BY <2>1, TopTask
    <2>3. phase'[t] = "started"
      BY <1>16, <2>2 DEF StartRunnable, TypeOK
    <2> QED  BY <2>1, <2>2, <2>3 DEF Stopped
  <1>17. CASE Rearm
    <2>1. stack # <<>> /\ stack[1].batch = <<>> /\ UNCHANGED <<os, stoped, unint, phase>> /\ sys' = WakeFirst(sys, Waiting)
      BY <1>17 DEF Rearm
    <2>2. ~stack[1].modal
      BY <2>1, TopTask
    <2>3. os = "win" => unint = "no"
      BY <2>1, <2>2 DEF Stopped
    <2>4. os = "win" => sys'.ready = sys.ready
      BY <2>1, WakeFirstEffect
    <2> QED  BY <2>1, <2>3, <2>4 DEF Stopped
  <1>18. CASE DoModal
    <2> DEFINE f == [stack[1] EXCEPT !.modal = TRUE]
    <2>1. UNCHANGED <<os, stoped, unint, phase, sys>> /\ Top(f) /\ stack # <<>>
      BY <1>18 DEF DoModal, InRunnable
    <2>2. stack[1] \in Frame
      BY <1>0, <2>1, FirstOf
    <2>3. f \in Frame /\ f.modal
      BY <2>2 DEF Frame
    <2> HIDE DEF f
    <2>4. stack'[1] = f
      BY <1>0, <2>1, <2>3, PushPop DEF Top, Tops
    <2> QED  BY <2>1, <2>3, <2>4 DEF Stopped
  <1>19. CASE FinishRunnable
    <2>1. CASE os # "win"
      BY <1>19, <2>1 DEF FinishRunnable, Stopped
    <2>2. CASE os = "win"
      <3>1. stack # <<>> /\ Pop /\ UNCHANGED <<os, stoped, unint, sys>>
        BY <1>19, <2>2 DEF FinishRunnable
      <3>2. stack[1] \in Frame
        BY <1>0, <3>1, FirstOf
      <3>3. Pops(stack, stack')
        BY <1>0, <3>1, <3>2, PushPop DEF Pop
      <3>4. stack' # <<>> => stack'[1].modal
        BY <1>0, <3>3, FramesPop
      <3> QED  BY <3>1, <3>4 DEF Stopped
    <2> QED  BY <2>1, <2>2
  <1>20. CASE Tick
    BY <1>20 DEF Tick, Stopped
  <1>21. ASSUME NEW p \in Threads, Ask(p) \/ GetMessagePumpByType(p) \/ BeginPost(p)
         PROVE  UNCHANGED <<os, stoped, sys, stack, unint, phase>>
    BY <1>21 DEF Ask, GetMessagePumpByType, BeginPost
  \* A phase of no handler's runnable.
  <1>22. ASSUME NEW t \in Runnables, NEW x, phase' = [phase EXCEPT ![t] = x], phase[t] \in {"new", "waiting"},
                UNCHANGED <<os, stoped, sys, stack, unint>>
         PROVE  Stopped'
    <2>1. stack # <<>> /\ stack[1].batch # <<>> => phase'[stack[1].batch[1]] = phase[stack[1].batch[1]]
      BY <1>22, TopTask DEF TypeOK
    <2> QED  BY <1>22, <2>1 DEF Stopped
  <1>23. ASSUME NEW p \in Threads, Insert(p) PROVE Stopped'
    <2>1. call[p].task \in Runnables /\ phase[call[p].task] = "new"
      BY <1>23 DEF TypeOK, Call, Insert, Posts
    <2> QED  BY <1>22, <1>23, <2>1 DEF Insert
  <1>24. ASSUME NEW p \in Threads, PostWakeup(p) PROVE Stopped'
    <2>1. UNCHANGED <<os, stoped, stack, unint, phase>> /\ sys' = Wakeup(sys, call[p].expired_time)
      BY <1>24 DEF PostWakeup
    <2>2. call[p].expired_time \in Nat
      BY DEF TypeOK, Call
    <2>3. os = "win" => sys'.ready = sys.ready /\ (~sys.open => sys' = sys)
      BY <2>1, <2>2, WakeupEffect
    <2> QED  BY <2>1, <2>3 DEF Stopped
  <1>25. ASSUME NEW p \in Threads, Cancel(p) PROVE Stopped'
    <2>1. PICK t \in Waiting : phase' = [phase EXCEPT ![t] = "cancelled"]
      BY <1>25 DEF Cancel
    <2>2. t \in Runnables /\ phase[t] = "waiting"
      BY DEF Waiting
    <2> QED  BY <1>22, <1>25, <2>1, <2>2 DEF Cancel
  <1> QED  BY <1>1, <1>2, <1>3, <1>4, <1>5, <1>6, <1>7, <1>8, <1>9, <1>10, <1>11, <1>13, <1>14, <1>15, <1>16, <1>17,
              <1>18, <1>19, <1>20, <1>21, <1>23, <1>24, <1>25 DEF Next, Unint, Handlers

\* Whoever takes a message, a timer or the timerfd away looks at the set, and
\* whoever leaves the set wakes for what is left.
LEMMA WokenInductive ==
    TypeOK /\ Ids /\ Posts /\ Frames(stack, phase, os, now) /\ Stopped /\ Woken /\ Next => Woken'
  <1> SUFFICES ASSUME TypeOK, Ids, Posts, Frames(stack, phase, os, now), Stopped, Woken, Next PROVE Woken'
    OBVIOUS
  <1>0. stack \in Seq(Frame) /\ now \in Nat
    BY DEF TypeOK
  <1>1. CASE UNCHANGED <<os, sys, stack, call, phase>>
    BY <1>1 DEF Woken, Waiting
  <1>2. CASE InitMessageLoop
    <2>1. Waiting = {} /\ phase' = phase
      BY <1>2 DEF InitMessageLoop, Posts, Waiting
    <2> QED  BY <2>1 DEF Woken, Waiting
  <1>3. ASSUME UnintMessageLoop \/ SetStoped \/ UnintReturns \/ \E w \in Workers : StopWorker(w)
        PROVE  UNCHANGED <<os, sys, stack, call, phase>>
    BY <1>3 DEF UnintMessageLoop, SetStoped, UnintReturns, StopWorker
  <1>4. CASE StopWin
    <2>1. os' = "win" /\ ~sys'.open
      BY <1>4 DEF StopWin, TypeOK, Sys
    <2> QED  BY <2>1 DEF Woken
  \* A call that was on its way to Wakeup stays there.
  <1>5. ASSUME UNCHANGED <<os, sys, stack, phase>>, \A p \in Threads : call[p].at = "wake" => call'[p].at = "wake"
        PROVE  Woken'
    BY <1>5 DEF Woken, Waiting
  <1>6. CASE StopAndroid
    <2>1. /\ UNCHANGED <<os, sys, stack, phase>> /\ os = "android" /\ Main \in Threads
          /\ call' = [call EXCEPT ![Main] = [at |-> "insert", task |-> StopTask, expired_time |-> now]]
      BY <1>6 DEF StopAndroid, Threads
    <2>2. call[Main].at # "wake"
      BY <1>6 DEF StopAndroid, Posts
    <2>3. \A p \in Threads : call[p].at = "wake" => call'[p].at = "wake"
      BY <2>1, <2>2 DEF TypeOK
    <2> QED  BY <1>5, <2>1, <2>3
  <1>7. ASSUME NEW a \in {"kill", "work"}, Push(a) PROVE stack' # <<>> /\ stack'[1].at = a
    <2> DEFINE f == [at |-> a, now |-> now, batch |-> <<>>, modal |-> FALSE]
    <2>1. f \in Frame /\ f.at = a
      BY <1>0, <1>7 DEF Frame
    <2>2. stack' = <<f>> \o stack
      BY <1>7 DEF Push
    <2> HIDE DEF f
    <2> QED  BY <1>0, <2>1, <2>2, PushPop DEF Pushes
  <1>8. CASE DispatchCustom
    BY <1>7, <1>8 DEF DispatchCustom, Woken
  <1>9. CASE DispatchTimer
    BY <1>7, <1>9 DEF DispatchTimer, Woken
  <1>10. CASE DispatchFd
    BY <1>7, <1>10 DEF DispatchFd, Woken
  <1>11. ASSUME NEW f \in Frame, stack # <<>>, Top(f) PROVE stack' # <<>> /\ stack'[1] = f
    BY <1>0, <1>11, PushPop DEF Top, Tops
  <1>12. stack # <<>> => stack[1] \in Frame
    BY <1>0, FirstOf
  <1>13. CASE KillTimer
    <2> DEFINE f == [stack[1] EXCEPT !.at = "work", !.now = now]
    <2>1. f \in Frame /\ f.at = "work" /\ Top(f) /\ stack # <<>>
      BY <1>0, <1>12, <1>13 DEF KillTimer, Frame
    <2> HIDE DEF f
    <2> QED  BY <1>11, <2>1 DEF Woken
  \* The wakeup for what is left.
  <1>14. ASSUME NEW S \in SUBSET Waiting, sys' = WakeFirst(sys, S), Waiting' \subseteq S, os' = os PROVE Woken'
    <2>1. /\ sys'.open = sys.open
          /\ S # {} /\ (os = "win" => sys.open) => sys'.posted > 0 \/ sys'.timer # None \/ sys'.ready
      BY <1>14, WakeFirstEffect
    <2> QED  BY <1>14, <2>1 DEF Woken
  <1>15. CASE DoOneWork
    <2>1. CASE Due = {}
      <3>1. sys' = WakeFirst(sys, Waiting) /\ phase' = phase /\ os' = os
        BY <1>15, <2>1 DEF DoOneWork
      <3>2. Waiting' = Waiting
        BY <3>1 DEF Waiting
      <3> QED  BY <1>14, <3>1, <3>2
    <2>2. CASE Due # {}
      <3>1. PICK t \in Due : phase' = [phase EXCEPT ![t] = "taken"] /\ sys' = WakeFirst(sys, Waiting \ {t})
        BY <1>15, <2>2 DEF DoOneWork
      <3>2. t \in Runnables
        BY DEF Due, Waiting
      <3>3. Waiting' \subseteq Waiting \ {t}
        BY <3>1, <3>2 DEF Waiting, TypeOK
      <3>4. os' = os
        BY <1>15 DEF DoOneWork
      <3> QED  BY <1>14, <3>1, <3>3, <3>4
    <2> QED  BY <2>1, <2>2
  <1>16. CASE DoWork
    <2>1. PICK b \in [1..Cardinality(Due) -> Due] : Top([stack[1] EXCEPT !.at = "run", !.batch = b])
      BY <1>16 DEF DoWork
    <2>2. stack' # <<>>
      <3> DEFINE f == [stack[1] EXCEPT !.at = "run", !.batch = b]
      <3>1. stack' \in Seq(Frame) /\ stack' = <<f>> \o Tail(stack)
        BY <2>1, TypeInductive DEF Top, TypeOK
      <3> HIDE DEF f
      <3>2. Tail(stack) \in Seq(Frame)
        BY <1>0, <1>16, FirstOf DEF DoWork
      <3> QED  BY <3>1, <3>2
    <2> QED  BY <1>16, <2>2 DEF DoWork, Woken
  <1>17. CASE StartRunnable
    <2>1. UNCHANGED <<os, sys, stack, call>> /\ stack # <<>> /\ stack[1].batch # <<>>
      BY <1>17 DEF StartRunnable
    <2>2. Waiting' \subseteq Waiting
      <3>1. Head(stack[1].batch) \in Runnables
        BY <2>1, TopTask
      <3> QED  BY <1>17, <3>1 DEF StartRunnable, Waiting, TypeOK
    <2> QED  BY <2>1, <2>2 DEF Woken
  <1>18. CASE Rearm
    <2>1. sys' = WakeFirst(sys, Waiting) /\ phase' = phase /\ os' = os
      BY <1>18 DEF Rearm
    <2>2. Waiting' = Waiting
      BY <2>1 DEF Waiting
    <2> QED  BY <1>14, <2>1, <2>2
  <1>19. CASE DoModal
    <2> DEFINE f == [stack[1] EXCEPT !.modal = TRUE]
    <2>1. UNCHANGED <<os, sys, call, phase>> /\ Top(f) /\ stack # <<>>
      BY <1>19 DEF DoModal, InRunnable
    <2>2. f \in Frame /\ f.at = stack[1].at
      BY <1>12, <2>1 DEF Frame
    <2> HIDE DEF f
    <2> QED  BY <1>11, <2>1, <2>2 DEF Woken, Waiting
  <1>20. CASE FinishRunnable
    <2> DEFINE t == Head(stack[1].batch)
    <2>1. UNCHANGED <<os, sys, call>> /\ stack # <<>> /\ (stack[1].modal \/ InRunnable)
      BY <1>20 DEF FinishRunnable
    <2>2. t \in Runnables /\ phase' = [phase EXCEPT ![t] = "done"]
      BY <1>20, <2>1, TopTask DEF FinishRunnable, InRunnable
    <2>3. Waiting' \subseteq Waiting
      BY <2>2 DEF Waiting, TypeOK
    <2>4. stack[1].at = "run"
      <3>1. 1 \in DOMAIN stack
        BY <1>0, <2>1, FirstOf
      <3> QED  BY <2>1, <3>1 DEF InRunnable, Frames, FrameOK
    <2>5. CASE os = "win"
      BY <2>1, <2>3, <2>4, <2>5 DEF Woken
    <2>6. CASE os # "win"
      <3> DEFINE f == [stack[1] EXCEPT !.batch = Tail(@)]
      <3>1. Top(f)
        BY <1>20, <2>6 DEF FinishRunnable
      <3>2. stack' # <<>>
        <4>1. stack' \in Seq(Frame) /\ stack' = <<f>> \o Tail(stack)
          BY <3>1, TypeInductive DEF Top, TypeOK
        <4> HIDE DEF f
        <4>2. Tail(stack) \in Seq(Frame)
          BY <1>0, <2>1, FirstOf
        <4> QED  BY <4>1, <4>2
      <3>3. os' = "android"
        BY <2>1, <2>6 DEF TypeOK
      <3> QED  BY <3>2, <3>3 DEF Woken
    <2> QED  BY <2>5, <2>6
  <1>21. CASE Tick
    BY <1>1, <1>21 DEF Tick
  <1>22. ASSUME NEW p \in Threads, Ask(p) \/ GetMessagePumpByType(p) \/ BeginPost(p) PROVE Woken'
    <2>1. UNCHANGED <<os, sys, stack, phase>> /\ call[p].at # "wake"
      BY <1>22 DEF Ask, GetMessagePumpByType, BeginPost
    <2>2. \A q \in Threads \ {p} : call'[q] = call[q]
      BY <1>22 DEF Ask, GetMessagePumpByType, BeginPost, TypeOK
    <2>3. \A q \in Threads : call[q].at = "wake" => call'[q].at = "wake"
      BY <2>1, <2>2
    <2> QED  BY <1>5, <2>1, <2>3
  <1>23. ASSUME NEW p \in Threads, Insert(p) PROVE Woken'
    <2> DEFINE t == call[p].task
               e == call[p].expired_time
    <2>1. /\ UNCHANGED <<os, sys, stack>> /\ call[p].at = "insert" /\ phase' = [phase EXCEPT ![t] = "waiting"]
          /\ call' = [call EXCEPT ![p] = IF NeedsWakeup(e) THEN [call[p] EXCEPT !.at = "wake"] ELSE Idle]
      BY <1>23 DEF Insert
    <2>2. CASE NeedsWakeup(e)
      <3>1. call'[p].at = "wake"
        BY <2>1, <2>2 DEF TypeOK, Call
      <3> QED  BY <3>1 DEF Woken
    <2>3. CASE ~NeedsWakeup(e)
      <3>1. Waiting # {}
        BY <2>3 DEF NeedsWakeup
      <3>2. \A q \in Threads : call[q].at = "wake" => call'[q].at = "wake"
        BY <2>1 DEF TypeOK
      <3> QED  BY <2>1, <3>1, <3>2 DEF Woken
    <2> QED  BY <2>2, <2>3
  <1>24. ASSUME NEW p \in Threads, PostWakeup(p) PROVE Woken'
    <2>1. UNCHANGED <<os, stack, phase>> /\ sys' = Wakeup(sys, call[p].expired_time)
      BY <1>24 DEF PostWakeup
    <2>2. call[p].expired_time \in Nat
      BY DEF TypeOK, Call
    <2>3. /\ sys'.open = sys.open
          /\ (os = "win" => sys.open) => sys'.posted > 0 \/ sys'.timer # None \/ sys'.ready
      BY <2>1, <2>2, WakeupEffect
    <2> QED  BY <2>1, <2>3 DEF Woken
  <1>25. ASSUME NEW p \in Threads, Cancel(p) PROVE Woken'
    <2>1. UNCHANGED <<os, sys, stack, call>>
      BY <1>25 DEF Cancel
    <2>2. Waiting' \subseteq Waiting
      BY <1>25 DEF Cancel, Waiting, TypeOK
    <2> QED  BY <2>1, <2>2 DEF Woken
  <1> QED  BY <1>1, <1>2, <1>3, <1>4, <1>6, <1>8, <1>9, <1>10, <1>13, <1>15, <1>16, <1>17, <1>18, <1>19, <1>20,
              <1>21, <1>22, <1>23, <1>24, <1>25 DEF Next, Unint, Handlers

-----------------------------------------------------------------------------
(* The theorems.                                                           *)

\* The pump before InitMessageLoop.
LEMMA InitInvariant == Init => IInv
  <1> SUFFICES ASSUME Init PROVE IInv
    OBVIOUS
  <1>1. TypeOK
    <2>1. StopTask \in Runnables /\ <<>> \in Seq(Frame)
      BY EmptySeq DEF Runnables
    <2>2. os \in {"win", "android"}
      BY PlatformsAssumption DEF Init
    <2>3. ticket \in [Runnables -> Ticket] /\ phase \in [Runnables -> Phases]
      BY DEF Init, Ticket, Phases
    <2>4. call \in [Threads -> Call]
      BY <2>1 DEF Init, Idle, Call, Steps
    <2>5. sys \in Sys
      BY DEF Init, Sys
    <2> QED  BY <2>1, <2>2, <2>3, <2>4, <2>5 DEF Init, TypeOK
  <1>2. Known = {} /\ Waiting = {}
    BY DEF Init, Known, Waiting
  <1>3. Ids
    <2>1. Cardinality(Known) = 0
      BY <1>2, FS_EmptySet
    <2> QED  BY <1>2, <2>1 DEF Init, Ids
  <1>4. Posts
    BY DEF Init, Posts, Idle, Runnables, Threads
  <1>5. DOMAIN stack = {} /\ stack = <<>>
    BY EmptySeq DEF Init
  <1>6. Frames(stack, phase, os, now)
    BY <1>5 DEF Frames
  <1>7. Stopped
    BY <1>5 DEF Init, Stopped
  <1>8. Woken
    BY <1>2 DEF Woken
  <1> QED  BY <1>1, <1>3, <1>4, <1>6, <1>7, <1>8 DEF IInv

\* Every step preserves the invariant.
LEMMA NextInvariant == IInv /\ [Next]_vars => IInv'
  <1> SUFFICES ASSUME IInv, [Next]_vars PROVE IInv'
    OBVIOUS
  <1>1. CASE Next
    <2>1. TypeOK'
      BY <1>1, TypeInductive DEF IInv
    <2>2. Ids'
      BY <1>1, IdsInductive DEF IInv
    <2>3. Posts'
      BY <1>1, PostsInductive DEF IInv
    <2>4. Frames(stack', phase', os', now')
      BY <1>1, FramesInductive DEF IInv
    <2>5. Stopped'
      BY <1>1, StoppedInductive DEF IInv
    <2>6. Woken'
      BY <1>1, WokenInductive DEF IInv
    <2> QED  BY <2>1, <2>2, <2>3, <2>4, <2>5, <2>6 DEF IInv
  <1>2. CASE UNCHANGED vars
    BY <1>2 DEF vars, IInv, TypeOK, Ids, Known, Posts, Stopped, Woken, Waiting
  <1> QED  BY <1>1, <1>2

\* The inductive invariant holds, on both platforms.
THEOREM Invariant == Spec => []IInv
  <1> QED  BY InitInvariant, NextInvariant, PTL DEF Spec

\* A runnable in runable_set_ has somebody or something on the way to it.
THEOREM AlwaysWoken == Spec => []NoLostWakeup
  <1>1. IInv => NoLostWakeup
    BY DEF IInv, Woken, NoLostWakeup
  <1> QED  BY <1>1, Invariant, PTL

\* After MessagePumpWin::Stop no runnable starts.
THEOREM StopIsFinal == Spec => NothingStartsAfterStop
  <1>1. ASSUME IInv, [Next]_vars
        PROVE  [os = "win" /\ stoped => \A t \in Runnables : phase[t] # "started" => phase'[t] # "started"]_vars
    <2> SUFFICES ASSUME Next, os = "win", stoped, NEW t \in Runnables, phase[t] # "started"
                 PROVE  phase'[t] # "started"
      BY <1>1
    <2>0. TypeOK /\ Frames(stack, phase, os, now) /\ Stopped /\ Posts
      BY <1>1 DEF IInv
    <2>1. unint \in {"join", "done"}
      BY <2>0 DEF Stopped
    <2>2. ~StartRunnable
      <3> SUFFICES ASSUME StartRunnable PROVE FALSE
        OBVIOUS
      <3>1. /\ stack # <<>> /\ stack[1].at = "run" /\ stack[1].batch # <<>> /\ ~stack[1].modal
            /\ phase[Head(stack[1].batch)] # "started"
        BY DEF StartRunnable, InRunnable
      <3>2. Head(stack[1].batch) = stack[1].batch[1]
        BY <2>0, <3>1, TopTask
      <3> QED  BY <2>0, <2>1, <3>1, <3>2 DEF Stopped
    <2>3. ASSUME NEW u, NEW x, x # "started", phase' = [phase EXCEPT ![u] = x] PROVE phase'[t] # "started"
      BY <2>0, <2>3 DEF TypeOK
    <2>4. CASE DoOneWork
      BY <2>3, <2>4 DEF DoOneWork
    <2>5. CASE DoWork
      BY <2>5 DEF DoWork
    <2>6. CASE FinishRunnable
      BY <2>3, <2>6 DEF FinishRunnable
    <2>7. ASSUME NEW p \in Threads, Insert(p) \/ Cancel(p) PROVE phase'[t] # "started"
      BY <2>3, <2>7 DEF Insert, Cancel
    <2>8. ASSUME NEW p \in Threads, Ask(p) \/ GetMessagePumpByType(p) \/ BeginPost(p) \/ PostWakeup(p) PROVE phase' = phase
      BY <2>8 DEF Ask, GetMessagePumpByType, BeginPost, PostWakeup
    <2>9. ASSUME InitMessageLoop \/ UnintMessageLoop \/ Unint \/ DoModal \/ Tick PROVE phase' = phase
      BY <2>9 DEF InitMessageLoop, UnintMessageLoop, Unint, StopWin, StopAndroid, SetStoped, UnintReturns, StopWorker,
          DoModal, Tick
    <2>10. ASSUME DispatchCustom \/ DispatchTimer \/ KillTimer \/ DispatchFd \/ Rearm PROVE phase' = phase
      BY <2>10 DEF DispatchCustom, DispatchTimer, KillTimer, DispatchFd, Rearm
    <2> QED  BY <2>2, <2>4, <2>5, <2>6, <2>7, <2>8, <2>9, <2>10 DEF Next, Handlers
  <1> QED  BY <1>1, Invariant, PTL DEF Spec, NothingStartsAfterStop

\* A step of a pump is a step of the queue, or none.
LEMMA QueueStep == IInv /\ [Next]_vars => [Queue!QueueNext]_(Queue!queueVars)
  <1> SUFFICES ASSUME IInv, [Next]_vars PROVE Queue!QueueNext \/ UNCHANGED <<now, phase, ticket, stoped>>
    BY DEF Queue!queueVars
  <1>0. TypeOK /\ Ids /\ Posts /\ Frames(stack, phase, os, now) /\ Stopped
    BY DEF IInv
  <1>1. CASE UNCHANGED <<now, phase, ticket, stoped>>
    BY <1>1
  \* One runnable moves on.
  <1>2. ASSUME NEW t \in Runnables, NEW x, NEW y, phase[t] = x, phase' = [phase EXCEPT ![t] = y]
        PROVE  Queue!Move({t}, x, y)
    BY <1>0, <1>2 DEF Queue!Move, TypeOK
  <1>3. ASSUME StopWin \/ SetStoped PROVE Queue!Close
    BY <1>0, <1>3 DEF StopWin, SetStoped, Stopped, Queue!Close
  <1>4. CASE Tick
    <2>1. Queue!Advance
      BY <1>0, <1>4 DEF Tick, TypeOK, Queue!Advance
    <2> QED  BY <2>1 DEF Queue!QueueNext
  <1>5. ASSUME NEW p \in Threads, Insert(p) PROVE Queue!QueueNext
    <2> DEFINE t == call[p].task
               n == Cardinality(Known)
               k == [expired_time |-> call[p].expired_time, id |-> 1 + n]
    <2>1. /\ ticket' = [ticket EXCEPT ![t] = k] /\ phase' = [phase EXCEPT ![t] = "waiting"]
          /\ UNCHANGED <<now, stoped>>
      BY <1>5 DEF Insert, Known
    <2>2. t \in Runnables /\ phase[t] = "new" /\ call[p].expired_time \in Nat
      BY <1>0, <1>5 DEF TypeOK, Call, Insert, Posts
    <2>3. n \in Nat
      <3>1. IsFiniteSet(Runnables)
        BY TasksAssumption, FS_AddElement DEF Runnables
      <3>2. IsFiniteSet(Known)
        BY <3>1, FS_Subset DEF Known
      <3> QED  BY <3>2, FS_CardinalityType
    <2>4. \A u \in Runnables : ticket[u].id \in Nat /\ ticket[u].id <= n
      BY <1>0 DEF Ids, TypeOK, Ticket
    <2> HIDE DEF n, t
    <2>5. ticket'[t] = k
      BY <1>0, <2>1, <2>2 DEF TypeOK
    <2>6. k \in [expired_time : Nat, id : Nat] /\ k.id = 1 + n
      BY <2>2, <2>3
    <2> HIDE DEF k
    <2>7. \A u \in Runnables : ticket[u].id < ticket'[t].id
      BY <2>3, <2>4, <2>5, <2>6
    <2>8. Queue!Move({t}, "new", "waiting")
      BY <1>2, <2>1, <2>2
    <2>9. ticket' = [ticket EXCEPT ![t] = ticket'[t]]
      BY <2>1, <2>5
    <2>10. ticket'[t] \in [expired_time : Nat, id : Nat]
      BY <2>5, <2>6
    <2>11. Queue!Accept(t)
      BY <2>1, <2>7, <2>8, <2>9, <2>10 DEF Queue!Accept
    <2> QED  BY <2>2, <2>11 DEF Queue!QueueNext
  <1>6. ASSUME NEW p \in Threads, Cancel(p) PROVE Queue!QueueNext
    <2>1. PICK t \in Waiting : phase' = [phase EXCEPT ![t] = "cancelled"]
      BY <1>6 DEF Cancel
    <2>2. t \in Runnables /\ phase[t] = "waiting" /\ UNCHANGED <<now, ticket, stoped>>
      BY <1>6 DEF Cancel, Waiting
    <2>3. Queue!Move({t}, "waiting", "cancelled")
      BY <1>2, <2>1, <2>2
    <2>4. Queue!Withdraw(t)
      BY <2>2, <2>3 DEF Queue!Withdraw
    <2> QED  BY <2>2, <2>4 DEF Queue!QueueNext
  <1>7. stack # <<>> => stack[1].now <= now /\ stack[1].now \in Nat /\ now \in Nat
    <2> SUFFICES ASSUME stack # <<>> PROVE stack[1].now <= now /\ stack[1].now \in Nat /\ now \in Nat
      OBVIOUS
    <2>1. stack[1] \in Frame /\ 1 \in DOMAIN stack /\ now \in Nat
      BY <1>0, FirstOf DEF TypeOK
    <2>2. stack[1].now <= now
      BY <1>0, <2>1 DEF Frames, FrameOK
    <2>3. stack[1].now \in Nat
      BY <2>1 DEF Frame
    <2> QED  BY <2>1, <2>2, <2>3
  <1>8. \A t \in Runnables : ticket[t].id \in Nat /\ ticket[t].expired_time \in Nat
    BY <1>0 DEF TypeOK, Ticket
  \* What is due and first is what the queue hands out.
  <1>9. ASSUME stack # <<>>, NEW S \in SUBSET Due, S # {}, UNCHANGED <<now, ticket, stoped>>,
               phase' = [t \in Runnables |-> IF t \in S THEN "taken" ELSE phase[t]],
               \A t \in S, u \in Due : Less(u, t) => u \in S
        PROVE  Queue!QueueNext
    <2>1. S \in SUBSET Runnables /\ \A t \in S : phase[t] = "waiting" /\ ticket[t].expired_time <= now
      BY <1>7, <1>8, <1>9 DEF Due, Waiting
    <2>2. ASSUME NEW t \in S, NEW u \in Runnables, phase[u] = "waiting", Queue!Before(u, t) PROVE u \in S
      <3>1. Less(u, t)
        BY <2>2 DEF Queue!Before, Less
      <3>2. ticket[u].expired_time <= ticket[t].expired_time /\ ticket[t].expired_time <= stack[1].now
        BY <1>8, <2>1, <3>1 DEF Less, Due
      <3>3. u \in Due
        BY <1>7, <1>8, <1>9, <2>1, <2>2, <3>2 DEF Due, Waiting
      <3> QED  BY <1>9, <3>1, <3>3
    <2>3. Queue!Move(S, "waiting", "taken")
      BY <1>9, <2>1 DEF Queue!Move
    <2>4. Queue!TakeDue(S)
      BY <1>9, <2>1, <2>2, <2>3 DEF Queue!TakeDue
    <2> QED  BY <2>1, <2>4 DEF Queue!QueueNext
  <1>10. CASE DoOneWork
    <2>0. stack # <<>> /\ UNCHANGED <<now, ticket, stoped>>
      BY <1>10 DEF DoOneWork
    <2>1. CASE Due = {}
      BY <1>1, <1>10, <2>1 DEF DoOneWork
    <2>2. CASE Due # {}
      <3>1. PICK t \in Due : IsFirst(t, Due) /\ phase' = [phase EXCEPT ![t] = "taken"]
        BY <1>10, <2>2 DEF DoOneWork
      <3>2. phase' = [u \in Runnables |-> IF u \in {t} THEN "taken" ELSE phase[u]]
        BY <1>0, <3>1 DEF TypeOK
      <3>3. ASSUME NEW u \in Due, Less(u, t) PROVE u \in {t}
        <4>1. u # t => Less(t, u)
          BY <3>1 DEF IsFirst
        <4>2. t \in Runnables /\ u \in Runnables
          BY DEF Due, Waiting
        <4> QED  BY <1>8, <3>3, <4>1, <4>2 DEF Less
      <3> QED  BY <1>9, <2>0, <3>2, <3>3
    <2> QED  BY <2>1, <2>2
  <1>11. CASE DoWork
    <2>0. stack # <<>> /\ UNCHANGED <<now, ticket, stoped>>
      BY <1>11 DEF DoWork
    <2>1. phase' = [t \in Runnables |-> IF t \in Due THEN "taken" ELSE phase[t]]
      BY <1>11 DEF DoWork
    <2>2. CASE Due = {}
      <3>1. phase' = phase
        BY <1>0, <2>1, <2>2 DEF TypeOK
      <3> QED  BY <1>1, <2>0, <3>1
    <2>3. CASE Due # {}
      BY <1>9, <2>0, <2>1, <2>3
    <2> QED  BY <2>2, <2>3
  <1>12. CASE StartRunnable
    <2> DEFINE t == Head(stack[1].batch)
    <2>1. /\ stack # <<>> /\ stack[1].batch # <<>> /\ phase[t] # "started" /\ UNCHANGED <<now, ticket, stoped>>
          /\ phase' = [phase EXCEPT ![t] = "started"]
      BY <1>12 DEF StartRunnable, InRunnable
    <2>2. t \in Runnables /\ phase[t] = "taken"
      BY <1>0, <2>1, TopTask
    <2> HIDE DEF t
    <2>3. Queue!Move({t}, "taken", "started")
      BY <1>2, <2>1, <2>2
    <2>4. Queue!Start(t)
      BY <2>1, <2>3 DEF Queue!Start
    <2> QED  BY <2>2, <2>4 DEF Queue!QueueNext
  <1>13. CASE FinishRunnable
    <2> DEFINE t == Head(stack[1].batch)
    <2>1. /\ stack # <<>> /\ UNCHANGED <<now, ticket, stoped>> /\ phase' = [phase EXCEPT ![t] = "done"]
          /\ stack[1].modal \/ (stack[1].batch # <<>> /\ phase[t] = "started")
      BY <1>13 DEF FinishRunnable, InRunnable
    <2>2. t \in Runnables /\ phase[t] = "started"
      BY <1>0, <2>1, TopTask
    <2> HIDE DEF t
    <2>3. Queue!Move({t}, "started", "done")
      BY <1>2, <2>1, <2>2
    <2>4. Queue!Finish(t)
      BY <2>1, <2>3 DEF Queue!Finish
    <2> QED  BY <2>2, <2>4 DEF Queue!QueueNext
  <1>14. ASSUME NEW p \in Threads, Ask(p) \/ GetMessagePumpByType(p) \/ BeginPost(p) \/ PostWakeup(p)
         PROVE  UNCHANGED <<now, phase, ticket, stoped>>
    BY <1>14 DEF Ask, GetMessagePumpByType, BeginPost, PostWakeup
  <1>15. ASSUME InitMessageLoop \/ UnintMessageLoop \/ StopAndroid \/ UnintReturns \/ DoModal
                \/ \E w \in Workers : StopWorker(w)
         PROVE  UNCHANGED <<now, phase, ticket, stoped>>
    BY <1>15 DEF InitMessageLoop, UnintMessageLoop, StopAndroid, UnintReturns, StopWorker, DoModal
  <1>16. ASSUME DispatchCustom \/ DispatchTimer \/ KillTimer \/ DispatchFd \/ Rearm
         PROVE  UNCHANGED <<now, phase, ticket, stoped>>
    BY <1>16 DEF DispatchCustom, DispatchTimer, KillTimer, DispatchFd, Rearm
  <1>17. CASE UNCHANGED vars
    BY <1>1, <1>17 DEF vars
  <1>18. CASE StopWin \/ SetStoped
    BY <1>3, <1>18 DEF Queue!QueueNext
  <1> QED  BY <1>1, <1>4, <1>5, <1>6, <1>10, <1>11, <1>12, <1>13, <1>14, <1>15, <1>16, <1>17, <1>18
           DEF Next, Unint, Handlers

\* Both pumps of the main thread implement the queue of message_pump.h.
THEOREM QueueImplemented == Spec => ImplementsQueue
  <1>1. Init => Queue!QueueInit
    BY DEF Init, Queue!QueueInit
  <1> QED  BY <1>1, Invariant, QueueStep, PTL DEF Spec, ImplementsQueue, Queue!QueueSpec
=============================================================================
