------------------------------- MODULE UiPump -------------------------------
(***************************************************************************)
(* The pumps of the main thread, MessagePumpWin over a window's messages   *)
(* and timer and MessagePumpAndroid over a timerfd, and the message loop   *)
(* manager that creates the pumps, hands them out and stops them.          *)
(*                                                                         *)
(* The main thread runs the pump's runnables; on Windows one of them may   *)
(* open a modal dialog, whose message loop runs others inside it.  Workers *)
(* are the threads of the other pumps, which UnintMessageLoop joins; other *)
(* threads are joined by nobody and may hold on to a pump they were given. *)
(***************************************************************************)
EXTENDS Integers, Sequences, FiniteSets

CONSTANTS
    Platforms,   \* the builds: "win", "android"
    Workers,     \* threads of the IO, Work and File pumps
    Others,      \* threads of no pump
    Main,        \* the main thread
    Tasks,       \* the runnables given to the UI pump
    StopTask,    \* the runnable that Stop posts
    Delays,
    MaxTime      \* bound of the clock

Threads == Workers \cup Others \cup {Main}
Runnables == Tasks \cup {StopTask}
None == -1

ASSUME TimeAssumption == MaxTime \in Nat /\ Delays \subseteq 0..MaxTime
ASSUME PlatformsAssumption == Platforms \subseteq {"win", "android"}
ASSUME TasksAssumption == IsFiniteSet(Tasks) /\ StopTask \notin Tasks

VARIABLES
    os, now,
    ticket,      \* the key of a runnable in runable_set_
    phase,       \* where it is
    stoped,      \* stoped_
    sys,         \* the window, its messages and its timer; the timerfd
    stack,       \* the handlers the main thread is in, one per message loop
    call,        \* what a thread is about in GetMessagePumpByType and PostRunable
    manager,     \* g_loop_manager
    lock,        \* g_loop_manager_mutex is held across steps
    unint,       \* how far UnintMessageLoop is
    joined

vars == <<os, now, ticket, phase, stoped, sys, stack, call, manager, lock, unint, joined>>
set == <<ticket, phase>>
loops == <<manager, lock, unint, joined>>

Idle == [at |-> "idle", task |-> StopTask, expired_time |-> 0]

Init ==
    /\ os \in Platforms /\ now = 0 /\ stoped = FALSE
    /\ ticket = [t \in Runnables |-> [expired_time |-> 0, id |-> 0]]
    /\ phase = [t \in Runnables |-> "new"]
    /\ sys = [open |-> FALSE, posted |-> 0, timer |-> None, ready |-> FALSE]
    /\ stack = <<>> /\ call = [p \in Threads |-> Idle]
    /\ manager = "none" /\ lock = FALSE /\ unint = "no" /\ joined = {}

-----------------------------------------------------------------------------
(* runable_set_.                                                           *)

Waiting == {t \in Runnables : phase[t] = "waiting"}
Less(t, u) ==
    \/ ticket[t].expired_time < ticket[u].expired_time
    \/ ticket[t].expired_time = ticket[u].expired_time /\ ticket[t].id < ticket[u].id
IsFirst(t, S) == t \in S /\ \A u \in S \ {t} : Less(t, u)

\* The two Wakeups.  SetTimer replaces the one timer of the window; a window
\* that is gone (g_hwnd_ is null) gets neither.  The timerfd takes the time
\* that is left for a time since boot, which has passed: it is readable at once.
WakeupWin(s, e) ==
    IF ~s.open THEN s ELSE IF e > now THEN [s EXCEPT !.timer = e] ELSE [s EXCEPT !.posted = @ + 1]
WakeupAndroid(s, e) == [s EXCEPT !.ready = TRUE]
Wakeup(s, e) == IF os = "win" THEN WakeupWin(s, e) ELSE WakeupAndroid(s, e)

\* Mutant: nobody is woken for what is left.
WakeFirstNever(s, S) == s

\* Wakeup(runable_set_.begin()->expired_time), unless the set is empty.
WakeFirst(s, S) ==
    IF S = {} THEN s ELSE Wakeup(s, ticket[CHOOSE t \in S : IsFirst(t, S)].expired_time)

-----------------------------------------------------------------------------
(* The manager, and who keeps the pump alive.                              *)

InitMessageLoop ==
    /\ unint = "no" /\ manager = "none" /\ ~lock
    /\ manager' = "live" /\ sys' = [sys EXCEPT !.open = os = "win"]
    /\ UNCHANGED <<os, now, set, stoped, stack, call, lock, unint, joined>>

\* The manager until it has deleted the loop, the runnable of Stop until it has
\* run, and whoever was given the pump.
HeldByStop == phase[StopTask] \in {"waiting", "taken", "started"}
Alive ==
    \/ manager = "live" \/ unint \in {"stop", "posting"} \/ HeldByStop
    \/ \E p \in Threads : call[p].at \notin {"idle", "ask"}

\* The main thread can make a call: it is in no handler, or in a runnable.
InRunnable == stack # <<>> /\ stack[1].at = "run" /\ ~stack[1].modal /\ stack[1].batch # <<>>
              /\ phase[Head(stack[1].batch)] = "started"
MainFree == call[Main].at = "idle" /\ unint \in {"no", "done"} /\ (stack = <<>> \/ InRunnable)

\* Mutant: the pumps are stopped with the mutex held.
UnintMessageLoopLocked ==
    /\ unint = "no" /\ manager = "live" /\ ~lock /\ MainFree
    /\ unint' = "stop" /\ manager' = "none" /\ lock' = TRUE
    /\ UNCHANGED <<os, now, set, stoped, sys, stack, call, joined>>

\* The pointer is swapped under the mutex, the manager deleted after it.
UnintMessageLoop ==
    /\ unint = "no" /\ manager = "live" /\ ~lock /\ MainFree
    /\ unint' = "stop" /\ manager' = "none"
    /\ UNCHANGED <<os, now, set, stoped, sys, stack, call, lock, joined>>

\* Mutant: the window stays, with its messages and its timer.
StopKeepsWindow ==
    /\ unint = "stop" /\ os = "win"
    /\ stoped' = TRUE /\ unint' = "join"
    /\ UNCHANGED <<os, now, set, sys, stack, call, manager, lock, joined>>

\* MessagePumpWin::Stop; DestroyWindow takes its messages and its timer along.
StopWin ==
    /\ unint = "stop" /\ os = "win"
    /\ stoped' = TRUE /\ unint' = "join"
    /\ sys' = [sys EXCEPT !.open = FALSE, !.posted = 0, !.timer = None]
    /\ UNCHANGED <<os, now, set, stack, call, manager, lock, joined>>

\* MessagePumpImpl::Stop posts DoStop, which does nothing here, and sets the flag.
StopAndroid ==
    /\ unint = "stop" /\ os = "android"
    /\ call' = [call EXCEPT ![Main] = [at |-> "insert", task |-> StopTask, expired_time |-> now]]
    /\ unint' = "posting"
    /\ UNCHANGED <<os, now, set, stoped, sys, stack, manager, lock, joined>>
SetStoped ==
    /\ unint = "posting" /\ call[Main].at = "idle"
    /\ stoped' = TRUE /\ unint' = "join"
    /\ UNCHANGED <<os, now, set, sys, stack, call, manager, lock, joined>>

\* Stop of the other pumps (MessagePump.tla) waits for what they are running.
StopWorker(w) ==
    /\ unint = "join" /\ w \notin joined /\ call[w].at = "idle"
    /\ joined' = joined \cup {w}
    /\ UNCHANGED <<os, now, set, stoped, sys, stack, call, manager, lock, unint>>
UnintReturns ==
    /\ unint = "join" /\ joined = Workers
    /\ unint' = "done" /\ lock' = FALSE
    /\ UNCHANGED <<os, now, set, stoped, sys, stack, call, manager, joined>>

-----------------------------------------------------------------------------
(* PostRunable and Cancel, from any thread.                                *)

\* Without a manager a thread gets the EmptyMessagePump, which takes nothing.
GivenTo(m) == IF m = "live" THEN "got" ELSE "idle"

\* A thread asks for the UI pump and waits for the mutex.
Ask(p) ==
    /\ call[p].at = "idle" /\ p \notin joined
    /\ p = Main => MainFree
    /\ call' = [call EXCEPT ![p].at = "ask"]
    /\ UNCHANGED <<os, now, set, stoped, sys, stack, loops>>
GetMessagePumpByType(p) ==
    /\ call[p].at = "ask" /\ ~lock
    /\ call' = [call EXCEPT ![p].at = GivenTo(manager)]
    /\ UNCHANGED <<os, now, set, stoped, sys, stack, loops>>

\* The pump may be kept, and used later or let go.
BeginPost(p) ==
    /\ call[p].at = "got"
    /\ \/ call' = [call EXCEPT ![p] = Idle]
       \/ /\ ~stoped
          /\ \E t \in Tasks, d \in Delays :
               /\ phase[t] = "new" /\ \A q \in Threads \ {p} : call[q].task # t
               /\ now + d <= MaxTime
               /\ call' = [call EXCEPT ![p] = [at |-> "insert", task |-> t, expired_time |-> now + d]]
    /\ UNCHANGED <<os, now, set, stoped, sys, stack, loops>>

\* Mutant: only a runnable that comes before another one needs a wakeup.
NeedsWakeupIfEarlier(e) == \E t \in Waiting : e < ticket[t].expired_time

NeedsWakeup(e) == \A t \in Waiting : e < ticket[t].expired_time

Insert(p) ==
    LET t == call[p].task  e == call[p].expired_time
    IN  /\ call[p].at = "insert"
        /\ ticket' = [ticket EXCEPT ![t] = [expired_time |-> e, id |-> 1 + Cardinality({u \in Runnables : phase[u] # "new"})]]
        /\ phase' = [phase EXCEPT ![t] = "waiting"]
        /\ call' = [call EXCEPT ![p] = IF NeedsWakeup(e) THEN [@ EXCEPT !.at = "wake"] ELSE Idle]
        /\ UNCHANGED <<os, now, stoped, sys, stack, loops>>

PostWakeup(p) ==
    /\ call[p].at = "wake"
    /\ sys' = Wakeup(sys, call[p].expired_time)
    /\ call' = [call EXCEPT ![p] = Idle]
    /\ UNCHANGED <<os, now, set, stoped, stack, loops>>

Cancel(p) ==
    /\ call[p].at = "got"
    /\ \E t \in Waiting \ {StopTask} : phase' = [phase EXCEPT ![t] = "cancelled"]
    /\ UNCHANGED <<os, now, ticket, stoped, sys, stack, call, loops>>

-----------------------------------------------------------------------------
(* The main thread's message loops and handlers.                           *)

InLoop == call[Main].at = "idle" /\ unint \in {"no", "done"} /\ (stack # <<>> => stack[1].modal)

Push(at) == stack' = <<[at |-> at, now |-> now, batch |-> <<>>, modal |-> FALSE]>> \o stack
Top(f) == stack' = <<f>> \o Tail(stack)
Pop == stack' = Tail(stack)

\* WndProcThunk; the clock is read before the lock.
DispatchCustom ==
    /\ InLoop /\ sys.posted > 0
    /\ Push("work") /\ sys' = [sys EXCEPT !.posted = @ - 1]
    /\ UNCHANGED <<os, now, set, stoped, call, loops>>

\* WndTimerProcThunk kills the timer first.
DispatchTimer ==
    /\ InLoop /\ sys.timer # None /\ sys.timer <= now
    /\ Push("kill")
    /\ UNCHANGED <<os, now, set, stoped, sys, call, loops>>
KillTimer ==
    /\ stack # <<>> /\ stack[1].at = "kill"
    /\ Top([stack[1] EXCEPT !.at = "work", !.now = now]) /\ sys' = [sys EXCEPT !.timer = None]
    /\ UNCHANGED <<os, now, set, stoped, call, loops>>

\* DelayedLooperCallback and WorkWrapper's read.
DispatchFd ==
    /\ InLoop /\ sys.ready /\ Alive
    /\ Push("work") /\ sys' = [sys EXCEPT !.ready = FALSE]
    /\ UNCHANGED <<os, now, set, stoped, call, loops>>

Due == {t \in Waiting : ticket[t].expired_time <= stack[1].now}

\* DoOneWork wakes for the rest first: the runnable may open a dialog.
DoOneWork ==
    /\ os = "win" /\ stack # <<>> /\ stack[1].at = "work"
    /\ IF Due = {}
       THEN Pop /\ sys' = WakeFirst(sys, Waiting) /\ UNCHANGED phase
       ELSE \E t \in Due :
              /\ IsFirst(t, Due)
              /\ phase' = [phase EXCEPT ![t] = "taken"]
              /\ sys' = WakeFirst(sys, Waiting \ {t})
              /\ Top([stack[1] EXCEPT !.at = "run", !.batch = <<t>>])
    /\ UNCHANGED <<os, now, ticket, stoped, call, loops>>

\* Mutant: a runnable that is not due is taken with the others.
DoWorkAll ==
    /\ os = "android" /\ stack # <<>> /\ stack[1].at = "work"
    /\ phase' = [t \in Runnables |-> IF t \in Waiting THEN "taken" ELSE phase[t]]
    /\ \E b \in [1..Cardinality(Waiting) -> Waiting] :
          /\ \A i, j \in DOMAIN b : i < j => Less(b[i], b[j])
          /\ Top([stack[1] EXCEPT !.at = "run", !.batch = b])
    /\ UNCHANGED <<os, now, ticket, stoped, sys, call, loops>>

\* DoWork takes all that is due, in order.
DoWork ==
    /\ os = "android" /\ stack # <<>> /\ stack[1].at = "work"
    /\ phase' = [t \in Runnables |-> IF t \in Due THEN "taken" ELSE phase[t]]
    /\ \E b \in [1..Cardinality(Due) -> Due] :
          /\ \A i, j \in DOMAIN b : i < j => Less(b[i], b[j])
          /\ Top([stack[1] EXCEPT !.at = "run", !.batch = b])
    /\ UNCHANGED <<os, now, ticket, stoped, sys, call, loops>>

StartRunnable ==
    /\ stack # <<>> /\ stack[1].at = "run" /\ stack[1].batch # <<>> /\ ~InRunnable /\ ~stack[1].modal
    /\ phase' = [phase EXCEPT ![Head(stack[1].batch)] = "started"]
    /\ UNCHANGED <<os, now, ticket, stoped, sys, stack, call, loops>>

\* A modal dialog on Windows.
DoModal ==
    /\ os = "win" /\ InRunnable /\ MainFree
    /\ Top([stack[1] EXCEPT !.modal = TRUE])
    /\ UNCHANGED <<os, now, set, stoped, sys, call, loops>>

FinishRunnable ==
    /\ stack # <<>> /\ call[Main].at = "idle" /\ unint \in {"no", "done"}
    /\ ~stack[1].modal => InRunnable
    /\ phase' = [phase EXCEPT ![Head(stack[1].batch)] = "done"]
    /\ IF os = "win" THEN Pop ELSE Top([stack[1] EXCEPT !.batch = Tail(@)])
    /\ UNCHANGED <<os, now, ticket, stoped, sys, call, loops>>

\* The end of DoWork.
Rearm ==
    /\ stack # <<>> /\ stack[1].at = "run" /\ stack[1].batch = <<>>
    /\ Pop /\ sys' = WakeFirst(sys, Waiting)
    /\ UNCHANGED <<os, now, set, stoped, call, loops>>

Tick ==
    /\ now < MaxTime /\ now' = now + 1
    /\ UNCHANGED <<os, set, stoped, sys, stack, call, loops>>

Handlers ==
    \/ DispatchCustom \/ DispatchTimer \/ KillTimer \/ DispatchFd
    \/ DoOneWork \/ DoWork \/ StartRunnable \/ Rearm
Unint ==
    \/ StopWin \/ StopAndroid \/ SetStoped \/ UnintReturns
    \/ \E w \in Workers : StopWorker(w)

Next ==
    \/ InitMessageLoop \/ UnintMessageLoop \/ Unint \/ Handlers \/ DoModal \/ FinishRunnable \/ Tick
    \/ \E p \in Threads : Ask(p) \/ GetMessagePumpByType(p) \/ BeginPost(p) \/ Insert(p) \/ PostWakeup(p) \/ Cancel(p)

Spec == Init /\ [][Next]_vars

\* The scheduler runs every thread and the clock goes on.  The main thread goes
\* back to its loop, and the threads that are joined end their runnables, however
\* often they ask for a pump (hence SF).  A dialog may stay
\* open for ever; a thread of no pump may keep the pump it was given.
FairSpec ==
    /\ Spec /\ WF_vars(Tick) /\ SF_vars(Unint)
    /\ SF_vars(Handlers \/ (FinishRunnable /\ InRunnable))
    /\ \A p \in Threads : WF_vars(GetMessagePumpByType(p) \/ Insert(p) \/ PostWakeup(p))
    /\ \A p \in Workers \cup {Main} : WF_vars(BeginPost(p))

-----------------------------------------------------------------------------
\* While the pump takes part in a message loop, a runnable in runable_set_ has
\* a message, a timer, a readable timerfd, a thread on its way to Wakeup or a
\* handler that will look: also inside a dialog that a runnable has opened.
NoLostWakeup ==
    Waiting # {} /\ Alive /\ (os = "win" => sys.open) =>
        \/ sys.posted > 0 \/ sys.timer # None \/ sys.ready
        \/ \E p \in Threads : call[p].at = "wake"
        \/ stack # <<>> /\ (stack[1].at \in {"kill", "work"} \/ os = "android")

\* After MessagePumpWin::Stop has destroyed the window no runnable starts any
\* more, whatever was posted, armed or waiting, and whoever posts too late.
NothingStartsAfterStop ==
    [][os = "win" /\ stoped => \A t \in Runnables : phase[t] # "started" => phase'[t] # "started"]_vars

Queue == INSTANCE RunnableQueue WITH
    Tasks <- Runnables, clock <- now, key <- ticket, closed <- stoped

\* Both pumps keep the promise of message_pump.h that the pumps with threads
\* keep (MessagePump.tla): due runnables run once, in order, unless cancelled.
ImplementsQueue == Queue!QueueSpec

\* A runnable in the set starts or is cancelled, even if a dialog that another
\* one opened is never closed, as long as the pump is not stopped.
WaitingIsServed ==
    \A t \in Tasks : phase[t] = "waiting" ~> (phase[t] # "waiting" \/ stoped)

\* UnintMessageLoop returns, although the threads it joins ask for pumps while
\* it waits for them.
UnintMessageLoopReturns == unint = "stop" ~> unint = "done"
=============================================================================
