----------------------------- MODULE MessagePump -----------------------------
(***************************************************************************)
(* The message pump of base/message_loop: MessagePumpImpl (the ordered     *)
(* set of delayed runnables, PostRunable, Cancel, DoWork, Run, Stop) over  *)
(* MessagePumpDefatlt (one boost::asio io_service run by a group of        *)
(* threads, woken by posted handlers and by one deadline_timer).           *)
(*                                                                         *)
(* Every step of an action is what the code does between two points where  *)
(* another thread can get in: a lock_guard section is one step, a call     *)
(* into asio is one step.  The io_service and the timer are external and   *)
(* modelled by what this code relies on:                                   *)
(*  - handlers run on the threads inside run(), in any order (the only two *)
(*    kinds, "DoWork" and the aborted wait that just returns, commute);    *)
(*  - expires_from_now aborts the pending waits, async_wait adds one; the  *)
(*    pair is not atomic, and nothing in the code serialises it;           *)
(*  - run() returns on every thread once the last outstanding work (the    *)
(*    work_ guard, queued and executing handlers, pending waits) is gone,  *)
(*    and never picks up a handler again.                                  *)
(***************************************************************************)
EXTENDS Naturals, FiniteSets

CONSTANTS
    Threads,   \* the threads MessagePumpDefatlt creates
    Clients,   \* other threads that call the pump
    Posters,   \* the actors that call PostRunable and Cancel
    Stoppers,  \* the clients that call Stop
    Tasks,     \* the runnables; each is posted once
    Delays,    \* the delays PostRunable is called with
    MaxTime,   \* bound on the clock (GetTickCount2)
    StopTask   \* the runnable Stop posts

Actors == Threads \cup Clients
Runnables == Tasks \cup {StopTask}
Time == 0 .. MaxTime

ASSUME ActorsAssumption ==
    /\ Threads \cap Clients = {}
    /\ Posters \subseteq Actors
    /\ Stoppers \subseteq Clients
ASSUME TasksAssumption == StopTask \notin Tasks
ASSUME TimeAssumption == MaxTime \in Nat /\ Delays \subseteq Nat

VARIABLES
    now,          \* GetTickCount2()
    runable_set_, \* std::set<RunnableInfo>
    id_,          \* the last id given out
    stoped_,      \* the atomic flag
    work_,        \* is the io_service::work guard still there?
    ready,        \* handlers queued in the io_service, by kind
    timer,        \* the deadline_timer: expiry, number of waits, when they fire
    io_stopped,   \* io_service::stopped()
    pc,           \* where each pump thread is
    tick,         \* DoWork's local `now`, read before the lock is taken
    batch,        \* DoWork's local `runnables`
    current,      \* the runnable a thread is executing
    call,         \* the PostRunable call an actor is in
    stop,         \* where each client is in Stop()
    posted,       \* history: tasks PostRunable has been called with
    ticket,       \* history: the RunnableInfo key of an accepted task
    runs,         \* history: how often a task was started
    finished,     \* history: tasks whose execution ended
    cancelled,    \* history: tasks for which Cancel returned true
    raced         \* history: did a PostRunable or Stop call overlap a Stop?

pumpVars == <<runable_set_, id_, stoped_>>
ioVars == <<work_, ready, timer, io_stopped>>
threadVars == <<pc, tick, batch, current>>
clientVars == <<call, stop>>
history == <<posted, ticket, runs, finished, cancelled, raced>>
vars == <<now, runable_set_, id_, stoped_, work_, ready, timer, io_stopped,
          pc, tick, batch, current, call, stop,
          posted, ticket, runs, finished, cancelled, raced>>

Ready == [DoWork : Nat, Aborted : Nat]
Timer == [expiry : Nat, waits : Nat, at : Nat]
Call == [at : {"idle", "insert", "wakeup", "arm"},
         expired_time : Nat, runnable : Runnables]
Ticket == [expired_time : Nat, id : Nat]
Info == [expired_time : Nat, id : Nat, runnable : Runnables]
NoCall == [at |-> "idle", expired_time |-> 0, runnable |-> StopTask]
NoTicket == [expired_time |-> 0, id |-> 0]

-----------------------------------------------------------------------------
(* RunnableInfo::operator<, and the element std::set keeps first.          *)

LessByTime(r, q) == r.expired_time <= q.expired_time
Less(r, q) ==
    \/ r.expired_time < q.expired_time
    \/ r.expired_time = q.expired_time /\ r.id < q.id

IsFirst(r, S) == r \in S /\ \A q \in S : q = r \/ Less(r, q)

\* A lock_guard section is one step, except DoWork's last one, which calls
\* Wakeup with runable_set_mutex_ held.
LockFree == \A th \in Threads : pc[th] # "arm"

InHandler(th) == pc[th] \in {"take", "next", "running", "arm"}

\* May actor a call the pump now?  A pump thread does so from a runnable.
CanCall(a) ==
    /\ call[a].at = "idle"
    /\ IF a \in Threads THEN pc[a] = "running" ELSE stop[a] \in {"none", "returned"}

StopInProgress == \E c \in Clients : stop[c] \notin {"none", "returned"}

-----------------------------------------------------------------------------
(* The io_service and the deadline_timer (external).                       *)

QueueWork == [ready EXCEPT !.DoWork = @ + 1]

\* timer_.cancel(), and the first half of expires_from_now: the handlers of
\* the pending waits are queued with operation_aborted.
AbortWaits == [ready EXCEPT !.Aborted = @ + timer.waits]

\* async_wait: a further wait on a timer that is already queued fires with it.
AddWait == [expiry |-> timer.expiry, waits |-> timer.waits + 1,
            at |-> IF timer.waits = 0 THEN timer.expiry ELSE timer.at]

\* th's handler returns, with rdy and waits left: was it the last work?
HandlerReturns(th, rdy, waits) ==
    io_stopped' = (io_stopped \/ (/\ ~work_
                                  /\ rdy.DoWork = 0 /\ rdy.Aborted = 0
                                  /\ waits = 0
                                  /\ \A o \in Threads \ {th} : ~InHandler(o)))

\* The reactor: the deadline passes, the waits complete without an error.
TimerFires ==
    /\ ~io_stopped
    /\ timer.waits > 0 /\ timer.at <= now
    /\ ready' = [ready EXCEPT !.DoWork = @ + timer.waits]
    /\ timer' = [timer EXCEPT !.waits = 0]
    /\ UNCHANGED <<now, pumpVars, work_, io_stopped, threadVars, clientVars, history>>

Tick ==
    /\ now < MaxTime
    /\ now' = now + 1
    /\ UNCHANGED <<pumpVars, ioVars, threadVars, clientVars, history>>

-----------------------------------------------------------------------------
(* The constructor has started every thread when it returns.               *)

Init ==
    /\ now = 0
    /\ runable_set_ = {} /\ id_ = 0 /\ stoped_ = FALSE
    /\ work_ = TRUE
    /\ ready = [DoWork |-> 0, Aborted |-> 0]
    /\ timer = [expiry |-> 0, waits |-> 0, at |-> 0]
    /\ io_stopped = FALSE
    /\ pc = [th \in Threads |-> "wait"]
    /\ tick = [th \in Threads |-> 0]
    /\ batch = [th \in Threads |-> {}]
    /\ current = [th \in Threads |-> StopTask]
    /\ call = [a \in Actors |-> NoCall]
    /\ stop = [c \in Clients |-> "none"]
    /\ posted = {} /\ ticket = [t \in Tasks |-> NoTicket]
    /\ runs = [t \in Tasks |-> 0]
    /\ finished = {} /\ cancelled = {} /\ raced = FALSE

-----------------------------------------------------------------------------
(* PostRunable, in three or four steps of the calling thread.              *)

\* The check of stoped_ and the expiry are computed before the lock.
EnterPostEarly(a, x, delay) ==
    IF stoped_
    THEN call' = call
    ELSE call' = [call EXCEPT ![a] = [at |-> "insert",
                                      expired_time |-> now + delay - 1, runnable |-> x]]
EnterPost(a, x, delay) ==
    IF stoped_
    THEN call' = call
    ELSE call' = [call EXCEPT ![a] = [at |-> "insert",
                                      expired_time |-> now + delay, runnable |-> x]]

BeginPost(a, t, delay) ==
    /\ CanCall(a)
    /\ t \notin posted
    /\ now + delay <= MaxTime
    /\ EnterPost(a, t, delay)
    /\ posted' = posted \cup {t}
    /\ raced' = (raced \/ (a \in Clients /\ StopInProgress))
    /\ UNCHANGED <<now, pumpVars, ioVars, threadVars, stop, ticket, runs, finished, cancelled>>

\* The set is empty, or the new runnable expires before the first one.
WakeupIfEarlier(expired) ==
    runable_set_ # {} /\ \A r \in runable_set_ : expired < r.expired_time
NeedsWakeup(expired) == \A r \in runable_set_ : expired < r.expired_time

\* The locked section.
Insert(a) ==
    LET c == call[a]
        key == [expired_time |-> c.expired_time, id |-> id_ + 1]
        info == [expired_time |-> c.expired_time, id |-> id_ + 1, runnable |-> c.runnable]
    IN  /\ c.at = "insert" /\ LockFree
        /\ id_' = id_ + 1
        /\ runable_set_' = runable_set_ \cup {info}
        /\ call' = [call EXCEPT ![a] = IF NeedsWakeup(c.expired_time)
                                       THEN [c EXCEPT !.at = "wakeup"] ELSE NoCall]
        /\ ticket' = [t \in Tasks |-> IF t = c.runnable THEN key ELSE ticket[t]]
        /\ UNCHANGED <<now, stoped_, ioVars, threadVars, stop,
                       posted, runs, finished, cancelled, raced>>

\* Wakeup, outside the lock: post a handler, or re-arm the timer in two calls.
WakeupNow(a) ==
    /\ call[a].at = "wakeup" /\ call[a].expired_time <= now
    /\ ready' = QueueWork
    /\ call' = [call EXCEPT ![a] = NoCall]
    /\ UNCHANGED <<now, pumpVars, work_, timer, io_stopped, threadVars, stop, history>>

WakeupLater(a) ==
    /\ call[a].at = "wakeup" /\ call[a].expired_time > now
    /\ ready' = AbortWaits
    /\ timer' = [timer EXCEPT !.expiry = call[a].expired_time, !.waits = 0]
    /\ call' = [call EXCEPT ![a].at = "arm"]
    /\ UNCHANGED <<now, pumpVars, work_, io_stopped, threadVars, stop, history>>

ArmTimer(a) ==
    /\ call[a].at = "arm"
    /\ timer' = AddWait
    /\ call' = [call EXCEPT ![a] = NoCall]
    /\ UNCHANGED <<now, pumpVars, work_, ready, io_stopped, threadVars, stop, history>>

\* Cancel of an id that PostRunable has returned; it finds nothing (and
\* changes nothing) once DoWork has taken the runnable.
Cancel(a, t) ==
    /\ CanCall(a) /\ LockFree
    /\ ticket[t].id # 0
    /\ \A b \in Actors : call[b].at = "idle" \/ call[b].runnable # t
    /\ \E r \in runable_set_ :
         /\ r.id = ticket[t].id
         /\ runable_set_' = runable_set_ \ {r}
         /\ cancelled' = cancelled \cup {t}
    /\ UNCHANGED <<now, id_, stoped_, ioVars, threadVars, clientVars,
                   posted, ticket, runs, finished, raced>>

-----------------------------------------------------------------------------
(* DoWork on a pump thread.                                                *)

\* A thread in run() picks up a DoWork handler and reads the clock.
StartDoWork(th) ==
    /\ pc[th] = "wait" /\ ~io_stopped
    /\ ready.DoWork > 0
    /\ ready' = [ready EXCEPT !.DoWork = @ - 1]
    /\ pc' = [pc EXCEPT ![th] = "take"]
    /\ tick' = [tick EXCEPT ![th] = now]
    /\ UNCHANGED <<now, pumpVars, work_, timer, io_stopped, batch, current, clientVars, history>>

\* An aborted wait: the handler returns at once.
RunAborted(th) ==
    /\ pc[th] = "wait" /\ ~io_stopped
    /\ ready.Aborted > 0
    /\ ready' = [ready EXCEPT !.Aborted = @ - 1]
    /\ HandlerReturns(th, ready', timer.waits)
    /\ UNCHANGED <<now, pumpVars, work_, timer, threadVars, clientVars, history>>

\* First locked section: every runnable that is due by the clock just read.
Due(S, t) == {r \in S : r.expired_time <= t}

AllTaken(S, t) == S
NotYetDue(S, t) == S \ Due(S, t)

Take(th) ==
    /\ pc[th] = "take" /\ LockFree
    /\ batch' = [batch EXCEPT ![th] = Due(runable_set_, tick[th])]
    /\ runable_set_' = NotYetDue(runable_set_, tick[th])
    /\ pc' = [pc EXCEPT ![th] = "next"]
    /\ UNCHANGED <<now, id_, stoped_, ioVars, tick, current, clientVars, history>>

\* The loop over the taken runnables, in the order of the set.
StartRunnable(th) ==
    /\ pc[th] = "next"
    /\ \E r \in batch[th] :
         /\ IsFirst(r, batch[th]) /\ r.runnable \in Tasks
         /\ batch' = [batch EXCEPT ![th] = @ \ {r}]
         /\ current' = [current EXCEPT ![th] = r.runnable]
         /\ runs' = [runs EXCEPT ![r.runnable] = @ + 1]
    /\ pc' = [pc EXCEPT ![th] = "running"]
    /\ UNCHANGED <<now, pumpVars, ioVars, tick, clientVars,
                   posted, ticket, finished, cancelled, raced>>

FinishRunnable(th) ==
    /\ pc[th] = "running" /\ call[th].at = "idle"
    /\ finished' = finished \cup {current[th]}
    /\ current' = [current EXCEPT ![th] = StopTask]
    /\ pc' = [pc EXCEPT ![th] = "next"]
    /\ UNCHANGED <<now, pumpVars, ioVars, tick, batch, clientVars,
                   posted, ticket, runs, cancelled, raced>>

\* The runnable of Stop: DoStop cancels the timer and drops the work guard.
CancelTimer ==
    /\ ready' = AbortWaits
    /\ timer' = [timer EXCEPT !.waits = 0]

DoStopKeepsWork(th) ==
    /\ pc[th] = "next"
    /\ \E r \in batch[th] : /\ IsFirst(r, batch[th]) /\ r.runnable = StopTask
                            /\ batch' = [batch EXCEPT ![th] = @ \ {r}]
    /\ CancelTimer
    /\ UNCHANGED <<now, pumpVars, work_, io_stopped, pc, tick, current, clientVars, history>>
DoStopAtOnce(th) ==
    /\ pc[th] = "next"
    /\ \E r \in batch[th] : /\ IsFirst(r, batch[th]) /\ r.runnable = StopTask
                            /\ batch' = [batch EXCEPT ![th] = @ \ {r}]
    /\ CancelTimer
    /\ work_' = FALSE /\ io_stopped' = TRUE
    /\ UNCHANGED <<now, pumpVars, pc, tick, current, clientVars, history>>
DoStop(th) ==
    /\ pc[th] = "next"
    /\ \E r \in batch[th] : /\ IsFirst(r, batch[th]) /\ r.runnable = StopTask
                            /\ batch' = [batch EXCEPT ![th] = @ \ {r}]
    /\ CancelTimer
    /\ work_' = FALSE
    /\ UNCHANGED <<now, pumpVars, io_stopped, pc, tick, current, clientVars, history>>

\* Last locked section: Wakeup for the runnable that is first now, if any.
RearmNothing(th) ==
    /\ pc[th] = "next" /\ batch[th] = {} /\ LockFree
    /\ runable_set_ = {}
    /\ pc' = [pc EXCEPT ![th] = "wait"]
    /\ HandlerReturns(th, ready, timer.waits)
    /\ UNCHANGED <<now, pumpVars, work_, ready, timer, tick, batch, current, clientVars, history>>

RearmNow(th) ==
    /\ pc[th] = "next" /\ batch[th] = {} /\ LockFree
    /\ \E r \in runable_set_ : IsFirst(r, runable_set_) /\ r.expired_time <= now
    /\ ready' = QueueWork
    /\ pc' = [pc EXCEPT ![th] = "wait"]
    /\ HandlerReturns(th, ready', timer.waits)
    /\ UNCHANGED <<now, pumpVars, work_, timer, tick, batch, current, clientVars, history>>

RearmLater(th) ==
    /\ pc[th] = "next" /\ batch[th] = {} /\ LockFree
    /\ \E r \in runable_set_ :
         /\ IsFirst(r, runable_set_) /\ r.expired_time > now
         /\ timer' = [timer EXCEPT !.expiry = r.expired_time, !.waits = 0]
    /\ ready' = AbortWaits
    /\ pc' = [pc EXCEPT ![th] = "arm"]
    /\ UNCHANGED <<now, pumpVars, work_, io_stopped, tick, batch, current, clientVars, history>>

RearmArm(th) ==
    /\ pc[th] = "arm"
    /\ timer' = AddWait
    /\ pc' = [pc EXCEPT ![th] = "wait"]
    /\ HandlerReturns(th, ready, timer'.waits)
    /\ UNCHANGED <<now, pumpVars, work_, ready, tick, batch, current, clientVars, history>>

-----------------------------------------------------------------------------
(* Run after run() returns, and Stop.                                      *)

LeaveRun(th) ==
    /\ pc[th] = "wait" /\ io_stopped
    /\ stoped_' = TRUE
    /\ pc' = [pc EXCEPT ![th] = "clear"]
    /\ UNCHANGED <<now, runable_set_, id_, ioVars, tick, batch, current, clientVars, history>>

ClearSet(th) ==
    /\ pc[th] = "clear" /\ LockFree
    /\ runable_set_' = {}
    /\ pc' = [pc EXCEPT ![th] = "exited"]
    /\ UNCHANGED <<now, id_, stoped_, ioVars, tick, batch, current, clientVars, history>>

\* Stop returns at once from a pump that is stopped already.
BeginStop(c) ==
    /\ stop[c] = "none" /\ call[c].at = "idle"
    /\ IF stoped_
       THEN /\ stop' = [stop EXCEPT ![c] = "returned"]
            /\ UNCHANGED raced
       ELSE /\ stop' = [stop EXCEPT ![c] = "enter"]
            /\ raced' = (\/ raced \/ StopInProgress
                         \/ \E b \in Clients : call[b].at # "idle")
    /\ UNCHANGED <<now, pumpVars, ioVars, threadVars, call,
                   posted, ticket, runs, finished, cancelled>>

\* Its own PostRunable looks at stoped_ again: another Stop may have set it.
PostStop(c) ==
    /\ stop[c] = "enter" /\ call[c].at = "idle"
    /\ EnterPost(c, StopTask, 0)
    /\ stop' = [stop EXCEPT ![c] = "post"]
    /\ UNCHANGED <<now, pumpVars, ioVars, threadVars, history>>

SetStoped(c) ==
    /\ stop[c] = "post" /\ call[c].at = "idle"
    /\ stoped_' = TRUE
    /\ stop' = [stop EXCEPT ![c] = "join"]
    /\ UNCHANGED <<now, runable_set_, id_, ioVars, threadVars, call, history>>

Join(c) ==
    /\ stop[c] = "join"
    /\ \A th \in Threads : pc[th] = "exited"
    /\ stop' = [stop EXCEPT ![c] = "returned"]
    /\ UNCHANGED <<now, pumpVars, ioVars, threadVars, call, history>>

-----------------------------------------------------------------------------
CallStep(a) == Insert(a) \/ WakeupNow(a) \/ WakeupLater(a) \/ ArmTimer(a)

ThreadStep(th) ==
    \/ StartDoWork(th) \/ RunAborted(th) \/ Take(th)
    \/ StartRunnable(th) \/ FinishRunnable(th) \/ DoStop(th)
    \/ RearmNothing(th) \/ RearmNow(th) \/ RearmLater(th) \/ RearmArm(th)
    \/ LeaveRun(th) \/ ClearSet(th)

StopStep(c) == PostStop(c) \/ SetStoped(c) \/ Join(c)

Next ==
    \/ TimerFires \/ Tick
    \/ \E a \in Posters, t \in Tasks, d \in Delays : BeginPost(a, t, d)
    \/ \E a \in Posters, t \in Tasks : Cancel(a, t)
    \/ \E a \in Actors : CallStep(a)
    \/ \E th \in Threads : ThreadStep(th)
    \/ \E c \in Stoppers : BeginStop(c) \/ StopStep(c)

Spec == Init /\ [][Next]_vars

\* Threads are scheduled, runnables return, the clock advances and timers
\* fire; nobody is obliged to post, to cancel or to stop the pump.
Fairness ==
    /\ WF_vars(Tick) /\ WF_vars(TimerFires)
    /\ \A a \in Actors : WF_vars(CallStep(a))
    /\ \A th \in Threads : WF_vars(ThreadStep(th))
    /\ \A c \in Stoppers : WF_vars(StopStep(c))

FairSpec == Spec /\ Fairness
-----------------------------------------------------------------------------
(* Properties.                                                             *)

TypeOK ==
    /\ now \in Time
    /\ runable_set_ \subseteq Info
    /\ id_ \in Nat
    /\ stoped_ \in BOOLEAN /\ work_ \in BOOLEAN /\ io_stopped \in BOOLEAN
    /\ ready \in Ready
    /\ timer \in Timer
    /\ pc \in [Threads -> {"wait", "take", "next", "running", "arm", "clear", "exited"}]
    /\ tick \in [Threads -> Time]
    /\ batch \in [Threads -> SUBSET Info]
    /\ current \in [Threads -> Runnables]
    /\ call \in [Actors -> Call]
    /\ stop \in [Clients -> {"none", "enter", "post", "join", "returned"}]
    /\ posted \subseteq Tasks
    /\ ticket \in [Tasks -> Ticket]
    /\ runs \in [Tasks -> Nat]
    /\ finished \subseteq Runnables /\ cancelled \subseteq Tasks
    /\ raced \in BOOLEAN

\* Somebody is going to look at the set again.  A poster that still owes its
\* Wakeup counts only while its own runnable is waiting: otherwise a DoWork
\* has been there since and has armed its own wakeup.
OwesWakeup(a) ==
    /\ call[a].at = "wakeup"
    /\ \E r \in runable_set_ : /\ r.runnable = call[a].runnable
                               /\ r.expired_time = call[a].expired_time
WakeComing ==
    \/ ready.DoWork > 0
    \/ timer.waits > 0
    \/ \E th \in Threads : InHandler(th)
    \/ \E a \in Actors : call[a].at = "arm" \/ OwesWakeup(a)

(* No wakeup is lost: while the io_service runs and a runnable waits in    *)
(* the set, a DoWork is queued or running, the timer is armed, or some     *)
(* PostRunable is on its way to Wakeup.  The flag `wakeup` of PostRunable, *)
(* the unlocked Wakeup, the timer that every Wakeup re-arms and cancels,   *)
(* and DoStop's cancel must never leave the set without a watcher.         *)
NoLostWakeup == ~io_stopped /\ runable_set_ # {} => WakeComing

Waiting(t) == \E r \in runable_set_ : r.runnable = t
Held(t) == \E th \in Threads : \E r \in batch[th] : r.runnable = t
Accepted(t) == ticket[t].id # 0

(* A runnable is started at most once and never both started and           *)
(* cancelled; while it is in the set or in some DoWork's batch it has been *)
(* neither; and an accepted runnable is somewhere as long as the           *)
(* io_service runs.                                                        *)
ExactlyOnce ==
    \A t \in Tasks :
      /\ runs[t] <= 1
      /\ Waiting(t) \/ Held(t) => runs[t] = 0 /\ t \notin cancelled
      /\ t \in cancelled => runs[t] = 0
      /\ ~(Waiting(t) /\ Held(t))
      /\ Accepted(t) /\ ~io_stopped =>
           Waiting(t) \/ Held(t) \/ runs[t] = 1 \/ t \in cancelled

(* Order of a pump with one thread (message_loop.h promises it for IO and  *)
(* File): a runnable that was inserted earlier and expires no later has    *)
(* finished, or was cancelled, before the other one starts.                *)
RunsInOrder ==
    \A t, u \in Tasks :
      (/\ Accepted(t) /\ Accepted(u)
       /\ Less(ticket[t], ticket[u]) /\ ticket[t].id < ticket[u].id
       /\ runs[u] > 0) => t \in finished \cup cancelled

(* Stop drains the pump: when no other thread's PostRunable or Stop        *)
(* overlaps the Stop, the threads leave run() only after every accepted    *)
(* runnable, delayed ones included, has finished or was cancelled.         *)
QuietStopDrains ==
    io_stopped /\ ~raced =>
      \A t \in Tasks : Accepted(t) => t \in finished \cup cancelled

\* The phase of a task, read off where its runnable is.
PhaseOf(t) ==
    CASE Waiting(t) -> "waiting"
      [] ~Waiting(t) /\ Held(t) -> "taken"
      [] ~Waiting(t) /\ ~Held(t) /\ t \in cancelled -> "cancelled"
      [] ~Waiting(t) /\ ~Held(t) /\ t \notin cancelled /\ t \in finished -> "done"
      [] ~Waiting(t) /\ ~Held(t) /\ t \notin cancelled /\ t \notin finished
           /\ runs[t] > 0 -> "started"
      [] OTHER -> IF Accepted(t) THEN "dropped" ELSE "new"

Queue == INSTANCE RunnableQueue WITH
    clock <- now, phase <- [t \in Tasks |-> PhaseOf(t)], key <- ticket, closed <- io_stopped

(* The pump implements RunnableQueue: whatever the threads do, a runnable  *)
(* is taken when due and after everything before it in the set, runs once, *)
(* is never both cancelled and run, and is thrown away only by Run's       *)
(* clear() after the io_service has stopped.                               *)
ImplementsQueue == Queue!QueueSpec

(* Every accepted runnable eventually finishes or is cancelled, unless its *)
(* PostRunable or another Stop overlapped a Stop.                          *)
AcceptedIsServed ==
    \A t \in Tasks : Accepted(t) ~> (t \in finished \cup cancelled \/ raced)

(* Stop returns: its DoStop runnable is reached, the work guard goes, the  *)
(* delayed runnables run out and every thread leaves run().                *)
StopReturns == \A c \in Stoppers : stop[c] = "enter" ~> stop[c] = "returned"
=============================================================================
