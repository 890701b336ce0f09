-------------------------- MODULE MessagePumpProofs --------------------------
(***************************************************************************)
(* Theorems about MessagePump, for every number of threads, clients and    *)
(* runnables.                                                              *)
(***************************************************************************)
EXTENDS MessagePump, TLAPS

(***************************************************************************)
(* The inductive invariant, in parts.                                      *)
(***************************************************************************)
Pending == runable_set_ \cup UNION {batch[th] : th \in Threads}

\* Ids are unique, and the info of a task carries the key of its ticket.
Tickets ==
    /\ \A t \in Tasks : ticket[t].id <= id_
    /\ \A r \in Pending :
         /\ 0 < r.id /\ r.id <= id_
         /\ r.runnable \in Tasks =>
              /\ ticket[r.runnable].id = r.id
              /\ ticket[r.runnable].expired_time = r.expired_time
         /\ \A t \in Tasks : ticket[t].id = r.id => r.runnable = t
         /\ \A q \in Pending : q.id = r.id => q = r

\* An info is in one place, and a batch only in a DoWork that runs it.
Apart ==
    \A th \in Threads :
      /\ runable_set_ \cap batch[th] = {}
      /\ \A o \in Threads \ {th} : batch[o] \cap batch[th] = {}
      /\ batch[th] # {} => pc[th] \in {"next", "running"}

\* A task that is being posted, or was never posted, has no ticket yet.
Fresh ==
    /\ \A t \in Tasks \ posted : ticket[t].id = 0
    /\ \A a \in Actors : call[a].at # "idle" /\ call[a].runnable \in Tasks =>
         call[a].runnable \in posted
    /\ \A a \in Actors : call[a].at = "insert" /\ call[a].runnable \in Tasks =>
         /\ ticket[call[a].runnable].id = 0
         /\ \A b \in Actors \ {a} : ~(call[b].at = "insert" /\ call[b].runnable = call[a].runnable)

\* What has happened to a task fits where it is.
Once ==
    /\ \A t \in Tasks :
         /\ runs[t] <= 1
         /\ t \in cancelled => runs[t] = 0
         /\ ticket[t].id = 0 => runs[t] = 0 /\ t \notin cancelled
         /\ t \in finished => runs[t] = 1
         /\ runs[t] = 1 => t \in finished \/ \E th \in Threads : pc[th] = "running" /\ current[th] = t
    /\ \A r \in Pending : r.runnable \in Tasks =>
         runs[r.runnable] = 0 /\ r.runnable \notin cancelled
    /\ \A th \in Threads : pc[th] = "running" =>
         current[th] \in Tasks /\ runs[current[th]] = 1

\* Nothing is lost while the io_service runs.
Somewhere ==
    \A t \in Tasks : Accepted(t) /\ ~io_stopped =>
      Waiting(t) \/ Held(t) \/ runs[t] = 1 \/ t \in cancelled

\* When threads leave run(), and when they call the pump.
Exit ==
    /\ io_stopped => ~work_ /\ \A th \in Threads : ~InHandler(th)
    /\ \A th \in Threads : pc[th] \in {"clear", "exited"} => io_stopped
    /\ \A th \in Threads : call[th].at # "idle" => pc[th] = "running"

\* Where Stop and its runnable are.
Stopping ==
    /\ \A c \in Clients : stop[c] \in {"join", "returned"} => stoped_
    /\ \A a \in Actors : call[a].at # "idle" /\ call[a].runnable = StopTask =>
         a \in Clients /\ stop[a] = "post" /\ call[a].expired_time <= now /\ call[a].at # "arm"
    /\ (\A c \in Clients : stop[c] = "none") =>
         work_ /\ ~stoped_ /\ \A r \in Pending : r.runnable # StopTask

\* If nothing overlaps the Stop, it is alone and posts one runnable.
Quiet ==
    ~raced =>
      /\ (\E c \in Clients : stop[c] # "none") =>
           \A b \in Clients : call[b].at # "idle" => call[b].runnable = StopTask
      /\ \A c, d \in Clients :
           stop[c] \in {"enter", "post", "join"} /\ stop[d] \in {"enter", "post", "join"} => c = d
      /\ \A c \in Clients : stop[c] = "enter" =>
           /\ work_
           /\ \A r \in Pending : r.runnable # StopTask
           /\ \A b \in Clients : call[b].at = "idle"
      /\ \A r \in Pending : r.runnable = StopTask =>
           /\ work_
           /\ \A b \in Clients : call[b].at # "insert"
           /\ \A q \in Pending : q.runnable = StopTask => q = r
      /\ ~work_ => \A b \in Clients : call[b].at # "insert"

\* The outcome of a quiet Stop.
Drained ==
    io_stopped /\ ~raced =>
      /\ runable_set_ = {}
      /\ \A t \in Tasks : Accepted(t) => t \in finished \cup cancelled

USE DEF pumpVars, ioVars, threadVars, clientVars, history, vars

-----------------------------------------------------------------------------
(* The operators of the io_service and of the timer return what they       *)
(* should.                                                                 *)
LEMMA ReadyTypes ==
  ASSUME ready \in Ready, timer \in Timer
  PROVE  QueueWork \in Ready /\ AbortWaits \in Ready
  BY DEF Ready, Timer, QueueWork, AbortWaits

(* async_wait keeps the timer a timer.                                     *)
LEMMA AddWaitType ==
  ASSUME timer \in Timer PROVE AddWait \in Timer
<1>1. (IF timer.waits = 0 THEN timer.expiry ELSE timer.at) \in Nat
  BY DEF Timer
<1> QED
  BY <1>1 DEF Timer, AddWait

(* So does expires_from_now, for any expiry.                               *)
LEMMA ExpiresType ==
  ASSUME timer \in Timer, NEW e \in Nat
  PROVE  /\ [timer EXCEPT !.waits = 0] \in Timer
         /\ [timer EXCEPT !.expiry = e, !.waits = 0] \in Timer
  BY DEF Timer

(* The values of a call that is not there and of a ticket not given out.   *)
LEMMA NilTypes == NoCall \in Call /\ NoTicket \in Ticket
  BY DEF NoCall, NoTicket, Call, Ticket, Runnables

(* Changing where a call is keeps it a call.                               *)
LEMMA CallTypes ==
  ASSUME NEW c \in Call, NEW p \in {"idle", "insert", "wakeup", "arm"}
  PROVE  [c EXCEPT !.at = p] \in Call
  BY DEF Call

(* The constructor's state is well typed.                                  *)
LEMMA InitTyping == Init => TypeOK
<1> SUFFICES ASSUME Init PROVE TypeOK
  OBVIOUS
<1>1. ready \in Ready /\ timer \in Timer
  BY DEF Init, Ready, Timer
<1>2. /\ pc \in [Threads -> {"wait", "take", "next", "running", "arm", "clear", "exited"}]
      /\ tick \in [Threads -> Time] /\ batch \in [Threads -> SUBSET Info]
      /\ current \in [Threads -> Runnables]
  BY TimeAssumption DEF Init, Time, Runnables
<1>3. /\ call \in [Actors -> Call]
      /\ stop \in [Clients -> {"none", "enter", "post", "join", "returned"}]
      /\ ticket \in [Tasks -> Ticket] /\ runs \in [Tasks -> Nat]
  BY NilTypes DEF Init
<1>4. /\ now \in Time /\ runable_set_ \subseteq Info /\ id_ \in Nat
  BY TimeAssumption DEF Init, Time
<1>5. /\ posted \subseteq Tasks /\ finished \subseteq Runnables
      /\ cancelled \subseteq Tasks /\ raced \in BOOLEAN
      /\ stoped_ \in BOOLEAN /\ work_ \in BOOLEAN /\ io_stopped \in BOOLEAN
  BY DEF Init
<1> QED
  BY <1>1, <1>2, <1>3, <1>4, <1>5 DEF TypeOK

(* Every step of every thread keeps the state well typed.                 *)
LEMMA NextTyping == TypeOK /\ [Next]_vars => TypeOK'
<1> SUFFICES ASSUME TypeOK, [Next]_vars PROVE TypeOK'
  OBVIOUS
<1> USE ActorsAssumption, TimeAssumption DEF TypeOK, Actors
<1>1. CASE TimerFires
  BY <1>1 DEF TimerFires, Ready, Timer
<1>2. CASE Tick
  BY <1>2 DEF Tick, Time
<1>3. ASSUME NEW a \in Posters, NEW t \in Tasks, NEW d \in Delays, BeginPost(a, t, d) PROVE TypeOK'
  BY <1>3 DEF BeginPost, EnterPost, Time, Runnables, Call
<1>4. ASSUME NEW a \in Posters, NEW t \in Tasks, Cancel(a, t) PROVE TypeOK'
  BY <1>4 DEF Cancel
<1>5. ASSUME NEW a \in Actors, Insert(a) PROVE TypeOK'
  BY <1>5, NilTypes DEF Insert, Info, Runnables, Call, Ticket
<1>6. ASSUME NEW a \in Actors, WakeupNow(a) PROVE TypeOK'
  BY <1>6, NilTypes, ReadyTypes DEF WakeupNow
<1>7. ASSUME NEW a \in Actors, WakeupLater(a) PROVE TypeOK'
  BY <1>7, ReadyTypes, ExpiresType DEF WakeupLater, Call
<1>8. ASSUME NEW a \in Actors, ArmTimer(a) PROVE TypeOK'
  BY <1>8, NilTypes, AddWaitType DEF ArmTimer
<1>9. ASSUME NEW th \in Threads, StartDoWork(th) PROVE TypeOK'
  BY <1>9 DEF StartDoWork, Ready
<1>10. ASSUME NEW th \in Threads, RunAborted(th) PROVE TypeOK'
  BY <1>10 DEF RunAborted, HandlerReturns, Ready
<1>11. ASSUME NEW th \in Threads, Take(th) PROVE TypeOK'
  BY <1>11 DEF Take, Due, NotYetDue
<1>12. ASSUME NEW th \in Threads, StartRunnable(th) PROVE TypeOK'
  BY <1>12 DEF StartRunnable, Info
<1>13. ASSUME NEW th \in Threads, FinishRunnable(th) PROVE TypeOK'
  BY <1>13 DEF FinishRunnable, Runnables
<1>14. ASSUME NEW th \in Threads, DoStop(th) PROVE TypeOK'
  BY <1>14, ReadyTypes, ExpiresType DEF DoStop, CancelTimer
<1>15. ASSUME NEW th \in Threads, RearmNothing(th) PROVE TypeOK'
  BY <1>15 DEF RearmNothing, HandlerReturns
<1>16. ASSUME NEW th \in Threads, RearmNow(th) PROVE TypeOK'
  BY <1>16, ReadyTypes DEF RearmNow, HandlerReturns
<1>17. ASSUME NEW th \in Threads, RearmLater(th) PROVE TypeOK'
  <2>1. PICK r \in runable_set_ : timer' = [timer EXCEPT !.expiry = r.expired_time, !.waits = 0]
    BY <1>17 DEF RearmLater
  <2>2. timer' \in Timer
    BY <2>1, ExpiresType DEF Info
  <2>3. ready' \in Ready
    BY <1>17, ReadyTypes DEF RearmLater
  <2> QED
    BY <1>17, <2>2, <2>3 DEF RearmLater
<1>18. ASSUME NEW th \in Threads, RearmArm(th) PROVE TypeOK'
  BY <1>18, AddWaitType DEF RearmArm, HandlerReturns
<1>19. ASSUME NEW th \in Threads, LeaveRun(th) PROVE TypeOK'
  BY <1>19 DEF LeaveRun
<1>20. ASSUME NEW th \in Threads, ClearSet(th) PROVE TypeOK'
  BY <1>20 DEF ClearSet
<1>21. ASSUME NEW c \in Stoppers, BeginStop(c) PROVE TypeOK'
  <2>1. stop' \in [Clients -> {"none", "enter", "post", "join", "returned"}]
    BY <1>21 DEF BeginStop
  <2>2. raced' \in BOOLEAN
    BY <1>21, Zenon DEF BeginStop
  <2> QED
    BY <1>21, <2>1, <2>2 DEF BeginStop
<1>25. ASSUME NEW c \in Stoppers, PostStop(c) PROVE TypeOK'
  <2>1. call' \in [Actors -> Call]
    <3>1. call' = call \/ call' = [call EXCEPT ![c] =
            [at |-> "insert", expired_time |-> now + 0, runnable |-> StopTask]]
      BY <1>25 DEF PostStop, EnterPost
    <3>2. [at |-> "insert", expired_time |-> now + 0, runnable |-> StopTask] \in Call
      BY DEF Call, Runnables, Time
    <3> QED
      BY <3>1, <3>2
  <2> QED
    BY <1>25, <2>1 DEF PostStop
<1>22. ASSUME NEW c \in Stoppers, SetStoped(c) PROVE TypeOK'
  BY <1>22 DEF SetStoped
<1>23. ASSUME NEW c \in Stoppers, Join(c) PROVE TypeOK'
  BY <1>23 DEF Join
<1>24. CASE UNCHANGED vars
  BY <1>24
<1> QED
  BY <1>1, <1>2, <1>3, <1>4, <1>5, <1>6, <1>7, <1>8, <1>9, <1>10, <1>11, <1>12, <1>13, <1>14, <1>15, <1>16, <1>17, <1>18, <1>19, <1>20, <1>21, <1>22, <1>23, <1>24, <1>25
  DEF Next, CallStep, ThreadStep, StopStep

(* Type correctness: the history variables, the timer record and the       *)
(* threads' locals stay what they are declared to be.                      *)
THEOREM Typing == Spec => []TypeOK
  BY InitTyping, NextTyping, PTL DEF Spec

-----------------------------------------------------------------------------
(* The first part of the invariant is inductive: ids, places and tickets.  *)
Ids == TypeOK /\ Tickets /\ Apart /\ Fresh

(* Ids stay below id_ and apart: PostRunable hands each one out once.      *)
LEMMA IdsInductive == Ids /\ TypeOK' /\ [Next]_vars => Ids'
<1> SUFFICES ASSUME Ids, TypeOK', [Next]_vars PROVE Tickets' /\ Apart' /\ Fresh'
  BY DEF Ids
<1> USE ActorsAssumption, TasksAssumption DEF Ids, TypeOK, Actors
<1>1. CASE TimerFires
  BY <1>1 DEF TimerFires, Tickets, Pending, Apart, Fresh
<1>2. CASE Tick
  BY <1>2 DEF Tick, Tickets, Pending, Apart, Fresh
<1>3. ASSUME NEW a \in Posters, NEW t \in Tasks, NEW d \in Delays, BeginPost(a, t, d) PROVE Tickets' /\ Apart' /\ Fresh'
  <2>1. Tickets'
    BY <1>3 DEF BeginPost, EnterPost, Tickets, Pending
  <2>2. Apart'
    BY <1>3 DEF BeginPost, EnterPost, Apart
  <2>3. Fresh'
    BY <1>3 DEF BeginPost, EnterPost, Fresh
  <2> QED
    BY <2>1, <2>2, <2>3
<1>4. ASSUME NEW a \in Posters, NEW t \in Tasks, Cancel(a, t) PROVE Tickets' /\ Apart' /\ Fresh'
  BY <1>4 DEF Cancel, Tickets, Pending, Apart, Fresh
<1>5. ASSUME NEW a \in Actors, Insert(a) PROVE Tickets' /\ Apart' /\ Fresh'
  <2>1. Tickets'
    <3> DEFINE x == call[a].runnable
               info == [expired_time |-> call[a].expired_time, id |-> id_ + 1, runnable |-> x]
    <3>0. \A r \in Pending : r.id \in Nat
      BY DEF Pending, Info
    <3>1. Pending' = Pending \cup {info} /\ id_' = id_ + 1
      BY <1>5 DEF Insert, Pending
    <3>2. /\ \A t \in Tasks \ {x} : ticket'[t] = ticket[t]
          /\ x \in Tasks => /\ ticket'[x].id = id_ + 1
                            /\ ticket'[x].expired_time = call[a].expired_time
      BY <1>5 DEF Insert
    <3>3. \A r \in Pending : x \in Tasks => r.runnable # x
      BY <1>5 DEF Insert, Tickets, Fresh
    <3>4. \A t \in Tasks : ticket'[t].id <= id_'
      BY <3>1, <3>2 DEF Tickets, Ticket
    <3>5. \A r \in Pending :
            /\ 0 < r.id /\ r.id <= id_
            /\ r.runnable \in Tasks => /\ ticket'[r.runnable].id = r.id
                                      /\ ticket'[r.runnable].expired_time = r.expired_time
            /\ \A t \in Tasks : ticket'[t].id = r.id => r.runnable = t
      BY <3>0, <3>2, <3>3 DEF Tickets
    <3>6. /\ 0 < info.id /\ info.id <= id_'
          /\ x \in Tasks => /\ ticket'[x].id = info.id
                            /\ ticket'[x].expired_time = info.expired_time
          /\ \A t \in Tasks : ticket'[t].id = info.id => x = t
      BY <3>1, <3>2 DEF Tickets, Ticket
    <3>7. \A r, q \in Pending' : q.id = r.id => q = r
      BY <3>0, <3>1, <3>5 DEF Tickets
    <3> HIDE DEF info
    <3>8. info.runnable = x
      BY DEF info
    <3> HIDE DEF x
    <3> QED
      BY <3>0, <3>1, <3>4, <3>5, <3>6, <3>7, <3>8 DEF Tickets
  <2>2. Apart'
    BY <1>5 DEF Insert, Apart, Tickets, Pending, Info
  <2>3. Fresh'
    BY <1>5 DEF Insert, Fresh, NoCall, Tickets
  <2> QED
    BY <2>1, <2>2, <2>3
<1>6. ASSUME NEW a \in Actors, WakeupNow(a) PROVE Tickets' /\ Apart' /\ Fresh'
  BY <1>6 DEF WakeupNow, Tickets, Pending, Apart, Fresh, NoCall
<1>7. ASSUME NEW a \in Actors, WakeupLater(a) PROVE Tickets' /\ Apart' /\ Fresh'
  BY <1>7 DEF WakeupLater, Tickets, Pending, Apart, Fresh
<1>8. ASSUME NEW a \in Actors, ArmTimer(a) PROVE Tickets' /\ Apart' /\ Fresh'
  BY <1>8 DEF ArmTimer, Tickets, Pending, Apart, Fresh, NoCall
<1>9. ASSUME NEW th \in Threads, StartDoWork(th) PROVE Tickets' /\ Apart' /\ Fresh'
  BY <1>9 DEF StartDoWork, Tickets, Pending, Apart, Fresh
<1>10. ASSUME NEW th \in Threads, RunAborted(th) PROVE Tickets' /\ Apart' /\ Fresh'
  BY <1>10 DEF RunAborted, Tickets, Pending, Apart, Fresh
<1>11. ASSUME NEW th \in Threads, Take(th) PROVE Tickets' /\ Apart' /\ Fresh'
  <2>1. Tickets'
    BY <1>11 DEF Take, Due, NotYetDue, Tickets, Pending, Apart
  <2>2. Apart'
    BY <1>11 DEF Take, Due, NotYetDue, Apart
  <2>3. Fresh'
    BY <1>11 DEF Take, Due, NotYetDue, Fresh
  <2> QED
    BY <2>1, <2>2, <2>3
<1>12. ASSUME NEW th \in Threads, StartRunnable(th) PROVE Tickets' /\ Apart' /\ Fresh'
  <2>1. Tickets'
    BY <1>12 DEF StartRunnable, Tickets, Pending, Apart
  <2>2. Apart'
    BY <1>12 DEF StartRunnable, Apart
  <2>3. Fresh'
    BY <1>12 DEF StartRunnable, Fresh
  <2> QED
    BY <2>1, <2>2, <2>3
<1>13. ASSUME NEW th \in Threads, FinishRunnable(th) PROVE Tickets' /\ Apart' /\ Fresh'
  BY <1>13 DEF FinishRunnable, Tickets, Pending, Apart, Fresh
<1>14. ASSUME NEW th \in Threads, DoStop(th) PROVE Tickets' /\ Apart' /\ Fresh'
  <2>1. Tickets'
    BY <1>14 DEF DoStop, Tickets, Pending, Apart
  <2>2. Apart'
    BY <1>14 DEF DoStop, Apart
  <2>3. Fresh'
    BY <1>14 DEF DoStop, Fresh
  <2> QED
    BY <2>1, <2>2, <2>3
<1>15. ASSUME NEW th \in Threads, RearmNothing(th) PROVE Tickets' /\ Apart' /\ Fresh'
  BY <1>15 DEF RearmNothing, Tickets, Pending, Apart, Fresh
<1>16. ASSUME NEW th \in Threads, RearmNow(th) PROVE Tickets' /\ Apart' /\ Fresh'
  BY <1>16 DEF RearmNow, Tickets, Pending, Apart, Fresh
<1>17. ASSUME NEW th \in Threads, RearmLater(th) PROVE Tickets' /\ Apart' /\ Fresh'
  BY <1>17 DEF RearmLater, Tickets, Pending, Apart, Fresh
<1>18. ASSUME NEW th \in Threads, RearmArm(th) PROVE Tickets' /\ Apart' /\ Fresh'
  BY <1>18 DEF RearmArm, Tickets, Pending, Apart, Fresh
<1>19. ASSUME NEW th \in Threads, LeaveRun(th) PROVE Tickets' /\ Apart' /\ Fresh'
  BY <1>19 DEF LeaveRun, Tickets, Pending, Apart, Fresh
<1>20. ASSUME NEW th \in Threads, ClearSet(th) PROVE Tickets' /\ Apart' /\ Fresh'
  BY <1>20 DEF ClearSet, Tickets, Pending, Apart, Fresh
<1>21. ASSUME NEW c \in Stoppers, BeginStop(c) PROVE Tickets' /\ Apart' /\ Fresh'
  BY <1>21 DEF BeginStop, Tickets, Pending, Apart, Fresh
<1>25. ASSUME NEW c \in Stoppers, PostStop(c) PROVE Tickets' /\ Apart' /\ Fresh'
  <2>1. Tickets'
    BY <1>25 DEF PostStop, EnterPost, Tickets, Pending
  <2>2. Apart'
    BY <1>25 DEF PostStop, EnterPost, Apart
  <2>3. Fresh'
    <3>1. call' = call \/ call' = [call EXCEPT ![c] =
            [at |-> "insert", expired_time |-> now + 0, runnable |-> StopTask]]
      BY <1>25 DEF PostStop, EnterPost
    <3>2. UNCHANGED <<posted, ticket>>
      BY <1>25 DEF PostStop
    <3> QED
      BY <3>1, <3>2 DEF Fresh
  <2> QED
    BY <2>1, <2>2, <2>3
<1>22. ASSUME NEW c \in Stoppers, SetStoped(c) PROVE Tickets' /\ Apart' /\ Fresh'
  BY <1>22 DEF SetStoped, Tickets, Pending, Apart, Fresh
<1>23. ASSUME NEW c \in Stoppers, Join(c) PROVE Tickets' /\ Apart' /\ Fresh'
  BY <1>23 DEF Join, Tickets, Pending, Apart, Fresh
<1>24. CASE UNCHANGED vars
  BY <1>24 DEF Tickets, Apart, Fresh, Pending
<1> QED
  BY <1>1, <1>2, <1>3, <1>4, <1>5, <1>6, <1>7, <1>8, <1>9, <1>10, <1>11, <1>12, <1>13, <1>14, <1>15, <1>16, <1>17, <1>18, <1>19, <1>20, <1>21, <1>22, <1>23, <1>24, <1>25
  DEF Next, CallStep, ThreadStep, StopStep

(* A DoWork that is running re-arms the wakeup, every other step that takes *)
(* one away replaces it; Cancel cannot take the runnable of a caller that  *)
(* still owes its Wakeup.                                                  *)
LEMMA WakeupInductive == Ids /\ NoLostWakeup /\ [Next]_vars => NoLostWakeup'
<1> SUFFICES ASSUME Ids, NoLostWakeup, [Next]_vars PROVE NoLostWakeup'
  OBVIOUS
<1> USE ActorsAssumption DEF Ids, TypeOK, Actors
<1>1. CASE TimerFires
  BY <1>1 DEF TimerFires, Ready, Timer, NoLostWakeup, WakeComing, OwesWakeup, InHandler
<1>2. CASE Tick
  BY <1>2 DEF Tick, NoLostWakeup, WakeComing, OwesWakeup, InHandler
<1>3. ASSUME NEW a \in Posters, NEW t \in Tasks, NEW d \in Delays, BeginPost(a, t, d) PROVE NoLostWakeup'
  <2>1. call[a].at = "idle" /\ UNCHANGED <<runable_set_, ready, timer, io_stopped, pc>>
    BY <1>3 DEF BeginPost, CanCall
  <2>2. \A b \in Actors \ {a} : call'[b] = call[b]
    BY <1>3 DEF BeginPost, EnterPost
  <2> QED
    BY <2>1, <2>2 DEF NoLostWakeup, WakeComing, OwesWakeup, InHandler
<1>4. ASSUME NEW a \in Posters, NEW t \in Tasks, Cancel(a, t) PROVE NoLostWakeup'
  BY <1>4 DEF Cancel, Tickets, Pending, NoLostWakeup, WakeComing, OwesWakeup, InHandler
<1>5. ASSUME NEW a \in Actors, Insert(a) PROVE NoLostWakeup'
  BY <1>5 DEF Insert, NeedsWakeup, NoCall, NoLostWakeup, WakeComing, OwesWakeup, InHandler
<1>6. ASSUME NEW a \in Actors, WakeupNow(a) PROVE NoLostWakeup'
  BY <1>6 DEF WakeupNow, QueueWork, Ready, NoLostWakeup, WakeComing, OwesWakeup, InHandler
<1>7. ASSUME NEW a \in Actors, WakeupLater(a) PROVE NoLostWakeup'
  BY <1>7 DEF WakeupLater, NoLostWakeup, WakeComing, OwesWakeup, InHandler
<1>8. ASSUME NEW a \in Actors, ArmTimer(a) PROVE NoLostWakeup'
  BY <1>8 DEF ArmTimer, AddWait, Timer, NoLostWakeup, WakeComing, OwesWakeup, InHandler
<1>9. ASSUME NEW th \in Threads, StartDoWork(th) PROVE NoLostWakeup'
  BY <1>9 DEF StartDoWork, NoLostWakeup, WakeComing, OwesWakeup, InHandler
<1>10. ASSUME NEW th \in Threads, RunAborted(th) PROVE NoLostWakeup'
  BY <1>10 DEF RunAborted, HandlerReturns, Ready, NoLostWakeup, WakeComing, OwesWakeup, InHandler
<1>11. ASSUME NEW th \in Threads, Take(th) PROVE NoLostWakeup'
  BY <1>11 DEF Take, Due, NotYetDue, NoLostWakeup, WakeComing, OwesWakeup, InHandler
<1>12. ASSUME NEW th \in Threads, StartRunnable(th) PROVE NoLostWakeup'
  BY <1>12 DEF StartRunnable, NoLostWakeup, WakeComing, OwesWakeup, InHandler
<1>13. ASSUME NEW th \in Threads, FinishRunnable(th) PROVE NoLostWakeup'
  BY <1>13 DEF FinishRunnable, NoLostWakeup, WakeComing, OwesWakeup, InHandler
<1>14. ASSUME NEW th \in Threads, DoStop(th) PROVE NoLostWakeup'
  BY <1>14 DEF DoStop, NoLostWakeup, WakeComing, OwesWakeup, InHandler
<1>15. ASSUME NEW th \in Threads, RearmNothing(th) PROVE NoLostWakeup'
  BY <1>15 DEF RearmNothing, HandlerReturns, NoLostWakeup, WakeComing, OwesWakeup, InHandler
<1>16. ASSUME NEW th \in Threads, RearmNow(th) PROVE NoLostWakeup'
  BY <1>16 DEF RearmNow, QueueWork, Ready, NoLostWakeup, WakeComing, OwesWakeup, InHandler
<1>17. ASSUME NEW th \in Threads, RearmLater(th) PROVE NoLostWakeup'
  BY <1>17 DEF RearmLater, NoLostWakeup, WakeComing, OwesWakeup, InHandler
<1>18. ASSUME NEW th \in Threads, RearmArm(th) PROVE NoLostWakeup'
  BY <1>18 DEF RearmArm, AddWait, Timer, NoLostWakeup, WakeComing, OwesWakeup, InHandler
<1>19. ASSUME NEW th \in Threads, LeaveRun(th) PROVE NoLostWakeup'
  BY <1>19 DEF LeaveRun, NoLostWakeup, WakeComing, OwesWakeup, InHandler
<1>20. ASSUME NEW th \in Threads, ClearSet(th) PROVE NoLostWakeup'
  BY <1>20 DEF ClearSet, NoLostWakeup, WakeComing, OwesWakeup, InHandler
<1>21. ASSUME NEW c \in Stoppers, BeginStop(c) PROVE NoLostWakeup'
  BY <1>21 DEF BeginStop, NoLostWakeup, WakeComing, OwesWakeup, InHandler
<1>25. ASSUME NEW c \in Stoppers, PostStop(c) PROVE NoLostWakeup'
  BY <1>25 DEF PostStop, EnterPost, NoLostWakeup, WakeComing, OwesWakeup, InHandler
<1>22. ASSUME NEW c \in Stoppers, SetStoped(c) PROVE NoLostWakeup'
  BY <1>22 DEF SetStoped, NoLostWakeup, WakeComing, OwesWakeup, InHandler
<1>23. ASSUME NEW c \in Stoppers, Join(c) PROVE NoLostWakeup'
  BY <1>23 DEF Join, NoLostWakeup, WakeComing, OwesWakeup, InHandler
<1>24. CASE UNCHANGED vars
  BY <1>24 DEF NoLostWakeup, WakeComing, OwesWakeup, InHandler
<1> QED
  BY <1>1, <1>2, <1>3, <1>4, <1>5, <1>6, <1>7, <1>8, <1>9, <1>10, <1>11, <1>12, <1>13, <1>14,
     <1>15, <1>16, <1>17, <1>18, <1>19, <1>20, <1>21, <1>22, <1>23, <1>24, <1>25 
  DEF Next, CallStep, ThreadStep, StopStep

(* run() returns only between handlers.                                    *)
LEMMA ExitInductive == TypeOK /\ Exit /\ [Next]_vars => Exit'
<1> SUFFICES ASSUME TypeOK, Exit, [Next]_vars PROVE Exit'
  OBVIOUS
<1> USE ActorsAssumption DEF TypeOK, Actors
<1>1. CASE TimerFires
  BY <1>1 DEF TimerFires, Exit, InHandler
<1>2. CASE Tick
  BY <1>2 DEF Tick, Exit, InHandler
<1>3. ASSUME NEW a \in Posters, NEW t \in Tasks, NEW d \in Delays, BeginPost(a, t, d) PROVE Exit'
  BY <1>3 DEF BeginPost, EnterPost, CanCall, Exit, InHandler
<1>4. ASSUME NEW a \in Posters, NEW t \in Tasks, Cancel(a, t) PROVE Exit'
  BY <1>4 DEF Cancel, Exit, InHandler
<1>5. ASSUME NEW a \in Actors, Insert(a) PROVE Exit'
  BY <1>5 DEF Insert, NoCall, Exit, InHandler
<1>6. ASSUME NEW a \in Actors, WakeupNow(a) PROVE Exit'
  BY <1>6 DEF WakeupNow, NoCall, Exit, InHandler
<1>7. ASSUME NEW a \in Actors, WakeupLater(a) PROVE Exit'
  BY <1>7 DEF WakeupLater, Exit, InHandler
<1>8. ASSUME NEW a \in Actors, ArmTimer(a) PROVE Exit'
  BY <1>8 DEF ArmTimer, NoCall, Exit, InHandler
<1>9. ASSUME NEW th \in Threads, StartDoWork(th) PROVE Exit'
  BY <1>9 DEF StartDoWork, Exit, InHandler
<1>10. ASSUME NEW th \in Threads, RunAborted(th) PROVE Exit'
  BY <1>10 DEF RunAborted, HandlerReturns, Exit, InHandler
<1>11. ASSUME NEW th \in Threads, Take(th) PROVE Exit'
  BY <1>11 DEF Take, Due, NotYetDue, Exit, InHandler
<1>12. ASSUME NEW th \in Threads, StartRunnable(th) PROVE Exit'
  BY <1>12 DEF StartRunnable, Exit, InHandler
<1>13. ASSUME NEW th \in Threads, FinishRunnable(th) PROVE Exit'
  BY <1>13 DEF FinishRunnable, Exit, InHandler
<1>14. ASSUME NEW th \in Threads, DoStop(th) PROVE Exit'
  BY <1>14 DEF DoStop, Exit, InHandler
<1>15. ASSUME NEW th \in Threads, RearmNothing(th) PROVE Exit'
  BY <1>15 DEF RearmNothing, HandlerReturns, Exit, InHandler
<1>16. ASSUME NEW th \in Threads, RearmNow(th) PROVE Exit'
  BY <1>16 DEF RearmNow, HandlerReturns, Exit, InHandler
<1>17. ASSUME NEW th \in Threads, RearmLater(th) PROVE Exit'
  BY <1>17 DEF RearmLater, Exit, InHandler
<1>18. ASSUME NEW th \in Threads, RearmArm(th) PROVE Exit'
  BY <1>18 DEF RearmArm, HandlerReturns, Exit, InHandler
<1>19. ASSUME NEW th \in Threads, LeaveRun(th) PROVE Exit'
  BY <1>19 DEF LeaveRun, Exit, InHandler
<1>20. ASSUME NEW th \in Threads, ClearSet(th) PROVE Exit'
  BY <1>20 DEF ClearSet, Exit, InHandler
<1>21. ASSUME NEW c \in Stoppers, BeginStop(c) PROVE Exit'
  BY <1>21 DEF BeginStop, Exit, InHandler
<1>25. ASSUME NEW c \in Stoppers, PostStop(c) PROVE Exit'
  <2>1. UNCHANGED <<work_, io_stopped, pc>>
    BY <1>25 DEF PostStop
  <2>2. \A th \in Threads : call'[th] = call[th]
    BY <1>25 DEF PostStop, EnterPost
  <2> QED
    BY <2>1, <2>2 DEF Exit, InHandler
<1>22. ASSUME NEW c \in Stoppers, SetStoped(c) PROVE Exit'
  BY <1>22 DEF SetStoped, Exit, InHandler
<1>23. ASSUME NEW c \in Stoppers, Join(c) PROVE Exit'
  BY <1>23 DEF Join, Exit, InHandler
<1>24. CASE UNCHANGED vars
  BY <1>24 DEF Exit, InHandler
<1> QED
  BY <1>1, <1>2, <1>3, <1>4, <1>5, <1>6, <1>7, <1>8, <1>9, <1>10, <1>11, <1>12, <1>13, <1>14,
     <1>15, <1>16, <1>17, <1>18, <1>19, <1>20, <1>21, <1>22, <1>23, <1>24, <1>25 
  DEF Next, CallStep, ThreadStep, StopStep

(* Once taken out of the set, a runnable is in one batch until it starts.  *)
LEMMA OnceInductive == Ids /\ Exit /\ Once /\ Ids' /\ [Next]_vars => Once'
<1> SUFFICES ASSUME Ids, Exit, Once, Ids', [Next]_vars PROVE Once'
  OBVIOUS
<1> USE ActorsAssumption, TasksAssumption DEF Ids, TypeOK, Actors
<1>1. CASE TimerFires
  BY <1>1 DEF TimerFires, Once, Pending
<1>2. CASE Tick
  BY <1>2 DEF Tick, Once, Pending
<1>3. ASSUME NEW a \in Posters, NEW t \in Tasks, NEW d \in Delays, BeginPost(a, t, d) PROVE Once'
  BY <1>3 DEF BeginPost, EnterPost, Once, Pending
<1>4. ASSUME NEW a \in Posters, NEW t \in Tasks, Cancel(a, t) PROVE Once'
  <2>1. PICK r \in runable_set_ : /\ r.id = ticket[t].id
                                  /\ runable_set_' = runable_set_ \ {r}
                                  /\ cancelled' = cancelled \cup {t}
    BY <1>4 DEF Cancel
  <2>2. UNCHANGED <<batch, ticket, runs, finished, pc, current>> /\ ticket[t].id # 0
    BY <1>4 DEF Cancel
  <2>3. r.runnable = t /\ r \in Pending
    BY <2>1 DEF Tickets, Pending
  <2>4. Pending' = Pending \ {r}
    BY <2>1, <2>2 DEF Apart, Pending
  <2>5. \A q \in Pending' : q.runnable # t
    BY <2>3, <2>4 DEF Tickets
  <2> QED
    BY <2>1, <2>2, <2>3, <2>4, <2>5 DEF Once
<1>5. ASSUME NEW a \in Actors, Insert(a) PROVE Once'
  BY <1>5 DEF Insert, Tickets, Fresh, Info, Once, Pending
<1>6. ASSUME NEW a \in Actors, WakeupNow(a) PROVE Once'
  BY <1>6 DEF WakeupNow, Once, Pending
<1>7. ASSUME NEW a \in Actors, WakeupLater(a) PROVE Once'
  BY <1>7 DEF WakeupLater, Once, Pending
<1>8. ASSUME NEW a \in Actors, ArmTimer(a) PROVE Once'
  BY <1>8 DEF ArmTimer, Once, Pending
<1>9. ASSUME NEW th \in Threads, StartDoWork(th) PROVE Once'
  BY <1>9 DEF StartDoWork, Once, Pending
<1>10. ASSUME NEW th \in Threads, RunAborted(th) PROVE Once'
  BY <1>10 DEF RunAborted, Once, Pending
<1>11. ASSUME NEW th \in Threads, Take(th) PROVE Once'
  BY <1>11 DEF Take, Due, NotYetDue, Once, Pending
<1>12. ASSUME NEW th \in Threads, StartRunnable(th) PROVE Once'
  BY <1>12 DEF StartRunnable, Tickets, Apart, Info, Once, Pending
<1>13. ASSUME NEW th \in Threads, FinishRunnable(th) PROVE Once'
  BY <1>13 DEF FinishRunnable, Once, Pending
<1>14. ASSUME NEW th \in Threads, DoStop(th) PROVE Once'
  BY <1>14 DEF DoStop, Once, Pending
<1>15. ASSUME NEW th \in Threads, RearmNothing(th) PROVE Once'
  BY <1>15 DEF RearmNothing, Once, Pending
<1>16. ASSUME NEW th \in Threads, RearmNow(th) PROVE Once'
  BY <1>16 DEF RearmNow, Once, Pending
<1>17. ASSUME NEW th \in Threads, RearmLater(th) PROVE Once'
  BY <1>17 DEF RearmLater, Once, Pending
<1>18. ASSUME NEW th \in Threads, RearmArm(th) PROVE Once'
  BY <1>18 DEF RearmArm, Once, Pending
<1>19. ASSUME NEW th \in Threads, LeaveRun(th) PROVE Once'
  BY <1>19 DEF LeaveRun, Once, Pending
<1>20. ASSUME NEW th \in Threads, ClearSet(th) PROVE Once'
  BY <1>20 DEF ClearSet, Once, Pending
<1>21. ASSUME NEW c \in Stoppers, BeginStop(c) PROVE Once'
  BY <1>21 DEF BeginStop, Once, Pending
<1>25. ASSUME NEW c \in Stoppers, PostStop(c) PROVE Once'
  BY <1>25 DEF PostStop, EnterPost, Once, Pending
<1>22. ASSUME NEW c \in Stoppers, SetStoped(c) PROVE Once'
  BY <1>22 DEF SetStoped, Once, Pending
<1>23. ASSUME NEW c \in Stoppers, Join(c) PROVE Once'
  BY <1>23 DEF Join, Once, Pending
<1>24. CASE UNCHANGED vars
  BY <1>24 DEF Once, Pending
<1> QED
  BY <1>1, <1>2, <1>3, <1>4, <1>5, <1>6, <1>7, <1>8, <1>9, <1>10, <1>11, <1>12, <1>13, <1>14,
     <1>15, <1>16, <1>17, <1>18, <1>19, <1>20, <1>21, <1>22, <1>23, <1>24, <1>25 
  DEF Next, CallStep, ThreadStep, StopStep

(* No step but the clear() of a stopped pump forgets a runnable.           *)
LEMMA SomewhereInductive == Ids /\ Exit /\ Once /\ Somewhere /\ [Next]_vars => Somewhere'
<1> SUFFICES ASSUME Ids, Exit, Once, Somewhere, [Next]_vars PROVE Somewhere'
  OBVIOUS
<1> USE ActorsAssumption, TasksAssumption DEF Ids, TypeOK, Actors
<1>1. CASE TimerFires
  BY <1>1 DEF TimerFires, Somewhere, Accepted, Waiting, Held
<1>2. CASE Tick
  BY <1>2 DEF Tick, Somewhere, Accepted, Waiting, Held
<1>3. ASSUME NEW a \in Posters, NEW t \in Tasks, NEW d \in Delays, BeginPost(a, t, d) PROVE Somewhere'
  BY <1>3 DEF BeginPost, EnterPost, Somewhere, Accepted, Waiting, Held
<1>4. ASSUME NEW a \in Posters, NEW t \in Tasks, Cancel(a, t) PROVE Somewhere'
  BY <1>4 DEF Cancel, Tickets, Pending, Somewhere, Accepted, Waiting, Held
<1>5. ASSUME NEW a \in Actors, Insert(a) PROVE Somewhere'
  <2> DEFINE info == [expired_time |-> call[a].expired_time, id |-> id_ + 1,
                      runnable |-> call[a].runnable]
  <2>1. /\ runable_set_' = runable_set_ \cup {info}
        /\ UNCHANGED <<batch, runs, cancelled, io_stopped>>
    BY <1>5 DEF Insert
  <2>2. \A t \in Tasks : ticket'[t] = ticket[t] \/ t = call[a].runnable
    BY <1>5 DEF Insert
  <2>3. \E r \in runable_set_' : r.runnable = call[a].runnable
    <3>1. info \in runable_set_' /\ info.runnable = call[a].runnable
      BY <2>1
    <3> HIDE DEF info
    <3> QED
      BY <3>1
  <2> QED
    BY <2>1, <2>2, <2>3 DEF Somewhere, Accepted, Waiting, Held
<1>6. ASSUME NEW a \in Actors, WakeupNow(a) PROVE Somewhere'
  BY <1>6 DEF WakeupNow, Somewhere, Accepted, Waiting, Held
<1>7. ASSUME NEW a \in Actors, WakeupLater(a) PROVE Somewhere'
  BY <1>7 DEF WakeupLater, Somewhere, Accepted, Waiting, Held
<1>8. ASSUME NEW a \in Actors, ArmTimer(a) PROVE Somewhere'
  BY <1>8 DEF ArmTimer, Somewhere, Accepted, Waiting, Held
<1>9. ASSUME NEW th \in Threads, StartDoWork(th) PROVE Somewhere'
  BY <1>9 DEF StartDoWork, Somewhere, Accepted, Waiting, Held
<1>10. ASSUME NEW th \in Threads, RunAborted(th) PROVE Somewhere'
  BY <1>10 DEF RunAborted, HandlerReturns, Somewhere, Accepted, Waiting, Held
<1>11. ASSUME NEW th \in Threads, Take(th) PROVE Somewhere'
  <2>1. /\ batch[th] = {}
        /\ batch' = [batch EXCEPT ![th] = Due(runable_set_, tick[th])]
        /\ runable_set_ = runable_set_' \cup batch'[th]
        /\ UNCHANGED <<ticket, runs, cancelled, io_stopped>>
    BY <1>11 DEF Take, NotYetDue, Due, Apart
  <2>2. \A t \in Tasks : Waiting(t) \/ Held(t) => Waiting(t)' \/ Held(t)'
    BY <2>1 DEF Waiting, Held
  <2> QED
    BY <2>1, <2>2 DEF Somewhere, Accepted
<1>12. ASSUME NEW th \in Threads, StartRunnable(th) PROVE Somewhere'
  <2>1. PICK r \in batch[th] : /\ batch' = [batch EXCEPT ![th] = @ \ {r}]
                                /\ r.runnable \in Tasks
                                /\ runs' = [runs EXCEPT ![r.runnable] = @ + 1]
    BY <1>12 DEF StartRunnable
  <2>2. UNCHANGED <<runable_set_, ticket, cancelled, io_stopped>>
    BY <1>12 DEF StartRunnable
  <2>3. runs'[r.runnable] = 1
    BY <2>1 DEF Once, Pending
  <2>4. \A t \in Tasks \ {r.runnable} : runs'[t] = runs[t] /\ (Held(t) => Held(t)')
    BY <2>1 DEF Held
  <2> QED
    BY <2>2, <2>3, <2>4 DEF Somewhere, Accepted, Waiting
<1>13. ASSUME NEW th \in Threads, FinishRunnable(th) PROVE Somewhere'
  BY <1>13 DEF FinishRunnable, Somewhere, Accepted, Waiting, Held
<1>14. ASSUME NEW th \in Threads, DoStop(th) PROVE Somewhere'
  BY <1>14 DEF DoStop, Somewhere, Accepted, Waiting, Held
<1>15. ASSUME NEW th \in Threads, RearmNothing(th) PROVE Somewhere'
  BY <1>15 DEF RearmNothing, HandlerReturns, Somewhere, Accepted, Waiting, Held
<1>16. ASSUME NEW th \in Threads, RearmNow(th) PROVE Somewhere'
  BY <1>16 DEF RearmNow, HandlerReturns, Somewhere, Accepted, Waiting, Held
<1>17. ASSUME NEW th \in Threads, RearmLater(th) PROVE Somewhere'
  BY <1>17 DEF RearmLater, Somewhere, Accepted, Waiting, Held
<1>18. ASSUME NEW th \in Threads, RearmArm(th) PROVE Somewhere'
  BY <1>18 DEF RearmArm, HandlerReturns, Somewhere, Accepted, Waiting, Held
<1>19. ASSUME NEW th \in Threads, LeaveRun(th) PROVE Somewhere'
  BY <1>19 DEF LeaveRun, Somewhere, Accepted, Waiting, Held
<1>20. ASSUME NEW th \in Threads, ClearSet(th) PROVE Somewhere'
  BY <1>20 DEF ClearSet, Exit, Somewhere, Accepted, Waiting, Held
<1>21. ASSUME NEW c \in Stoppers, BeginStop(c) PROVE Somewhere'
  BY <1>21 DEF BeginStop, Somewhere, Accepted, Waiting, Held
<1>25. ASSUME NEW c \in Stoppers, PostStop(c) PROVE Somewhere'
  BY <1>25 DEF PostStop, EnterPost, Somewhere, Accepted, Waiting, Held
<1>22. ASSUME NEW c \in Stoppers, SetStoped(c) PROVE Somewhere'
  BY <1>22 DEF SetStoped, Somewhere, Accepted, Waiting, Held
<1>23. ASSUME NEW c \in Stoppers, Join(c) PROVE Somewhere'
  BY <1>23 DEF Join, Somewhere, Accepted, Waiting, Held
<1>24. CASE UNCHANGED vars
  BY <1>24 DEF Somewhere, Accepted, Waiting, Held
<1> QED
  BY <1>1, <1>2, <1>3, <1>4, <1>5, <1>6, <1>7, <1>8, <1>9, <1>10, <1>11, <1>12, <1>13, <1>14,
     <1>15, <1>16, <1>17, <1>18, <1>19, <1>20, <1>21, <1>22, <1>23, <1>24, <1>25 
  DEF Next, CallStep, ThreadStep, StopStep

(* Only Stop posts the runnable that drops the work guard.                 *)
LEMMA StoppingInductive == Ids /\ Exit /\ Stopping /\ [Next]_vars => Stopping'
<1> SUFFICES ASSUME Ids, Exit, Stopping, [Next]_vars PROVE Stopping'
  OBVIOUS
<1> USE ActorsAssumption, TasksAssumption, TimeAssumption DEF Ids, TypeOK, Actors
<1>1. CASE TimerFires
  BY <1>1 DEF TimerFires, Stopping, Pending
<1>2. CASE Tick
  BY <1>2 DEF Tick, Time, Call, Stopping, Pending
<1>3. ASSUME NEW a \in Posters, NEW t \in Tasks, NEW d \in Delays, BeginPost(a, t, d) PROVE Stopping'
  BY <1>3 DEF BeginPost, EnterPost, CanCall, Stopping, Pending
<1>4. ASSUME NEW a \in Posters, NEW t \in Tasks, Cancel(a, t) PROVE Stopping'
  BY <1>4 DEF Cancel, Stopping, Pending
<1>5. ASSUME NEW a \in Actors, Insert(a) PROVE Stopping'
  BY <1>5 DEF Insert, NoCall, Stopping, Pending
<1>6. ASSUME NEW a \in Actors, WakeupNow(a) PROVE Stopping'
  BY <1>6 DEF WakeupNow, NoCall, Stopping, Pending
<1>7. ASSUME NEW a \in Actors, WakeupLater(a) PROVE Stopping'
  BY <1>7 DEF WakeupLater, Call, Time, Stopping, Pending
<1>8. ASSUME NEW a \in Actors, ArmTimer(a) PROVE Stopping'
  BY <1>8 DEF ArmTimer, NoCall, Stopping, Pending
<1>9. ASSUME NEW th \in Threads, StartDoWork(th) PROVE Stopping'
  BY <1>9 DEF StartDoWork, Stopping, Pending
<1>10. ASSUME NEW th \in Threads, RunAborted(th) PROVE Stopping'
  BY <1>10 DEF RunAborted, Stopping, Pending
<1>11. ASSUME NEW th \in Threads, Take(th) PROVE Stopping'
  BY <1>11 DEF Take, Due, NotYetDue, Stopping, Pending
<1>12. ASSUME NEW th \in Threads, StartRunnable(th) PROVE Stopping'
  BY <1>12 DEF StartRunnable, Apart, Stopping, Pending
<1>13. ASSUME NEW th \in Threads, FinishRunnable(th) PROVE Stopping'
  BY <1>13 DEF FinishRunnable, Stopping, Pending
<1>14. ASSUME NEW th \in Threads, DoStop(th) PROVE Stopping'
  BY <1>14 DEF DoStop, Apart, Stopping, Pending
<1>15. ASSUME NEW th \in Threads, RearmNothing(th) PROVE Stopping'
  BY <1>15 DEF RearmNothing, Stopping, Pending
<1>16. ASSUME NEW th \in Threads, RearmNow(th) PROVE Stopping'
  BY <1>16 DEF RearmNow, Stopping, Pending
<1>17. ASSUME NEW th \in Threads, RearmLater(th) PROVE Stopping'
  BY <1>17 DEF RearmLater, Stopping, Pending
<1>18. ASSUME NEW th \in Threads, RearmArm(th) PROVE Stopping'
  BY <1>18 DEF RearmArm, Stopping, Pending
<1>19. ASSUME NEW th \in Threads, LeaveRun(th) PROVE Stopping'
  BY <1>19 DEF LeaveRun, Exit, Stopping, Pending
<1>20. ASSUME NEW th \in Threads, ClearSet(th) PROVE Stopping'
  BY <1>20 DEF ClearSet, Stopping, Pending
<1>21. ASSUME NEW c \in Stoppers, BeginStop(c) PROVE Stopping'
  <2>1. UNCHANGED <<now, stoped_, work_, runable_set_, batch, call>> /\ Pending' = Pending
    BY <1>21 DEF BeginStop, Pending
  <2>2. /\ stop[c] = "none"
        /\ \/ stop' = [stop EXCEPT ![c] = "enter"]
           \/ stoped_ /\ stop' = [stop EXCEPT ![c] = "returned"]
    BY <1>21 DEF BeginStop
  <2> QED
    BY <2>1, <2>2 DEF Stopping
<1>25. ASSUME NEW c \in Stoppers, PostStop(c) PROVE Stopping'
  <2>1. UNCHANGED <<now, stoped_, work_, runable_set_, batch>> /\ Pending' = Pending
    BY <1>25 DEF PostStop, Pending
  <2>2. /\ stop[c] = "enter" /\ stop' = [stop EXCEPT ![c] = "post"]
        /\ \/ call' = call
           \/ call' = [call EXCEPT ![c] = [at |-> "insert", expired_time |-> now + 0,
                                          runnable |-> StopTask]]
    BY <1>25 DEF PostStop, EnterPost
  <2>3. now + 0 <= now
    BY DEF Time
  <2> QED
    BY <2>1, <2>2, <2>3 DEF Stopping
<1>22. ASSUME NEW c \in Stoppers, SetStoped(c) PROVE Stopping'
  BY <1>22 DEF SetStoped, Stopping, Pending
<1>23. ASSUME NEW c \in Stoppers, Join(c) PROVE Stopping'
  BY <1>23 DEF Join, Stopping, Pending
<1>24. CASE UNCHANGED vars
  BY <1>24 DEF Stopping, Pending
<1> QED
  BY <1>1, <1>2, <1>3, <1>4, <1>5, <1>6, <1>7, <1>8, <1>9, <1>10, <1>11, <1>12, <1>13, <1>14,
     <1>15, <1>16, <1>17, <1>18, <1>19, <1>20, <1>21, <1>22, <1>23, <1>24, <1>25 
  DEF Next, CallStep, ThreadStep, StopStep

(* A Stop that nothing overlaps stays alone.                               *)
LEMMA QuietInductive == Ids /\ Exit /\ Stopping /\ Quiet /\ [Next]_vars => Quiet'
<1> SUFFICES ASSUME Ids, Exit, Stopping, Quiet, [Next]_vars PROVE Quiet'
  OBVIOUS
<1> USE ActorsAssumption, TasksAssumption DEF Ids, TypeOK, Actors
<1>1. CASE TimerFires
  BY <1>1 DEF TimerFires, Quiet, Pending
<1>2. CASE Tick
  BY <1>2 DEF Tick, Quiet, Pending
<1>3. ASSUME NEW a \in Posters, NEW t \in Tasks, NEW d \in Delays, BeginPost(a, t, d) PROVE Quiet'
  <2> SUFFICES ASSUME ~raced' PROVE Quiet'
    BY DEF Quiet
  <2>1. UNCHANGED <<stop, work_, stoped_, runable_set_, batch>> /\ Pending' = Pending /\ ~raced
    BY <1>3 DEF BeginPost, Pending
  <2>2. CASE a \in Threads
    <3>1. \A b \in Clients : call'[b] = call[b]
      BY <1>3, <2>2 DEF BeginPost, EnterPost
    <3> QED
      BY <2>1, <3>1 DEF Quiet
  <2>3. CASE a \in Clients
    <3>1. \A c \in Clients : stop[c] \in {"none", "returned"}
      BY <1>3, <2>3 DEF BeginPost, StopInProgress
    <3>2. CASE \A c \in Clients : stop[c] = "none"
      BY <2>1, <3>2 DEF Stopping, Quiet
    <3>3. CASE \E c \in Clients : stop[c] = "returned"
      <4>1. call' = call
        BY <1>3, <3>3 DEF Stopping, BeginPost, EnterPost
      <4> QED
        BY <2>1, <4>1 DEF Quiet
    <3> QED
      BY <3>1, <3>2, <3>3
  <2> QED
    BY <2>2, <2>3
<1>4. ASSUME NEW a \in Posters, NEW t \in Tasks, Cancel(a, t) PROVE Quiet'
  BY <1>4 DEF Cancel, Quiet, Pending
<1>5. ASSUME NEW a \in Actors, Insert(a) PROVE Quiet'
  BY <1>5 DEF Insert, NoCall, Stopping, Quiet, Pending
<1>6. ASSUME NEW a \in Actors, WakeupNow(a) PROVE Quiet'
  BY <1>6 DEF WakeupNow, NoCall, Quiet, Pending
<1>7. ASSUME NEW a \in Actors, WakeupLater(a) PROVE Quiet'
  BY <1>7 DEF WakeupLater, Quiet, Pending
<1>8. ASSUME NEW a \in Actors, ArmTimer(a) PROVE Quiet'
  BY <1>8 DEF ArmTimer, NoCall, Quiet, Pending
<1>9. ASSUME NEW th \in Threads, StartDoWork(th) PROVE Quiet'
  BY <1>9 DEF StartDoWork, Quiet, Pending
<1>10. ASSUME NEW th \in Threads, RunAborted(th) PROVE Quiet'
  BY <1>10 DEF RunAborted, Quiet, Pending
<1>11. ASSUME NEW th \in Threads, Take(th) PROVE Quiet'
  BY <1>11 DEF Take, Due, NotYetDue, Quiet, Pending
<1>12. ASSUME NEW th \in Threads, StartRunnable(th) PROVE Quiet'
  BY <1>12 DEF StartRunnable, Quiet, Pending
<1>13. ASSUME NEW th \in Threads, FinishRunnable(th) PROVE Quiet'
  BY <1>13 DEF FinishRunnable, Quiet, Pending
<1>14. ASSUME NEW th \in Threads, DoStop(th) PROVE Quiet'
  <2> SUFFICES ASSUME ~raced' PROVE Quiet'
    BY DEF Quiet
  <2>1. PICK r \in batch[th] : r.runnable = StopTask /\ batch' = [batch EXCEPT ![th] = @ \ {r}]
    BY <1>14 DEF DoStop
  <2>2. UNCHANGED <<stop, call, runable_set_>> /\ ~raced
    BY <1>14 DEF DoStop
  <2>3. r \in Pending /\ Pending' \subseteq Pending \ {r}
    BY <2>1, <2>2 DEF Pending, Apart
  <2> QED
    BY <2>1, <2>2, <2>3 DEF Quiet
<1>15. ASSUME NEW th \in Threads, RearmNothing(th) PROVE Quiet'
  BY <1>15 DEF RearmNothing, Quiet, Pending
<1>16. ASSUME NEW th \in Threads, RearmNow(th) PROVE Quiet'
  BY <1>16 DEF RearmNow, Quiet, Pending
<1>17. ASSUME NEW th \in Threads, RearmLater(th) PROVE Quiet'
  BY <1>17 DEF RearmLater, Quiet, Pending
<1>18. ASSUME NEW th \in Threads, RearmArm(th) PROVE Quiet'
  BY <1>18 DEF RearmArm, Quiet, Pending
<1>19. ASSUME NEW th \in Threads, LeaveRun(th) PROVE Quiet'
  BY <1>19 DEF LeaveRun, Quiet, Pending
<1>20. ASSUME NEW th \in Threads, ClearSet(th) PROVE Quiet'
  BY <1>20 DEF ClearSet, Quiet, Pending
<1>21. ASSUME NEW c \in Stoppers, BeginStop(c) PROVE Quiet'
  <2> SUFFICES ASSUME ~raced' PROVE Quiet'
    BY DEF Quiet
  <2>0. raced => raced'
    BY <1>21, Zenon DEF BeginStop
  <2>1. UNCHANGED <<work_, runable_set_, batch, call>> /\ Pending' = Pending /\ ~raced
    BY <1>21, <2>0 DEF BeginStop, Pending
  <2>2. CASE stoped_
    <3>1. /\ stop' = [stop EXCEPT ![c] = "returned"]
          /\ \E d \in Clients : stop[d] # "none"
      BY <1>21, <2>2 DEF BeginStop, Stopping
    <3> QED
      BY <2>1, <3>1 DEF Quiet
  <2>3. CASE ~stoped_
    <3>1. stop' = [stop EXCEPT ![c] = "enter"]
      BY <1>21, <2>3 DEF BeginStop
    <3>2. ~StopInProgress /\ \A b \in Clients : call[b].at = "idle"
      BY <1>21, <2>3 DEF BeginStop
    <3>3. \A d \in Clients : stop[d] = "none"
      BY <2>3, <3>2 DEF StopInProgress, Stopping
    <3>4. work_ /\ \A r \in Pending : r.runnable # StopTask
      BY <3>3 DEF Stopping
    <3> QED
      BY <2>1, <3>1, <3>2, <3>3, <3>4 DEF Quiet
  <2> QED
    BY <2>2, <2>3
<1>25. ASSUME NEW c \in Stoppers, PostStop(c) PROVE Quiet'
  <2> SUFFICES ASSUME ~raced' PROVE Quiet'
    BY DEF Quiet
  <2>1. UNCHANGED <<work_, runable_set_, batch, raced>> /\ Pending' = Pending
    BY <1>25 DEF PostStop, Pending
  <2>2. /\ stop[c] = "enter" /\ stop' = [stop EXCEPT ![c] = "post"]
        /\ \/ call' = call
           \/ call' = [call EXCEPT ![c] = [at |-> "insert", expired_time |-> now + 0,
                                          runnable |-> StopTask]]
    BY <1>25 DEF PostStop, EnterPost
  <2>3. /\ work_ /\ \A r \in Pending : r.runnable # StopTask
        /\ \A b \in Clients : call[b].at = "idle"
        /\ \A d \in Clients : stop[d] \in {"enter", "post", "join"} => d = c
    BY <2>1, <2>2 DEF Quiet
  <2> QED
    BY <2>1, <2>2, <2>3 DEF Quiet
<1>22. ASSUME NEW c \in Stoppers, SetStoped(c) PROVE Quiet'
  BY <1>22 DEF SetStoped, Quiet, Pending
<1>23. ASSUME NEW c \in Stoppers, Join(c) PROVE Quiet'
  BY <1>23 DEF Join, Quiet, Pending
<1>24. CASE UNCHANGED vars
  BY <1>24 DEF Quiet, Pending
<1> QED
  BY <1>1, <1>2, <1>3, <1>4, <1>5, <1>6, <1>7, <1>8, <1>9, <1>10, <1>11, <1>12, <1>13, <1>14,
     <1>15, <1>16, <1>17, <1>18, <1>19, <1>20, <1>21, <1>22, <1>23, <1>24, <1>25 
  DEF Next, CallStep, ThreadStep, StopStep

Parts == Ids /\ NoLostWakeup /\ Exit /\ Once /\ Somewhere /\ Stopping /\ Quiet

(* An io_service that has nothing left to do leaves no runnable waiting.   *)
LEMMA IdleIsEmpty ==
  ASSUME Parts, ~raced, ~io_stopped, ~work_, ready.DoWork = 0, timer.waits = 0,
         \A th \in Threads : ~InHandler(th)
  PROVE  runable_set_ = {}
<1> SUFFICES ASSUME runable_set_ # {} PROVE FALSE
  OBVIOUS
<1>1. PICK a \in Actors : call[a].at = "arm" \/ OwesWakeup(a)
  BY DEF Parts, Ids, TypeOK, Ready, Timer, NoLostWakeup, WakeComing
<1>2. call[a].at \in {"arm", "wakeup"}
  BY <1>1 DEF OwesWakeup
<1>3. a \in Clients
  BY <1>2 DEF Parts, Exit, InHandler, Actors
<1>4. call[a].runnable = StopTask
  BY <1>2, <1>3 DEF Parts, Stopping, Quiet
<1>5. OwesWakeup(a)
  BY <1>1, <1>2, <1>4 DEF Parts, Stopping
<1> QED
  BY <1>4, <1>5 DEF OwesWakeup, Parts, Quiet, Pending

(* With the set empty and no handler running, every accepted runnable has  *)
(* been served.                                                            *)
LEMMA EmptyIsServed ==
  ASSUME Parts, ~io_stopped, runable_set_ = {},
         \A th \in Threads : batch[th] = {} /\ pc[th] # "running",
         NEW t \in Tasks, Accepted(t)
  PROVE  t \in finished \cup cancelled
<1>1. runs[t] = 1 \/ t \in cancelled
  BY DEF Parts, Somewhere, Waiting, Held
<1> QED
  BY <1>1 DEF Parts, Once

(* run() returns with the set empty when nothing overlapped the Stop.      *)
LEMMA DrainedInductive == Parts /\ Drained /\ [Next]_vars => Drained'
<1> SUFFICES ASSUME Parts, Drained, [Next]_vars PROVE Drained'
  OBVIOUS
<1> USE ActorsAssumption, TasksAssumption DEF Parts, Ids, TypeOK, Actors
<1>1. CASE TimerFires
  BY <1>1 DEF TimerFires, Drained, Accepted
<1>2. CASE Tick
  BY <1>2 DEF Tick, Drained, Accepted
<1>3. ASSUME NEW a \in Posters, NEW t \in Tasks, NEW d \in Delays, BeginPost(a, t, d) PROVE Drained'
  BY <1>3 DEF BeginPost, EnterPost, Drained, Accepted
<1>4. ASSUME NEW a \in Posters, NEW t \in Tasks, Cancel(a, t) PROVE Drained'
  BY <1>4 DEF Cancel, Drained, Accepted
<1>5. ASSUME NEW a \in Actors, Insert(a) PROVE Drained'
  <2>1. UNCHANGED <<io_stopped, raced, work_>> /\ call[a].at = "insert"
    BY <1>5 DEF Insert
  <2>2. io_stopped => a \in Clients
    BY <2>1 DEF Exit, InHandler
  <2>3. ~(io_stopped /\ ~raced)
    BY <2>1, <2>2 DEF Exit, Quiet
  <2> QED
    BY <2>1, <2>3 DEF Drained
<1>6. ASSUME NEW a \in Actors, WakeupNow(a) PROVE Drained'
  BY <1>6 DEF WakeupNow, Drained, Accepted
<1>7. ASSUME NEW a \in Actors, WakeupLater(a) PROVE Drained'
  BY <1>7 DEF WakeupLater, Drained, Accepted
<1>8. ASSUME NEW a \in Actors, ArmTimer(a) PROVE Drained'
  BY <1>8 DEF ArmTimer, Drained, Accepted
<1>9. ASSUME NEW th \in Threads, StartDoWork(th) PROVE Drained'
  BY <1>9 DEF StartDoWork, Drained, Accepted
<1>10. ASSUME NEW th \in Threads, RunAborted(th) PROVE Drained'
  <2>1. /\ UNCHANGED <<runable_set_, raced, ticket, finished, cancelled>>
        /\ pc[th] = "wait" /\ ~io_stopped /\ ready'.DoWork = ready.DoWork
        /\ HandlerReturns(th, ready', timer.waits)
    BY <1>10 DEF RunAborted, Ready
  <2> SUFFICES ASSUME io_stopped', ~raced' PROVE Drained'
    BY DEF Drained
  <2>2. /\ ~work_ /\ ready.DoWork = 0 /\ timer.waits = 0
        /\ \A o \in Threads : ~InHandler(o)
    BY <2>1 DEF HandlerReturns, InHandler
  <2>3. runable_set_ = {}
    BY <2>1, <2>2, IdleIsEmpty
  <2>4. \A o \in Threads : batch[o] = {} /\ pc[o] # "running"
    BY <2>2 DEF InHandler, Apart
  <2> QED
    BY <2>1, <2>3, <2>4, EmptyIsServed DEF Drained, Accepted
<1>11. ASSUME NEW th \in Threads, Take(th) PROVE Drained'
  BY <1>11 DEF Take, Due, NotYetDue, Drained, Accepted
<1>12. ASSUME NEW th \in Threads, StartRunnable(th) PROVE Drained'
  BY <1>12 DEF StartRunnable, Drained, Accepted
<1>13. ASSUME NEW th \in Threads, FinishRunnable(th) PROVE Drained'
  BY <1>13 DEF FinishRunnable, Drained, Accepted
<1>14. ASSUME NEW th \in Threads, DoStop(th) PROVE Drained'
  BY <1>14 DEF DoStop, Drained, Accepted
<1>15. ASSUME NEW th \in Threads, RearmNothing(th) PROVE Drained'
  <2>1. /\ UNCHANGED <<runable_set_, raced, ticket, finished, cancelled>>
        /\ pc[th] = "next" /\ batch[th] = {} /\ runable_set_ = {}
        /\ HandlerReturns(th, ready, timer.waits)
    BY <1>15 DEF RearmNothing
  <2> SUFFICES ASSUME io_stopped', ~raced' PROVE Drained'
    BY DEF Drained
  <2>2. ~io_stopped /\ \A o \in Threads \ {th} : ~InHandler(o)
    BY <2>1 DEF HandlerReturns, InHandler, Exit
  <2>3. \A o \in Threads : batch[o] = {} /\ pc[o] # "running"
    BY <2>1, <2>2 DEF InHandler, Apart
  <2> QED
    BY <2>1, <2>2, <2>3, EmptyIsServed DEF Drained, Accepted
<1>16. ASSUME NEW th \in Threads, RearmNow(th) PROVE Drained'
  BY <1>16 DEF RearmNow, HandlerReturns, QueueWork, Ready, Drained, Accepted
<1>17. ASSUME NEW th \in Threads, RearmLater(th) PROVE Drained'
  BY <1>17 DEF RearmLater, Drained, Accepted
<1>18. ASSUME NEW th \in Threads, RearmArm(th) PROVE Drained'
  BY <1>18 DEF RearmArm, HandlerReturns, AddWait, Timer, Drained, Accepted
<1>19. ASSUME NEW th \in Threads, LeaveRun(th) PROVE Drained'
  BY <1>19 DEF LeaveRun, Drained, Accepted
<1>20. ASSUME NEW th \in Threads, ClearSet(th) PROVE Drained'
  BY <1>20 DEF ClearSet, Drained, Accepted
<1>21. ASSUME NEW c \in Stoppers, BeginStop(c) PROVE Drained'
  BY <1>21 DEF BeginStop, Drained, Accepted
<1>25. ASSUME NEW c \in Stoppers, PostStop(c) PROVE Drained'
  BY <1>25 DEF PostStop, EnterPost, Drained, Accepted
<1>22. ASSUME NEW c \in Stoppers, SetStoped(c) PROVE Drained'
  BY <1>22 DEF SetStoped, Drained, Accepted
<1>23. ASSUME NEW c \in Stoppers, Join(c) PROVE Drained'
  BY <1>23 DEF Join, Drained, Accepted
<1>24. CASE UNCHANGED vars
  BY <1>24 DEF Drained, Accepted
<1> QED
  BY <1>1, <1>2, <1>3, <1>4, <1>5, <1>6, <1>7, <1>8, <1>9, <1>10, <1>11, <1>12, <1>13, <1>14,
     <1>15, <1>16, <1>17, <1>18, <1>19, <1>20, <1>21, <1>22, <1>23, <1>24, <1>25 
  DEF Next, CallStep, ThreadStep, StopStep

-----------------------------------------------------------------------------
Inv == Parts /\ Drained

(* Every part of the invariant holds initially and is kept by every step.  *)
LEMMA Invariance == Spec => []Inv
<1>1. Init => Inv
  <2> SUFFICES ASSUME Init PROVE Inv
    OBVIOUS
  <2>1. Pending = {} /\ runable_set_ = {} /\ \A a \in Actors : call[a].at = "idle"
    BY DEF Init, Pending, NoCall
  <2>2. \A t \in Tasks : ticket[t].id = 0 /\ runs[t] = 0
    BY DEF Init, NoTicket
  <2>3. Tickets /\ Apart /\ Fresh
    BY <2>1, <2>2 DEF Init, Tickets, Apart, Fresh
  <2>4. NoLostWakeup /\ Exit /\ Once /\ Somewhere
    BY <2>1, <2>2 DEF Init, NoLostWakeup, Exit, Once, Somewhere, Accepted, InHandler, Actors
  <2>5. Stopping /\ Quiet /\ Drained
    BY <2>1 DEF Init, Stopping, Quiet, Drained
  <2> QED
    BY <2>3, <2>4, <2>5, InitTyping DEF Inv, Parts, Ids
<1>2. Inv /\ [Next]_vars => Inv'
  <2> SUFFICES ASSUME Inv, [Next]_vars PROVE Inv'
    OBVIOUS
  <2>1. Ids'
    BY NextTyping, IdsInductive DEF Inv, Parts, Ids
  <2>2. NoLostWakeup' /\ Exit' /\ Once' /\ Somewhere'
    BY <2>1, WakeupInductive, ExitInductive, OnceInductive, SomewhereInductive
    DEF Inv, Parts, Ids
  <2>3. Stopping' /\ Quiet' /\ Drained'
    BY StoppingInductive, QuietInductive, DrainedInductive DEF Inv, Parts
  <2> QED
    BY <2>1, <2>2, <2>3 DEF Inv, Parts
<1> QED
  BY <1>1, <1>2, PTL DEF Spec

(* No wakeup is ever lost, for any number of threads, posters and          *)
(* runnables.                                                              *)
THEOREM NoWakeupIsLost == Spec => []NoLostWakeup
<1>1. Inv => NoLostWakeup
  BY DEF Inv, Parts
<1> QED
  BY <1>1, Invariance, PTL

(* A runnable runs at most once, never after it was cancelled, and is not  *)
(* forgotten while the io_service runs.                                    *)
THEOREM RunsExactlyOnce == Spec => []ExactlyOnce
<1>1. Inv => ExactlyOnce
  <2> SUFFICES ASSUME Inv, NEW t \in Tasks
               PROVE  /\ runs[t] <= 1
                      /\ Waiting(t) \/ Held(t) => runs[t] = 0 /\ t \notin cancelled
                      /\ t \in cancelled => runs[t] = 0
                      /\ ~(Waiting(t) /\ Held(t))
                      /\ Accepted(t) /\ ~io_stopped =>
                           Waiting(t) \/ Held(t) \/ runs[t] = 1 \/ t \in cancelled
    BY DEF ExactlyOnce
  <2>1. Waiting(t) \/ Held(t) => runs[t] = 0 /\ t \notin cancelled
    BY DEF Inv, Parts, Once, Waiting, Held, Pending
  <2>2. ~(Waiting(t) /\ Held(t))
    BY DEF Inv, Parts, Ids, Tickets, Apart, Waiting, Held, Pending
  <2> QED
    BY <2>1, <2>2 DEF Inv, Parts, Once, Somewhere
<1> QED
  BY <1>1, Invariance, PTL

(* A Stop that no other call overlaps runs everything that was accepted    *)
(* before the threads leave run().                                         *)
THEOREM StopDrains == Spec => []QuietStopDrains
<1>1. Inv => QuietStopDrains
  BY DEF Inv, Drained, QuietStopDrains
<1> QED
  BY <1>1, Invariance, PTL

-----------------------------------------------------------------------------
(***************************************************************************)
(* The order in which runnables run: MessagePump implements RunnableQueue  *)
(* for every number of threads, and a pump with one thread finishes what   *)
(* comes first before it starts what comes after.                          *)
(***************************************************************************)

\* DoWork compares with a clock that it has read, never one still to come.
Clocked == \A th \in Threads : tick[th] <= now

\* A thread runs a task of its own, and one that has not ended.
Running ==
    \A th \in Threads : pc[th] = "running" =>
      /\ current[th] \notin finished
      /\ \A o \in Threads : pc[o] = "running" /\ current[o] = current[th] => o = th

\* A DoWork leaves nothing behind that comes before what it has taken; what
\* is inserted later has a later id.
Ahead ==
    \A th \in Threads : \A r \in runable_set_, q \in batch[th] : ~(r.id < q.id /\ Less(r, q))

Order == Clocked /\ Running /\ Ahead

\* A step that touches no runnable: it only moves a thread between handlers,
\* a caller between the parts of its call, the timer or the clock.
Still ==
    /\ UNCHANGED <<runable_set_, id_, batch, current, ticket, runs, finished, cancelled>>
    /\ \A th \in Threads : pc'[th] = "running" <=> pc[th] = "running"
    /\ \A th \in Threads : tick'[th] = tick[th] \/ tick'[th] = now
    /\ now' = now \/ (now' = now + 1 /\ io_stopped' = io_stopped)
    /\ io_stopped => io_stopped'

(* Only Cancel, the locked sections of PostRunable, DoWork and Run, and    *)
(* the start and the end of a runnable are not Still.                      *)
LEMMA StepKinds ==
  ASSUME TypeOK, [Next]_vars
  PROVE  \/ Still
         \/ \E a \in Posters, t \in Tasks : Cancel(a, t)
         \/ \E a \in Actors : Insert(a)
         \/ \E th \in Threads : \/ Take(th) \/ StartRunnable(th) \/ FinishRunnable(th)
                                \/ DoStop(th) \/ ClearSet(th)
<1> USE DEF TypeOK, Still
<1>1. CASE TimerFires \/ Tick
  BY <1>1 DEF TimerFires, Tick
<1>2. ASSUME NEW a \in Posters, NEW t \in Tasks, NEW d \in Delays, BeginPost(a, t, d) PROVE Still
  BY <1>2 DEF BeginPost
<1>3. ASSUME NEW a \in Actors, WakeupNow(a) \/ WakeupLater(a) \/ ArmTimer(a) PROVE Still
  BY <1>3 DEF WakeupNow, WakeupLater, ArmTimer
<1>4. ASSUME NEW th \in Threads, StartDoWork(th) \/ RunAborted(th) PROVE Still
  BY <1>4 DEF StartDoWork, RunAborted, HandlerReturns
<1>5. ASSUME NEW th \in Threads, RearmNothing(th) \/ RearmNow(th) PROVE Still
  BY <1>5 DEF RearmNothing, RearmNow, HandlerReturns
<1>6. ASSUME NEW th \in Threads, RearmLater(th) \/ RearmArm(th) PROVE Still
  BY <1>6 DEF RearmLater, RearmArm, HandlerReturns
<1>7. ASSUME NEW th \in Threads, LeaveRun(th) PROVE Still
  BY <1>7 DEF LeaveRun
<1>8. ASSUME NEW c \in Stoppers, BeginStop(c) \/ StopStep(c) PROVE Still
  BY <1>8 DEF BeginStop, StopStep, PostStop, SetStoped, Join
<1>9. CASE UNCHANGED vars
  BY <1>9
<1> HIDE DEF TypeOK, Still
<1> QED
  BY <1>1, <1>2, <1>3, <1>4, <1>5, <1>6, <1>7, <1>8, <1>9 DEF Next, CallStep, ThreadStep

(* Take removes from the set what is due and puts it in the batch of its   *)
(* thread, which was empty.                                                *)
LEMMA TakeEffect ==
  ASSUME Ids, NEW th \in Threads, Take(th)
  PROVE  /\ batch[th] = {} /\ batch'[th] = Due(runable_set_, tick[th])
         /\ \A o \in Threads \ {th} : batch'[o] = batch[o]
         /\ runable_set_' = runable_set_ \ Due(runable_set_, tick[th])
         /\ pc[th] = "take" /\ pc' = [pc EXCEPT ![th] = "next"]
         /\ UNCHANGED <<now, id_, tick, current, ticket, runs, finished, cancelled, io_stopped>>
  BY DEF Take, NotYetDue, Ids, TypeOK, Apart

(* Order holds initially and is kept by every step.                        *)
LEMMA OrderInductive == Inv /\ Order /\ [Next]_vars => Order'
<1> SUFFICES ASSUME Inv, Order, [Next]_vars PROVE Order'
  OBVIOUS
<1>0. Ids /\ TypeOK /\ Once /\ Tickets /\ Apart
  BY DEF Inv, Parts, Ids
<1>a. /\ now \in Nat /\ id_ \in Nat /\ \A th \in Threads : tick[th] \in Nat
      /\ \A r \in Pending : r.id \in Nat /\ r.expired_time \in Nat
  BY <1>0, TimeAssumption DEF TypeOK, Time, Pending, Info
<1>1. CASE Still
  BY <1>0, <1>a, <1>1 DEF Still, Order, Clocked, Running, Ahead
<1>2. ASSUME NEW a \in Posters, NEW t \in Tasks, Cancel(a, t) PROVE Order'
  BY <1>2 DEF Cancel, Order, Clocked, Running, Ahead
<1>3. ASSUME NEW a \in Actors, Insert(a) PROVE Order'
  <2> DEFINE info == [expired_time |-> call[a].expired_time, id |-> id_ + 1,
                      runnable |-> call[a].runnable]
  <2>1. /\ runable_set_' = runable_set_ \cup {info}
        /\ UNCHANGED <<now, tick, pc, current, batch, finished>>
    BY <1>3 DEF Insert
  <2>2. info.id = id_ + 1
    OBVIOUS
  <2> HIDE DEF info
  <2>3. \A th \in Threads : \A q \in batch[th] : q.id \in Nat /\ q.id <= id_
    BY <1>0, <1>a DEF Tickets, Pending
  <2>4. Ahead'
    BY <1>a, <2>1, <2>2, <2>3 DEF Order, Ahead
  <2> QED
    BY <2>1, <2>4 DEF Order, Clocked, Running
<1>4. ASSUME NEW th \in Threads, Take(th) PROVE Order'
  <2>1. /\ batch'[th] = Due(runable_set_, tick[th])
        /\ \A o \in Threads \ {th} : batch'[o] = batch[o]
        /\ runable_set_' = runable_set_ \ Due(runable_set_, tick[th])
        /\ pc[th] = "take" /\ pc' = [pc EXCEPT ![th] = "next"]
        /\ UNCHANGED <<now, tick, current, finished>>
    BY <1>0, <1>4, TakeEffect
  <2>2. \A r \in runable_set_ : r.expired_time \in Nat
    BY <1>a DEF Pending
  <2>3. \A r \in runable_set_', q \in batch'[th] : ~Less(r, q)
    BY <1>a, <2>1, <2>2 DEF Due, Less
  <2>4. Ahead'
    BY <2>1, <2>3 DEF Order, Ahead
  <2>5. Running'
    BY <1>0, <2>1 DEF Order, Running, TypeOK
  <2> QED
    BY <2>1, <2>4, <2>5 DEF Order, Clocked
<1>5. ASSUME NEW th \in Threads, StartRunnable(th) PROVE Order'
  <2>1. PICK r \in batch[th] : /\ r.runnable \in Tasks
                               /\ batch' = [batch EXCEPT ![th] = @ \ {r}]
                               /\ current' = [current EXCEPT ![th] = r.runnable]
    BY <1>5 DEF StartRunnable
  <2>2. UNCHANGED <<now, tick, runable_set_, finished>> /\ pc' = [pc EXCEPT ![th] = "running"]
    BY <1>5 DEF StartRunnable
  <2>3. runs[r.runnable] = 0
    BY <1>0, <2>1 DEF Once, Pending
  <2>4. r.runnable \notin finished /\ \A o \in Threads : pc[o] = "running" => current[o] # r.runnable
    BY <1>0, <2>1, <2>3 DEF Once
  <2>5. Ahead'
    BY <1>0, <2>1, <2>2 DEF Order, Ahead, TypeOK
  <2>6. Running'
    BY <1>0, <2>1, <2>2, <2>4 DEF Order, Running, TypeOK
  <2> QED
    BY <2>2, <2>5, <2>6 DEF Order, Clocked
<1>6. ASSUME NEW th \in Threads, FinishRunnable(th) PROVE Order'
  <2>1. /\ pc[th] = "running" /\ pc' = [pc EXCEPT ![th] = "next"]
        /\ current' = [current EXCEPT ![th] = StopTask] /\ finished' = finished \cup {current[th]}
        /\ UNCHANGED <<now, tick, runable_set_, batch>>
    BY <1>6 DEF FinishRunnable
  <2>2. Running'
    BY <1>0, <2>1 DEF Order, Running, TypeOK
  <2> QED
    BY <2>1, <2>2 DEF Order, Clocked, Ahead
<1>7. ASSUME NEW th \in Threads, DoStop(th) PROVE Order'
  BY <1>0, <1>7 DEF DoStop, Order, Clocked, Running, Ahead, TypeOK
<1>8. ASSUME NEW th \in Threads, ClearSet(th) PROVE Order'
  BY <1>0, <1>8 DEF ClearSet, Order, Clocked, Running, Ahead, TypeOK
<1> QED
  BY <1>0, <1>1, <1>2, <1>3, <1>4, <1>5, <1>6, <1>7, <1>8, StepKinds

(* So it always holds.                                                     *)
LEMMA OrderHolds == Spec => [](Inv /\ Order)
<1>1. Init => Order
  BY DEF Init, Order, Clocked, Running, Ahead
<1> QED
  BY <1>1, Invariance, OrderInductive, PTL DEF Spec

-----------------------------------------------------------------------------
(* A pump with one thread starts a task only when what comes before it is  *)
(* neither in its batch, nor in the set, nor still running.                *)
LEMMA InOrderStep ==
  ASSUME \A a, b \in Threads : a = b, Inv, Order, RunsInOrder, [Next]_vars
  PROVE  RunsInOrder'
<1>0. Ids /\ TypeOK /\ Once /\ Tickets /\ Apart /\ Fresh /\ Somewhere /\ Exit
  BY DEF Inv, Parts, Ids
<1>a. /\ id_ \in Nat
      /\ \A t \in Tasks : ticket[t].id \in Nat /\ ticket[t].expired_time \in Nat /\ runs[t] \in Nat
      /\ \A r \in Pending : r.id \in Nat /\ r.expired_time \in Nat
  BY <1>0 DEF TypeOK, Pending, Info, Ticket
\* Whatever has ended or was cancelled stays so.
<1>b. ASSUME UNCHANGED <<ticket, runs>>, finished \subseteq finished', cancelled \subseteq cancelled'
      PROVE  RunsInOrder'
  BY <1>b DEF RunsInOrder, Accepted, Less
<1>1. CASE Still
  BY <1>1, <1>b DEF Still
<1>2. ASSUME NEW a \in Posters, NEW t \in Tasks, Cancel(a, t) PROVE RunsInOrder'
  BY <1>2, <1>b DEF Cancel
<1>3. ASSUME NEW a \in Actors, Insert(a) PROVE RunsInOrder'
  <2> DEFINE x == call[a].runnable
  <2>1. /\ \A t \in Tasks \ {x} : ticket'[t] = ticket[t]
        /\ x \in Tasks => ticket'[x].id = id_ + 1
        /\ UNCHANGED <<runs, finished, cancelled>>
    BY <1>3 DEF Insert
  <2>2. x \in Tasks => runs[x] = 0
    BY <1>0, <1>3 DEF Insert, Fresh, Once
  <2>3. \A t \in Tasks : ticket[t].id <= id_
    BY <1>0 DEF Tickets
  <2> HIDE DEF x
  <2> SUFFICES ASSUME NEW t \in Tasks, NEW u \in Tasks, Accepted(t)', Accepted(u)',
                      Less(ticket'[t], ticket'[u]), ticket'[t].id < ticket'[u].id, runs'[u] > 0
               PROVE  t \in finished' \cup cancelled'
    BY DEF RunsInOrder
  <2>4. u # x /\ ticket'[u] = ticket[u]
    BY <1>a, <2>1, <2>2
  <2>5. t # x
    BY <1>a, <2>1, <2>3, <2>4
  <2> QED
    BY <2>1, <2>4, <2>5 DEF RunsInOrder, Accepted
<1>4. ASSUME NEW th \in Threads, Take(th) \/ FinishRunnable(th) \/ DoStop(th) \/ ClearSet(th)
      PROVE  RunsInOrder'
  BY <1>4, <1>b DEF Take, FinishRunnable, DoStop, ClearSet
<1>5. ASSUME NEW th \in Threads, StartRunnable(th) PROVE RunsInOrder'
  <2>1. PICK r \in batch[th] : /\ IsFirst(r, batch[th]) /\ r.runnable \in Tasks
                               /\ runs' = [runs EXCEPT ![r.runnable] = @ + 1]
    BY <1>5 DEF StartRunnable
  <2>2. pc[th] = "next" /\ UNCHANGED <<ticket, finished, cancelled>>
    BY <1>5 DEF StartRunnable
  <2> SUFFICES ASSUME NEW t \in Tasks, NEW u \in Tasks, Accepted(t), Accepted(u),
                      Less(ticket[t], ticket[u]), ticket[t].id < ticket[u].id, runs'[u] > 0
               PROVE  t \in finished \cup cancelled
    BY <2>2 DEF RunsInOrder, Accepted
  <2>3. CASE u # r.runnable
    BY <1>0, <2>1, <2>3 DEF RunsInOrder, TypeOK
  <2>4. CASE u = r.runnable
    <3>1. ticket[u].id = r.id /\ ticket[u].expired_time = r.expired_time /\ r \in Pending
      BY <1>0, <2>1, <2>4 DEF Tickets, Pending
    <3>2. Less(ticket[t], r)
      BY <3>1 DEF Less
    <3>3. ASSUME NEW q \in Pending, q.runnable = t
          PROVE  q.id < r.id /\ Less(q, r) /\ q.id \in Nat /\ q.expired_time \in Nat
      BY <1>0, <1>a, <3>1, <3>2, <3>3 DEF Tickets, Less
    <3>4. ~Waiting(t)
      BY <2>1, <3>3 DEF Order, Ahead, Waiting, Pending
    <3>5. ~Held(t)
      <4> SUFFICES ASSUME NEW q \in batch[th], q.runnable = t PROVE FALSE
        BY DEF Held
      <4>1. q.id < r.id /\ Less(q, r) /\ q.id \in Nat /\ q.expired_time \in Nat
        BY <3>3 DEF Pending
      <4>2. q = r \/ Less(r, q)
        BY <2>1 DEF IsFirst
      <4> QED
        BY <1>a, <3>1, <4>1, <4>2 DEF Less
    <3>6. ~io_stopped
      BY <1>0, <2>2 DEF Exit, InHandler
    <3>7. runs[t] = 1 => t \in finished
      BY <1>0, <2>2 DEF Once
    <3> QED
      BY <1>0, <3>4, <3>5, <3>6, <3>7 DEF Somewhere
  <2> QED
    BY <2>3, <2>4
<1> QED
  BY <1>0, <1>1, <1>2, <1>3, <1>4, <1>5, StepKinds

(* A pump with one thread (the IO and File loops) keeps the order of the   *)
(* set: DoWork's batches, the clock read before the lock, and runnables    *)
(* posted or cancelled in between never let a runnable start before one    *)
(* that was inserted earlier and expires no later has ended.               *)
THEOREM OneThreadInOrder ==
  ASSUME \A a, b \in Threads : a = b
  PROVE  Spec => []RunsInOrder
<1>1. Init => RunsInOrder
  BY DEF Init, RunsInOrder, Accepted, NoTicket
<1>2. Inv /\ Order /\ RunsInOrder /\ [Next]_vars => RunsInOrder'
  BY InOrderStep
<1> QED
  BY <1>1, <1>2, OrderHolds, PTL DEF Spec

-----------------------------------------------------------------------------
(* The refinement.  Where a task's runnable is, and what has happened to   *)
(* it, is all its phase depends on.                                        *)
LEMMA SamePhase ==
  ASSUME NEW t \in Tasks,
         Waiting(t)' <=> Waiting(t), Held(t)' <=> Held(t), t \in cancelled' <=> t \in cancelled,
         t \in finished' <=> t \in finished, runs'[t] = runs[t], Accepted(t)' <=> Accepted(t)
  PROVE  PhaseOf(t)' = PhaseOf(t)
<1>1. CASE Waiting(t)
  BY <1>1 DEF PhaseOf
<1>2. CASE ~Waiting(t) /\ Held(t)
  BY <1>2 DEF PhaseOf
<1>3. CASE ~Waiting(t) /\ ~Held(t)
  BY <1>3 DEF PhaseOf
<1> QED
  BY <1>1, <1>2, <1>3

(* The phases, one by one.                                                 *)
LEMMA PhaseValues ==
  ASSUME NEW t \in Tasks
  PROVE  /\ Waiting(t) => PhaseOf(t) = "waiting"
         /\ ~Waiting(t) /\ Held(t) => PhaseOf(t) = "taken"
         /\ ~Waiting(t) /\ ~Held(t) /\ t \in cancelled => PhaseOf(t) = "cancelled"
         /\ ~Waiting(t) /\ ~Held(t) /\ t \notin cancelled /\ t \in finished => PhaseOf(t) = "done"
         /\ ~Waiting(t) /\ ~Held(t) /\ t \notin cancelled /\ t \notin finished /\ runs[t] > 0 =>
              PhaseOf(t) = "started"
         /\ ~Waiting(t) /\ ~Held(t) /\ t \notin cancelled /\ t \notin finished /\ ~(runs[t] > 0) =>
              PhaseOf(t) = IF Accepted(t) THEN "dropped" ELSE "new"
  BY DEF PhaseOf

(* Only a runnable in the set is in phase "waiting".                       *)
LEMMA WaitingPhase ==
  ASSUME NEW t \in Tasks, PhaseOf(t) = "waiting" PROVE Waiting(t)
<1>1. CASE ~Waiting(t) /\ Held(t)
  BY <1>1, PhaseValues
<1>2. CASE ~Waiting(t) /\ ~Held(t) /\ (t \in cancelled \/ t \in finished)
  BY <1>2, PhaseValues
<1>3. CASE ~Waiting(t) /\ ~Held(t) /\ t \notin cancelled /\ t \notin finished
  BY <1>3, PhaseValues
<1> QED
  BY <1>1, <1>2, <1>3

(* The phases of Pending tasks: in the set, or in one batch, never both,   *)
(* and with one info each.                                                 *)
LEMMA PendingTasks ==
  ASSUME Ids, Once, NEW r \in Pending, r.runnable \in Tasks
  PROVE  /\ \A q \in Pending : q.runnable = r.runnable => q = r
         /\ runs[r.runnable] = 0 /\ r.runnable \notin cancelled /\ r.runnable \notin finished
         /\ Accepted(r.runnable)
  BY DEF Ids, Tickets, Once, Accepted, TypeOK, Ticket

(* A step that moves the tasks of S from one phase to another, and no      *)
(* other task, is a Move of the queue.                                     *)
LEMMA MoveOf ==
  ASSUME NEW S \in SUBSET Tasks, NEW x, NEW y,
         \A t \in S : PhaseOf(t) = x /\ PhaseOf(t)' = y,
         \A t \in Tasks \ S : PhaseOf(t)' = PhaseOf(t)
  PROVE  Queue!Move(S, x, y)
  BY DEF Queue!Move

(* Every step of the pump is a step of the queue or leaves it alone.       *)
LEMMA QueueStep == Inv /\ Order /\ [Next]_vars => [Queue!QueueNext]_(Queue!queueVars)
<1> SUFFICES ASSUME Inv, Order, [Next]_vars
             PROVE  \/ Queue!QueueNext
                    \/ /\ UNCHANGED <<now, ticket, io_stopped>>
                       /\ \A t \in Tasks : PhaseOf(t)' = PhaseOf(t)
  BY DEF Queue!queueVars
<1> DEFINE Goal == \/ Queue!QueueNext
                   \/ /\ UNCHANGED <<now, ticket, io_stopped>>
                      /\ \A t \in Tasks : PhaseOf(t)' = PhaseOf(t)
<1>0. Ids /\ TypeOK /\ Once /\ Tickets /\ Apart /\ Fresh /\ Exit
  BY DEF Inv, Parts, Ids
<1>a. /\ now \in Nat /\ id_ \in Nat /\ \A th \in Threads : tick[th] \in Nat /\ tick[th] <= now
      /\ \A t \in Tasks : ticket[t].id \in Nat /\ ticket[t].expired_time \in Nat
      /\ \A r \in Pending : r.id \in Nat /\ r.expired_time \in Nat
  BY <1>0, TimeAssumption DEF TypeOK, Time, Ticket, Pending, Info, Order, Clocked
<1>b. \A t \in Tasks : Waiting(t) => ~Held(t)
  BY <1>0 DEF Tickets, Apart, Waiting, Held, Pending
<1>c. ASSUME NEW t \in Tasks, UNCHANGED <<cancelled, finished, runs, ticket>>,
             Waiting(t)' <=> Waiting(t), Held(t)' <=> Held(t)
      PROVE  PhaseOf(t)' = PhaseOf(t)
  BY <1>c, SamePhase DEF Accepted
<1>1. CASE Still
  <2>1. \A t \in Tasks : PhaseOf(t)' = PhaseOf(t)
    BY <1>1, <1>c DEF Still, Waiting, Held
  <2>2. CASE now' # now
    <3>1. Queue!Advance
      BY <1>1, <1>a, <2>1, <2>2 DEF Still, Queue!Advance
    <3> QED  BY <3>1 DEF Queue!QueueNext
  <2>3. CASE now' = now /\ io_stopped' = io_stopped
    BY <1>1, <2>1, <2>3 DEF Still
  <2>4. CASE now' = now /\ io_stopped' # io_stopped
    <3>1. ~io_stopped /\ io_stopped' = TRUE
      <4>1. io_stopped \in BOOLEAN /\ io_stopped' \in BOOLEAN
        BY <1>0, NextTyping DEF TypeOK
      <4> QED  BY <1>1, <2>4, <4>1 DEF Still
    <3>2. Queue!Close
      BY <1>1, <2>1, <2>4, <3>1 DEF Still, Queue!Close
    <3> QED  BY <3>2 DEF Queue!QueueNext
  <2> QED  BY <2>2, <2>3, <2>4
<1>2. ASSUME NEW a \in Posters, NEW t \in Tasks, Cancel(a, t) PROVE Goal
  <2>1. PICK r \in runable_set_ : /\ r.id = ticket[t].id
                                  /\ runable_set_' = runable_set_ \ {r}
                                  /\ cancelled' = cancelled \cup {t}
    BY <1>2 DEF Cancel
  <2>2. UNCHANGED <<now, io_stopped, batch, ticket, runs, finished>>
    BY <1>2 DEF Cancel
  <2>3. r.runnable = t /\ r \in Pending
    BY <1>0, <2>1 DEF Tickets, Pending
  <2>4. Waiting(t) /\ ~Held(t)
    BY <1>b, <2>1, <2>3 DEF Waiting
  <2>5. ~Waiting(t)' /\ ~Held(t)' /\ t \in cancelled'
    BY <1>0, <2>1, <2>2, <2>3, <2>4, PendingTasks DEF Waiting, Held, Pending
  <2>6. PhaseOf(t) = "waiting" /\ PhaseOf(t)' = "cancelled"
    BY <2>4, <2>5, PhaseValues DEF PhaseOf
  <2>7. ASSUME NEW u \in Tasks \ {t} PROVE PhaseOf(u)' = PhaseOf(u)
    <3>1. (Waiting(u)' <=> Waiting(u)) /\ (Held(u)' <=> Held(u))
      BY <2>1, <2>2, <2>3 DEF Waiting, Held
    <3>2. (u \in cancelled' <=> u \in cancelled) /\ (Accepted(u)' <=> Accepted(u))
      BY <2>1, <2>2 DEF Accepted
    <3> QED  BY <2>2, <3>1, <3>2, SamePhase
  <2>8. Queue!Move({t}, "waiting", "cancelled")
    BY <2>6, <2>7, MoveOf
  <2>9. Queue!Withdraw(t)
    BY <2>2, <2>8 DEF Queue!Withdraw
  <2> QED  BY <2>9 DEF Queue!QueueNext
<1>3. ASSUME NEW a \in Actors, Insert(a) PROVE Goal
  <2>0. PICK x : x = call[a].runnable
    OBVIOUS
  <2> DEFINE key == [expired_time |-> call[a].expired_time, id |-> id_ + 1]
             info == [expired_time |-> call[a].expired_time, id |-> id_ + 1, runnable |-> x]
  <2>1. /\ runable_set_' = runable_set_ \cup {info}
        /\ ticket' = [t \in Tasks |-> IF t = x THEN key ELSE ticket[t]]
        /\ UNCHANGED <<now, io_stopped, batch, runs, finished, cancelled>>
    BY <1>3, <2>0 DEF Insert
  <2>2. x \in Runnables /\ call[a].expired_time \in Nat
    BY <1>0, <2>0 DEF TypeOK, Call
  <2>3. key \in [expired_time : Nat, id : Nat] /\ key.id = id_ + 1
    BY <1>a, <2>2
  <2>4. info.runnable = x
    OBVIOUS
  <2>5. x \in Tasks => ticket[x].id = 0
    BY <1>0, <1>3, <2>0 DEF Fresh, Insert
  <2> HIDE DEF info, key
  <2>6. ASSUME NEW u \in Tasks \ {x} PROVE PhaseOf(u)' = PhaseOf(u)
    <3>1. (Waiting(u)' <=> Waiting(u)) /\ (Held(u)' <=> Held(u))
      BY <2>1, <2>4 DEF Waiting, Held
    <3>2. Accepted(u)' <=> Accepted(u)
      BY <2>1 DEF Accepted
    <3> QED  BY <2>1, <3>1, <3>2, SamePhase
  <2>7. CASE x \notin Tasks
    <3>1. ticket' = ticket
      BY <1>0, <2>1, <2>7 DEF TypeOK
    <3> QED  BY <2>1, <2>6, <2>7, <3>1
  <2>8. CASE x \in Tasks
    <3>1. \A r \in Pending : r.runnable # x
      BY <1>0, <1>a, <2>5, <2>8 DEF Tickets
    <3>2. ~Waiting(x) /\ ~Held(x) /\ x \notin cancelled /\ x \notin finished /\ ~(runs[x] > 0)
      BY <1>0, <2>5, <2>8, <3>1 DEF Once, Waiting, Held, Pending
    <3>3. PhaseOf(x) = "new"
      BY <2>5, <2>8, <3>2, PhaseValues DEF Accepted
    <3>4. Waiting(x)'
      BY <2>1, <2>4 DEF Waiting
    <3>5. PhaseOf(x)' = "waiting"
      BY <3>4 DEF PhaseOf
    <3>6. Queue!Move({x}, "new", "waiting")
      BY <2>6, <2>8, <3>3, <3>5, MoveOf
    <3>7. ticket'[x] = key /\ ticket' = [ticket EXCEPT ![x] = ticket'[x]]
      BY <1>0, <2>1, <2>8 DEF TypeOK
    <3>8. \A u \in Tasks : ticket[u].id < ticket'[x].id
      BY <1>0, <1>a, <2>3, <3>7 DEF Tickets
    <3>9. Queue!Accept(x)
      BY <2>1, <2>3, <3>6, <3>7, <3>8 DEF Queue!Accept
    <3> QED  BY <2>8, <3>9 DEF Queue!QueueNext
  <2> QED  BY <2>7, <2>8
<1>4. ASSUME NEW th \in Threads, Take(th) PROVE Goal
  <2> DEFINE D == Due(runable_set_, tick[th])
             S == {t \in Tasks : \E r \in D : r.runnable = t}
  <2>1. /\ batch[th] = {} /\ batch'[th] = D
        /\ \A o \in Threads \ {th} : batch'[o] = batch[o]
        /\ runable_set_' = runable_set_ \ D
        /\ UNCHANGED <<now, ticket, runs, finished, cancelled, io_stopped>>
    BY <1>0, <1>4, TakeEffect
  <2>2. D \subseteq runable_set_ /\ \A r \in D : r \in Pending /\ r.expired_time <= tick[th]
    BY DEF Due, Pending
  <2>3. \A r \in runable_set_ : r \in Pending /\ (r.expired_time <= tick[th] => r \in D)
    BY DEF Due, Pending
  <2> HIDE DEF D
  <2>4. ASSUME NEW t \in S PROVE PhaseOf(t) = "waiting" /\ PhaseOf(t)' = "taken"
    <3>1. PICK r \in D : r.runnable = t
      OBVIOUS
    <3>2. Waiting(t)
      BY <2>2, <3>1 DEF Waiting
    <3>3. ~Waiting(t)'
      BY <1>0, <2>1, <2>2, <2>3, <3>1, PendingTasks DEF Waiting
    <3>4. Held(t)'
      BY <2>1, <3>1 DEF Held
    <3> QED  BY <3>2, <3>3, <3>4 DEF PhaseOf
  <2>5. ASSUME NEW t \in Tasks \ S PROVE PhaseOf(t)' = PhaseOf(t)
    <3>1. Waiting(t)' <=> Waiting(t)
      BY <2>1 DEF Waiting
    <3>2. Held(t)' <=> Held(t)
      BY <2>1 DEF Held
    <3> QED  BY <1>c, <2>1, <3>1, <3>2
  <2>6. \A t \in S : ticket[t].expired_time <= tick[th]
    BY <1>0, <2>2 DEF Tickets
  <2>7. ASSUME NEW t \in S, NEW u \in Tasks, PhaseOf(u) = "waiting", Queue!Before(u, t) PROVE u \in S
    <3>1. PICK r \in runable_set_ : r.runnable = u
      BY <2>7, WaitingPhase DEF Waiting
    <3>2. ticket[u].expired_time <= ticket[t].expired_time
      BY <1>a, <2>7 DEF Queue!Before
    <3>3. r.expired_time = ticket[u].expired_time
      BY <1>0, <2>3, <3>1 DEF Tickets
    <3> QED  BY <1>a, <2>3, <2>6, <3>1, <3>2, <3>3
  <2>8. S \in SUBSET Tasks
    OBVIOUS
  <2> HIDE DEF S
  <2>9. CASE S = {}
    BY <2>1, <2>5, <2>9
  <2>10. CASE S # {}
    <3>1. Queue!Move(S, "waiting", "taken")
      BY <2>4, <2>5, <2>8, MoveOf
    <3>2. \A t \in S : ticket[t].expired_time <= now
      BY <1>a, <2>6, <2>8
    <3>3. Queue!TakeDue(S)
      BY <2>1, <2>7, <2>8, <2>10, <3>1, <3>2 DEF Queue!TakeDue
    <3> QED  BY <2>8, <3>3 DEF Queue!QueueNext
  <2> QED  BY <2>9, <2>10
<1>5. ASSUME NEW th \in Threads, StartRunnable(th) PROVE Goal
  <2>1. PICK r \in batch[th] : /\ r.runnable \in Tasks
                               /\ batch' = [batch EXCEPT ![th] = @ \ {r}]
                               /\ runs' = [runs EXCEPT ![r.runnable] = @ + 1]
    BY <1>5 DEF StartRunnable
  <2> DEFINE t == r.runnable
  <2>2. UNCHANGED <<now, io_stopped, runable_set_, ticket, finished, cancelled>>
    BY <1>5 DEF StartRunnable
  <2>3. r \in Pending
    BY DEF Pending
  <2>4. /\ Held(t) /\ ~Waiting(t) /\ runs[t] = 0 /\ t \notin cancelled /\ t \notin finished
        /\ \A q \in Pending : q.runnable = t => q = r
    BY <1>0, <1>b, <2>1, <2>3, PendingTasks DEF Held
  <2>5. ~Held(t)' /\ ~Waiting(t)'
    <3>1. \A o \in Threads \ {th} : r \notin batch[o]
      BY <1>0 DEF Apart
    <3>2. /\ batch'[th] = batch[th] \ {r} /\ \A o \in Threads \ {th} : batch'[o] = batch[o]
      BY <1>0, <2>1 DEF TypeOK
    <3>3. \A o \in Threads : \A q \in batch'[o] : q \in Pending /\ q # r
      BY <3>1, <3>2 DEF Pending
    <3> QED  BY <2>2, <2>4, <3>3 DEF Held, Waiting
  <2>6. runs'[t] = 1 /\ \A u \in Tasks \ {t} : runs'[u] = runs[u]
    BY <1>0, <2>1, <2>4 DEF TypeOK
  <2>7. PhaseOf(t) = "taken" /\ PhaseOf(t)' = "started"
    BY <2>1, <2>2, <2>4, <2>5, <2>6 DEF PhaseOf
  <2>8. ASSUME NEW u \in Tasks \ {t} PROVE PhaseOf(u)' = PhaseOf(u)
    <3>1. Waiting(u)' <=> Waiting(u)
      BY <2>2 DEF Waiting
    <3>2. Held(u)' <=> Held(u)
      BY <1>0, <2>1 DEF Held, TypeOK
    <3> QED  BY <2>2, <2>6, <3>1, <3>2, SamePhase DEF Accepted
  <2> HIDE DEF t
  <2>9. Queue!Move({t}, "taken", "started")
    BY <2>1, <2>7, <2>8, MoveOf DEF t
  <2>10. Queue!Start(t)
    BY <2>2, <2>9 DEF Queue!Start
  <2> QED  BY <2>1, <2>10 DEF Queue!QueueNext, t
<1>6. ASSUME NEW th \in Threads, FinishRunnable(th) PROVE Goal
  <2>0. PICK t : t = current[th]
    OBVIOUS
  <2>1. /\ pc[th] = "running" /\ finished' = finished \cup {t}
        /\ UNCHANGED <<now, io_stopped, runable_set_, batch, ticket, runs, cancelled>>
    BY <1>6, <2>0 DEF FinishRunnable
  <2>2. t \in Tasks /\ runs[t] = 1 /\ t \notin finished /\ t \notin cancelled
    BY <1>0, <2>0, <2>1 DEF Order, Running, Once
  <2>3. ~Waiting(t) /\ ~Held(t)
    BY <1>0, <2>2 DEF Once, Waiting, Held, Pending
  <2>4. ~Waiting(t)' /\ ~Held(t)' /\ t \in finished' /\ t \notin cancelled'
    BY <2>1, <2>2, <2>3 DEF Waiting, Held
  <2>5. PhaseOf(t) = "started" /\ PhaseOf(t)' = "done"
    BY <2>2, <2>3, <2>4 DEF PhaseOf
  <2>6. ASSUME NEW u \in Tasks \ {t} PROVE PhaseOf(u)' = PhaseOf(u)
    <3>1. (Waiting(u)' <=> Waiting(u)) /\ (Held(u)' <=> Held(u)) /\ (Accepted(u)' <=> Accepted(u))
      BY <2>1 DEF Waiting, Held, Accepted
    <3> QED  BY <2>1, <3>1, SamePhase
  <2>7. Queue!Move({t}, "started", "done")
    BY <2>2, <2>5, <2>6, MoveOf
  <2>8. Queue!Finish(t)
    BY <2>1, <2>7 DEF Queue!Finish
  <2> QED  BY <2>2, <2>8 DEF Queue!QueueNext
<1>7. ASSUME NEW th \in Threads, DoStop(th) PROVE Goal
  <2>1. PICK r \in batch[th] : r.runnable = StopTask /\ batch' = [batch EXCEPT ![th] = @ \ {r}]
    BY <1>7 DEF DoStop
  <2>2. UNCHANGED <<now, io_stopped, runable_set_, ticket, runs, finished, cancelled>>
    BY <1>7 DEF DoStop
  <2>3. ASSUME NEW t \in Tasks PROVE PhaseOf(t)' = PhaseOf(t)
    <3>1. (Waiting(t)' <=> Waiting(t)) /\ (Held(t)' <=> Held(t))
      BY <1>0, <2>1, <2>2, TasksAssumption DEF Waiting, Held, TypeOK
    <3> QED  BY <1>c, <2>2, <3>1
  <2> QED  BY <2>2, <2>3
<1>8. ASSUME NEW th \in Threads, ClearSet(th) PROVE Goal
  <2> DEFINE S == {t \in Tasks : Waiting(t)}
  <2>1. /\ runable_set_' = {} /\ io_stopped
        /\ UNCHANGED <<now, io_stopped, batch, ticket, runs, finished, cancelled>>
    BY <1>0, <1>8 DEF ClearSet, Exit
  <2>2. ASSUME NEW t \in S PROVE PhaseOf(t) = "waiting" /\ PhaseOf(t)' = "dropped"
    <3>1. PICK r \in runable_set_ : r.runnable = t
      BY DEF Waiting
    <3>2. runs[t] = 0 /\ t \notin cancelled /\ t \notin finished /\ Accepted(t)
      BY <1>0, <3>1, PendingTasks DEF Pending
    <3>3. ~Waiting(t)' /\ ~Held(t)' /\ Accepted(t)'
      BY <1>b, <2>1, <3>2 DEF Waiting, Held, Accepted
    <3> QED  BY <2>1, <3>2, <3>3 DEF PhaseOf
  <2>3. ASSUME NEW t \in Tasks \ S PROVE PhaseOf(t)' = PhaseOf(t)
    <3>1. (Waiting(t)' <=> Waiting(t)) /\ (Held(t)' <=> Held(t))
      BY <2>1 DEF Waiting, Held
    <3> QED  BY <1>c, <2>1, <3>1
  <2>4. S \in SUBSET Tasks
    OBVIOUS
  <2> HIDE DEF S
  <2>5. Queue!Move(S, "waiting", "dropped")
    BY <2>2, <2>3, <2>4, MoveOf
  <2>6. Queue!Drop(S)
    BY <2>1, <2>5 DEF Queue!Drop
  <2> QED  BY <2>4, <2>6 DEF Queue!QueueNext
<1> QED
  BY <1>0, <1>1, <1>2, <1>3, <1>4, <1>5, <1>6, <1>7, <1>8, StepKinds

(* MessagePumpImpl and MessagePumpDefatlt implement the queue message_pump.h *)
(* promises, for every number of threads: DoWork's two locked sections, the  *)
(* batch it runs outside the lock, Cancel against it, and Run's clear() are  *)
(* the queue's Accept, TakeDue, Start, Finish, Withdraw and Drop.            *)
THEOREM QueueImplemented == Spec => ImplementsQueue
<1>1. Init => Queue!QueueInit
  <2> SUFFICES ASSUME Init PROVE Queue!QueueInit
    OBVIOUS
  <2>1. \A t \in Tasks : /\ ~Waiting(t) /\ ~Held(t) /\ t \notin cancelled /\ t \notin finished
                         /\ ~(runs[t] > 0) /\ ~Accepted(t)
    BY DEF Init, Waiting, Held, Accepted, NoTicket
  <2>2. \A t \in Tasks : PhaseOf(t) = "new"
    BY <2>1, PhaseValues
  <2> QED
    BY <2>2 DEF Init, NoTicket, Queue!QueueInit
<1> QED
  BY <1>1, OrderHolds, QueueStep, PTL DEF Spec, ImplementsQueue, Queue!QueueSpec

==============================================================================
