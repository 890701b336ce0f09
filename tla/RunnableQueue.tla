---------------------------- MODULE RunnableQueue ----------------------------
(***************************************************************************)
(* What a message pump promises the callers of PostRunable and Cancel      *)
(* (message_pump.h), with no thread, timer or lock in sight: an accepted   *)
(* runnable waits, a prefix of the waiting ones that is due is taken, each *)
(* taken one starts and ends once, a waiting one may be cancelled, and     *)
(* waiting ones are thrown away only by a pump that has closed.            *)
(***************************************************************************)
EXTENDS Naturals

CONSTANT Tasks
VARIABLES clock, phase, key, closed

queueVars == <<clock, phase, key, closed>>

Phases == {"new", "waiting", "taken", "started", "done", "cancelled", "dropped"}

\* Earlier expiry first, then earlier insertion.
Before(t, u) ==
    \/ key[t].expired_time < key[u].expired_time
    \/ key[t].expired_time = key[u].expired_time /\ key[t].id < key[u].id

QueueInit ==
    /\ clock \in Nat
    /\ phase = [t \in Tasks |-> "new"]
    /\ key = [t \in Tasks |-> [expired_time |-> 0, id |-> 0]]
    /\ closed = FALSE

Move(S, from, to) ==
    /\ \A t \in S : phase[t] = from
    /\ phase' = [t \in Tasks |-> IF t \in S THEN to ELSE phase[t]]

\* Ids are handed out in the order of insertion.
Accept(t) ==
    /\ Move({t}, "new", "waiting")
    /\ key'[t] \in [expired_time : Nat, id : Nat]
    /\ \A u \in Tasks : key[u].id < key'[t].id
    /\ key' = [key EXCEPT ![t] = key'[t]]
    /\ UNCHANGED <<clock, closed>>

TakeDue(S) ==
    /\ S # {} /\ \A t \in S : key[t].expired_time <= clock
    /\ \A t \in S, u \in Tasks : phase[u] = "waiting" /\ Before(u, t) => u \in S
    /\ Move(S, "waiting", "taken")
    /\ UNCHANGED <<clock, key, closed>>

Start(t) == Move({t}, "taken", "started") /\ UNCHANGED <<clock, key, closed>>
Finish(t) == Move({t}, "started", "done") /\ UNCHANGED <<clock, key, closed>>
Withdraw(t) == Move({t}, "waiting", "cancelled") /\ UNCHANGED <<clock, key, closed>>
Drop(S) == closed /\ Move(S, "waiting", "dropped") /\ UNCHANGED <<clock, key, closed>>
Close == ~closed /\ closed' = TRUE /\ UNCHANGED <<clock, phase, key>>
Advance == clock' \in Nat /\ clock' > clock /\ UNCHANGED <<phase, key, closed>>

QueueNext ==
    \/ Close \/ Advance
    \/ \E t \in Tasks : Accept(t) \/ Start(t) \/ Finish(t) \/ Withdraw(t)
    \/ \E S \in SUBSET Tasks : TakeDue(S) \/ Drop(S)

QueueSpec == QueueInit /\ [][QueueNext]_queueVars
=============================================================================
