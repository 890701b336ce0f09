-------------------------------- MODULE Mvvm --------------------------------
(***************************************************************************)
(* The MVVM framework (mvvm/) with the application's main model and view   *)
(* model (app/logic), on the one thread that uses them, the UI thread.     *)
(*                                                                         *)
(* A view makes its view model; a bound view model has a delegate at the   *)
(* main model; both sides hold raw pointers to each other.  A handler may  *)
(* call back into the framework while Model::FireEvent goes over the       *)
(* delegates, so every call is possible between two steps of a FireEvent.  *)
(* A view model has the name of its view: CreateVM is called once.         *)
(***************************************************************************)
EXTENDS Integers, Sequences, FiniteSets

CONSTANTS
    Dialogs,     \* views like CMFCMVVMDlg, which are destroyed without UnBindVM
    Activities,  \* views like ActivityView, which Java unbinds and deletes at once
    MaxId,       \* bound of the subscriptions ever made
    MaxDepth     \* bound of the FireEvents inside each other

Views == Dialogs \cup Activities
Events == {"kEventLogin", "kEventLogout"}

ASSUME BoundsAssumption == MaxId \in Nat /\ MaxDepth \in Nat \ {0}

VARIABLES
    registered,      \* Application::Init has registered the builders
    model,           \* models_ and the delegates of the main model, per event
    s_suscribe_id_,
    view,            \* "none", "made", "bound", "gone"
    vm,              \* [life, ids (subscribe_ids_), told (its delegates), kept]
    fires,           \* the FireEvents in progress, innermost first
    broken           \* a FireEvent has gone on over delegates that changed under it

vars == <<registered, model, s_suscribe_id_, view, vm, fires, broken>>

NoModel == [made |-> FALSE, delegates |-> [e \in Events |-> <<>>]]
NoVM == [life |-> "none", ids |-> {}, told |-> FALSE, kept |-> FALSE]

Init ==
    /\ registered = FALSE /\ model = NoModel /\ s_suscribe_id_ = 0
    /\ view = [v \in Views |-> "none"] /\ vm = [v \in Views |-> NoVM]
    /\ fires = <<>> /\ broken = FALSE

-----------------------------------------------------------------------------
(* Model.                                                                  *)

\* Mutant: the model that was made is not found again.
ModelOfFresh(m) == [NoModel EXCEPT !.made = TRUE]

\* The cache first, else a new model.
ModelOf(m) == IF m.made THEN m ELSE [NoModel EXCEPT !.made = TRUE]

SubscribeEvent(m, e, v, id) == [m EXCEPT !.delegates[e] = Append(@, [id |-> id, vm |-> v])]

\* The delegates that are left when those with the ids are erased.
Without(s, ids) ==
    LET kept[i \in 0 .. Len(s)] ==
          IF i = 0 THEN <<>> ELSE IF s[i].id \in ids THEN kept[i - 1] ELSE Append(kept[i - 1], s[i])
    IN  kept[Len(s)]

\* UnSubscribeEvent for each of the ids.
UnSubscribeEvents(m, ids) == [m EXCEPT !.delegates = [e \in Events |-> Without(m.delegates[e], ids)]]

\* The loop of FireEvent keeps iterators into the vector.
Stale(m) == [i \in DOMAIN fires |-> [fires[i] EXCEPT !.stale = @ \/ m.delegates[fires[i].event] # model.delegates[fires[i].event]]]

-----------------------------------------------------------------------------
(* ViewModel and BaseView.                                                 *)

ApplicationInit ==
    /\ ~registered /\ registered' = TRUE
    /\ UNCHANGED <<model, s_suscribe_id_, view, vm, fires, broken>>

\* The application makes views after Application::Init only: without a builder
\* there would be a null view model, which is used unchecked.
CreateVM(v) ==
    /\ registered /\ view[v] = "none"
    /\ view' = [view EXCEPT ![v] = "made"]
    /\ vm' = [vm EXCEPT ![v] = [NoVM EXCEPT !.life = "live", !.told = TRUE]]
    /\ UNCHANGED <<registered, model, s_suscribe_id_, fires, broken>>

\* NotifyBind and MainViewModel::OnAttach.  Java may bind a view twice.
BindVM(v) ==
    /\ view[v] \in {"made", "bound"} /\ s_suscribe_id_ < MaxId
    /\ view' = [view EXCEPT ![v] = "bound"]
    /\ LET id == s_suscribe_id_ + 1
       IN  /\ s_suscribe_id_' = id
           /\ vm' = [vm EXCEPT ![v].ids = @ \cup {id}]
           /\ model' = SubscribeEvent(ModelOf(model), "kEventLogin", v, id)
           /\ fires' = Stale(model')
    /\ UNCHANGED <<registered, broken>>

\* A handler or a runnable of the view model holds on to it (shared_from_this).  Not
\* that of a dialog: no view model of this application does so, and it would call
\* a dialog that is gone, for a dialog never calls UnBindVM.
Keep(v) ==
    /\ vm[v].life = "live" /\ ~vm[v].kept /\ v \in Activities
    /\ vm' = [vm EXCEPT ![v].kept = TRUE]
    /\ UNCHANGED <<registered, model, s_suscribe_id_, view, fires, broken>>

Dead == [NoVM EXCEPT !.life = "dead"]

\* Mutant: ~ViewModel leaves its delegates at the model.
DestroyViewLeaves(v) ==
    /\ v \in Dialogs /\ view[v] \in {"made", "bound"}
    /\ view' = [view EXCEPT ![v] = "gone"] /\ vm' = [vm EXCEPT ![v] = Dead]
    /\ UNCHANGED <<registered, model, s_suscribe_id_, fires, broken>>

\* The dialog goes, and ~ViewModel with it.
DestroyView(v) ==
    /\ v \in Dialogs /\ view[v] \in {"made", "bound"}
    /\ view' = [view EXCEPT ![v] = "gone"] /\ vm' = [vm EXCEPT ![v] = Dead]
    /\ model' = UnSubscribeEvents(IF vm[v].ids = {} THEN model ELSE ModelOf(model), vm[v].ids)
    /\ fires' = Stale(model')
    /\ UNCHANGED <<registered, s_suscribe_id_, broken>>

\* Mutant: the delegates of the view model stay.
UnBindVMKeeps(v) ==
    /\ v \in Activities /\ view[v] \in {"made", "bound"}
    /\ view' = [view EXCEPT ![v] = "gone"]
    /\ vm' = [vm EXCEPT ![v] = IF @.kept THEN [@ EXCEPT !.ids = {}] ELSE Dead]
    /\ model' = UnSubscribeEvents(IF vm[v].ids = {} THEN model ELSE ModelOf(model), vm[v].ids)
    /\ fires' = Stale(model')
    /\ UNCHANGED <<registered, s_suscribe_id_, broken>>

\* NotifyUnBind, then NativeUnbindViewModel deletes the view.
UnBindVM(v) ==
    /\ v \in Activities /\ view[v] \in {"made", "bound"}
    /\ view' = [view EXCEPT ![v] = "gone"]
    /\ vm' = [vm EXCEPT ![v] = IF @.kept THEN [@ EXCEPT !.told = FALSE, !.ids = {}] ELSE Dead]
    /\ model' = UnSubscribeEvents(IF vm[v].ids = {} THEN model ELSE ModelOf(model), vm[v].ids)
    /\ fires' = Stale(model')
    /\ UNCHANGED <<registered, s_suscribe_id_, broken>>

Release(v) ==
    /\ vm[v].kept
    /\ vm' = [vm EXCEPT ![v] = IF view[v] = "gone" THEN Dead ELSE [@ EXCEPT !.kept = FALSE]]
    /\ UNCHANGED <<registered, model, s_suscribe_id_, view, fires, broken>>

-----------------------------------------------------------------------------
(* Events.                                                                 *)

\* HandleEvent, OnEventFired, Model::Call and MainModel::HandleEvent pass the
\* event on unchanged; FireEvent begins to go over the delegates it has now.  From
\* Java the event comes through the switch of NativeHandleEvent, which knows
\* neither event: an assertion of debug builds, elsewhere passed without a message.
HandleEvent(v, e) ==
    /\ view[v] \in {"made", "bound"} /\ Len(fires) < MaxDepth
    /\ LET m == ModelOf(model)
       IN  /\ model' = m
           /\ fires' = <<[event |-> e, at |-> 1, end |-> Len(m.delegates[e]), stale |-> FALSE,
                          called |-> {}, wanted |-> {w \in Views : view[w] = "bound"}]>> \o fires
    /\ UNCHANGED <<registered, s_suscribe_id_, view, vm, broken>>

\* The next delegate.  Over a vector that has changed the loop calls a delegate
\* that was moved, destroyed or freed: what follows is undefined.
CallDelegate ==
    /\ fires # <<>> /\ fires[1].at <= fires[1].end
    /\ IF fires[1].stale
       THEN broken' = TRUE /\ UNCHANGED fires
       ELSE /\ fires' = [fires EXCEPT ![1].at = @ + 1,
                                      ![1].called = @ \cup {model.delegates[fires[1].event][fires[1].at].vm}]
            /\ UNCHANGED broken
    /\ UNCHANGED <<registered, model, s_suscribe_id_, view, vm>>

FireEnds ==
    /\ fires # <<>> /\ fires[1].at > fires[1].end
    /\ fires' = Tail(fires)
    /\ UNCHANGED <<registered, model, s_suscribe_id_, view, vm, broken>>

Next ==
    /\ ~broken
    /\ \/ ApplicationInit \/ CallDelegate \/ FireEnds
       \/ \E v \in Views :
             \/ CreateVM(v) \/ BindVM(v) \/ UnBindVM(v) \/ DestroyView(v) \/ Keep(v) \/ Release(v)
             \/ \E e \in Events : HandleEvent(v, e)

Spec == Init /\ [][Next]_vars

\* SetProperty and FireEvent of a view model call the delegate that CreateVM gave
\* it, if it has one: a lambda with a raw pointer to the view.
Tells(v) == vm[v].life = "live" /\ vm[v].told

-----------------------------------------------------------------------------
\* A model's delegates and the subscribe_ids_ of the living view models are the
\* same subscriptions: no delegate points to a view model that is gone, and no
\* view model has lost track of one, whatever handlers bind and unbind.
SubscriptionsAgree ==
    {<<d.id, d.vm>> : d \in UNION {{model.delegates[e][i] : i \in DOMAIN model.delegates[e]} : e \in Events}}
        = UNION {{<<id, v>> : id \in vm[v].ids} : v \in {w \in Views : vm[w].life = "live"}}

\* SetProperty and FireEvent of a view model reach a view only while it is there,
\* also when the view model of a Java view keeps itself alive and outlives it.
\* (That of a dialog does not: see Keep.)
ToldViewsExist == \A v \in Views : Tells(v) => view[v] \in {"made", "bound"}

\* A login that any view hands in reaches the view model of every bound view, if
\* no handler has changed the delegates under the loop.
LoginReachesBoundViews ==
    fires # <<>> /\ fires[1].event = "kEventLogin" /\ fires[1].at > fires[1].end /\ ~fires[1].stale =>
        fires[1].wanted \subseteq fires[1].called
=============================================================================
