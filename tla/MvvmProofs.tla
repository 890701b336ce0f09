------------------------------ MODULE MvvmProofs ------------------------------
(***************************************************************************)
(* Proofs about Mvvm, for any views, any number of subscriptions and any   *)
(* depth of FireEvents inside each other.                                  *)
(***************************************************************************)
EXTENDS Mvvm, SequenceTheorems, WellFoundedInduction, TLAPS

Elems(s) == {s[i] : i \in DOMAIN s}

Delegates == [id : Nat, vm : Views]
Models == [made : BOOLEAN, delegates : [Events -> Seq(Delegates)]]
VMs == [life : {"none", "live", "dead"}, ids : SUBSET Nat, told : BOOLEAN, kept : BOOLEAN]
Fires == [event : Events, at : Nat \ {0}, end : Nat, stale : BOOLEAN,
          called : SUBSET Views, wanted : SUBSET Views]

Typing ==
    /\ model \in Models /\ s_suscribe_id_ \in Nat
    /\ view \in [Views -> {"none", "made", "bound", "gone"}] /\ vm \in [Views -> VMs]
    /\ fires \in Seq(Fires)

\* A model that was not made has no delegates.
Unmade == ~model.made => \A e \in Events : model.delegates[e] = <<>>

\* A view model lives while its view is there; it outlives it only if somebody
\* keeps it, and then without its delegates at the model and at the view.
Lives(v) ==
    /\ view[v] \in {"made", "bound"} => vm[v].life = "live"
    /\ view[v] \in {"none", "gone"} => vm[v].ids = {} /\ ~(vm[v].life = "live" /\ vm[v].told)
    /\ vm[v].life # "live" => vm[v].ids = {}
    /\ vm[v].kept => vm[v].life = "live"
    /\ view[v] = "bound" => vm[v].ids # {}
Lifetimes == \A v \in Views : Lives(v)

\* Ids are given once.
Distinct ==
    /\ \A v \in Views : \A id \in vm[v].ids : id <= s_suscribe_id_
    /\ \A v, w \in Views : v # w => vm[v].ids \cap vm[w].ids = {}

\* The delegates and the subscribe_ids_ agree.
Owned(d) == \A e \in Events : \A x \in Elems(d[e]) : x.id \in vm[x.vm].ids
Listed(d) == \A v \in Views : \A id \in vm[v].ids : [id |-> id, vm |-> v] \in Elems(d["kEventLogin"])
Subscriptions == Owned(model.delegates) /\ Listed(model.delegates)

\* A FireEvent whose vector has not changed has called the delegates before at,
\* and a login has a delegate of every view that was bound when it began.
Called(q, n) == {q[j].vm : j \in 1 .. n}
Faithful(f, d) ==
    f.stale
    \/ /\ f.end = Len(d[f.event]) /\ f.at <= f.end + 1
       /\ f.called = Called(d[f.event], f.at - 1)
       /\ f.event = "kEventLogin" => f.wanted \subseteq Called(d[f.event], f.end)
AllFaithful == \A i \in DOMAIN fires : Faithful(fires[i], model.delegates)

IInv == Typing /\ Unmade /\ Lifetimes /\ Distinct /\ Subscriptions /\ AllFaithful

-----------------------------------------------------------------------------
(* Induction, from the well-foundedness of the natural numbers.            *)

\* A set of natural numbers has a least member.
LEMMA NatLeast ==
    ASSUME NEW T \in SUBSET Nat, T # {}
    PROVE  \E m \in T : \A k \in T : m <= k
  <1> DEFINE Below == OpToRel(<, Nat)
  <1>1. \A x, y \in Nat : <<x, y>> \in Below <=> x < y
    BY DEF OpToRel
  <1>2. PICK m \in T : \A k \in T : ~(<<k, m>> \in Below)
    BY WFMin, NatLessThanWellFounded
  <1> HIDE DEF Below
  <1>3. \A k \in T : ~(k < m)
    BY <1>1, <1>2
  <1>4. \A k \in T : m <= k
    BY <1>3
  <1> QED  BY <1>4

\* A set with 0 and the successors of its members has every natural number.
LEMMA SetInduction ==
    ASSUME NEW S, 0 \in S, \A n \in Nat : n \in S => n + 1 \in S
    PROVE  Nat \subseteq S
  <1> DEFINE T == Nat \ S
  <1> SUFFICES ASSUME T # {} PROVE FALSE
    OBVIOUS
  <1>1. PICK m \in T : \A k \in T : m <= k
    BY NatLeast
  <1>2. m # 0 /\ m - 1 \in Nat
    BY <1>1
  <1>3. m - 1 \in S
    BY <1>1, <1>2
  <1> QED BY <1>1, <1>2, <1>3

-----------------------------------------------------------------------------
(* What Without returns.                                                   *)

\* The equation of the recursive function in Without.
Keeps(g, s, ids, n) ==
    g = [i \in 0 .. n |->
           IF i = 0 THEN <<>> ELSE IF s[i].id \in ids THEN g[i - 1] ELSE Append(g[i - 1], s[i])]

\* The equation has a solution.
LEMMA KeepsExists == ASSUME NEW s, NEW ids, NEW n \in Nat PROVE \E g : Keeps(g, s, ids, n)
  <1> DEFINE S == {k \in Nat : \E g : Keeps(g, s, ids, k)}
  <1>1. 0 \in S
    <2> DEFINE g == [i \in 0 .. 0 |-> <<>>]
    <2>1. Keeps(g, s, ids, 0)
      BY DEF Keeps
    <2> QED  BY <2>1
  <1>2. ASSUME NEW k \in Nat, k \in S PROVE k + 1 \in S
    <2>1. PICK h : Keeps(h, s, ids, k)
      BY <1>2
    <2> DEFINE step == IF s[k + 1].id \in ids THEN h[k] ELSE Append(h[k], s[k + 1])
               g == [i \in 0 .. k + 1 |-> IF i = k + 1 THEN step ELSE h[i]]
               f == [i \in 0 .. k + 1 |->
                      IF i = 0 THEN <<>> ELSE IF s[i].id \in ids THEN g[i - 1] ELSE Append(g[i - 1], s[i])]
    <2>2. ASSUME NEW i \in 0 .. k + 1 PROVE g[i] = f[i]
      <3>1. CASE i = k + 1
        <4>1. g[i] = step /\ g[i - 1] = h[k]
          BY <3>1
        <4>2. f[i] = IF s[i].id \in ids THEN g[i - 1] ELSE Append(g[i - 1], s[i])
          BY <3>1
        <4> HIDE DEF g, f
        <4> QED  BY <3>1, <4>1, <4>2
      <3>2. CASE i # k + 1
        <4>1. i \in 0 .. k /\ g[i] = h[i] /\ (i # 0 => i - 1 \in 0 .. k + 1 /\ g[i - 1] = h[i - 1])
          BY <3>2
        <4>2. h[i] = IF i = 0 THEN <<>> ELSE IF s[i].id \in ids THEN h[i - 1] ELSE Append(h[i - 1], s[i])
          BY <2>1, <4>1 DEF Keeps
        <4>3. f[i] = IF i = 0 THEN <<>> ELSE IF s[i].id \in ids THEN g[i - 1] ELSE Append(g[i - 1], s[i])
          OBVIOUS
        <4> HIDE DEF g, f
        <4> QED  BY <4>1, <4>2, <4>3
      <3> QED  BY <3>1, <3>2
    <2>3. g = f
      BY <2>2
    <2>4. Keeps(g, s, ids, k + 1)
      BY <2>3 DEF Keeps
    <2> QED  BY <2>4
  <1> HIDE DEF S
  <1>3. n \in S
    BY <1>1, <1>2, SetInduction
  <1> QED  BY <1>3 DEF S

\* Append adds one element.
LEMMA AppendElems ==
    ASSUME NEW D, NEW q \in Seq(D), NEW x \in D
    PROVE  Append(q, x) \in Seq(D) /\ Elems(Append(q, x)) = Elems(q) \cup {x}
  <1>1. /\ Append(q, x) \in Seq(D) /\ DOMAIN Append(q, x) = 1 .. Len(q) + 1
        /\ \A i \in 1 .. Len(q) : Append(q, x)[i] = q[i]
        /\ Append(q, x)[Len(q) + 1] = x /\ Len(q) \in Nat /\ DOMAIN q = 1 .. Len(q)
    BY AppendProperties, LenProperties
  <1>2. ASSUME NEW y PROVE y \in Elems(Append(q, x)) <=> y \in Elems(q) \cup {x}
    <2>1. y \in Elems(Append(q, x)) <=> \E i \in 1 .. Len(q) + 1 : Append(q, x)[i] = y
      BY <1>1 DEF Elems
    <2>2. y \in Elems(q) <=> \E i \in 1 .. Len(q) : q[i] = y
      BY <1>1 DEF Elems
    <2> QED  BY <1>1, <2>1, <2>2
  <1> QED  BY <1>1, <1>2

\* Without keeps the delegates with other ids, and nothing else.
LEMMA WithoutElems ==
    ASSUME NEW D, NEW s \in Seq(D), NEW ids
    PROVE  Without(s, ids) \in Seq(D) /\ Elems(Without(s, ids)) = {d \in Elems(s) : d.id \notin ids}
  <1> DEFINE n == Len(s)
             g == CHOOSE h : Keeps(h, s, ids, n)
             P(k) == {s[j] : j \in {i \in 1 .. k : s[i].id \notin ids}}
             S == {k \in Nat : k <= n => g[k] \in Seq(D) /\ Elems(g[k]) = P(k)}
  <1>0. n \in Nat /\ DOMAIN s = 1 .. n /\ \A i \in 1 .. n : s[i] \in D
    BY LenProperties, ElementOfSeq
  <1>1. Without(s, ids) = g[n]
    BY DEF Without, Keeps
  <1>2. Keeps(g, s, ids, n)
    BY <1>0, KeepsExists
  <1> HIDE DEF n, g
  <1>3. 0 \in S
    <2>1. g[0] = <<>>
      BY <1>0, <1>2 DEF Keeps
    <2>2. Elems(<<>>) = {} /\ P(0) = {}
      BY DEF Elems
    <2>3. g[0] \in Seq(D) /\ Elems(g[0]) = P(0)
      BY <2>1, <2>2
    <2> QED  BY <2>3
  <1>4. ASSUME NEW k \in Nat, k \in S PROVE k + 1 \in S
    <2> SUFFICES ASSUME k + 1 <= n PROVE g[k + 1] \in Seq(D) /\ Elems(g[k + 1]) = P(k + 1)
      OBVIOUS
    <2>1. g[k] \in Seq(D) /\ Elems(g[k]) = P(k)
      BY <1>0, <1>4
    <2>2. g[k + 1] = IF s[k + 1].id \in ids THEN g[k] ELSE Append(g[k], s[k + 1])
      <3>1. k + 1 \in 0 .. n /\ k + 1 # 0 /\ (k + 1) - 1 = k
        BY <1>0
      <3>2. g[k + 1] = IF s[k + 1].id \in ids THEN g[(k + 1) - 1] ELSE Append(g[(k + 1) - 1], s[k + 1])
        BY <1>2, <3>1 DEF Keeps
      <3> QED  BY <3>1, <3>2
    <2>3. s[k + 1] \in D
      BY <1>0
    <2>4. CASE s[k + 1].id \in ids
      <3>1. P(k + 1) = P(k)
        BY <2>4, <1>0
      <3> QED  BY <2>1, <2>2, <2>4, <3>1
    <2>5. CASE s[k + 1].id \notin ids
      <3>1. P(k + 1) = P(k) \cup {s[k + 1]}
        BY <2>5, <1>0
      <3> DEFINE q == g[k]
                 x == s[k + 1]
      <3>2. Append(q, x) \in Seq(D) /\ Elems(Append(q, x)) = Elems(q) \cup {x}
        BY <2>1, <2>3, AppendElems
      <3> QED  BY <2>1, <2>2, <2>5, <3>1, <3>2
    <2> QED  BY <2>4, <2>5
  <1>5. n \in S
    <2> HIDE DEF S
    <2> QED  BY <1>0, <1>3, <1>4, SetInduction
  <1>6. g[n] \in Seq(D) /\ Elems(g[n]) = P(n)
    BY <1>0, <1>5
  <1>7. P(n) = {d \in Elems(s) : d.id \notin ids}
    BY <1>0 DEF Elems
  <1> QED  BY <1>1, <1>6, <1>7
-----------------------------------------------------------------------------
(* The functions of the model.                                             *)

\* The elements of a sequence over D are in D.
LEMMA ElemsTyped == ASSUME NEW D, NEW s \in Seq(D) PROVE Elems(s) \subseteq D
  BY LenProperties, ElementOfSeq DEF Elems

\* A sequence without elements is empty.
LEMMA NoElems == ASSUME NEW D, NEW s \in Seq(D), Elems(s) = {} PROVE s = <<>>
  <1>1. DOMAIN s = 1 .. Len(s) /\ Len(s) \in Nat
    BY LenProperties
  <1>2. ~(1 \in 1 .. Len(s))
    BY <1>1 DEF Elems
  <1> QED  BY <1>1, <1>2, EmptySeq

\* The model that is found is the one that was made.
LEMMA ModelOfSame ==
    ASSUME Typing, Unmade
    PROVE  ModelOf(model) \in Models /\ ModelOf(model).made /\ ModelOf(model).delegates = model.delegates
  <1>1. CASE model.made
    BY <1>1 DEF Typing, ModelOf
  <1>2. CASE ~model.made
    <2> DEFINE none == [e \in Events |-> <<>>]
    <2>1. none \in [Events -> Seq(Delegates)]
      OBVIOUS
    <2>2. model.delegates = none
      <3>1. model.delegates \in [Events -> Seq(Delegates)]
        BY DEF Typing, Models
      <3> QED  BY <1>2, <3>1 DEF Unmade
    <2>3. ModelOf(model) = [made |-> TRUE, delegates |-> none]
      BY <1>2 DEF ModelOf, NoModel
    <2> HIDE DEF none
    <2> QED  BY <2>1, <2>2, <2>3 DEF Models
  <1> QED  BY <1>1, <1>2

\* SubscribeEvent adds one delegate to the list of one event.
LEMMA SubscribeEffect ==
    ASSUME NEW m \in Models, NEW e \in Events, NEW v \in Views, NEW id \in Nat
    PROVE  LET n == SubscribeEvent(m, e, v, id)
           IN  /\ n \in Models /\ n.made = m.made
               /\ Elems(n.delegates[e]) = Elems(m.delegates[e]) \cup {[id |-> id, vm |-> v]}
               /\ \A f \in Events \ {e} : n.delegates[f] = m.delegates[f]
  <1> DEFINE x == [id |-> id, vm |-> v]
             d == m.delegates
             q == Append(d[e], x)
             n == SubscribeEvent(m, e, v, id)
  <1>1. x \in Delegates /\ d \in [Events -> Seq(Delegates)] /\ m.made \in BOOLEAN
    BY DEF Delegates, Models
  <1>2. n = [made |-> m.made, delegates |-> [d EXCEPT ![e] = q]]
    <2>1. m = [made |-> m.made, delegates |-> d]
      BY DEF Models
    <2>2. n = [m EXCEPT !.delegates[e] = q]
      BY DEF SubscribeEvent
    <2> HIDE DEF n, q
    <2> QED  BY <2>1, <2>2
  <1>3. d[e] \in Seq(Delegates)
    BY <1>1
  <1> HIDE DEF x, d, n
  <1>4. q \in Seq(Delegates) /\ Elems(q) = Elems(d[e]) \cup {x}
    BY <1>1, <1>3, AppendElems
  <1> HIDE DEF q
  <1>5. n \in Models /\ n.made = m.made /\ n.delegates[e] = q /\ \A f \in Events \ {e} : n.delegates[f] = d[f]
    BY <1>1, <1>2, <1>4 DEF Models
  <1> QED  BY <1>4, <1>5 DEF n, d, x

\* UnSubscribeEvent removes the delegates with the ids, from every event.
LEMMA UnSubscribeEffect ==
    ASSUME NEW m \in Models, NEW ids
    PROVE  LET n == UnSubscribeEvents(m, ids)
           IN  /\ n \in Models /\ n.made = m.made
               /\ \A e \in Events : Elems(n.delegates[e]) = {x \in Elems(m.delegates[e]) : x.id \notin ids}
  <1> DEFINE d == m.delegates
             q == [e \in Events |-> Without(d[e], ids)]
             n == UnSubscribeEvents(m, ids)
  <1>1. d \in [Events -> Seq(Delegates)] /\ m.made \in BOOLEAN
    BY DEF Models
  <1>2. n = [made |-> m.made, delegates |-> q]
    BY DEF UnSubscribeEvents, Models
  <1> HIDE DEF d, n
  <1>3. \A e \in Events : /\ Without(d[e], ids) \in Seq(Delegates)
                          /\ Elems(Without(d[e], ids)) = {x \in Elems(d[e]) : x.id \notin ids}
    BY <1>1, WithoutElems
  <1>4. q \in [Events -> Seq(Delegates)] /\ \A e \in Events : q[e] = Without(d[e], ids)
    BY <1>3
  <1> HIDE DEF q
  <1>5. n \in Models /\ n.made = m.made /\ n.delegates = q
    BY <1>1, <1>2, <1>4 DEF Models
  <1>6. \A e \in Events : Elems(n.delegates[e]) = {x \in Elems(d[e]) : x.id \notin ids}
    BY <1>3, <1>4, <1>5
  <1> QED  BY <1>5, <1>6 DEF n, d

\* A FireEvent notices every change of its vector.
LEMMA StaleFaithful ==
    ASSUME Typing, AllFaithful, NEW m \in Models, model' = m, fires' = Stale(m)
    PROVE  fires' \in Seq(Fires) /\ AllFaithful'
  <1>1. /\ fires \in Seq(Fires) /\ Len(fires) \in Nat /\ DOMAIN fires = 1 .. Len(fires)
        /\ \A i \in DOMAIN fires : fires[i] \in Fires
    BY LenProperties, ElementOfSeq DEF Typing
  <1> DEFINE changed(i) == m.delegates[fires[i].event] # model.delegates[fires[i].event]
             s(i) == fires[i].stale \/ changed(i)
  <1>2. DOMAIN fires' = 1 .. Len(fires)
    BY <1>1 DEF Stale
  <1>3. ASSUME NEW i \in DOMAIN fires PROVE fires'[i] \in Fires /\ Faithful(fires'[i], m.delegates)
    <2> DEFINE f == fires[i]
               g == fires'[i]
    <2>1. g = [f EXCEPT !.stale = f.stale \/ changed(i)]
      BY <1>3 DEF Stale
    <2>2. f \in Fires /\ Faithful(f, model.delegates)
      BY <1>1 DEF AllFaithful
    <2>3. s(i) \in BOOLEAN /\ (s(i) \/ (~f.stale /\ m.delegates[f.event] = model.delegates[f.event]))
      OBVIOUS
    <2>4. g = [f EXCEPT !.stale = s(i)]
      BY <2>1
    <2> HIDE DEF f, g, s
    <2>5. /\ g \in Fires /\ g.stale = s(i) /\ g.event = f.event /\ g.at = f.at /\ g.end = f.end
          /\ g.called = f.called /\ g.wanted = f.wanted
      BY <2>2, <2>3, <2>4 DEF Fires
    <2>6. Faithful(g, m.delegates)
      <3>1. CASE s(i)
        BY <3>1, <2>5 DEF Faithful
      <3>2. CASE ~f.stale /\ m.delegates[f.event] = model.delegates[f.event]
        BY <3>2, <2>2, <2>5 DEF Faithful
      <3> QED  BY <2>3, <3>1, <3>2
    <2> QED  BY <2>5, <2>6 DEF g
  <1>4. fires' \in Seq(Fires)
    <2>1. fires' = [i \in 1 .. Len(fires) |-> fires'[i]]
      BY <1>1 DEF Stale
    <2>2. \A i \in 1 .. Len(fires) : fires'[i] \in Fires
      BY <1>1, <1>3
    <2> QED  BY <1>1, <2>1, <2>2, IsASeq
  <1>5. AllFaithful'
    BY <1>1, <1>2, <1>3 DEF AllFaithful
  <1> QED  BY <1>4, <1>5
-----------------------------------------------------------------------------
(* The invariant, action by action.                                        *)

\* Before the first view exists the invariant holds.
LEMMA InitIInv == Init => IInv
  <1> SUFFICES ASSUME Init PROVE IInv
    OBVIOUS
  <1> DEFINE none == [e \in Events |-> <<>>]
  <1>1. none \in [Events -> Seq(Delegates)] /\ \A e \in Events : none[e] = <<>>
    OBVIOUS
  <1>2. model = [made |-> FALSE, delegates |-> none]
    BY DEF Init, NoModel
  <1> HIDE DEF none
  <1>3. model \in Models /\ model.delegates = none
    BY <1>1, <1>2 DEF Models
  <1>4. NoVM \in VMs /\ NoVM.ids = {} /\ NoVM.life = "none" /\ ~NoVM.kept
    BY DEF NoVM, VMs
  <1>5. Typing
    BY <1>3, <1>4 DEF Init, Typing
  <1>6. Unmade
    BY <1>1, <1>3 DEF Unmade
  <1>7. Lifetimes /\ Distinct
    BY <1>4 DEF Init, Lifetimes, Lives, Distinct
  <1>8. Subscriptions
    <2>1. \A e \in Events : Elems(none[e]) = {}
      BY <1>1 DEF Elems
    <2> QED  BY <1>3, <1>4, <2>1 DEF Subscriptions, Owned, Listed, Init
  <1>9. AllFaithful
    BY DEF Init, AllFaithful
  <1> QED  BY <1>5, <1>6, <1>7, <1>8, <1>9 DEF IInv

\* A step of one view: what it does to the others.
Local(v, a, x) == view' = [view EXCEPT ![v] = a] /\ vm' = [vm EXCEPT ![v] = x]

\* A step of one view changes that view and its view model only.
LEMMA LocalEffect ==
    ASSUME Typing, NEW v \in Views, NEW a \in {"none", "made", "bound", "gone"}, NEW x \in VMs, Local(v, a, x)
    PROVE  /\ view' \in [Views -> {"none", "made", "bound", "gone"}] /\ vm' \in [Views -> VMs]
           /\ view'[v] = a /\ vm'[v] = x
           /\ \A w \in Views \ {v} : view'[w] = view[w] /\ vm'[w] = vm[w]
  BY DEF Typing, Local

\* A step of one view that leaves the subscriptions alone.
LEMMA FramedInductive ==
    ASSUME IInv, NEW v \in Views, NEW a \in {"none", "made", "bound", "gone"}, NEW x \in VMs, Local(v, a, x),
           x.ids = vm[v].ids, Lives(v)', UNCHANGED <<model, s_suscribe_id_, fires>>
    PROVE  IInv'
  <1>1. /\ view' \in [Views -> {"none", "made", "bound", "gone"}] /\ vm' \in [Views -> VMs]
        /\ vm'[v] = x /\ \A w \in Views \ {v} : view'[w] = view[w] /\ vm'[w] = vm[w]
    BY LocalEffect DEF IInv
  <1>2. \A w \in Views : vm'[w].ids = vm[w].ids
    BY <1>1
  <1>3. Typing'
    BY <1>1 DEF IInv, Typing
  <1>4. Unmade'
    BY DEF IInv, Unmade
  <1>5. Lifetimes'
    <2>1. ASSUME NEW w \in Views, w # v PROVE Lives(w)'
      BY <1>1, <2>1 DEF IInv, Lifetimes, Lives
    <2> QED  BY <2>1 DEF Lifetimes
  <1>6. Distinct'
    BY <1>2 DEF IInv, Distinct
  <1>7. Subscriptions'
    <2>1. \A e \in Events : \A y \in Elems(model.delegates[e]) : y.vm \in Views
      <3>1. \A e \in Events : model.delegates[e] \in Seq(Delegates)
        BY DEF IInv, Typing, Models
      <3> QED  BY <3>1, ElemsTyped DEF Delegates
    <2>2. Owned(model.delegates)'
      BY <1>2, <2>1 DEF IInv, Subscriptions, Owned
    <2>3. Listed(model.delegates)'
      BY <1>2 DEF IInv, Subscriptions, Listed
    <2> QED  BY <2>2, <2>3 DEF Subscriptions
  <1>8. AllFaithful'
    BY DEF IInv, AllFaithful
  <1> QED  BY <1>3, <1>4, <1>5, <1>6, <1>7, <1>8 DEF IInv

\* A new view model has no subscription.
LEMMA CreateVMInductive == ASSUME IInv, NEW v \in Views, CreateVM(v) PROVE IInv'
  <1> DEFINE x == [NoVM EXCEPT !.life = "live", !.told = TRUE]
  <1>1. x \in VMs /\ x.ids = {} /\ x.life = "live" /\ ~x.kept
    BY DEF NoVM, VMs
  <1>2. vm[v].ids = {}
    BY DEF IInv, Lifetimes, Lives, CreateVM
  <1>3. Local(v, "made", x)
    BY DEF CreateVM, Local
  <1> HIDE DEF x
  <1>4. view'[v] = "made" /\ vm'[v] = x
    BY <1>1, <1>3, LocalEffect DEF IInv
  <1>5. Lives(v)'
    BY <1>1, <1>4 DEF Lives
  <1> QED  BY <1>1, <1>2, <1>3, <1>5, FramedInductive DEF CreateVM

\* Keeping a reference to the view model changes no subscription.
LEMMA KeepInductive == ASSUME IInv, NEW v \in Views, Keep(v) PROVE IInv'
  <1> DEFINE x == [vm[v] EXCEPT !.kept = TRUE]
  <1>0. vm[v] \in VMs /\ view[v] \in {"none", "made", "bound", "gone"}
    BY DEF IInv, Typing
  <1>1. x \in VMs /\ x.ids = vm[v].ids /\ x.life = vm[v].life /\ x.told = vm[v].told
    BY <1>0 DEF VMs
  <1>2. Local(v, view[v], x)
    BY DEF IInv, Typing, Keep, Local
  <1> HIDE DEF x
  <1>4. view'[v] = view[v] /\ vm'[v] = x
    BY <1>0, <1>1, <1>2, LocalEffect DEF IInv
  <1>5. Lives(v)'
    BY <1>1, <1>4 DEF Lives, Keep, IInv, Lifetimes
  <1> QED  BY <1>0, <1>1, <1>2, <1>5, FramedInductive DEF Keep

\* A view model that outlived its view has no delegates left when it goes.
LEMMA ReleaseInductive == ASSUME IInv, NEW v \in Views, Release(v) PROVE IInv'
  <1> DEFINE x == IF view[v] = "gone" THEN Dead ELSE [vm[v] EXCEPT !.kept = FALSE]
  <1>0. vm[v] \in VMs /\ view[v] \in {"none", "made", "bound", "gone"} /\ Lives(v)
    BY DEF IInv, Typing, Lifetimes
  <1>1. /\ x \in VMs /\ x.ids = vm[v].ids /\ ~x.kept
        /\ view[v] # "gone" => x.life = vm[v].life /\ x.told = vm[v].told
        /\ view[v] = "gone" => x.life = "dead"
    <2>1. CASE view[v] = "gone"
      BY <1>0, <2>1 DEF VMs, Dead, NoVM, Lives
    <2>2. CASE view[v] # "gone"
      BY <1>0, <2>2 DEF VMs
    <2> QED  BY <2>1, <2>2
  <1>2. Local(v, view[v], x)
    BY DEF IInv, Typing, Release, Local
  <1> HIDE DEF x
  <1>4. view'[v] = view[v] /\ vm'[v] = x
    BY <1>0, <1>1, <1>2, LocalEffect DEF IInv
  <1>5. Lives(v)'
    BY <1>0, <1>1, <1>4 DEF Lives
  <1> QED  BY <1>0, <1>1, <1>2, <1>5, FramedInductive DEF Release
\* A view that goes takes its own delegates, and those only, with it.
LEMMA DropInductive ==
    ASSUME IInv, NEW v \in Views, NEW x \in VMs, Local(v, "gone", x), x.ids = {},
           x.kept => x.life = "live", ~(x.life = "live" /\ x.told),
           model' = UnSubscribeEvents(IF vm[v].ids = {} THEN model ELSE ModelOf(model), vm[v].ids),
           fires' = Stale(model'), UNCHANGED s_suscribe_id_
    PROVE  IInv'
  <1> DEFINE m == IF vm[v].ids = {} THEN model ELSE ModelOf(model)
             d == model.delegates
             n == UnSubscribeEvents(m, vm[v].ids)
  <1>1. m \in Models /\ m.delegates = d /\ (~m.made => ~model.made)
    BY ModelOfSame DEF IInv, Typing
  <1>2. model' = n
    OBVIOUS
  <1> HIDE DEF m
  <1>3. /\ n \in Models /\ n.made = m.made
        /\ \A e \in Events : Elems(n.delegates[e]) = {y \in Elems(d[e]) : y.id \notin vm[v].ids}
    BY <1>1, UnSubscribeEffect
  <1> HIDE DEF n
  <1>4. /\ view' \in [Views -> {"none", "made", "bound", "gone"}] /\ vm' \in [Views -> VMs]
        /\ view'[v] = "gone" /\ vm'[v] = x /\ \A w \in Views \ {v} : view'[w] = view[w] /\ vm'[w] = vm[w]
    BY LocalEffect DEF IInv
  <1>5. fires' \in Seq(Fires) /\ AllFaithful'
    BY <1>2, <1>3, StaleFaithful DEF IInv
  <1>6. Typing'
    BY <1>2, <1>3, <1>4, <1>5 DEF IInv, Typing
  <1>7. Unmade'
    <2> SUFFICES ASSUME ~n.made, NEW e \in Events PROVE n.delegates[e] = <<>>
      BY <1>2 DEF Unmade
    <2>1. d[e] = <<>>
      BY <1>1, <1>3 DEF IInv, Unmade
    <2>2. Elems(n.delegates[e]) = {}
      BY <1>3, <2>1 DEF Elems
    <2>3. n.delegates[e] \in Seq(Delegates)
      BY <1>3 DEF Models
    <2> QED  BY <2>2, <2>3, NoElems
  <1>8. Lifetimes'
    <2>1. Lives(v)'
      BY <1>4 DEF Lives
    <2>2. ASSUME NEW w \in Views, w # v PROVE Lives(w)'
      BY <1>4, <2>2 DEF IInv, Lifetimes, Lives
    <2> QED  BY <2>1, <2>2 DEF Lifetimes
  <1>9. Distinct'
    <2>1. \A w \in Views : vm'[w].ids \subseteq vm[w].ids
      BY <1>4
    <2> QED  BY <2>1 DEF IInv, Distinct
  <1>10. Owned(model.delegates)'
    <2> SUFFICES ASSUME NEW e \in Events, NEW y \in Elems(n.delegates[e]) PROVE y.id \in vm'[y.vm].ids
      BY <1>2 DEF Owned
    <2>1. y \in Elems(d[e]) /\ y.id \notin vm[v].ids
      BY <1>3
    <2>2. y.vm \in Views
      <3>1. d[e] \in Seq(Delegates)
        BY DEF IInv, Typing, Models
      <3> QED  BY <2>1, <3>1, ElemsTyped DEF Delegates
    <2>3. y.id \in vm[y.vm].ids
      BY <2>1 DEF IInv, Subscriptions, Owned
    <2> QED  BY <1>4, <2>1, <2>2, <2>3
  <1>11. Listed(model.delegates)'
    <2> SUFFICES ASSUME NEW w \in Views, NEW id \in vm'[w].ids
                 PROVE  [id |-> id, vm |-> w] \in Elems(n.delegates["kEventLogin"])
      BY <1>2 DEF Listed
    <2>1. w # v /\ id \in vm[w].ids
      BY <1>4
    <2>2. id \notin vm[v].ids
      BY <2>1 DEF IInv, Distinct
    <2>3. [id |-> id, vm |-> w] \in Elems(d["kEventLogin"])
      BY <2>1 DEF IInv, Subscriptions, Listed
    <2> QED  BY <1>3, <2>2, <2>3 DEF Events
  <1> QED  BY <1>5, <1>6, <1>7, <1>8, <1>9, <1>10, <1>11 DEF IInv, Subscriptions

\* A dialog takes its view model and its delegates with it.
LEMMA DestroyViewInductive == ASSUME IInv, NEW v \in Views, DestroyView(v) PROVE IInv'
  <1>1. Dead \in VMs /\ Dead.ids = {} /\ ~Dead.kept /\ Dead.life = "dead"
    BY DEF Dead, NoVM, VMs
  <1>2. Local(v, "gone", Dead)
    BY DEF DestroyView, Local
  <1> QED  BY <1>1, <1>2, DropInductive DEF DestroyView

\* Unbinding takes the delegates of the view model out of the model.
LEMMA UnBindVMInductive == ASSUME IInv, NEW v \in Views, UnBindVM(v) PROVE IInv'
  <1> DEFINE x == IF vm[v].kept THEN [vm[v] EXCEPT !.told = FALSE, !.ids = {}] ELSE Dead
  <1>0. vm[v] \in VMs /\ (vm[v].kept => vm[v].life = "live")
    BY DEF IInv, Typing, Lifetimes, Lives
  <1>1. x \in VMs /\ x.ids = {} /\ (x.kept => x.life = "live") /\ ~(x.life = "live" /\ x.told)
    <2>1. CASE vm[v].kept
      BY <1>0, <2>1 DEF VMs
    <2>2. CASE ~vm[v].kept
      BY <2>2 DEF Dead, NoVM, VMs
    <2> QED  BY <2>1, <2>2
  <1>2. Local(v, "gone", x)
    BY DEF UnBindVM, Local
  <1> HIDE DEF x
  <1> QED  BY <1>1, <1>2, DropInductive DEF UnBindVM

\* Binding gives every subscription an id that no delegate has.
LEMMA BindVMInductive == ASSUME IInv, NEW v \in Views, BindVM(v) PROVE IInv'
  <1> DEFINE id == s_suscribe_id_ + 1
             x == [vm[v] EXCEPT !.ids = @ \cup {id}]
             m == ModelOf(model)
             d == model.delegates
             n == SubscribeEvent(m, "kEventLogin", v, id)
             new == [id |-> id, vm |-> v]
  <1>0. s_suscribe_id_ \in Nat /\ id \in Nat /\ id > s_suscribe_id_ /\ vm[v] \in VMs /\ vm[v].life = "live"
    BY DEF IInv, Typing, Lifetimes, Lives, BindVM
  <1>1. model' = n /\ fires' = Stale(n) /\ s_suscribe_id_' = id
    BY DEF BindVM
  <1>2. /\ x \in VMs /\ x.ids = vm[v].ids \cup {id} /\ x.life = vm[v].life /\ x.kept = vm[v].kept
    <2> DEFINE ids == vm[v].ids \cup {id}
    <2>1. ids \in SUBSET Nat
      BY <1>0 DEF VMs
    <2>2. x = [vm[v] EXCEPT !.ids = ids]
      OBVIOUS
    <2> HIDE DEF ids, x, id
    <2>3. x \in VMs /\ x.ids = ids /\ x.life = vm[v].life /\ x.kept = vm[v].kept
      BY <1>0, <2>1, <2>2 DEF VMs
    <2> QED  BY <2>3 DEF ids
  <1>3. Local(v, "bound", x)
    BY DEF BindVM, Local
  <1>4. m \in Models /\ m.delegates = d /\ m.made
    BY ModelOfSame DEF IInv
  <1> HIDE DEF id, x, m
  <1>5. /\ n \in Models /\ n.made = m.made
        /\ Elems(n.delegates["kEventLogin"]) = Elems(d["kEventLogin"]) \cup {new}
        /\ \A f \in Events \ {"kEventLogin"} : n.delegates[f] = d[f]
    <2>1. "kEventLogin" \in Events
      BY DEF Events
    <2>2. /\ n \in Models /\ n.made = m.made
          /\ Elems(n.delegates["kEventLogin"]) = Elems(m.delegates["kEventLogin"]) \cup {new}
          /\ \A f \in Events \ {"kEventLogin"} : n.delegates[f] = m.delegates[f]
      BY <1>0, <1>4, <2>1, SubscribeEffect
    <2> HIDE DEF n, new
    <2> QED  BY <1>4, <2>2
  <1> HIDE DEF n
  <1>6. /\ view' \in [Views -> {"none", "made", "bound", "gone"}] /\ vm' \in [Views -> VMs]
        /\ view'[v] = "bound" /\ vm'[v] = x /\ \A w \in Views \ {v} : view'[w] = view[w] /\ vm'[w] = vm[w]
    BY <1>2, <1>3, LocalEffect DEF IInv
  <1>7. fires' \in Seq(Fires) /\ AllFaithful'
    BY <1>1, <1>5, StaleFaithful DEF IInv
  <1>8. Typing'
    BY <1>0, <1>1, <1>5, <1>6, <1>7 DEF Typing
  <1>9. Unmade'
    BY <1>1, <1>4, <1>5 DEF Unmade
  <1>10. Lifetimes'
    <2>1. Lives(v)'
      BY <1>0, <1>2, <1>6 DEF Lives
    <2>2. ASSUME NEW w \in Views, w # v PROVE Lives(w)'
      BY <1>6, <2>2 DEF IInv, Lifetimes, Lives
    <2> QED  BY <2>1, <2>2 DEF Lifetimes
  <1>11. Distinct'
    <2>1. \A w \in Views : \A k \in vm[w].ids : k \in Nat /\ k <= s_suscribe_id_
      BY DEF IInv, Typing, VMs, Distinct
    <2>2. \A w \in Views : id \notin vm[w].ids
      BY <1>0, <2>1
    <2>3. \A w \in Views : \A k \in vm'[w].ids : k <= id
      BY <1>0, <1>2, <1>6, <2>1
    <2>4. \A w \in Views \ {v} : vm'[w].ids = vm[w].ids
      BY <1>6
    <2>5. \A w, u \in Views : w # u => vm'[w].ids \cap vm'[u].ids = {}
      BY <1>2, <1>6, <2>2, <2>4 DEF IInv, Distinct
    <2> QED  BY <1>1, <2>3, <2>5 DEF Distinct
  <1>12. Owned(model.delegates)'
    <2> SUFFICES ASSUME NEW e \in Events, NEW y \in Elems(n.delegates[e]) PROVE y.id \in vm'[y.vm].ids
      BY <1>1 DEF Owned
    <2>1. y \in Elems(d[e]) \/ y = new
      BY <1>5
    <2>2. CASE y = new
      BY <2>2, <1>2, <1>6
    <2>3. CASE y \in Elems(d[e])
      <3>1. y.vm \in Views
        <4>1. d[e] \in Seq(Delegates)
          BY DEF IInv, Typing, Models
        <4> QED  BY <2>3, <4>1, ElemsTyped DEF Delegates
      <3>2. y.id \in vm[y.vm].ids
        BY <2>3 DEF IInv, Subscriptions, Owned
      <3> QED  BY <1>2, <1>6, <3>1, <3>2
    <2> QED  BY <2>1, <2>2, <2>3
  <1>13. Listed(model.delegates)'
    <2> SUFFICES ASSUME NEW w \in Views, NEW k \in vm'[w].ids
                 PROVE  [id |-> k, vm |-> w] \in Elems(n.delegates["kEventLogin"])
      BY <1>1 DEF Listed
    <2>1. k \in vm[w].ids \/ (w = v /\ k = id)
      BY <1>2, <1>6
    <2>2. CASE k \in vm[w].ids
      BY <1>5, <2>2 DEF IInv, Subscriptions, Listed
    <2> QED  BY <1>5, <2>1, <2>2
  <1> QED  BY <1>7, <1>8, <1>9, <1>10, <1>11, <1>12, <1>13 DEF IInv, Subscriptions
\* A step that leaves the views alone and the delegates as they are.
LEMMA FiresInductive ==
    ASSUME IInv, model' \in Models, model'.delegates = model.delegates, Unmade',
           fires' \in Seq(Fires), AllFaithful', UNCHANGED <<s_suscribe_id_, view, vm>>
    PROVE  IInv'
  <1>1. Typing'
    BY DEF IInv, Typing
  <1>2. Lifetimes' /\ Distinct'
    BY DEF IInv, Lifetimes, Lives, Distinct
  <1>3. Subscriptions'
    BY DEF IInv, Subscriptions, Owned, Listed
  <1> QED  BY <1>1, <1>2, <1>3 DEF IInv

\* A fire begins with all the delegates its event has now still to be called.
LEMMA HandleEventInductive == ASSUME IInv, NEW v \in Views, NEW e \in Events, HandleEvent(v, e) PROVE IInv'
  <1> DEFINE m == ModelOf(model)
             d == model.delegates
             bound == {w \in Views : view[w] = "bound"}
             f == [event |-> e, at |-> 1, end |-> Len(m.delegates[e]), stale |-> FALSE,
                   called |-> {}, wanted |-> bound]
  <1>1. m \in Models /\ m.delegates = d /\ m.made
    BY ModelOfSame DEF IInv
  <1>2. model' = m /\ fires' = <<f>> \o fires
    BY DEF HandleEvent
  <1> HIDE DEF m
  <1>3. /\ d[e] \in Seq(Delegates) /\ Len(d[e]) \in Nat /\ DOMAIN d[e] = 1 .. Len(d[e])
        /\ m.delegates[e] = d[e]
    <2>1. d[e] \in Seq(Delegates)
      BY DEF IInv, Typing, Models
    <2> QED  BY <1>1, <2>1, LenProperties
  <1>4. e = "kEventLogin" => bound \subseteq Called(d[e], Len(d[e]))
    <2> SUFFICES ASSUME e = "kEventLogin", NEW w \in Views, view[w] = "bound" PROVE w \in Called(d[e], Len(d[e]))
      OBVIOUS
    <2>1. PICK id \in vm[w].ids : TRUE
      BY DEF IInv, Lifetimes, Lives
    <2>2. [id |-> id, vm |-> w] \in Elems(d[e])
      BY DEF IInv, Subscriptions, Listed
    <2>3. PICK i \in DOMAIN d[e] : d[e][i] = [id |-> id, vm |-> w]
      BY <2>2 DEF Elems
    <2> QED  BY <1>3, <2>3 DEF Called
  <1>5. Called(d[e], 0) = {}
    BY DEF Called
  <1>6. f \in Fires /\ Faithful(f, d)
    BY <1>3, <1>4, <1>5 DEF Fires, Faithful
  <1> HIDE DEF f, bound
  <1>7. /\ fires \in Seq(Fires) /\ Len(fires) \in Nat /\ DOMAIN fires = 1 .. Len(fires)
    BY LenProperties DEF IInv, Typing
  <1>8. /\ fires' \in Seq(Fires) /\ Len(fires') = Len(fires) + 1 /\ DOMAIN fires' = 1 .. Len(fires) + 1
        /\ fires'[1] = f /\ \A i \in 2 .. Len(fires) + 1 : fires'[i] = fires[i - 1]
    <2>1. <<f>> \in Seq(Fires) /\ Len(<<f>>) = 1 /\ <<f>>[1] = f
      BY <1>6
    <2> DEFINE p == <<f>>
    <2>2. p \in Seq(Fires) /\ Len(p) = 1 /\ p[1] = f
      BY <2>1
    <2> HIDE DEF p
    <2>3. /\ p \o fires \in Seq(Fires) /\ Len(p \o fires) = Len(p) + Len(fires)
          /\ \A i \in 1 .. Len(p) + Len(fires) :
                (p \o fires)[i] = IF i <= Len(p) THEN p[i] ELSE fires[i - Len(p)]
      BY <1>7, <2>2, ConcatProperties
    <2>4. DOMAIN (p \o fires) = 1 .. Len(p \o fires)
      BY <2>3, LenProperties
    <2>5. fires' = p \o fires
      BY <1>2 DEF p
    <2> QED  BY <1>7, <2>2, <2>3, <2>4, <2>5
  <1>9. AllFaithful'
    <2> SUFFICES ASSUME NEW i \in DOMAIN fires' PROVE Faithful(fires'[i], d)
      BY <1>1, <1>2 DEF AllFaithful
    <2>1. CASE i = 1
      BY <1>6, <1>8, <2>1
    <2>2. CASE i # 1
      <3>1. i - 1 \in DOMAIN fires /\ fires'[i] = fires[i - 1]
        BY <1>7, <1>8, <2>2
      <3> QED  BY <3>1 DEF IInv, AllFaithful
    <2> QED  BY <2>1, <2>2
  <1>10. Unmade'
    BY <1>1, <1>2 DEF Unmade
  <1> QED  BY <1>1, <1>2, <1>8, <1>9, <1>10, FiresInductive DEF HandleEvent

\* Calling a delegate adds its view model to those that were called.
LEMMA CallDelegateInductive == ASSUME IInv, CallDelegate PROVE IInv'
  <1>0. UNCHANGED <<model, s_suscribe_id_, view, vm>> /\ model \in Models /\ Unmade'
    BY DEF IInv, Typing, CallDelegate, Unmade
  <1>1. /\ fires \in Seq(Fires) /\ Len(fires) \in Nat /\ DOMAIN fires = 1 .. Len(fires) /\ 1 \in DOMAIN fires
    BY LenProperties, EmptySeq DEF IInv, Typing, CallDelegate
  <1>2. CASE fires' = fires
    BY <1>0, <1>1, <1>2, FiresInductive DEF IInv, AllFaithful
  <1>3. CASE ~fires[1].stale
    <2> DEFINE d == model.delegates
               f == fires[1]
               q == d[f.event]
               y == q[f.at].vm
               g == [f EXCEPT !.at = @ + 1, !.called = @ \cup {y}]
    <2>1. fires' = [fires EXCEPT ![1] = g]
      BY <1>3 DEF CallDelegate
    <2>2. f \in Fires /\ Faithful(f, d) /\ ~f.stale /\ f.at <= f.end
      BY <1>1, <1>3, ElementOfSeq DEF IInv, AllFaithful, CallDelegate
    <2>3. /\ f.event \in Events /\ f.at \in Nat \ {0} /\ f.end \in Nat /\ f.called \in SUBSET Views
          /\ f.end = Len(q) /\ f.called = Called(q, f.at - 1)
          /\ f.event = "kEventLogin" => f.wanted \subseteq Called(q, f.end)
      BY <2>2 DEF Fires, Faithful
    <2>4. q \in Seq(Delegates)
      BY <2>3 DEF IInv, Typing, Models
    <2>5. y \in Views
      <3>1. q[f.at] \in Delegates
        BY <2>2, <2>3, <2>4, ElementOfSeq
      <3> QED  BY <3>1 DEF Delegates
    <2>6. f.called \cup {y} = Called(q, f.at)
      BY <2>3 DEF Called
    <2> DEFINE c == f.called \cup {y}
               k == f.at + 1
    <2>7. c \in SUBSET Views /\ k \in Nat \ {0} /\ k <= f.end + 1 /\ k - 1 = f.at
      <3>1. c \in SUBSET Views
        BY <2>3, <2>5
      <3>2. k \in Nat \ {0} /\ k <= f.end + 1 /\ k - 1 = f.at
        <4> HIDE DEF f
        <4> QED  BY <2>2, <2>3
      <3> QED  BY <3>1, <3>2
    <2>8. g = [f EXCEPT !.at = k, !.called = c]
      OBVIOUS
    <2> HIDE DEF f, g, c, k, y, q
    <2>9. /\ g \in Fires /\ g.at = k /\ g.called = c /\ g.event = f.event /\ g.end = f.end
          /\ g.wanted = f.wanted
      BY <2>2, <2>7, <2>8 DEF Fires
    <2>10. Faithful(g, d)
      <3>1. g.end = Len(d[g.event]) /\ g.at <= g.end + 1
        BY <2>3, <2>7, <2>9 DEF q
      <3>2. g.called = Called(d[g.event], g.at - 1)
        BY <2>6, <2>7, <2>9 DEF q, c
      <3>3. g.event = "kEventLogin" => g.wanted \subseteq Called(d[g.event], g.end)
        BY <2>3, <2>9 DEF q
      <3> QED  BY <3>1, <3>2, <3>3 DEF Faithful
    <2>11. /\ fires' \in Seq(Fires) /\ DOMAIN fires' = DOMAIN fires /\ fires'[1] = g
           /\ \A i \in DOMAIN fires \ {1} : fires'[i] = fires[i]
      BY <1>1, <2>1, <2>9, ExceptSeq
    <2>12. AllFaithful'
      BY <1>0, <2>10, <2>11 DEF IInv, AllFaithful
    <2> QED  BY <1>0, <2>11, <2>12, FiresInductive
  <1> QED  BY <1>2, <1>3 DEF CallDelegate

\* When a fire ends, the one that it interrupted goes on as it was.
LEMMA FireEndsInductive == ASSUME IInv, FireEnds PROVE IInv'
  <1>0. /\ UNCHANGED <<model, s_suscribe_id_, view, vm>> /\ model \in Models /\ Unmade'
        /\ fires' = Tail(fires) /\ fires # <<>>
    BY DEF IInv, Typing, FireEnds, Unmade
  <1>1. fires \in Seq(Fires) /\ Len(fires) \in Nat /\ DOMAIN fires = 1 .. Len(fires)
    BY LenProperties DEF IInv, Typing
  <1>2. /\ fires' \in Seq(Fires) /\ DOMAIN fires' = 1 .. Len(fires) - 1
        /\ \A i \in 1 .. Len(fires) - 1 : fires'[i] = fires[i + 1]
    BY <1>0, <1>1, HeadTailProperties, LenProperties
  <1>3. AllFaithful'
    <2> SUFFICES ASSUME NEW i \in DOMAIN fires' PROVE Faithful(fires'[i], model.delegates)
      BY <1>0 DEF AllFaithful
    <2>1. i + 1 \in DOMAIN fires /\ fires'[i] = fires[i + 1]
      BY <1>1, <1>2
    <2> QED  BY <2>1 DEF IInv, AllFaithful
  <1> QED  BY <1>0, <1>2, <1>3, FiresInductive

-----------------------------------------------------------------------------
(* The theorems.                                                           *)

(* Whatever handlers bind, unbind and destroy while FireEvents are going   *)
(* on, both sides of every subscription know the same.                     *)
THEOREM Invariant == Spec => []IInv
  <1>1. ASSUME IInv, [Next]_vars PROVE IInv'
    <2>0. CASE UNCHANGED vars \/ ApplicationInit
      <3>1. UNCHANGED <<model, s_suscribe_id_, view, vm, fires>>
        BY <2>0 DEF vars, ApplicationInit
      <3>2. model' \in Models /\ fires' \in Seq(Fires) /\ Unmade' /\ AllFaithful'
        BY <1>1, <3>1 DEF IInv, Typing, Unmade, AllFaithful
      <3> QED  BY <1>1, <3>1, <3>2, FiresInductive
    <2>1. CASE CallDelegate \/ FireEnds
      BY <1>1, <2>1, CallDelegateInductive, FireEndsInductive
    <2>2. ASSUME NEW v \in Views, CreateVM(v) \/ BindVM(v) \/ UnBindVM(v) \/ DestroyView(v) \/ Keep(v) \/ Release(v)
          PROVE  IInv'
      BY <1>1, <2>2, CreateVMInductive, BindVMInductive, UnBindVMInductive, DestroyViewInductive,
         KeepInductive, ReleaseInductive
    <2>3. ASSUME NEW v \in Views, NEW e \in Events, HandleEvent(v, e) PROVE IInv'
      BY <1>1, <2>3, HandleEventInductive
    <2> QED  BY <1>1, <2>0, <2>1, <2>2, <2>3 DEF Next
  <1> QED  BY <1>1, InitIInv, PTL DEF Spec

(* SubscriptionsAgree: the delegates of the model are the subscriptions    *)
(* that the living view models remember: no delegate outlives its view     *)
(* model, and every delegate can still be taken back.                      *)
THEOREM BothSidesAgree == Spec => []SubscriptionsAgree
  <1>1. ASSUME IInv PROVE SubscriptionsAgree
    <2> DEFINE D == UNION {{model.delegates[e][i] : i \in DOMAIN model.delegates[e]} : e \in Events}
               L == {<<d.id, d.vm>> : d \in D}
               R == UNION {{<<id, v>> : id \in vm[v].ids} : v \in {w \in Views : vm[w].life = "live"}}
    <2>1. \A x : x \in D <=> \E e \in Events : x \in Elems(model.delegates[e])
      BY DEF Elems
    <2>2. ASSUME NEW x \in D PROVE <<x.id, x.vm>> \in R
      <3>1. PICK e \in Events : x \in Elems(model.delegates[e])
        BY <2>1, <2>2
      <3>2. x.vm \in Views
        <4>1. model.delegates[e] \in Seq(Delegates)
          BY <1>1 DEF IInv, Typing, Models
        <4> QED  BY <3>1, <4>1, ElemsTyped DEF Delegates
      <3>3. x.id \in vm[x.vm].ids
        BY <1>1, <3>1 DEF IInv, Subscriptions, Owned
      <3>4. vm[x.vm].life = "live"
        BY <1>1, <3>2, <3>3 DEF IInv, Lifetimes, Lives
      <3> QED  BY <3>2, <3>3, <3>4
    <2>3. ASSUME NEW v \in Views, NEW id \in vm[v].ids PROVE <<id, v>> \in L
      <3> DEFINE x == [id |-> id, vm |-> v]
      <3>1. x \in Elems(model.delegates["kEventLogin"])
        BY <1>1 DEF IInv, Subscriptions, Listed
      <3>2. x \in D
        BY <2>1, <3>1 DEF Events
      <3>3. x.id = id /\ x.vm = v
        OBVIOUS
      <3> HIDE DEF x, D
      <3> QED  BY <3>2, <3>3
    <2> HIDE DEF D
    <2>4. L \subseteq R
      BY <2>2
    <2>5. R \subseteq L
      BY <2>3
    <2>6. L = R
      BY <2>4, <2>5
    <2> QED  BY <2>6 DEF SubscriptionsAgree, D
  <1> QED  BY <1>1, Invariant, PTL

(* ToldViewsExist: the raw pointer to the view that a view model calls is  *)
(* cleared before the view goes, however long the view model of a Java     *)
(* view is kept; that of a dialog goes with it (see Keep).                 *)
THEOREM PointerValid == Spec => []ToldViewsExist
  <1>1. IInv => ToldViewsExist
    BY DEF IInv, Typing, Lifetimes, Lives, ToldViewsExist, Tells
  <1> QED  BY <1>1, Invariant, PTL

(* LoginReachesBoundViews: a FireEvent whose vector nobody changed has     *)
(* called the view model of every view that was bound when it began.       *)
THEOREM LoginHeard == Spec => []LoginReachesBoundViews
  <1>1. ASSUME IInv PROVE LoginReachesBoundViews
    <2> SUFFICES ASSUME fires # <<>>, fires[1].event = "kEventLogin", fires[1].at > fires[1].end,
                        ~fires[1].stale
                 PROVE  fires[1].wanted \subseteq fires[1].called
      BY DEF LoginReachesBoundViews
    <2>1. 1 \in DOMAIN fires /\ fires[1] \in Fires
      BY <1>1, LenProperties, EmptySeq, ElementOfSeq DEF IInv, Typing
    <2>2. Faithful(fires[1], model.delegates)
      BY <1>1, <2>1 DEF IInv, AllFaithful
    <2> DEFINE f == fires[1]
    <2>3. f.at \in Nat /\ f.end \in Nat
      BY <2>1 DEF Fires
    <2>4. f.at - 1 = f.end
      BY <2>2, <2>3 DEF Faithful
    <2> QED  BY <2>2, <2>4 DEF Faithful
  <1> QED  BY <1>1, Invariant, PTL
=============================================================================
