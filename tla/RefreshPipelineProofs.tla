----------------------- MODULE RefreshPipelineProofs -----------------------
(***************************************************************************)
(* What RefreshPipeline promises for every finite set of entities, every   *)
(* batch size, number of workers and bound: the types, among them that the *)
(* reminder's cursor always names an entity or the nil UUID, and that no   *)
(* request for an evaluation is forgotten.                                 *)
(*                                                                         *)
(* NothingForgotten is inductive only together with OwedLive (the fan-out  *)
(* lists what is live, so what is owed must be live) and ProfileCovers: as *)
(* long as the transaction of a profile is open, an entity is in flight or *)
(* was evaluated early. That is what the commit builds on, which owes an   *)
(* evaluation to everyone who was not.                                     *)
(***************************************************************************)
EXTENDS RefreshPipeline, FiniteSetTheorems, WellFoundedInduction, TLAPS

-----------------------------------------------------------------------------
(* The reminder's batch and cursor *)

\* A set of natural numbers that is not empty has a least element.
LEMMA LeastNatural ==
    ASSUME NEW S \in SUBSET Nat, S # {}
    PROVE  \E n \in S : \A m \in S : n <= m
<1>1. \E n \in S : \A m \in S : <<m, n>> \notin OpToRel(<, Nat)
  BY WFMin, NatLessThanWellFounded
<1>2. OpToRel(<, Nat) = {ss \in Nat \X Nat : ss[1] < ss[2]}
  BY Zenon DEF OpToRel
<1>3. \A m, n \in Nat : m < n => <<m, n>> \in OpToRel(<, Nat)
  BY ONLY <1>2
<1>4. PICK n \in S : \A m \in S : <<m, n>> \notin OpToRel(<, Nat)
  BY <1>1
<1>5. \A m \in S : ~(m < n)
  BY <1>3, <1>4
<1> QED BY <1>5

\* A finite set of natural numbers that is not empty has a greatest element. A
\* bijection numbers its elements; the least number of elements without an upper
\* bound would be one more than a number of elements with one.
LEMMA GreatestNatural ==
    ASSUME NEW S \in SUBSET Nat, IsFiniteSet(S), S # {}
    PROVE  \E n \in S : \A m \in S : m <= n
<1> DEFINE N == Cardinality(S)
<1>1. N \in Nat /\ ExistsBijection(1..N, S)
  BY FS_CardinalityType
<1>2. PICK f : f \in Bijection(1..N, S)
  BY <1>1 DEF ExistsBijection
<1>3. f \in [1..N -> S] /\ \A s \in S : \E i \in 1..N : f[i] = s
  BY <1>2 DEF Bijection, Injection, Surjection
<1> HIDE DEF N
<1> DEFINE Bounded(k) == \E b \in Nat : \A i \in 1..k : f[i] <= b
           Unbounded == {k \in 0..N : ~Bounded(k)}
<1>4. Unbounded = {}
  <2>1. SUFFICES ASSUME Unbounded # {} PROVE FALSE
    OBVIOUS
  <2>2. Unbounded \in SUBSET Nat
    BY <1>1
  <2>3. PICK k \in Unbounded : \A m \in Unbounded : k <= m
    BY <2>1, <2>2, LeastNatural
  <2>4. Bounded(0)
    OBVIOUS
  <2>5. k \in 1..N /\ k - 1 \in 0..N
    BY <1>1, <2>3, <2>4
  <2>6. Bounded(k - 1)
    BY <2>3, <2>5
  <2>7. PICK b \in Nat : \A i \in 1..(k - 1) : f[i] <= b
    BY <2>6
  <2>8. f[k] \in Nat
    BY <1>3, <2>5
  <2>9. \A i \in 1..k : f[i] <= b + f[k]
    <3>1. TAKE i \in 1..k
    <3>2. f[i] \in Nat
      <4>1. i \in 1..N
        BY <1>1, <2>5
      <4> QED BY <1>3, <4>1
    <3>3. CASE i = k
      BY <2>7, <2>8, <3>3
    <3>4. CASE i \in 1..(k - 1)
      BY <2>7, <2>8, <3>2, <3>4
    <3> QED BY <2>5, <3>3, <3>4
  <2>10. Bounded(k)
    BY <2>7, <2>8, <2>9
  <2> QED BY <2>3, <2>10
<1>5. PICK b \in Nat : \A s \in S : s <= b
  <2>1. Bounded(N)
    <3>1. N \in 0..N
      BY <1>1
    <3> QED BY <1>4, <3>1
  <2> QED BY <1>3, <2>1
<1> DEFINE Above == {n \in Nat : \A s \in S : s <= n}
<1>6. PICK n \in Above : \A m \in Above : n <= m
  <2>1. Above \in SUBSET Nat /\ Above # {}
    BY <1>5
  <2> QED BY <2>1, LeastNatural
<1>7. n \in S
  <2>1. SUFFICES ASSUME n \notin S PROVE FALSE
    OBVIOUS
  <2>2. \A s \in S : s < n
    BY <1>6, <2>1
  <2>3. n \in Nat /\ n # 0
    <3>1. PICK s \in S : s \in Nat
      OBVIOUS
    <3> QED BY <2>2, <3>1
  <2>4. \A s \in S : s <= n - 1
    BY <2>2, <2>3
  <2>5. n - 1 \in Above
    BY <2>3, <2>4
  <2> QED BY <1>6, <2>3, <2>5
<1> QED BY <1>6, <1>7

\* The last entity of a batch is one of them, and none comes after it.
LEMMA LastOfBatch ==
    ASSUME NEW S \in SUBSET Entity, S # {}
    PROVE  Last(S) \in S /\ \A f \in S : f <= Last(S)
<1>1. S \in SUBSET Nat /\ IsFiniteSet(S)
  BY RefreshAssumption, FS_Subset
<1>2. \E e \in S : \A f \in S : f <= e
  BY <1>1, GreatestNatural
<1> QED BY <1>2 DEF Last

\* Wherever it goes, the cursor names an entity or is the nil UUID again.
LEMMA CursorType ==
    NextCursor(Batch) \in Entity \cup {Nil}
<1>1. Batch \in SUBSET Entity
  BY DEF Batch, Live
<1> QED BY <1>1, LastOfBatch DEF NextCursor, Wrap

-----------------------------------------------------------------------------
(* The inductive invariant *)

\* Nobody is owed an evaluation of an entity that is not, or no longer, there.
OwedLive == owed \subseteq Live

\* While the transaction of a profile is open everyone is in flight, or was early.
ProfileCovers == profileTx => Live \subseteq InFlight \cup early

IInv == TypeOK /\ OwedLive /\ NothingForgotten /\ ProfileCovers

\* It holds at the start.
LEMMA InitInv == Init => IInv
<1> SUFFICES ASSUME Init PROVE IInv
  OBVIOUS
<1>1. owed = {} /\ ~profileTx
  BY DEF Init
<1>2. /\ state \in [Entity -> {"new", "live", "deleted"}]
      /\ record \in [Entity -> {"none", "fresh", "old"}]
  BY DEF Init
<1>3. worker \in [Worker -> [entity : Entity \cup {Nil}, props : Props]]
  BY DEF Init, Free, Props
<1>4. /\ upstream \in [Entity -> Upstream]
      /\ props \in [Entity -> Props] /\ seen \in [Entity -> Props]
  BY DEF Init, Props, Upstream
<1>5. faults \in 0..MaxFaults /\ calls \in 0..MaxCalls
  BY RefreshAssumption DEF Init
<1>6. TypeOK
  BY <1>2, <1>3, <1>4, <1>5 DEF Init, TypeOK
<1> QED BY <1>1, <1>6 DEF IInv, OwedLive, NothingForgotten, ProfileCovers

\* The bookkeeping of a step leaves the counters within their bounds.
LEMMA Counters ==
    ASSUME TypeOK
    PROVE  /\ Fault => faults' \in 0..MaxFaults
           /\ RetriesFail => faults' \in 0..MaxFaults
           /\ NoFault => faults' \in 0..MaxFaults
           /\ \A op : Allowed(op) => calls' \in 0..MaxCalls
  BY RefreshAssumption DEF TypeOK, Fault, RetriesFail, NoFault, Allowed

\* Passing an entity on, or not, changes its record and what is owed.
LEMMA ForwardType ==
    ASSUME TypeOK, NEW e \in Entity, NEW p \in Props, Forward(e, p)
    PROVE  /\ record' \in [Entity -> {"none", "fresh", "old"}] /\ seen' \in [Entity -> Props]
           /\ owed' = owed \ {e} /\ early' \subseteq Entity
           /\ early' = IF profileTx THEN early \cup {e} ELSE early
           /\ faults' \in 0..MaxFaults
<1>1. ~ForwardCheck(e, p) <=> p = "archived"
  BY DEF ForwardCheck
<1>2. owed' = owed \ {e} /\ early' = IF profileTx THEN early \cup {e} ELSE early
  BY <1>1 DEF Forward, GiveUp, Settle
<1>3. faults' \in 0..MaxFaults
  BY Counters DEF Forward
<1>4. \/ record' = [record EXCEPT ![e] = "fresh"] /\ seen' = [seen EXCEPT ![e] = p]
      \/ UNCHANGED <<record, seen>>
  BY DEF Forward
<1> QED BY <1>2, <1>3, <1>4 DEF TypeOK

\* Every step keeps the types.
LEMMA TypeStep == TypeOK /\ [Next]_vars => TypeOK'
<1> SUFFICES ASSUME TypeOK, [Next]_vars PROVE TypeOK'
  OBVIOUS
<1> USE RefreshAssumption, Counters
    DEF TypeOK, Props, Upstream, Nil, store, profile, others, GiveUp, Settle, Owe, StillOwed
<1>1. CASE SendReminders
  <2>1. cursor' \in Entity \cup {Nil}
    BY <1>1, CursorType DEF SendReminders
  <2>2. inits' \subseteq Entity
    BY <1>1 DEF SendReminders, Batch, Live
  <2> QED BY <1>1, <2>1, <2>2 DEF SendReminders
<1>2. CASE RestartReminder
  BY <1>2 DEF RestartReminder
<1>3. CASE ListForProfile
  BY <1>3 DEF ListForProfile, Live
<1>4. ASSUME NEW e \in todo, PublishForProfile(e) PROVE TypeOK'
  BY <1>4 DEF PublishForProfile
<1>5. CASE SendNewProfileEvent
  BY <1>5 DEF SendNewProfileEvent, Live
<1>6. CASE CommitProfile
  BY <1>6 DEF CommitProfile, Live
<1>7. CASE RollbackProfile
  BY <1>7 DEF RollbackProfile
<1>8. ASSUME NEW e \in Entity, Reconcile(e) PROVE TypeOK'
  BY <1>8 DEF Reconcile
<1>9. ASSUME NEW e \in Entity, RefreshCached(e) PROVE TypeOK'
  <2>1. Forward(e, props[e]) /\ props[e] \in Props
    BY <1>9 DEF RefreshCached
  <2>2. /\ record' \in [Entity -> {"none", "fresh", "old"}] /\ seen' \in [Entity -> Props]
        /\ owed' = owed \ {e} /\ early' \subseteq Entity /\ faults' \in 0..MaxFaults
    BY <2>1, ForwardType
  <2> QED BY <1>9, <2>2 DEF RefreshCached, Found
<1>10. ASSUME NEW e \in Entity, NEW w \in Worker, Fetch(w, e) PROVE TypeOK'
  <2>1. worker' \in [Worker -> [entity : Entity \cup {Nil}, props : Props]]
    <3>1. upstream[e] # "missing" => upstream[e] \in Props
      OBVIOUS
    <3> QED BY <1>10, <3>1 DEF Fetch
  <2>2. owed' \subseteq Entity /\ early' \subseteq Entity /\ faults' \in 0..MaxFaults
    BY <1>10 DEF Fetch
  <2> QED BY <1>10, <2>1, <2>2 DEF Fetch, Found
<1>11. ASSUME NEW e \in Entity, RefreshNotFound(e) PROVE TypeOK'
  BY <1>11 DEF RefreshNotFound
<1>12. ASSUME NEW e \in Entity, Register(e) PROVE TypeOK'
  BY <1>12 DEF Register
<1>13. ASSUME NEW e \in Entity, DeleteEntity(e) PROVE TypeOK'
  BY <1>13 DEF DeleteEntity
<1>14. ASSUME NEW e \in Entity, Webhook(e) PROVE TypeOK'
  BY <1>14 DEF Webhook
<1>15. ASSUME NEW e \in Entity, Change(e) PROVE TypeOK'
  BY <1>15 DEF Change
<1>16. ASSUME NEW e \in Entity, MinElapsed(e) PROVE TypeOK'
  BY <1>16 DEF MinElapsed
<1>17. ASSUME NEW e \in Entity, CacheTimeout(e) PROVE TypeOK'
  BY <1>17 DEF CacheTimeout
<1>18. ASSUME NEW w \in Worker, SaveAndForward(w) PROVE TypeOK'
  <2>1. PICK e, p : e = worker[w].entity /\ p = worker[w].props
    OBVIOUS
  <2>2. worker' \in [Worker -> [entity : Entity \cup {Nil}, props : Props]]
    BY <1>18 DEF SaveAndForward, Free
  <2> HIDE DEF Props
  <2>3. e \in Entity /\ p \in Props
    BY <1>18, <2>1 DEF SaveAndForward
  <2>4. CASE Forward(e, p) /\ props' = [props EXCEPT ![e] = p] /\ cached' = cached \cup {e}
    <3>1. /\ record' \in [Entity -> {"none", "fresh", "old"}] /\ seen' \in [Entity -> Props]
          /\ owed' = owed \ {e} /\ early' \subseteq Entity /\ faults' \in 0..MaxFaults
      BY <2>3, <2>4, ForwardType
    <3>2. props' \in [Entity -> Props] /\ cached' \subseteq Entity
      BY <2>3, <2>4
    <3> QED BY <1>18, <2>2, <3>1, <3>2 DEF SaveAndForward
  <2>5. CASE Fault /\ GiveUp({e}) /\ UNCHANGED store
    BY <1>18, <2>2, <2>3, <2>5 DEF SaveAndForward
  <2>6. CASE NoFault /\ StillOwed /\ UNCHANGED store
    BY <1>18, <2>2, <2>6 DEF SaveAndForward
  <2> QED BY <1>18, <2>1, <2>4, <2>5, <2>6 DEF SaveAndForward
<1>19. ASSUME NEW e \in Entity, Elsewhere(e) PROVE TypeOK'
  BY <1>19 DEF Elsewhere
<1>20. CASE UNCHANGED vars
  BY <1>20 DEF vars
<1> QED
  BY <1>1, <1>2, <1>3, <1>4, <1>5, <1>6, <1>7, <1>8, <1>9, <1>10, <1>11, <1>12, <1>13, <1>14,
     <1>15, <1>16, <1>17, <1>18, <1>19, <1>20 DEF Next, FanOut, Refresh

\* Every step keeps the rest. It is enough that an entity leaves one stage for the next,
\* or that the step settles what it drops: what is owed or covered stays in flight.
LEMMA Kept ==
    ASSUME IInv, state' = state, profileTx' = profileTx,
           NEW S, Settle(S) \/ (S = {} /\ StillOwed),
           InFlight \cap Live \subseteq InFlight' \cup S
    PROVE  (OwedLive /\ NothingForgotten /\ ProfileCovers)'
<1>1. Live' = Live
  BY DEF Live
<1>2. owed' = owed \ S /\ early \subseteq early' /\ (profileTx => S \subseteq early')
  BY DEF Settle, StillOwed
<1> QED BY <1>1, <1>2 DEF IInv, OwedLive, NothingForgotten, ProfileCovers

LEMMA OwedStep ==
    IInv /\ [Next]_vars => (OwedLive /\ NothingForgotten /\ ProfileCovers)'
<1> DEFINE Good == OwedLive /\ NothingForgotten /\ ProfileCovers
<1> SUFFICES ASSUME IInv, [Next]_vars PROVE Good'
  OBVIOUS
<1> USE RefreshAssumption DEF store, profile, others, GiveUp, Nil
<1>0. /\ owed \subseteq Entity /\ worker \in [Worker -> [entity : Entity \cup {Nil}, props : Props]]
      /\ state \in [Entity -> {"new", "live", "deleted"}] /\ 0 \notin Entity
      /\ Live \subseteq Entity
  BY DEF IInv, TypeOK, Live
<1>1. CASE SendReminders
  <2>1. state' = state /\ profileTx' = profileTx /\ StillOwed
    BY <1>1 DEF SendReminders
  <2>2. InFlight \subseteq InFlight'
    BY <1>1 DEF SendReminders, InFlight, Live
  <2> QED BY <2>1, <2>2, Kept
<1>2. CASE RestartReminder
  <2>1. state' = state /\ profileTx' = profileTx /\ StillOwed /\ InFlight' = InFlight
    BY <1>2 DEF RestartReminder, InFlight, Live
  <2> QED BY <2>1, Kept
<1>3. CASE ListForProfile
  <2>1. state' = state /\ profileTx' = profileTx
    BY <1>3 DEF ListForProfile
  <2>2. CASE todo' = Live /\ StillOwed
    <3>1. InFlight \cap Live \subseteq InFlight'
      BY <2>2 DEF InFlight
    <3> QED BY <2>1, <2>2, <3>1, Kept
  <2>3. CASE Settle(Live)
    BY <2>1, <2>3, Kept
  <2> QED BY <1>3, <2>2, <2>3 DEF ListForProfile
<1>4. ASSUME NEW e \in todo, PublishForProfile(e) PROVE Good'
  <2>1. state' = state /\ profileTx' = profileTx
    BY <1>4 DEF PublishForProfile
  <2>2. CASE refreshes' = refreshes \cup {e} /\ todo' = todo \ {e} /\ StillOwed
    <3>1. InFlight \subseteq InFlight'
      BY <1>4, <2>2 DEF PublishForProfile, InFlight, Live
    <3> QED BY <2>1, <2>2, <3>1, Kept
  <2>3. CASE UNCHANGED refreshes /\ todo' = {} /\ Settle(todo)
    <3>1. InFlight \subseteq InFlight' \cup todo
      BY <1>4, <2>3 DEF PublishForProfile, InFlight, Live
    <3> QED BY <2>1, <2>3, <3>1, Kept
  <2> QED BY <1>4, <2>2, <2>3 DEF PublishForProfile
<1>5. CASE SendNewProfileEvent
  <2>1. /\ Live' = Live /\ owed' = owed /\ InFlight \subseteq InFlight'
    BY <1>5 DEF SendNewProfileEvent, InFlight, Live
  <2>2. Live \subseteq InFlight' \cup early'
    BY <1>5, <2>1 DEF SendNewProfileEvent, InFlight
  <2> QED BY <2>1, <2>2 DEF IInv, OwedLive, NothingForgotten, ProfileCovers
<1>6. CASE CommitProfile
  <2>1. /\ Live' = Live /\ InFlight' = InFlight /\ profileTx /\ ~profileTx'
        /\ owed' = owed \cup (Live \ early)
    BY <1>6 DEF CommitProfile, InFlight, Live
  <2> QED BY <2>1 DEF IInv, OwedLive, NothingForgotten, ProfileCovers
<1>7. CASE RollbackProfile
  <2>1. Live' = Live /\ InFlight' = InFlight /\ ~profileTx' /\ owed' = owed
    BY <1>7 DEF RollbackProfile, InFlight, Live
  <2> QED BY <2>1 DEF IInv, OwedLive, NothingForgotten, ProfileCovers
<1>8. ASSUME NEW e \in Entity, Reconcile(e) PROVE Good'
  <2>1. state' = state /\ profileTx' = profileTx
    BY <1>8 DEF Reconcile
  <2>2. CASE refreshes' = refreshes \cup {e} /\ StillOwed
    <3>1. InFlight \subseteq InFlight'
      BY <1>8, <2>2 DEF Reconcile, InFlight, Live
    <3> QED BY <2>1, <2>2, <3>1, Kept
  <2>3. CASE UNCHANGED refreshes /\ Settle({e})
    <3>1. InFlight \subseteq InFlight' \cup {e}
      BY <1>8, <2>3 DEF Reconcile, InFlight, Live
    <3> QED BY <2>1, <2>3, <3>1, Kept
  <2> QED BY <1>8, <2>2, <2>3 DEF Reconcile
<1>9. ASSUME NEW e \in Entity, RefreshCached(e) PROVE Good'
  <2>1. props[e] \in Props /\ Forward(e, props[e]) /\ TypeOK
    BY <1>9 DEF RefreshCached, IInv, TypeOK
  <2>2. Settle({e})
    BY <2>1, ForwardType DEF Settle
  <2>3. state' = state /\ profileTx' = profileTx
    BY <1>9 DEF RefreshCached
  <2>4. InFlight \subseteq InFlight' \cup {e}
    BY <1>9 DEF RefreshCached, Found, InFlight, Live
  <2> QED BY <2>2, <2>3, <2>4, Kept
<1>10. ASSUME NEW e \in Entity, NEW w \in Worker, Fetch(w, e) PROVE Good'
  <2>1. state' = state /\ profileTx' = profileTx /\ inits' = inits /\ todo' = todo /\ fanout' = fanout
    BY <1>10 DEF Fetch
  <2>2. refreshes \cup hints \subseteq refreshes' \cup hints' \cup {e}
    BY <1>10 DEF Fetch, Found
  <2>3. \A v \in Worker : worker[v].entity \in Entity => worker'[v] = worker[v]
    BY <1>0, <1>10 DEF Fetch, Free
  <2>4. ASSUME NEW f \in InFlight \cap Live PROVE f \in InFlight' \cup {e}
    <3>1. CASE f \in inits \cup refreshes \cup hints \cup todo \/ (fanout /\ f \in Live)
      BY <2>1, <2>2, <3>1 DEF InFlight, Live
    <3>2. CASE \E v \in Worker : worker[v].entity = f
      BY <1>0, <2>3, <3>2 DEF InFlight
    <3> QED BY <2>4, <3>1, <3>2 DEF InFlight
  <2>5. CASE Settle({e})
    BY <2>1, <2>4, <2>5, Kept
  <2>6. CASE worker' = [worker EXCEPT ![w] = [entity |-> e, props |-> upstream[e]]] /\ StillOwed
    <3>1. e \in InFlight'
      BY <1>0, <2>6 DEF InFlight
    <3> QED BY <2>1, <2>4, <2>6, <3>1, Kept
  <2> QED BY <1>10, <2>5, <2>6 DEF Fetch
<1>11. ASSUME NEW e \in Entity, RefreshNotFound(e) PROVE Good'
  <2>1. state' = state /\ profileTx' = profileTx /\ Settle({e})
    BY <1>11 DEF RefreshNotFound
  <2>2. InFlight \subseteq InFlight' \cup {e}
    BY <1>11 DEF RefreshNotFound, InFlight, Live
  <2> QED BY <2>1, <2>2, Kept
<1>12. ASSUME NEW e \in Entity, Register(e) PROVE Good'
  <2>1. Live' = Live \cup {e} /\ InFlight \subseteq InFlight' /\ profileTx' = profileTx
    BY <1>0, <1>12 DEF Register, InFlight, Live
  <2>2. CASE inits' = inits \cup {e} /\ Owe({e})
    <3>1. e \in InFlight' /\ owed' = owed \cup {e} /\ early' = early
      BY <2>2 DEF InFlight, Owe
    <3> QED BY <2>1, <3>1 DEF IInv, OwedLive, NothingForgotten, ProfileCovers
  <2>3. CASE Settle({e})
    BY <2>1, <2>3 DEF IInv, OwedLive, NothingForgotten, ProfileCovers, Settle
  <2> QED BY <1>12, <2>2, <2>3 DEF Register
<1>13. ASSUME NEW e \in Entity, DeleteEntity(e) PROVE Good'
  <2>1. Live' = Live \ {e} /\ profileTx' = profileTx /\ Settle({e})
    BY <1>0, <1>13 DEF DeleteEntity, Live
  <2>2. InFlight \ {e} \subseteq InFlight'
    BY <1>13, <2>1 DEF DeleteEntity, InFlight
  <2> QED BY <2>1, <2>2 DEF IInv, OwedLive, NothingForgotten, ProfileCovers, Settle
<1>14. ASSUME NEW e \in Entity, Webhook(e) PROVE Good'
  <2>1. Live' = Live /\ e \in Live /\ InFlight \subseteq InFlight' /\ profileTx' = profileTx /\ early' = early
    BY <1>14 DEF Webhook, InFlight, Live, Owe, StillOwed
  <2>2. owed' = owed \/ (owed' = owed \cup {e} /\ e \in InFlight')
    BY <1>14 DEF Webhook, InFlight, Owe, StillOwed
  <2> QED BY <2>1, <2>2 DEF IInv, OwedLive, NothingForgotten, ProfileCovers
<1>15. ASSUME NEW e \in Entity, Change(e) PROVE Good'
  <2>1. state' = state /\ profileTx' = profileTx /\ StillOwed /\ InFlight' = InFlight
    BY <1>15 DEF Change, InFlight, Live
  <2> QED BY <2>1, Kept
<1>16. ASSUME NEW e \in Entity, MinElapsed(e) PROVE Good'
  <2>1. state' = state /\ profileTx' = profileTx /\ StillOwed /\ InFlight' = InFlight
    BY <1>16 DEF MinElapsed, InFlight, Live
  <2> QED BY <2>1, Kept
<1>17. ASSUME NEW e \in Entity, CacheTimeout(e) PROVE Good'
  <2>1. state' = state /\ profileTx' = profileTx /\ StillOwed /\ InFlight' = InFlight
    BY <1>17 DEF CacheTimeout, InFlight, Live
  <2> QED BY <2>1, Kept
<1>18. ASSUME NEW w \in Worker, SaveAndForward(w) PROVE Good'
  <2> DEFINE e == worker[w].entity
  <2>1. e \in Entity /\ worker[w].props \in Props /\ TypeOK
    BY <1>0, <1>18 DEF SaveAndForward, IInv
  <2>2. state' = state /\ profileTx' = profileTx
    BY <1>18 DEF SaveAndForward
  <2>3. \A v \in Worker : worker[v].entity # e => worker'[v] = worker[v]
    BY <1>0, <1>18 DEF SaveAndForward
  <2>4. InFlight \subseteq InFlight' \cup {e}
    BY <1>0, <1>18, <2>3 DEF SaveAndForward, InFlight, Live
  <2>5. Settle({e}) \/ (e \notin Live /\ StillOwed)
    BY <1>18, <2>1, ForwardType DEF SaveAndForward, Settle, Live
  <2>6. CASE Settle({e})
    BY <2>2, <2>4, <2>6, Kept
  <2>7. CASE e \notin Live /\ StillOwed
    <3>1. InFlight \cap Live \subseteq InFlight'
      BY <2>4, <2>7
    <3> QED BY <2>2, <2>7, <3>1, Kept
  <2> QED BY <2>5, <2>6, <2>7
<1>19. ASSUME NEW e \in Entity, Elsewhere(e) PROVE Good'
  <2>1. state' = state /\ profileTx' = profileTx /\ StillOwed /\ InFlight' = InFlight
    BY <1>19 DEF Elsewhere, InFlight, Live
  <2> QED BY <2>1, Kept
<1>20. CASE UNCHANGED vars
  <2>1. state' = state /\ profileTx' = profileTx /\ StillOwed /\ InFlight' = InFlight
    BY <1>20 DEF vars, StillOwed, InFlight, Live
  <2> QED BY <2>1, Kept
<1> QED
  BY <1>1, <1>2, <1>3, <1>4, <1>5, <1>6, <1>7, <1>8, <1>9, <1>10, <1>11, <1>12, <1>13, <1>14,
     <1>15, <1>16, <1>17, <1>18, <1>19, <1>20 DEF Next, FanOut, Refresh

-----------------------------------------------------------------------------
(* The theorems *)

\* The invariant holds in every state of every behaviour.
LEMMA Invariant == Spec => []IInv
<1>1. IInv /\ [Next]_vars => IInv'
  BY TypeStep, OwedStep DEF IInv
<1> QED BY InitInv, <1>1, PTL DEF Spec

\* The variables keep their types; the reminder's cursor never leaves the IDs of the
\* entities and the nil UUID, whatever is deleted under it (updateRepositoryCursor).
THEOREM TypeCorrect == Spec => []TypeOK
  BY Invariant, PTL DEF IInv

\* A request for an evaluation is on its way until the entity is evaluated, deleted or
\* given up at a known point, whatever the number of entities, workers and faults; a
\* committed profile is such a request to everyone who was not evaluated before it.
THEOREM NothingForgottenHolds == Spec => []NothingForgotten
  BY Invariant, PTL DEF IInv

=============================================================================
