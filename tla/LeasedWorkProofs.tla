------------------------- MODULE LeasedWorkProofs -------------------------
(* The lease keeps workers apart, for every set of entities and workers. *)
EXTENDS LeasedWork, TLAPS

\* The strengthening: a worker whose lease neither ran out nor was revoked is
\* still the holder of the entity it works on, and that lease is valid.
Kept ==
    \A w \in Worker \ lapsed :
        working[w] # None => holder[working[w]] = w /\ working[w] \in valid

\* The inductive invariant.
Inv == TypeOK /\ Kept

\* Kept implies Exclusive: an entity has one holder.
LEMMA KeptExclusive == Inv => Exclusive
  BY DEF Inv, Kept, Exclusive

\* Nobody works in the initial state.
LEMMA LeaseInit == Init => Inv
  BY DEF Init, Inv, TypeOK, Kept

\* Every step keeps Inv.
LEMMA LeaseStep ==
    ASSUME None \notin Worker, Inv, [Next]_vars
    PROVE  Inv'
<1> USE DEF Inv, TypeOK, Kept
\* A lease is given only if nobody keeps it: whoever works on e has lapsed.
<1>1. ASSUME NEW e \in Entity, NEW w \in Worker, Acquire(e, w) PROVE Inv'
  <2>1. TypeOK'
    BY <1>1 DEF Acquire
  <2>2. ASSUME NEW v \in Worker \ lapsed', working'[v] # None
        PROVE holder'[working'[v]] = v /\ working'[v] \in valid'
    <3>1. CASE v = w
      BY <1>1, <2>2, <3>1 DEF Acquire
    <3>2. CASE v # w
      <4>1. v \in Worker \ lapsed /\ working'[v] = working[v]
        BY <1>1, <2>2, <3>2 DEF Acquire
      <4>2. holder[working[v]] = v /\ working[v] \in valid
        BY <2>2, <4>1
      <4>3. working[v] # e
        BY <1>1, <4>1, <4>2 DEF Acquire, Free
      <4> QED
        BY <1>1, <4>1, <4>2, <4>3 DEF Acquire
    <3> QED
      BY <3>1, <3>2
  <2> QED
    BY <2>1, <2>2
<1>2. ASSUME NEW e \in Entity, NEW w \in Worker, Renew(e, w) PROVE Inv'
  BY <1>2 DEF Renew
<1>3. ASSUME NEW e \in Entity, NEW w \in Worker, Release(e, w) PROVE Inv'
  BY <1>3 DEF Release
<1>4. ASSUME NEW W \in SUBSET Worker, Abandon(W) PROVE Inv'
  BY <1>4 DEF Abandon
<1>5. ASSUME NEW e \in Entity, Expire(e) PROVE Inv'
  BY <1>5 DEF Expire
<1>6. ASSUME NEW e \in Entity, Revoke(e) PROVE Inv'
  BY <1>6 DEF Revoke
<1>7. CASE UNCHANGED vars
  BY <1>7 DEF vars
<1> QED
  BY <1>1, <1>2, <1>3, <1>4, <1>5, <1>6, <1>7 DEF Next

\* entity_execution_lock keeps workers apart: whatever number of executions take,
\* renew, release and abandon locks, two of them that keep their lease never work
\* on one entity.
THEOREM LeaseExclusive ==
    ASSUME None \notin Worker
    PROVE  Spec => [](TypeOK /\ Exclusive)
<1>1. Spec => []Inv
  <2>1. Inv /\ [Next]_vars => Inv'
    BY LeaseStep
  <2> QED
    BY LeaseInit, <2>1, PTL DEF Spec
<1>2. Inv => TypeOK /\ Exclusive
  BY KeptExclusive DEF Inv
<1> QED
  BY <1>1, <1>2, PTL

=============================================================================
