---------------------------- MODULE LeasedWork ----------------------------
(***************************************************************************)
(* What the entity_execution_lock table promises to the executor: work on  *)
(* an entity is done under a lease that one worker holds, that runs out    *)
(* when it is not renewed, and that only its holder gives back.  It is the *)
(* specification that EntityExecution implements, and says nothing of      *)
(* messages, threads, servers or the flush cache.                          *)
(***************************************************************************)
EXTENDS Naturals

CONSTANTS Entity, Worker, None

VARIABLES
    live,      \* entities that exist
    holder,    \* the worker that was last given the lease of an entity
    valid,     \* entities whose lease has not run out
    working,   \* the entity a worker was given and has not put down
    lapsed     \* workers whose lease ran out or was revoked

vars == <<live, holder, valid, working, lapsed>>

Init ==
    /\ live = Entity
    /\ holder = [e \in Entity |-> None]
    /\ valid = {}
    /\ working = [w \in Worker |-> None]
    /\ lapsed = {}

\* A lease is given only when there is none, or when it has run out.
Free(e) == e \in live /\ (holder[e] = None \/ e \notin valid)

Acquire(e, w) ==
    /\ Free(e)
    /\ working[w] = None
    /\ \A f \in Entity : holder[f] # w
    /\ holder' = [holder EXCEPT ![e] = w]
    /\ valid' = valid \cup {e}
    /\ working' = [working EXCEPT ![w] = e]
    /\ lapsed' = lapsed \ {w}
    /\ UNCHANGED live

\* Only the holder renews, while it works.
Renew(e, w) ==
    /\ working[w] = e
    /\ holder[e] = w
    /\ valid' = valid \cup {e}
    /\ UNCHANGED <<live, holder, working, lapsed>>

\* Only the holder gives the lease back, and stops working with that.
Release(e, w) ==
    /\ working[w] = e
    /\ holder[e] = w
    /\ holder' = [holder EXCEPT ![e] = None]
    /\ valid' = valid \ {e}
    /\ working' = [working EXCEPT ![w] = None]
    /\ UNCHANGED <<live, lapsed>>

\* Workers stop without giving the lease back: a failure, a crash, a timeout.
Abandon(W) ==
    /\ working' = [w \in Worker |-> IF w \in W THEN None ELSE working[w]]
    /\ UNCHANGED <<live, holder, valid, lapsed>>

Expire(e) ==
    /\ e \in valid
    /\ valid' = valid \ {e}
    /\ lapsed' = lapsed \cup ({holder[e]} \cap Worker)
    /\ UNCHANGED <<live, holder, working>>

Revoke(e) ==
    /\ e \in live
    /\ live' = live \ {e}
    /\ holder' = [holder EXCEPT ![e] = None]
    /\ valid' = valid \ {e}
    /\ lapsed' = lapsed \cup ({holder[e]} \cap Worker)
    /\ UNCHANGED working

Next ==
    \/ \E e \in Entity, w \in Worker : Acquire(e, w) \/ Renew(e, w) \/ Release(e, w)
    \/ \E e \in Entity : Expire(e) \/ Revoke(e)
    \/ \E W \in SUBSET Worker : Abandon(W)

Spec == Init /\ [][Next]_vars

-----------------------------------------------------------------------------
(* Properties *)

\* Every variable has its type.
TypeOK ==
    /\ live \subseteq Entity
    /\ holder \in [Entity -> Worker \cup {None}]
    /\ valid \subseteq Entity
    /\ working \in [Worker -> Entity \cup {None}]
    /\ lapsed \subseteq Worker

\* Workers that keep their lease do not share an entity.
Exclusive ==
    \A v, w \in Worker \ lapsed :
        working[v] # None /\ working[v] = working[w] => v = w

=============================================================================
