-------------------------- MODULE MembershipProofs --------------------------
(***************************************************************************)
(* What Membership promises for any number of users, projects, roles,      *)
(* codes, calls under way and faults: the types, that a code is accepted   *)
(* once, that an address has one invitation and a subject one role unless  *)
(* calls raced, that an invitation was mailed as it stands, that a role is *)
(* held in a project there is, and that a project has an administrator.    *)
(*                                                                         *)
(* The inductive invariant says what a call still knows of the state it    *)
(* has read: that nothing was added to it since, or that somebody who      *)
(* added something has been seen to race.                                  *)
(***************************************************************************)
EXTENDS Membership, FiniteSetTheorems, TLAPS

Caller == Task \cup {Cron}

-----------------------------------------------------------------------------
(* Types *)

\* What the fields of a call hold, by the operation and where it is.
Shape(c) ==
    /\ c.op \in EnrollOps => c.pc \in {"insert", "undo"} /\ c.child \in Project /\ c.proj = None
    /\ c.pc # "idle" => c.by \in User /\ c.sub \in Subject
    /\ c.pc # "idle" /\ c.op \notin EnrollOps \cup {"delete_user"} => c.role \in Role /\ c.proj \in Project
    /\ c.op \in {"invite", "delete_user"} => c.sub \in User
    /\ c.op \in ResolveOps /\ c.pc # "idle" => c.code \in Code
    /\ c.pc = "send" => c.op \in {"invite", "update_invite", "remove_invite"} /\ c.code \in Code
    /\ c.pc = "resolve" => c.op \in ResolveOps
    /\ c.pc = "grant" => c.op \in {"update_role", "accept", "assign"}
    /\ c.pc = "revoke" => c.op \in {"update_role", "accept", "remove_role", "delete_project", "delete_user"}
    /\ c.pc \in {"adopt", "insert"} => c.child \in Project
    /\ c.pc = "adopt" => c.op = "create_child"
    /\ c.pc = "insert" => c.op \in EnrollOps \cup {"create_child"}
    /\ c.pc = "undo" => c.op \in EnrollOps
    /\ c.pc \in {"purge", "rows"} => c.proj \in Project
    /\ c.pc = "revoke" => c.proj \in Project
    /\ c.pc \in {"rows", "orphan", "commit"} => c.op \in {"delete_project", "delete_user"}
    /\ c.pc \in {"cleanup", "purge", "forget"} => c.op = "delete_user"

Shaped == \A t \in Caller : Shape(task[t])

\* The types of everything but the calls.
DataOK ==
    /\ users \subseteq User
    /\ rows \subseteq Project
    /\ parent \in [Project -> Project \cup {None}]
    /\ invites \subseteq Invite
    /\ tuples \subseteq Tuple
    /\ adopted \subseteq Project \X Project
    /\ mails \subseteq Code \X Role
    /\ gone \subseteq User /\ listed \subseteq User /\ missed \subseteq User
    /\ codes \subseteq Code
    /\ ids \subseteq Project
    /\ faults \in 0..MaxFaults
    /\ calls \in 0..MaxCalls
    /\ accepted \in [Code -> Nat]
    /\ leaked \subseteq Project
    /\ stranded \subseteq Project

\* One call goes on, to a well-formed state.
Moves(t) == \E c \in Call : Shape(c) /\ Go(t, c)

\* A call that has returned is well-formed.
LEMMA IdleTyped == Idle \in Call /\ Shape(Idle)
<1>1. Idle \in Call
  BY DEF Idle, Call, Operation, ManageOps, AssignOps, UpdateOps, RemoveOps, ResolveOps, EnrollOps, AdminOps, Status
<1>2. Shape(Idle)
  BY DEF Idle, Shape, EnrollOps, ResolveOps
<1> QED BY <1>1, <1>2

\* A move changes one call.
LEMMA GoTask ==
    ASSUME task \in [Caller -> Call], NEW t \in Caller, NEW c \in Call, Go(t, c)
    PROVE  /\ task' \in [Caller -> Call] /\ task'[t] = c
           /\ \A u \in Caller \ {t} : task'[u] = task[u]
  BY DEF Go

\* Calls stay well-formed when the one that moves does.
LEMMA MovesTyped ==
    ASSUME task \in [Caller -> Call], Shaped, NEW t \in Caller, Moves(t)
    PROVE  task' \in [Caller -> Call] /\ Shaped'
<1>1. PICK c \in Call : Shape(c) /\ Go(t, c)
  BY DEF Moves
<1>2. task' \in [Caller -> Call] /\ task'[t] = c /\ \A u \in Caller \ {t} : task'[u] = task[u]
  BY <1>1, GoTask
<1>3. ASSUME NEW u \in Caller, NEW d, d = task'[u] PROVE Shape(d)
  BY <1>1, <1>2, <1>3 DEF Shaped
<1> QED BY <1>2, <1>3 DEF Shaped

\* To return is to move.
LEMMA ReturnMoves ==
    ASSUME NEW t \in Caller, Return(t)
    PROVE  Moves(t)
  BY IdleTyped DEF Return, Moves

\* A request comes in with its parameters.
LEMMA BeginMoves ==
    ASSUME NEW t \in Caller, NEW op \in ManageOps \cup AdminOps, NEW u \in User, NEW s \in Subject, NEW r \in Role,
           NEW p \in Project, op = "invite" => s \in User,
           Go(t, [Idle EXCEPT !.op = op, !.pc = "allowed", !.by = u, !.sub = s, !.role = r, !.proj = p])
    PROVE  Moves(t)
<1> DEFINE c == [Idle EXCEPT !.op = op, !.pc = "allowed", !.by = u, !.sub = s, !.role = r, !.proj = p]
<1>1. op \in Operation /\ op \notin EnrollOps \cup ResolveOps \cup {"delete_user"} /\ "allowed" \in Status
  BY DEF Operation, ManageOps, AssignOps, UpdateOps, RemoveOps, ResolveOps, EnrollOps, AdminOps, Status
<1>2. c \in Call
  BY <1>1, IdleTyped DEF Call
<1>3. /\ c.op = op /\ c.pc = "allowed" /\ c.by = u /\ c.sub = s /\ c.role = r /\ c.proj = p
  BY IdleTyped DEF Call
<1> HIDE DEF c
<1>4. Shape(c)
  BY <1>1, <1>3 DEF Shape
<1> QED BY <1>2, <1>4 DEF Moves, c

\* Requests: the types hold, and nothing but the call and, for a new project, its id
\* and its tuple changes.
LEMMA RequestTyped ==
    ASSUME TypeOK, Shaped, NEW t \in Caller, Request(t)
    PROVE  /\ Moves(t) /\ At(t, "idle")
           /\ UNCHANGED <<database, adopted, mails, identity, codes, faults, observed>>
           /\ ids' \subseteq Project /\ tuples' \subseteq Tuple
           /\ Enroll(t) \/ UNCHANGED <<ids, tuples>>
<1> USE DEF database, openfga, identity
<1>0. ids \subseteq Project /\ tuples \subseteq Tuple /\ invites \subseteq Invite /\ Idle \in Call
  BY IdleTyped DEF TypeOK
<1>1. CASE ManageRoles(t)
  <2>1. PICK op \in ManageOps, u \in User, r \in Role, p \in Project, s \in Subject :
          (op = "invite" => s \in User) /\ Begin(t, op, u, s, r, p)
    BY <1>1 DEF ManageRoles, Subject
  <2>2. Moves(t)
    BY <2>1, BeginMoves DEF Begin
  <2> QED BY <1>0, <2>1, <2>2 DEF Begin
<1>2. CASE ManageProject(t)
  <2>1. PICK op \in AdminOps, u \in User, p \in Project : Begin(t, op, u, u, "admin", p)
    BY <1>2 DEF ManageProject
  <2>2. Moves(t)
    BY <2>1, BeginMoves, MembershipAssumption DEF Begin, Subject, AdminOps
  <2> QED BY <1>0, <2>1, <2>2 DEF Begin
<1>3. CASE ResolveInvitation(t)
  <2>1. PICK op \in ResolveOps \cap Op, u \in User \ gone, i \in invites :
          /\ At(t, "idle") /\ UNCHANGED <<database, openfga, mails, identity, codes, ids, faults, observed>>
          /\ Go(t, [Idle EXCEPT !.op = op, !.pc = IF op = "accept" THEN "allowed" ELSE "resolve", !.by = u,
                                !.sub = u, !.role = i.role, !.proj = i.proj, !.code = i.code])
    BY <1>3 DEF ResolveInvitation
  <2> DEFINE pc == IF op = "accept" THEN "allowed" ELSE "resolve"
             c == [Idle EXCEPT !.op = op, !.pc = pc, !.by = u, !.sub = u, !.role = i.role, !.proj = i.proj,
                               !.code = i.code]
  <2>2. i.role \in Role /\ i.proj \in Project /\ i.code \in Code
    BY <1>0 DEF Invite
  <2>3. op \in Operation /\ op \notin EnrollOps \cup {"invite", "delete_user"} /\ pc \in Status /\ pc \in {"allowed", "resolve"}
    BY DEF Operation, ResolveOps, EnrollOps, Status
  <2> HIDE DEF pc
  <2>4. c \in Call
    BY <1>0, <2>2, <2>3 DEF Call, Subject
  <2>5. c.op = op /\ c.pc = pc /\ c.by = u /\ c.sub = u /\ c.role = i.role /\ c.proj = i.proj /\ c.code = i.code
    BY <1>0 DEF Call
  <2>6. Go(t, c)
    BY <2>1 DEF pc
  <2> HIDE DEF c
  <2>7. Shape(c)
    BY <2>2, <2>3, <2>5 DEF Shape, Subject
  <2> QED BY <1>0, <2>1, <2>4, <2>6, <2>7 DEF Moves
<1>4. CASE Enroll(t)
  <2>1. PICK op \in EnrollOps \cap Op, u \in User \ gone, p \in Project \ ids :
          /\ At(t, "idle") /\ ids' = ids \cup {p}
          /\ tuples' = tuples \cup {[sub |-> u, role |-> "admin", proj |-> p]}
          /\ Go(t, [Idle EXCEPT !.op = op, !.pc = "insert", !.by = u, !.sub = u, !.child = p])
          /\ UNCHANGED <<database, adopted, mails, identity, codes, faults, observed>>
    BY <1>4 DEF Enroll
  <2> DEFINE c == [Idle EXCEPT !.op = op, !.pc = "insert", !.by = u, !.sub = u, !.child = p]
  <2>2. op \in Operation /\ op \notin ResolveOps \cup {"invite", "delete_user"} /\ "insert" \in Status
    BY DEF Operation, ResolveOps, EnrollOps, Status
  <2>3. c \in Call
    BY <1>0, <2>2 DEF Call, Subject
  <2>4. c.op = op /\ c.pc = "insert" /\ c.by = u /\ c.sub = u /\ c.child = p /\ c.proj = Idle.proj
    BY <1>0 DEF Call
  <2>5. Idle.proj = None
    BY DEF Idle
  <2>6. Go(t, c)
    BY <2>1
  <2> HIDE DEF c
  <2>7. Shape(c)
    BY <2>2, <2>4, <2>5 DEF Shape, Subject
  <2>8. [sub |-> u, role |-> "admin", proj |-> p] \in Tuple
    BY MembershipAssumption DEF Tuple, Subject
  <2>9. ids' \subseteq Project /\ tuples' \subseteq Tuple
    BY <1>0, <2>1, <2>8
  <2> QED BY <1>4, <2>1, <2>3, <2>6, <2>7, <2>9 DEF Moves
<1>5. ASSUME NEW u \in User, DeleteUser(t, u)
      PROVE  /\ Moves(t) /\ At(t, "idle")
             /\ UNCHANGED <<database, openfga, mails, identity, codes, ids, faults, observed>>
  <2> DEFINE ps == ProjectsForUser(u)
             c == [Idle EXCEPT !.op = "delete_user", !.pc = "cleanup", !.by = u, !.sub = u, !.projs = ps]
  <2>1. ps \subseteq Project
    BY <1>0 DEF ProjectsForUser, Tuple
  <2>2. "delete_user" \in Operation /\ "cleanup" \in Status /\ "delete_user" \notin EnrollOps \cup ResolveOps
    BY DEF Operation, ResolveOps, EnrollOps, Status
  <2> HIDE DEF ps
  <2>3. c \in Call
    BY <1>0, <2>1, <2>2 DEF Call, Subject
  <2>4. c.op = "delete_user" /\ c.pc = "cleanup" /\ c.by = u /\ c.sub = u
    BY <1>0 DEF Call
  <2>5. Go(t, c)
    BY <1>5 DEF DeleteUser, ps
  <2> HIDE DEF c
  <2>6. Shape(c)
    BY <2>2, <2>4 DEF Shape, Subject
  <2> QED BY <1>5, <2>3, <2>5, <2>6 DEF DeleteUser, Moves
<1>6. CASE \E u \in User : DeleteUser(t, u)
  BY <1>0, <1>5, <1>6
<1> QED BY <1>1, <1>2, <1>3, <1>4, <1>6 DEF Request

\* Where a call goes after its last deletion of a role.
LEMMA RevokingTyped ==
    ASSUME NEW c \in Call, Shape(c), NEW as \in SUBSET Tuple, c.proj \in Project, c.pc # "idle",
           c.op \in {"update_role", "accept", "remove_role", "delete_project", "delete_user"}
    PROVE  LET d == Revoking(c, as) IN
           /\ d \in Call /\ (d.pc # "idle" => Shape(d))
           /\ d.op = c.op /\ d.sub = c.sub /\ d.role = c.role /\ d.proj = c.proj /\ d.by = c.by /\ d.code = c.code
           /\ d.child = c.child /\ d.doomed = c.doomed /\ d.todo = as
           /\ d.pc = IF as = {} THEN AfterRevoke(c) ELSE "revoke"
<1> DEFINE pc == IF as = {} THEN AfterRevoke(c) ELSE "revoke"
           d == [c EXCEPT !.todo = as, !.pc = pc]
<1>0. d = Revoking(c, as)
  BY DEF Revoking
<1>1. /\ pc \in {"revoke", "grant", "rows", "idle"}
      /\ pc = "grant" => c.op \in {"update_role", "accept"}
      /\ pc = "rows" => c.op \in {"delete_project", "delete_user"}
  BY DEF AfterRevoke
<1>2. {"revoke", "grant", "rows", "idle"} \subseteq Status
  BY DEF Status
<1> HIDE DEF pc
<1>3. d \in Call
  BY <1>1, <1>2 DEF Call
<1>4. /\ d.op = c.op /\ d.sub = c.sub /\ d.role = c.role /\ d.proj = c.proj /\ d.by = c.by /\ d.code = c.code
      /\ d.child = c.child /\ d.doomed = c.doomed /\ d.todo = as /\ d.pc = pc
  BY DEF Call
<1>5. c.op \notin EnrollOps \cup {"invite"}
  BY DEF EnrollOps
<1> HIDE DEF d
<1>6. d.pc # "idle" => Shape(d)
  BY <1>1, <1>4, <1>5 DEF Shape
<1> QED BY <1>0, <1>3, <1>4, <1>6 DEF pc

\* A call with roles to delete goes on.
LEMMA ProceedMoves ==
    ASSUME NEW t \in Caller, NEW c \in Call, c.pc # "idle" => Shape(c), Proceed(t, c)
    PROVE  Moves(t)
  BY IdleTyped DEF Proceed, Moves

\* The steps of invitations keep the types.
LEMMA InviteTyped ==
    ASSUME TypeOK, Shaped, NEW t \in Caller,
           CreateInvite(t) \/ SendInvite(t) \/ FindInvite(t) \/ SendUpdate(t) \/ RemoveInvite(t) \/ Resolve(t)
    PROVE  Moves(t) /\ DataOK'
<1> USE DEF database, openfga, identity, observed
<1> DEFINE c == task[t]
<1>0. c \in Call /\ Shape(c) /\ DataOK
  BY DEF TypeOK, Shaped, DataOK, Caller
<1>1. CASE CreateInvite(t)
  <2>1. DataOK'
    BY <1>0, <1>1 DEF CreateInvite, DataOK, GenerateCode
  <2>2. CASE Return(t)
    BY <2>1, <2>2, ReturnMoves
  <2>3. ASSUME NEW k \in GenerateCode, Go(t, [c EXCEPT !.pc = "send", !.code = k]) PROVE Moves(t)
    <3> DEFINE d == [c EXCEPT !.pc = "send", !.code = k]
    <3>1. k \in Code /\ "send" \in Status
      BY DEF GenerateCode, Status
    <3>2. d \in Call
      BY <1>0, <3>1 DEF Call
    <3>3. Shape(d)
      BY <1>0, <1>1, <3>1 DEF Call, Shape, CreateInvite, At, EnrollOps, ResolveOps
    <3> QED BY <2>3, <3>2, <3>3 DEF Moves
  <2> QED BY <1>1, <2>1, <2>2, <2>3 DEF CreateInvite
<1>2. CASE SendInvite(t)
  <2>1. Moves(t)
    BY <1>2, ReturnMoves DEF SendInvite
  <2>2. c.code \in Code /\ c.sub \in User /\ c.role \in Role /\ c.proj \in Project /\ c.by \in User
    BY <1>0, <1>2 DEF SendInvite, At, Shape, EnrollOps
  <2>3. [code |-> c.code, email |-> c.sub, role |-> c.role, proj |-> c.proj, sponsor |-> c.by, fresh |-> TRUE] \in Invite
    BY <2>2 DEF Invite
  <2>4. invites' \subseteq Invite
    BY <1>0, <1>2, <2>3 DEF SendInvite, DataOK
  <2>5. mails' \subseteq Code \X Role
    BY <1>0, <1>2, <2>2 DEF SendInvite, DataOK, Publish
  <2>6. faults' \in 0..MaxFaults
    BY <1>0, <1>2, MembershipAssumption DEF SendInvite, DataOK
  <2> QED BY <1>0, <1>2, <2>1, <2>4, <2>5, <2>6 DEF SendInvite, DataOK
<1>3. CASE FindInvite(t)
  <2>1. DataOK'
    BY <1>0, <1>3 DEF FindInvite, DataOK
  <2>2. ASSUME NEW i \in invites,
               Go(t, [c EXCEPT !.pc = "send", !.code = i.code,
                               !.todo = {[sub |-> i.email, role |-> i.role, proj |-> i.proj]}])
        PROVE  Moves(t)
    <3> DEFINE as == {[sub |-> i.email, role |-> i.role, proj |-> i.proj]}
               d == [c EXCEPT !.pc = "send", !.code = i.code, !.todo = as]
    <3>1. i.code \in Code /\ i.email \in User /\ i.role \in Role /\ i.proj \in Project /\ "send" \in Status
      BY <1>0 DEF DataOK, Invite, Status
    <3>2. as \subseteq Tuple
      BY <3>1 DEF Tuple, Subject
    <3>3. Go(t, d)
      BY <2>2
    <3> HIDE DEF as
    <3>4. d \in Call
      BY <1>0, <3>1, <3>2 DEF Call
    <3>5. Shape(d)
      BY <1>0, <1>3, <3>1 DEF Call, Shape, FindInvite, At, EnrollOps, ResolveOps
    <3> QED BY <3>3, <3>4, <3>5 DEF Moves
  <2>3. Return(t) \/ \E i \in invites :
          Go(t, [c EXCEPT !.pc = "send", !.code = i.code, !.todo = {[sub |-> i.email, role |-> i.role, proj |-> i.proj]}])
    BY <1>3 DEF FindInvite, InvitesFor
  <2> QED BY <2>1, <2>2, <2>3, ReturnMoves
<1>4. CASE SendUpdate(t)
  <2>1. Moves(t)
    BY <1>4, ReturnMoves DEF SendUpdate
  <2>2. c.code \in Code /\ c.role \in Role
    BY <1>0, <1>4 DEF SendUpdate, At, Shape, EnrollOps
  <2>3. ASSUME NEW i \in invites PROVE [i EXCEPT !.role = c.role, !.fresh = TRUE] \in Invite
    BY <1>0, <2>2 DEF DataOK, Invite
  <2> DEFINE old == {i \in invites : i.code = c.code}
             new == {[i EXCEPT !.role = c.role, !.fresh = TRUE] : i \in old}
  <2>a. /\ invites' = invites \/ invites' = (invites \ old) \cup new
        /\ mails' = mails \/ mails' = mails \cup {<<c.code, c.role>>}
        /\ faults' = faults \/ (faults < MaxFaults /\ faults' = faults + 1)
    BY <1>4 DEF SendUpdate
  <2>b. new \subseteq Invite
    BY <2>3
  <2> HIDE DEF old, new
  <2>4. invites' \subseteq Invite
    BY <1>0, <2>a, <2>b DEF DataOK
  <2>5. mails' \subseteq Code \X Role
    BY <1>0, <2>a, <2>2 DEF DataOK
  <2>6. faults' \in 0..MaxFaults
    BY <1>0, <2>a, MembershipAssumption DEF DataOK
  <2> QED BY <1>0, <1>4, <2>1, <2>4, <2>5, <2>6 DEF SendUpdate, DataOK
<1>5. CASE RemoveInvite(t)
  <2>1. Moves(t)
    BY <1>5, ReturnMoves DEF RemoveInvite
  <2> QED BY <1>0, <1>5, <2>1 DEF RemoveInvite, DataOK
<1>6. CASE Resolve(t)
  <2>1. Moves(t)
    BY <1>6, ReturnMoves DEF Resolve
  <2>2. c.code \in Code /\ c.by \in User
    BY <1>0, <1>6 DEF Resolve, At, Shape
  <2>3. accepted' \in [Code -> Nat]
    BY <1>0, <1>6, <2>2 DEF Resolve, DataOK
  <2>4. users' \subseteq User /\ invites' \subseteq Invite
    BY <1>0, <1>6, <2>2 DEF Resolve, DataOK
  <2> QED BY <1>0, <1>6, <2>1, <2>3, <2>4 DEF Resolve, DataOK
<1> QED BY <1>1, <1>2, <1>3, <1>4, <1>5, <1>6

\* The steps of roles keep the types.
LEMMA RoleTyped ==
    ASSUME TypeOK, Shaped, NEW t \in Caller,
           ReadFormer(t) \/ AssignRole(t) \/ RemoveRole(t) \/ Revoke(t) \/ Grant(t)
    PROVE  Moves(t) /\ DataOK'
<1> USE DEF database, openfga, identity, observed
<1> DEFINE c == task[t]
<1>0. c \in Call /\ Shape(c) /\ DataOK
  BY DEF TypeOK, Shaped, DataOK, Caller
<1>1. CASE ReadFormer(t)
  <2>1. DataOK'
    BY <1>0, <1>1 DEF ReadFormer, DataOK
  <2>2. c.op \in {"update_role", "accept"} /\ c.pc = "allowed" /\ c.proj \in Project
    BY <1>0, <1>1 DEF ReadFormer, At, Shape, EnrollOps
  <2>3. RolesOf(c.sub, c.proj) \in SUBSET Tuple
    BY <1>0 DEF RolesOf, Assignments, DataOK
  <2>4. ASSUME Go(t, Revoking(c, FormerRoles(c.sub, c.proj))) PROVE Moves(t)
    <3>1. PICK d \in Call : d = Revoking(c, FormerRoles(c.sub, c.proj)) /\ (d.pc # "idle" => Shape(d))
                            /\ d.pc \in {"grant", "revoke"}
      BY <1>0, <2>2, <2>3, RevokingTyped DEF FormerRoles, AfterRevoke
    <3> QED BY <2>4, <3>1 DEF Moves
  <2>5. ASSUME NEW met \in SUBSET RolesOf(c.sub, c.proj), Proceed(t, Revoking([c EXCEPT !.op = "remove_role"], met)),
               c.op = "accept"
        PROVE  Moves(t)
    <3> DEFINE e == [c EXCEPT !.op = "remove_role"]
    <3>1. e \in Call /\ e.op = "remove_role" /\ e.pc = "allowed" /\ e.proj \in Project
      BY <1>0, <2>2 DEF Call, Operation, ManageOps, RemoveOps
    <3>2. Shape(e)
      BY <1>0, <2>2, <2>5 DEF Call, Shape, EnrollOps, ResolveOps
    <3>3. Proceed(t, Revoking(e, met))
      BY <2>5
    <3> HIDE DEF e
    <3>4. PICK d \in Call : d = Revoking(e, met) /\ (d.pc # "idle" => Shape(d))
      BY <2>3, <3>1, <3>2, RevokingTyped
    <3> QED BY <3>3, <3>4, ProceedMoves
  <2>6. \/ Return(t) \/ Go(t, Revoking(c, FormerRoles(c.sub, c.proj)))
        \/ c.op = "accept" /\ \E met \in SUBSET RolesOf(c.sub, c.proj) : Proceed(t, Revoking([c EXCEPT !.op = "remove_role"], met))
    BY <1>1 DEF ReadFormer, FormerRoles
  <2> QED BY <2>1, <2>4, <2>5, <2>6, ReturnMoves
<1>2. CASE AssignRole(t)
  <2>1. DataOK'
    BY <1>0, <1>2 DEF AssignRole, DataOK
  <2>2. ASSUME Go(t, [c EXCEPT !.pc = "grant"]) PROVE Moves(t)
    <3>1. [c EXCEPT !.pc = "grant"] \in Call /\ Shape([c EXCEPT !.pc = "grant"])
      BY <1>0, <1>2 DEF Call, Shape, Status, AssignRole, At, EnrollOps, ResolveOps
    <3> QED BY <2>2, <3>1 DEF Moves
  <2> QED BY <1>2, <2>1, <2>2, ReturnMoves DEF AssignRole
<1>3. CASE RemoveRole(t)
  <2>1. DataOK'
    BY <1>0, <1>3 DEF RemoveRole, DataOK
  <2> DEFINE as == {[sub |-> c.sub, role |-> c.role, proj |-> c.proj]}
  <2>2. c.op = "remove_role" /\ c.pc = "allowed" /\ c.proj \in Project /\ c.sub \in Subject /\ c.role \in Role
    BY <1>0, <1>3 DEF RemoveRole, At, Shape, EnrollOps
  <2>3. as \in SUBSET Tuple /\ as # {}
    BY <2>2 DEF Tuple
  <2>4. Return(t) \/ Go(t, Revoking(c, as))
    BY <1>3 DEF RemoveRole
  <2> HIDE DEF as
  <2>5. PICK d \in Call : d = Revoking(c, as) /\ (d.pc # "idle" => Shape(d)) /\ d.pc = "revoke"
    <3>1. c \in Call /\ Shape(c) /\ c.op \in {"remove_role"}
      BY <1>0, <2>2
    <3> QED BY <2>2, <2>3, <3>1, RevokingTyped
  <2> QED BY <2>1, <2>4, <2>5, ReturnMoves DEF Moves
<1>4. CASE Revoke(t)
  <2>1. PICK a \in c.todo : tuples' = tuples \ {a} /\ Proceed(t, Revoking(c, c.todo \ {a}))
                            /\ stranded' \in {stranded, stranded \cup {a.proj}}
    BY <1>4 DEF Revoke
  <2>2. c.todo \in SUBSET Tuple /\ a.proj \in Project
    BY <1>0 DEF Call, Tuple
  <2>3. DataOK'
    BY <1>0, <1>4, <2>1, <2>2 DEF Revoke, DataOK
  <2>4. /\ c.proj \in Project /\ c.pc # "idle"
        /\ c.op \in {"update_role", "accept", "remove_role", "delete_project", "delete_user"}
    BY <1>0, <1>4 DEF Revoke, At, Shape
  <2>5. PICK d \in Call : d = Revoking(c, c.todo \ {a}) /\ (d.pc # "idle" => Shape(d))
    BY <1>0, <2>2, <2>4, RevokingTyped
  <2> QED BY <2>1, <2>3, <2>5, ProceedMoves
<1>5. CASE Grant(t)
  <2>1. c.sub \in Subject /\ c.role \in Role /\ c.proj \in Project
    BY <1>0, <1>5 DEF Grant, At, Shape, EnrollOps
  <2>2. [sub |-> c.sub, role |-> c.role, proj |-> c.proj] \in Tuple
    BY <2>1 DEF Tuple
  <2>3. tuples' \subseteq Tuple /\ leaked' \subseteq Project
    BY <1>0, <1>5, <2>1, <2>2 DEF Grant, DataOK
  <2>4. DataOK'
    BY <1>0, <1>5, <2>3 DEF Grant, DataOK
  <2>5. ASSUME c.op = "accept", Go(t, [c EXCEPT !.pc = "resolve"]) PROVE Moves(t)
    <3>1. [c EXCEPT !.pc = "resolve"] \in Call /\ Shape([c EXCEPT !.pc = "resolve"])
      BY <1>0, <1>5, <2>5 DEF Call, Shape, Status, Grant, At, EnrollOps, ResolveOps
    <3> QED BY <2>5, <3>1 DEF Moves
  <2> QED BY <1>5, <2>4, <2>5, ReturnMoves DEF Grant
<1> QED BY <1>1, <1>2, <1>3, <1>4, <1>5

\* The steps of creations keep the types.
LEMMA CreationTyped ==
    ASSUME TypeOK, Shaped, NEW t \in Caller,
           InsertProject(t) \/ InsertFails(t) \/ UndoTuple(t) \/ CreateChild(t) \/ Adopt(t)
    PROVE  Moves(t) /\ DataOK'
<1> USE DEF database, openfga, identity, observed
<1> DEFINE c == task[t]
<1>0. c \in Call /\ Shape(c) /\ DataOK
  BY DEF TypeOK, Shaped, DataOK, Caller
<1>1. CASE InsertProject(t)
  <2>1. c.child \in Project /\ c.by \in User /\ c.proj \in Project \cup {None}
    BY <1>0, <1>1 DEF InsertProject, At, Shape, Call
  <2>2. parent' \in [Project -> Project \cup {None}]
    BY <1>0, <1>1, <2>1 DEF InsertProject, DataOK
  <2>3. rows' \subseteq Project /\ users' \subseteq User /\ stranded' \subseteq Project
    BY <1>0, <1>1, <2>1 DEF InsertProject, DataOK
  <2> QED BY <1>0, <1>1, <2>2, <2>3, ReturnMoves DEF InsertProject, DataOK
<1>2. CASE InsertFails(t)
  <2>1. DataOK'
    BY <1>0, <1>2, MembershipAssumption DEF InsertFails, DataOK
  <2>2. Undo(c) \in Call /\ Shape(Undo(c))
    BY <1>0, <1>2 DEF InsertFails, At, Undo, Call, Shape, Status, EnrollOps, ResolveOps
  <2>3. Proceed(t, Undo(c))
    BY <1>2 DEF InsertFails
  <2> QED BY <2>1, <2>2, <2>3, ProceedMoves
<1>3. CASE UndoTuple(t)
  <2>1. c.child \in Project
    BY <1>0, <1>3 DEF UndoTuple, At, Shape
  <2> QED BY <1>0, <1>3, <2>1, ReturnMoves, MembershipAssumption DEF UndoTuple, DataOK
<1>4. CASE CreateChild(t)
  <2>1. DataOK'
    BY <1>0, <1>4 DEF CreateChild, DataOK
  <2>2. ASSUME NEW p \in Project, Go(t, [c EXCEPT !.pc = "adopt", !.child = p]) PROVE Moves(t)
    <3>1. [c EXCEPT !.pc = "adopt", !.child = p] \in Call /\ Shape([c EXCEPT !.pc = "adopt", !.child = p])
      BY <1>0, <1>4 DEF CreateChild, At, Call, Shape, Status, EnrollOps, ResolveOps
    <3> QED BY <2>2, <3>1 DEF Moves
  <2> QED BY <1>4, <2>1, <2>2, ReturnMoves DEF CreateChild
<1>5. CASE Adopt(t)
  <2>1. c.proj \in Project /\ c.child \in Project
    BY <1>0, <1>5 DEF Adopt, At, Shape, EnrollOps
  <2>2. DataOK'
    BY <1>0, <1>5, <2>1 DEF Adopt, DataOK
  <2>3. [c EXCEPT !.pc = "insert"] \in Call /\ Shape([c EXCEPT !.pc = "insert"])
    BY <1>0, <1>5 DEF Adopt, At, Call, Shape, Status, EnrollOps, ResolveOps
  <2> QED BY <1>5, <2>2, <2>3 DEF Adopt, Moves
<1> QED BY <1>1, <1>2, <1>3, <1>4, <1>5

\* The steps of deletions keep the types.
LEMMA DeletionTyped ==
    ASSUME TypeOK, Shaped, NEW t \in Caller,
           PurgeProject(t) \/ DeleteRows(t) \/ Deadlock(t) \/ Orphan(t) \/ CleanUp(t) \/ Commit(t) \/ Forget(t)
    PROVE  Moves(t) /\ DataOK'
<1> USE DEF database, openfga, identity, observed
<1> DEFINE c == task[t]
<1>0. c \in Call /\ Shape(c) /\ DataOK
  BY DEF TypeOK, Shaped, DataOK, Caller
<1>1. CASE PurgeProject(t)
  <2>1. DataOK'
    BY <1>0, <1>1 DEF PurgeProject, DataOK
  <2>2. c.op \in {"delete_project", "delete_user"} /\ c.proj \in Project /\ c.pc # "idle"
    BY <1>0, <1>1 DEF PurgeProject, At, Shape, EnrollOps
  <2>3. RolesToDelete(c.proj) \in SUBSET Tuple
    BY <1>0 DEF RolesToDelete, Assignments, DataOK
  <2>4. ASSUME Go(t, Revoking(c, RolesToDelete(c.proj))) PROVE Moves(t)
    <3>1. PICK d \in Call : d = Revoking(c, RolesToDelete(c.proj)) /\ (d.pc # "idle" => Shape(d))
                            /\ d.pc \in {"rows", "revoke"}
      BY <1>0, <2>2, <2>3, RevokingTyped DEF AfterRevoke
    <3> QED BY <2>4, <3>1 DEF Moves
  <2>5. ASSUME c.op = "delete_user", Go(t, [c EXCEPT !.pc = "cleanup"]) PROVE Moves(t)
    <3>1. [c EXCEPT !.pc = "cleanup"] \in Call /\ Shape([c EXCEPT !.pc = "cleanup"])
      BY <1>0, <2>2, <2>5 DEF Call, Shape, Status, EnrollOps, ResolveOps
    <3> QED BY <2>5, <3>1 DEF Moves
  <2>6. CASE Go(t, Idle)
    BY <2>1, <2>6, ReturnMoves DEF Return
  <2> QED BY <1>1, <2>1, <2>4, <2>5, <2>6 DEF PurgeProject
<1>2. CASE DeleteRows(t)
  <2>1. DataOK'
    BY <1>0, <1>2 DEF DeleteRows, DataOK
  <2>2. PICK of, orphans :
          /\ of \in SUBSET rows
          /\ orphans = {<<parent[p], p>> : p \in {q \in of : parent[q] # None}}
          /\ Go(t, [c EXCEPT !.doomed = c.doomed \cup of, !.orphans = orphans,
                             !.pc = IF orphans = {} THEN AfterPurge(c) ELSE "orphan"])
    <3> DEFINE of == IF c.proj \in rows THEN {p \in rows : p = c.proj \/ parent[p] = c.proj} ELSE {}
               orphans == {<<parent[p], p>> : p \in {q \in of : parent[q] # None}}
    <3>1. of \in SUBSET rows
      OBVIOUS
    <3>2. Go(t, [c EXCEPT !.doomed = c.doomed \cup of, !.orphans = orphans,
                          !.pc = IF orphans = {} THEN AfterPurge(c) ELSE "orphan"])
      BY <1>0, <1>2 DEF DeleteRows
    <3> QED BY <3>1, <3>2
  <2>3. orphans \in SUBSET (Project \X Project)
    BY <1>0, <2>2 DEF DataOK
  <2> DEFINE pc == IF orphans = {} THEN AfterPurge(c) ELSE "orphan"
             doomed == c.doomed \cup of
             d == [c EXCEPT !.doomed = doomed, !.orphans = orphans, !.pc = pc]
  <2>4. /\ pc \in {"cleanup", "commit", "orphan"} /\ (pc = "cleanup" => c.op = "delete_user")
        /\ {"cleanup", "commit", "orphan"} \subseteq Status
    BY DEF AfterPurge, Status
  <2>5. doomed \in SUBSET Project
    BY <1>0, <2>2 DEF DataOK, Call
  <2>6. Go(t, d)
    BY <2>2
  <2> HIDE DEF pc, doomed
  <2>7. d \in Call /\ Shape(d)
    BY <1>0, <1>2, <2>3, <2>4, <2>5 DEF DeleteRows, At, Call, Shape, EnrollOps, ResolveOps
  <2> QED BY <2>1, <2>6, <2>7 DEF Moves
<1>3. CASE Deadlock(t)
  <2>1. c.proj \in Project /\ c.doomed \subseteq Project
    BY <1>0, <1>3 DEF Deadlock, Shape, Call
  <2> QED BY <1>0, <1>3, <2>1, ReturnMoves DEF Deadlock, DataOK
<1>4. CASE Orphan(t)
  <2>1. PICK o \in c.orphans : /\ adopted' = adopted \ {o}
          /\ Go(t, [c EXCEPT !.orphans = c.orphans \ {o}, !.pc = IF c.orphans = {o} THEN AfterPurge(c) ELSE "orphan"])
    BY <1>0, <1>4 DEF Orphan
  <2> DEFINE pc == IF c.orphans = {o} THEN AfterPurge(c) ELSE "orphan"
             orphans == c.orphans \ {o}
             d == [c EXCEPT !.orphans = orphans, !.pc = pc]
  <2>2. /\ pc \in {"cleanup", "commit", "orphan"} /\ (pc = "cleanup" => c.op = "delete_user")
        /\ {"cleanup", "commit", "orphan"} \subseteq Status
    BY DEF AfterPurge, Status
  <2>3. orphans \in SUBSET (Project \X Project)
    BY <1>0 DEF Call
  <2>4. Go(t, d)
    BY <2>1
  <2> HIDE DEF pc, orphans
  <2>5. d \in Call /\ Shape(d)
    <3>1. c.pc = "orphan" /\ c \in Call /\ Shape(c)
      BY <1>0, <1>4 DEF Orphan, At
    <3>2. d \in Call /\ d = [c EXCEPT !.orphans = orphans, !.pc = pc]
      BY <2>2, <2>3, <3>1 DEF Call
    <3>3. /\ d.pc = pc /\ d.op = c.op /\ d.by = c.by /\ d.sub = c.sub /\ d.role = c.role
          /\ d.proj = c.proj /\ d.code = c.code /\ d.child = c.child
      BY <3>1 DEF Call
    <3> QED BY <2>2, <3>1, <3>2, <3>3 DEF Shape, EnrollOps, ResolveOps
  <2>6. DataOK'
    BY <1>0, <1>4, <2>1 DEF Orphan, DataOK
  <2> QED BY <2>4, <2>5, <2>6 DEF Moves
<1>5. CASE CleanUp(t)
  <2>0. c.op \in {"delete_project", "delete_user"} /\ c.pc = "cleanup" /\ {"commit", "purge", "cleanup"} \subseteq Status
    BY <1>0, <1>5 DEF CleanUp, At, Shape, Status
  <2>1. c.projs \subseteq Project
    BY <1>0 DEF Call
  <2>2. DataOK'
    BY <1>0, <1>5, <2>1 DEF CleanUp, DataOK
  <2>3. ASSUME Go(t, [c EXCEPT !.pc = "commit"]) PROVE Moves(t)
    <3>1. [c EXCEPT !.pc = "commit"] \in Call /\ Shape([c EXCEPT !.pc = "commit"])
      BY <1>0, <2>0 DEF Call, Shape, EnrollOps, ResolveOps
    <3> QED BY <2>3, <3>1 DEF Moves
  <2>4. ASSUME NEW p \in c.projs, Go(t, [c EXCEPT !.projs = c.projs \ {p}, !.pc = "purge", !.proj = p]) PROVE Moves(t)
    <3> DEFINE ps == c.projs \ {p}
               d == [c EXCEPT !.projs = ps, !.pc = "purge", !.proj = p]
    <3>1. ps \in SUBSET Project /\ p \in Project
      BY <2>1
    <3>2. Go(t, d)
      BY <2>4
    <3> HIDE DEF ps
    <3>3. d \in Call /\ Shape(d)
      BY <1>0, <2>0, <3>1 DEF Call, Shape, EnrollOps, ResolveOps
    <3> QED BY <3>2, <3>3 DEF Moves
  <2>5. ASSUME NEW p \in c.projs, Go(t, [c EXCEPT !.projs = c.projs \ {p}]) PROVE Moves(t)
    <3> DEFINE ps == c.projs \ {p}
               d == [c EXCEPT !.projs = ps]
    <3>1. ps \in SUBSET Project
      BY <2>1
    <3>2. Go(t, d)
      BY <2>5
    <3> HIDE DEF ps
    <3>3. d \in Call /\ Shape(d)
      BY <1>0, <2>0, <3>1 DEF Call, Shape, EnrollOps, ResolveOps
    <3> QED BY <3>2, <3>3 DEF Moves
  <2>6. \/ Go(t, [c EXCEPT !.pc = "commit"])
        \/ \E p \in c.projs : \/ Go(t, [c EXCEPT !.projs = c.projs \ {p}, !.pc = "purge", !.proj = p])
                              \/ Go(t, [c EXCEPT !.projs = c.projs \ {p}])
    BY <1>0, <1>5 DEF CleanUp
  <2> QED BY <2>2, <2>3, <2>4, <2>5, <2>6
<1>6. CASE Commit(t)
  <2>0. /\ c.op \in {"delete_project", "delete_user"} /\ c.pc = "commit" /\ "forget" \in Status
        /\ c.doomed \subseteq Project
    BY <1>0, <1>6 DEF Commit, At, Shape, Call, Status
  <2>1. parent' \in [Project -> Project \cup {None}]
    BY <1>0, <1>6 DEF Commit, DataOK
  <2>2. rows' \subseteq Project /\ users' \subseteq User /\ invites' \subseteq Invite /\ leaked' \subseteq Project
    BY <1>0, <1>6, <2>0 DEF Commit, DataOK
  <2>3. DataOK'
    BY <1>0, <1>6, <2>1, <2>2 DEF Commit, DataOK
  <2> DEFINE as == TuplesToForget(c.sub)
             d == [c EXCEPT !.pc = "forget", !.doomed = {}, !.todo = as]
  <2>4. as \in SUBSET Tuple
    BY <1>0 DEF TuplesToForget, DataOK
  <2>5. Return(t) \/ (c.op = "delete_user" /\ Go(t, d))
    BY <1>6 DEF Commit
  <2> HIDE DEF as
  <2>6. c.op = "delete_user" => d \in Call /\ Shape(d)
    BY <1>0, <2>0, <2>4 DEF Call, Shape, EnrollOps, ResolveOps
  <2> QED BY <2>3, <2>5, <2>6, ReturnMoves DEF Moves
<1>7. CASE Forget(t)
  <2>0. c.op \in {"delete_project", "delete_user"} /\ c.pc = "forget"
    BY <1>0, <1>7 DEF Forget, At, Shape
  <2>1. CASE c.todo = {}
    <3>1. c.sub \in User
      BY <1>0, <2>0 DEF Shape
    <3> QED BY <1>0, <1>7, <2>1, <3>1, ReturnMoves DEF Forget, DataOK
  <2>2. CASE c.todo # {}
    <3>1. PICK a \in c.todo : tuples' = tuples \ {a} /\ Go(t, [c EXCEPT !.todo = c.todo \ {a}]) /\ UNCHANGED <<gone, listed, missed>>
      BY <1>0, <1>7, <2>2 DEF Forget
    <3> DEFINE as == c.todo \ {a}
               d == [c EXCEPT !.todo = as]
    <3>2. as \in SUBSET Tuple
      BY <1>0 DEF Call
    <3>3. Go(t, d)
      BY <3>1
    <3> HIDE DEF as
    <3>4. d \in Call /\ Shape(d)
      BY <1>0, <2>0, <3>2 DEF Call, Shape, EnrollOps, ResolveOps
    <3>5. DataOK'
      BY <1>0, <1>7, <3>1 DEF Forget, DataOK
    <3> QED BY <3>3, <3>4, <3>5 DEF Moves
  <2> QED BY <2>1, <2>2
<1> QED BY <1>1, <1>2, <1>3, <1>4, <1>5, <1>6, <1>7

\* So does an error.
LEMMA AbortTyped ==
    ASSUME TypeOK, Shaped, NEW t \in Caller, Abort(t)
    PROVE  Moves(t) /\ DataOK'
<1> USE DEF database, openfga, identity, observed
<1>0. task[t] \in Call /\ Shape(task[t]) /\ DataOK
  BY DEF TypeOK, Shaped, DataOK, Caller
<1>1. leaked' \subseteq Project /\ stranded' \subseteq Project
  BY <1>0 DEF Abort, At, DataOK, Shape, Call
<1>2. faults' \in 0..MaxFaults
  BY <1>0, MembershipAssumption DEF Abort, DataOK
<1> QED BY <1>0, <1>1, <1>2, ReturnMoves DEF Abort, DataOK

\* Every step of a call leaves the count of requests alone.
LEMMA StepTyped ==
    ASSUME TypeOK, Shaped, NEW t \in Caller, Step(t) \/ Abort(t)
    PROVE  Moves(t) /\ DataOK'
  BY InviteTyped, RoleTyped, CreationTyped, DeletionTyped, AbortTyped DEF Step

\* Every step keeps the types.
LEMMA TypeStep ==
    ASSUME TypeOK, Shaped, [Next]_vars
    PROVE  TypeOK' /\ Shaped'
<1> USE DEF database, openfga, identity, observed
<1>0. task \in [Caller -> Call] /\ DataOK
  BY DEF TypeOK, DataOK, Caller
<1>1. SUFFICES DataOK' /\ task' \in [Caller -> Call] /\ Shaped'
  BY DEF TypeOK, DataOK, Caller
<1>2. ASSUME NEW t \in Caller, Moves(t), DataOK' PROVE DataOK' /\ task' \in [Caller -> Call] /\ Shaped'
  BY <1>0, <1>2, MovesTyped
<1>3. ASSUME NEW t \in Caller, Request(t), calls' \in 0..MaxCalls
      PROVE  DataOK' /\ task' \in [Caller -> Call] /\ Shaped'
  <2>1. Moves(t) /\ UNCHANGED <<database, adopted, mails, identity, codes, faults, observed>>
        /\ ids' \subseteq Project /\ tuples' \subseteq Tuple
    BY <1>3, RequestTyped
  <2>2. DataOK'
    BY <1>0, <1>3, <2>1 DEF DataOK
  <2> QED BY <1>2, <2>1, <2>2
<1>4. CASE calls < MaxCalls /\ calls' = calls + 1 /\ \E t \in Task : Request(t)
  <2>1. calls' \in 0..MaxCalls
    BY <1>0, <1>4, MembershipAssumption DEF DataOK
  <2> QED BY <1>3, <1>4, <2>1 DEF Caller
<1>5. ASSUME NEW t \in Caller, Step(t) \/ Abort(t) PROVE DataOK' /\ task' \in [Caller -> Call] /\ Shaped'
  BY <1>2, <1>5, StepTyped
<1>6. CASE HandleEvents /\ UNCHANGED calls
  <2>1. Request(Cron) /\ Cron \in Caller
    BY <1>6 DEF HandleEvents, Request, Caller
  <2> QED BY <1>0, <1>3, <1>6, <2>1 DEF DataOK
<1>7. CASE Expire
  <2>1. PICK i \in invites : invites' = (invites \ {i}) \cup {[i EXCEPT !.fresh = FALSE]}
    BY <1>7 DEF Expire
  <2>2. [i EXCEPT !.fresh = FALSE] \in Invite
    BY <1>0 DEF DataOK, Invite
  <2>3. invites' \subseteq Invite
    BY <1>0, <2>1, <2>2 DEF DataOK
  <2> QED BY <1>0, <1>7, <2>3 DEF Expire, DataOK, Shaped
<1>8. CASE DeleteAccount \/ DropEvent
  BY <1>0, <1>8 DEF DeleteAccount, DropEvent, DataOK, Shaped
<1>9. CASE UNCHANGED vars
  BY <1>0, <1>9 DEF vars, DataOK, Shaped
<1> QED BY <1>4, <1>5, <1>6, <1>7, <1>8, <1>9 DEF Next, Caller

-----------------------------------------------------------------------------
(* The course of a call *)

\* Whoever moves, the others stay where they are.
LEMMA GoEq ==
    ASSUME task \in [Caller -> Call], NEW t \in Caller, NEW d, Go(t, d)
    PROVE  task'[t] = d /\ \A u \in Caller \ {t} : task'[u] = task[u]
  BY DEF Go

\* Which steps lead where, and which change the projects a call deals with.
Course(t) ==
    /\ task'[t].pc = "send" => CreateInvite(t) \/ FindInvite(t)
    /\ task'[t].pc = "revoke" => ReadFormer(t) \/ RemoveRole(t) \/ Revoke(t) \/ PurgeProject(t)
    /\ task'[t].pc = "grant" => ReadFormer(t) \/ AssignRole(t) \/ Revoke(t)
    /\ task'[t].pc = "rows" => Revoke(t) \/ PurgeProject(t)
    /\ task'[t].pc = "adopt" => CreateChild(t)
    /\ task'[t].pc = "insert" => Adopt(t)
    /\ task'[t].pc = "undo" => InsertFails(t)
    /\ DeleteRows(t) \/ task'[t].doomed = task[t].doomed \/ task'[t].doomed = {}
    /\ CleanUp(t) \/ task'[t].proj \in {task[t].proj, None}
    /\ CreateChild(t) \/ task'[t].child \in {task[t].child, None}
    /\ task'[t].op \in EnrollOps => task'[t].op = task[t].op /\ task'[t].child = task[t].child /\ task'[t].by = task[t].by

\* So it is when a call returns,
LEMMA ReturnCourse ==
    ASSUME TypeOK, NEW t \in Caller, Return(t)
    PROVE  Course(t)
<1>1. task'[t] = Idle
  BY GoEq DEF TypeOK, Return, Caller
<1>2. Idle.pc = "idle" /\ Idle.doomed = {} /\ Idle.proj = None /\ Idle.child = None /\ Idle.op \notin EnrollOps
  BY DEF Idle, EnrollOps
<1> QED BY <1>1, <1>2 DEF Course

\* when it goes on to delete roles,
LEMMA RevokingCourse ==
    ASSUME TypeOK, NEW t \in Caller, NEW c \in Call, NEW as,
           c.proj = task[t].proj, c.child = task[t].child, c.doomed = task[t].doomed,
           c.op \notin EnrollOps, Proceed(t, Revoking(c, as)) \/ Go(t, Revoking(c, as)),
           \/ Revoke(t)
           \/ ReadFormer(t) /\ c.op \in {"update_role", "accept", "remove_role"}
           \/ RemoveRole(t) /\ as # {}
           \/ PurgeProject(t) /\ c.op \in {"delete_project", "delete_user"}
    PROVE  Course(t)
<1> DEFINE pc == IF as = {} THEN AfterRevoke(c) ELSE "revoke"
           d == [c EXCEPT !.todo = as, !.pc = pc]
<1>1. d = Revoking(c, as)
  BY DEF Revoking
<1>2. d.pc = pc /\ d.op = c.op /\ d.proj = c.proj /\ d.child = c.child /\ d.doomed = c.doomed
  BY DEF Call
<1>3. CASE Return(t)
  BY <1>3, ReturnCourse
<1>4. CASE Go(t, d)
  <2>1. task'[t] = d
    BY <1>4, GoEq DEF TypeOK, Caller
  <2>2. /\ pc \in {"revoke", "grant", "rows", "idle"}
        /\ pc = "rows" => c.op \in {"delete_project", "delete_user"}
        /\ pc = "grant" => c.op \in {"update_role", "accept"}
        /\ pc # "revoke" => as = {}
    BY DEF AfterRevoke
  <2> HIDE DEF d, pc
  <2> QED BY <1>2, <2>1, <2>2 DEF Course
<1> QED BY <1>1, <1>3, <1>4 DEF Proceed, Return

\* and in every other step.
LEMMA StepCourse ==
    ASSUME TypeOK, Shaped, NEW t \in Caller, Step(t) \/ Abort(t)
    PROVE  Course(t)
<1> DEFINE c == task[t]
<1>0. task \in [Caller -> Call] /\ c \in Call /\ Shape(c)
  BY DEF TypeOK, Shaped, Caller
<1>1. CASE Return(t)
  BY <1>1, ReturnCourse
\* A step that changes where the call is, what it has read, and nothing of its projects.
<1>2. ASSUME NEW d \in Call, Go(t, d), d.proj = c.proj, d.child = c.child, d.op = c.op, d.by = c.by, d.doomed \in {c.doomed, {}},
             d.pc \in {"resolve", "cleanup", "commit", "orphan", "forget"}
      PROVE  Course(t)
  BY <1>0, <1>2, GoEq DEF Course
<1>3. CASE CreateInvite(t)
  <2>1. ASSUME NEW k, Go(t, [c EXCEPT !.pc = "send", !.code = k]) PROVE Course(t)
    <3>1. task'[t] = [c EXCEPT !.pc = "send", !.code = k]
      BY <1>0, <2>1, GoEq
    <3> QED BY <1>0, <1>3, <3>1 DEF Course, Call
  <2> QED BY <1>1, <1>3, <2>1 DEF CreateInvite
<1>4. CASE FindInvite(t)
  <2>1. ASSUME NEW k, NEW as, Go(t, [c EXCEPT !.pc = "send", !.code = k, !.todo = as]) PROVE Course(t)
    <3>1. task'[t] = [c EXCEPT !.pc = "send", !.code = k, !.todo = as]
      BY <1>0, <2>1, GoEq
    <3> QED BY <1>0, <1>4, <3>1 DEF Course, Call
  <2>2. Return(t) \/ \E k, as : Go(t, [c EXCEPT !.pc = "send", !.code = k, !.todo = as])
    BY <1>4 DEF FindInvite
  <2> QED BY <1>1, <2>1, <2>2
<1>5. CASE SendInvite(t) \/ SendUpdate(t) \/ RemoveInvite(t) \/ Resolve(t) \/ InsertProject(t) \/ UndoTuple(t) \/ Deadlock(t) \/ Abort(t)
  BY <1>1, <1>5 DEF SendInvite, SendUpdate, RemoveInvite, Resolve, InsertProject, UndoTuple, Deadlock, Abort
<1>6. CASE ReadFormer(t)
  <2>1. c.op \in {"update_role", "accept"} /\ c.op \notin EnrollOps /\ "remove_role" \notin EnrollOps
    BY <1>6 DEF ReadFormer, EnrollOps
  <2>2. CASE Go(t, Revoking(c, FormerRoles(c.sub, c.proj)))
    BY <1>0, <1>6, <2>1, <2>2, RevokingCourse
  <2>3. ASSUME NEW met, Proceed(t, Revoking([c EXCEPT !.op = "remove_role"], met)) PROVE Course(t)
    <3>1. /\ [c EXCEPT !.op = "remove_role"] \in Call /\ [c EXCEPT !.op = "remove_role"].op = "remove_role"
          /\ [c EXCEPT !.op = "remove_role"].proj = c.proj /\ [c EXCEPT !.op = "remove_role"].child = c.child
          /\ [c EXCEPT !.op = "remove_role"].doomed = c.doomed
      BY <1>0 DEF Call, Operation, ManageOps, RemoveOps
    <3> QED BY <1>6, <2>1, <2>3, <3>1, RevokingCourse
  <2> QED BY <1>1, <1>6, <2>2, <2>3 DEF ReadFormer
<1>7. CASE AssignRole(t)
  <2>1. ASSUME Go(t, [c EXCEPT !.pc = "grant"]) PROVE Course(t)
    <3>1. task'[t] = [c EXCEPT !.pc = "grant"]
      BY <1>0, <2>1, GoEq
    <3> QED BY <1>0, <1>7, <3>1 DEF Course, Call
  <2> QED BY <1>1, <1>7, <2>1 DEF AssignRole
<1>8. CASE RemoveRole(t)
  <2>1. c.op \notin EnrollOps
    BY <1>8 DEF RemoveRole, EnrollOps
  <2>2. Return(t) \/ \E as : as # {} /\ Go(t, Revoking(c, as))
    BY <1>8 DEF RemoveRole
  <2> QED BY <1>0, <1>1, <1>8, <2>1, <2>2, RevokingCourse
<1>9. CASE Revoke(t)
  <2>1. c.op \notin EnrollOps
    BY <1>0, <1>9 DEF Revoke, At, Shape, EnrollOps
  <2>2. \E as : Proceed(t, Revoking(c, as))
    BY <1>9 DEF Revoke
  <2> QED BY <1>0, <1>9, <2>1, <2>2, RevokingCourse
<1>10. CASE Grant(t)
  <2>1. ASSUME Go(t, [c EXCEPT !.pc = "resolve"]) PROVE Course(t)
    BY <1>0, <1>2, <2>1 DEF Call, Status
  <2> QED BY <1>1, <1>10, <2>1 DEF Grant
<1>11. CASE InsertFails(t)
  <2>1. Proceed(t, Undo(c))
    BY <1>11 DEF InsertFails
  <2>2. Undo(c).pc = "undo" /\ Undo(c).op = c.op /\ Undo(c).child = c.child /\ Undo(c).proj = c.proj /\ Undo(c).by = c.by
        /\ Undo(c).doomed = c.doomed
    BY <1>0 DEF Undo, Call
  <2>3. task'[t] = Undo(c)
    BY <1>0, <2>1, <2>2, GoEq DEF Proceed
  <2> QED BY <1>11, <2>2, <2>3 DEF Course
<1>12. CASE CreateChild(t)
  <2>1. ASSUME NEW p, Go(t, [c EXCEPT !.pc = "adopt", !.child = p]) PROVE Course(t)
    <3>1. task'[t] = [c EXCEPT !.pc = "adopt", !.child = p]
      BY <1>0, <2>1, GoEq
    <3> QED BY <1>0, <1>12, <3>1 DEF CreateChild, Course, Call, EnrollOps
  <2> QED BY <1>1, <1>12, <2>1 DEF CreateChild
<1>13. CASE Adopt(t)
  <2>1. task'[t] = [c EXCEPT !.pc = "insert"]
    BY <1>0, <1>13, GoEq DEF Adopt
  <2> QED BY <1>0, <1>13, <2>1 DEF Course, Call
<1>14. CASE PurgeProject(t)
  <2>1. c.op \in {"delete_project", "delete_user"} /\ c.op \notin EnrollOps
    BY <1>0, <1>14 DEF PurgeProject, At, Shape, EnrollOps
  <2>2. CASE Go(t, Revoking(c, RolesToDelete(c.proj)))
    BY <1>0, <1>14, <2>1, <2>2, RevokingCourse
  <2>3. CASE Go(t, [c EXCEPT !.pc = "cleanup"])
    BY <1>0, <1>2, <2>3 DEF Call, Status
  <2>4. CASE Go(t, Idle)
    BY <1>1, <2>4 DEF Return
  <2> QED BY <1>14, <2>2, <2>3, <2>4 DEF PurgeProject
<1>15. CASE DeleteRows(t)
  <2>1. PICK d1, d2, pc : pc \in {"cleanup", "commit", "orphan"} /\ Go(t, [c EXCEPT !.doomed = d1, !.orphans = d2, !.pc = pc])
    BY <1>15 DEF DeleteRows, AfterPurge
  <2>2. task'[t] = [c EXCEPT !.doomed = d1, !.orphans = d2, !.pc = pc]
    BY <1>0, <2>1, GoEq
  <2> QED BY <1>0, <1>15, <2>1, <2>2 DEF Course, Call
<1>16. CASE Orphan(t)
  <2>1. PICK d2, pc : pc \in {"cleanup", "commit", "orphan"} /\ Go(t, [c EXCEPT !.orphans = d2, !.pc = pc])
    BY <1>16 DEF Orphan, AfterPurge
  <2>2. task'[t] = [c EXCEPT !.orphans = d2, !.pc = pc]
    BY <1>0, <2>1, GoEq
  <2> QED BY <1>0, <2>1, <2>2 DEF Course, Call
<1>17. CASE CleanUp(t)
  <2>0. c.pc = "cleanup" /\ c.op \notin EnrollOps
    BY <1>0, <1>17 DEF CleanUp, At, Shape, EnrollOps
  <2>1. CASE Go(t, [c EXCEPT !.pc = "commit"])
    BY <1>0, <1>2, <2>1 DEF Call, Status
  <2>2. ASSUME NEW ps, Go(t, [c EXCEPT !.projs = ps]) PROVE Course(t)
    <3>1. task'[t] = [c EXCEPT !.projs = ps]
      BY <1>0, <2>2, GoEq
    <3> QED BY <1>0, <2>0, <3>1 DEF Course, Call
  <2>3. ASSUME NEW ps, NEW p, Go(t, [c EXCEPT !.projs = ps, !.pc = "purge", !.proj = p]) PROVE Course(t)
    <3>1. task'[t] = [c EXCEPT !.projs = ps, !.pc = "purge", !.proj = p]
      BY <1>0, <2>3, GoEq
    <3> QED BY <1>0, <1>17, <2>0, <3>1 DEF Course, Call
  <2> QED BY <1>17, <2>1, <2>2, <2>3 DEF CleanUp
<1>18. CASE Commit(t)
  <2>1. ASSUME NEW as, Go(t, [c EXCEPT !.pc = "forget", !.doomed = {}, !.todo = as]) PROVE Course(t)
    <3>1. task'[t] = [c EXCEPT !.pc = "forget", !.doomed = {}, !.todo = as]
      BY <1>0, <2>1, GoEq
    <3> QED BY <1>0, <3>1 DEF Course, Call
  <2> QED BY <1>1, <1>18, <2>1 DEF Commit
<1>19. CASE Forget(t)
  <2>0. c.pc = "forget"
    BY <1>19 DEF Forget, At
  <2>1. ASSUME NEW as, Go(t, [c EXCEPT !.todo = as]) PROVE Course(t)
    <3>1. task'[t] = [c EXCEPT !.todo = as]
      BY <1>0, <2>1, GoEq
    <3> QED BY <1>0, <2>0, <3>1 DEF Course, Call
  <2> QED BY <1>1, <1>19, <2>1 DEF Forget
<1> QED BY <1>3, <1>4, <1>5, <1>6, <1>7, <1>8, <1>9, <1>10, <1>11, <1>12, <1>13, <1>14, <1>15, <1>16, <1>17, <1>18, <1>19
       DEF Step

-----------------------------------------------------------------------------
(* The inductive invariant *)

Sender(t) == task[t].pc = "send" /\ task[t].op = "invite"

\* A code is generated once, goes from its call to its row, and from there to one acceptance.
CodeOnce ==
    /\ \A i \in invites : i.code \in codes /\ accepted[i.code] = 0
    /\ \A c \in Code : c \notin codes => accepted[c] = 0
    /\ \A t \in Caller : Sender(t) =>
         /\ task[t].code \in codes /\ accepted[task[t].code] = 0
         /\ \A i \in invites : i.code # task[t].code
         /\ \A u \in Caller \ {t} : Sender(u) => task[u].code # task[t].code

\* Who read an invitation's role read one that was mailed.
ReadMailed ==
    \A t \in Caller : task[t].pc = "send" /\ task[t].op = "update_invite" =>
        \A a \in task[t].todo : <<task[t].code, a.role>> \in mails

\* Who saw no invitation for the address, and is to send one, is alone or in a race.
NoneYet ==
    \A t \in Caller : Sender(t) => InvitesFor(task[t].sub, task[t].proj) = {} \/ Target(task[t]) \in raced

\* Changes of a role, from the read of the former ones on.
Changer(t) == task[t].op \in {"update_role", "accept", "assign"} /\ task[t].pc \in {"revoke", "grant"}

\* What is left to revoke is all there is, or there is a race.
FormerKnown ==
    \A t \in Caller : Changer(t) =>
        \/ RolesOf(task[t].sub, task[t].proj) \subseteq (IF task[t].pc = "revoke" THEN task[t].todo ELSE {})
        \/ Target(task[t]) \in raced

\* Nothing names a project id that was not generated.
IdsKnown ==
    /\ rows \subseteq ids
    /\ \A a \in tuples : a.proj \in ids
    /\ \A o \in adopted : o[2] \in ids
    /\ \A i \in invites : i.proj \in ids
    /\ \A t \in Caller : task[t].proj \in ids \cup {None} /\ task[t].child \in ids \cup {None}

Unborn(t) == task[t].pc \in {"adopt", "insert", "undo"}

\* A project that is being created has no row, and one creator.
Creation ==
    /\ \A t \in Caller : Unborn(t) => task[t].child \notin rows
    /\ \A t, u \in Caller : Unborn(t) /\ Unborn(u) /\ task[t].child = task[u].child => t = u

\* The rows that one transaction has deleted are there for the others, and theirs alone.
Doom ==
    /\ \A t \in Caller : task[t].doomed \subseteq rows
    /\ \A t, u \in Caller : t # u => task[t].doomed \cap task[u].doomed = {}

\* The deletion of a project knows all roles in it, but those known to leak.
Purged ==
    \A t \in Caller :
        /\ task[t].op \in {"delete_project", "delete_user"} /\ task[t].pc \in {"revoke", "rows"} =>
             \/ Assignments(task[t].proj) \subseteq (IF task[t].pc = "revoke" THEN task[t].todo ELSE {})
             \/ task[t].proj \in leaked
        /\ \A p \in task[t].doomed : parent[p] # None \/ Assignments(p) = {} \/ p \in leaked

\* A role without project is that of a creator under way.
Backed ==
    \A a \in tuples :
        \/ a.proj \in rows \cup leaked
        \/ \E t \in Task : /\ task[t].op \in EnrollOps /\ task[t].child = a.proj
                           /\ a = [sub |-> task[t].by, role |-> "admin", proj |-> task[t].child]

\* What a deletion holds, by where it is: the rows it has deleted, the projects it has still
\* to look at, the roles it is about to delete.
Holds(c) ==
    /\ c.pc = "idle" => c.op = "decline"
    /\ c.doomed # {} => c.op = "delete_user" \/ (c.op = "delete_project" /\ c.pc \in {"orphan", "commit"})
    /\ c.pc = "forget" => c.doomed = {} /\ \A a \in c.todo : a.sub = c.sub
    /\ c.pc \in {"commit", "forget"} /\ c.op = "delete_user" => c.projs = {}
    /\ c.pc = "revoke" /\ c.op \in {"delete_project", "delete_user"} => \A a \in c.todo : a.proj = c.proj

Held == \A t \in Caller : Holds(task[t])

\* A project has an administrator it can count on.
Manned == \A p \in rows : parent[p] = None => p \in stranded \/ BeingDeleted(p) \/ Staying(p) # {}

\* What is known of invitations, of roles, of projects, and of their administrators.
Invitations == CodeOnce /\ AcceptedOnce /\ ReadMailed /\ InvitationMailed /\ NoneYet /\ OneInvitation
Roles       == FormerKnown /\ OneRole
Projects    == IdsKnown /\ Creation /\ Doom /\ Purged /\ Backed
Managers    == Held /\ Manned

IInv == TypeOK /\ Shaped /\ Invitations /\ Roles /\ Projects /\ Managers

\* A request deals with a project there is or was, and with no other state.
LEMMA RequestCourse ==
    ASSUME TypeOK, Shaped, IdsKnown, NEW t \in Caller, Request(t)
    PROVE  /\ task'[t].pc \in {"allowed", "resolve", "cleanup", "insert"}
           /\ task'[t].pc = "insert" <=> Enroll(t)
           /\ task'[t].op \in EnrollOps => Enroll(t)
           /\ task'[t].doomed = {}
           /\ task'[t].proj \in ids \cup {None}
           /\ Enroll(t) \/ task'[t].child = None
<1>0. task \in [Caller -> Call] /\ Idle \in Call /\ Idle.proj = None /\ Idle.child = None /\ Idle.doomed = {}
  BY IdleTyped DEF TypeOK, Caller, Idle
\* An enrollment changes ids, which tells it from the other requests.
<1>1. Enroll(t) => ids' # ids
  BY DEF Enroll
<1>2. ASSUME NEW op, NEW u, NEW s, NEW r, NEW p \in ids, op \notin EnrollOps, ids' = ids,
             Go(t, [Idle EXCEPT !.op = op, !.pc = "allowed", !.by = u, !.sub = s, !.role = r, !.proj = p])
      PROVE  /\ task'[t].pc = "allowed" /\ task'[t].op \notin EnrollOps /\ task'[t].doomed = {}
             /\ task'[t].proj \in ids /\ task'[t].child = None /\ ~Enroll(t)
  <2>1. task'[t] = [Idle EXCEPT !.op = op, !.pc = "allowed", !.by = u, !.sub = s, !.role = r, !.proj = p]
    BY <1>0, <1>2, GoEq
  <2> QED BY <1>0, <1>1, <1>2, <2>1 DEF Call
<1>3. ASSUME NEW u, NEW op, NEW p, Permitted(u, op, p) PROVE p \in ids
  BY <1>3 DEF Permitted, HasRole, IdsKnown
<1>4. CASE ManageRoles(t)
  <2>1. PICK op \in ManageOps, u \in User, r \in Role, p \in Project, s \in Subject :
          Permitted(u, op, p) /\ Begin(t, op, u, s, r, p)
    BY <1>4 DEF ManageRoles, Subject
  <2>2. p \in ids /\ op \notin EnrollOps
    BY <1>3, <2>1 DEF ManageOps, AssignOps, UpdateOps, RemoveOps, EnrollOps
  <2> QED BY <1>2, <2>1, <2>2 DEF Begin
<1>5. CASE ManageProject(t)
  <2>1. PICK op \in AdminOps, u \in User, p \in Project : Permitted(u, op, p) /\ Begin(t, op, u, u, "admin", p)
    BY <1>5 DEF ManageProject
  <2>2. p \in ids /\ op \notin EnrollOps
    BY <1>3, <2>1 DEF AdminOps, EnrollOps
  <2> QED BY <1>2, <2>1, <2>2 DEF Begin
<1>6. CASE ResolveInvitation(t)
  <2>0. PICK op \in ResolveOps \cap Op, u \in User \ gone, i \in invites :
          /\ ids' = ids
          /\ Go(t, [Idle EXCEPT !.op = op, !.pc = IF op = "accept" THEN "allowed" ELSE "resolve", !.by = u,
                                !.sub = u, !.role = i.role, !.proj = i.proj, !.code = i.code])
    BY <1>6 DEF ResolveInvitation
  <2>1. PICK pc : /\ pc \in {"allowed", "resolve"} /\ ids' = ids
                  /\ Go(t, [Idle EXCEPT !.op = op, !.pc = pc, !.by = u,
                                        !.sub = u, !.role = i.role, !.proj = i.proj, !.code = i.code])
    BY <2>0
  <2>2. task'[t] = [Idle EXCEPT !.op = op, !.pc = pc, !.by = u,
                                !.sub = u, !.role = i.role, !.proj = i.proj, !.code = i.code]
    BY <1>0, <2>1, GoEq
  <2>3. i.proj \in ids /\ op \notin EnrollOps
    BY DEF IdsKnown, ResolveOps, EnrollOps
  <2> QED BY <1>0, <1>1, <2>1, <2>2, <2>3 DEF Call
<1>7. CASE Enroll(t)
  <2>1. PICK op \in EnrollOps, u \in User, p \in Project :
          Go(t, [Idle EXCEPT !.op = op, !.pc = "insert", !.by = u, !.sub = u, !.child = p])
    BY <1>7 DEF Enroll
  <2>2. task'[t] = [Idle EXCEPT !.op = op, !.pc = "insert", !.by = u, !.sub = u, !.child = p]
    BY <1>0, <2>1, GoEq
  <2> QED BY <1>0, <1>7, <2>2 DEF Call
<1>8. ASSUME NEW u \in User, DeleteUser(t, u)
      PROVE  /\ task'[t].pc = "cleanup" /\ task'[t].op \notin EnrollOps /\ task'[t].doomed = {}
             /\ task'[t].proj = None /\ task'[t].child = None /\ ~Enroll(t)
  <2>1. PICK ps : Go(t, [Idle EXCEPT !.op = "delete_user", !.pc = "cleanup", !.by = u, !.sub = u, !.projs = ps]) /\ ids' = ids
    BY <1>8 DEF DeleteUser
  <2>2. task'[t] = [Idle EXCEPT !.op = "delete_user", !.pc = "cleanup", !.by = u, !.sub = u, !.projs = ps]
    BY <1>0, <2>1, GoEq
  <2>3. "delete_user" \notin EnrollOps
    BY DEF EnrollOps
  <2> QED BY <1>0, <1>1, <2>1, <2>2, <2>3 DEF Call
<1> QED BY <1>4, <1>5, <1>6, <1>7, <1>8 DEF Request

-----------------------------------------------------------------------------
(* Invitations *)

\* A step that sends nothing and starts no sending.
LEMMA InvitationsQuiet ==
    ASSUME IInv, codes' = codes, accepted' = accepted, invites' \subseteq invites, mails \subseteq mails',
           raced \subseteq raced', \A u \in Caller : task'[u].pc = "send" => task'[u] = task[u]
    PROVE  Invitations'
<1>1. CodeOnce'
  BY DEF IInv, Invitations, CodeOnce, Sender
<1>2. AcceptedOnce'
  BY DEF IInv, Invitations, AcceptedOnce
<1>3. ReadMailed'
  BY DEF IInv, Invitations, ReadMailed
<1>4. InvitationMailed'
  BY DEF IInv, Invitations, InvitationMailed
<1>5. NoneYet'
  BY DEF IInv, Invitations, NoneYet, InvitesFor, Target, Sender
<1>6. OneInvitation'
  BY DEF IInv, Invitations, OneInvitation
<1> QED BY <1>1, <1>2, <1>3, <1>4, <1>5, <1>6 DEF Invitations

\* Races that were seen stay so.
LEMMA RaceGrows ==
    ASSUME NEW t, Race(t)
    PROVE  raced \subseteq raced'
  BY DEF Race

\* A code that is generated is in nobody's hands.
LEMMA InvitationsCreate ==
    ASSUME IInv, NEW t \in Caller, CreateInvite(t)
    PROVE  Invitations'
<1> USE DEF database, openfga, identity, observed
<1> DEFINE c == task[t]
<1>0. task \in [Caller -> Call] /\ c \in Call /\ Shape(c)
  BY DEF IInv, TypeOK, Shaped, Caller
<1>1. UNCHANGED <<invites, mails, accepted, raced>>
  BY DEF CreateInvite
<1>2. CASE Return(t) /\ codes' = codes
  <2>1. \A u \in Caller : task'[u].pc = "send" => task'[u] = task[u]
    BY <1>0, <1>2, GoEq DEF Return, Idle
  <2> QED BY <1>1, <1>2, <2>1, InvitationsQuiet
<1>3. ASSUME NEW k \in GenerateCode, Go(t, [c EXCEPT !.pc = "send", !.code = k]), codes' = codes \cup {k},
             InvitesFor(c.sub, c.proj) = {}
      PROVE  Invitations'
  <2>1. task'[t] = [c EXCEPT !.pc = "send", !.code = k] /\ \A u \in Caller \ {t} : task'[u] = task[u]
    BY <1>0, <1>3, GoEq
  <2>2. task'[t].pc = "send" /\ task'[t].code = k /\ task'[t].op = "invite" /\ task'[t].sub = c.sub /\ task'[t].proj = c.proj
    BY <1>0, <2>1 DEF Call, CreateInvite
  <2>3. k \in Code /\ k \notin codes
    BY DEF GenerateCode
  <2>s. /\ \A u \in Caller \ {t} : (Sender(u)' => Sender(u)) /\ task'[u].code = task[u].code
        /\ task'[t].code = k /\ codes' = codes \cup {k} /\ invites' = invites /\ accepted' = accepted
    BY <1>1, <1>3, <2>1, <2>2 DEF Sender
  <2>4. CodeOnce'
    <3>1. /\ \A i \in invites : i.code \in codes /\ accepted[i.code] = 0
          /\ \A x \in Code : x \notin codes => accepted[x] = 0
          /\ \A u \in Caller : Sender(u) =>
               /\ task[u].code \in codes /\ accepted[task[u].code] = 0
               /\ \A i \in invites : i.code # task[u].code
               /\ \A v \in Caller \ {u} : Sender(v) => task[v].code # task[u].code
      BY DEF IInv, Invitations, CodeOnce
    <3>2. ASSUME NEW u \in Caller, Sender(u)'
          PROVE  /\ task'[u].code \in codes' /\ accepted'[task'[u].code] = 0
                 /\ \A i \in invites' : i.code # task'[u].code
                 /\ \A v \in Caller \ {u} : Sender(v)' => task'[v].code # task'[u].code
      <4>1. CASE u = t
        BY <2>3, <2>s, <3>1, <4>1
      <4>2. CASE u # t
        BY <2>3, <2>s, <3>1, <3>2, <4>2
      <4> QED BY <4>1, <4>2
    <3>3. /\ \A i \in invites' : i.code \in codes' /\ accepted'[i.code] = 0
          /\ \A x \in Code : x \notin codes' => accepted'[x] = 0
      BY <1>1, <1>3, <3>1
    <3> QED BY <3>2, <3>3 DEF CodeOnce
  <2>5. AcceptedOnce' /\ InvitationMailed' /\ OneInvitation'
    BY <1>1 DEF IInv, Invitations, AcceptedOnce, InvitationMailed, OneInvitation
  <2>6. ReadMailed'
    BY <1>1, <2>1, <2>2 DEF IInv, Invitations, ReadMailed
  <2>7. NoneYet'
    <3> SUFFICES ASSUME NEW u \in Caller, Sender(u)'
                 PROVE  (InvitesFor(task[u].sub, task[u].proj) = {} \/ Target(task[u]) \in raced)'
      BY DEF NoneYet
    <3>1. CASE u = t
      BY <1>1, <1>3, <2>2, <3>1 DEF InvitesFor
    <3>2. CASE u # t
      BY <1>1, <2>1, <2>s, <3>2 DEF IInv, Invitations, NoneYet, InvitesFor, Target
    <3> QED BY <3>1, <3>2
  <2> QED BY <2>4, <2>5, <2>6, <2>7 DEF Invitations
<1> QED BY <1>2, <1>3 DEF CreateInvite

\* The role an update has read was mailed.
LEMMA InvitationsFind ==
    ASSUME IInv, NEW t \in Caller, FindInvite(t)
    PROVE  Invitations'
<1> USE DEF database, openfga, identity, observed
<1> DEFINE c == task[t]
<1>0. task \in [Caller -> Call] /\ c \in Call /\ Shape(c)
  BY DEF IInv, TypeOK, Shaped, Caller
<1>1. UNCHANGED <<invites, mails, codes, accepted, raced>>
  BY DEF FindInvite
<1>2. CASE Return(t)
  <2>1. \A u \in Caller : task'[u].pc = "send" => task'[u] = task[u]
    BY <1>0, <1>2, GoEq DEF Return, Idle
  <2> QED BY <1>1, <2>1, InvitationsQuiet
<1>3. ASSUME NEW i \in invites,
             Go(t, [c EXCEPT !.pc = "send", !.code = i.code,
                             !.todo = {[sub |-> i.email, role |-> i.role, proj |-> i.proj]}])
      PROVE  Invitations'
  <2> DEFINE as == {[sub |-> i.email, role |-> i.role, proj |-> i.proj]}
  <2>1. task'[t] = [c EXCEPT !.pc = "send", !.code = i.code, !.todo = as] /\ \A u \in Caller \ {t} : task'[u] = task[u]
    BY <1>0, <1>3, GoEq
  <2>2. \A a \in as : a.role = i.role
    OBVIOUS
  <2> HIDE DEF as
  <2>3. /\ task'[t].pc = "send" /\ task'[t].code = i.code /\ task'[t].op \in {"update_invite", "remove_invite"}
        /\ task'[t].todo = as
    BY <1>0, <2>1 DEF Call, FindInvite
  <2>4. \A u \in Caller : Sender(u)' => Sender(u) /\ task'[u] = task[u]
    BY <2>1, <2>3 DEF Sender
  <2>5. CodeOnce'
    BY <1>1, <2>4 DEF IInv, Invitations, CodeOnce, Sender
  <2>6. AcceptedOnce' /\ InvitationMailed' /\ OneInvitation'
    BY <1>1 DEF IInv, Invitations, AcceptedOnce, InvitationMailed, OneInvitation
  <2>7. ReadMailed'
    <3>1. <<i.code, i.role>> \in mails
      BY DEF IInv, Invitations, InvitationMailed
    <3> QED BY <1>1, <2>1, <2>2, <2>3, <3>1 DEF IInv, Invitations, ReadMailed
  <2>8. NoneYet'
    BY <1>1, <2>4 DEF IInv, Invitations, NoneYet, InvitesFor, Target
  <2> QED BY <2>5, <2>6, <2>7, <2>8 DEF Invitations
<1>4. Return(t) \/ \E i \in invites :
        Go(t, [c EXCEPT !.pc = "send", !.code = i.code, !.todo = {[sub |-> i.email, role |-> i.role, proj |-> i.proj]}])
  BY DEF FindInvite, InvitesFor
<1> QED BY <1>2, <1>3, <1>4

\* The row takes the code over from the call. Another invitation of the address is one
\* that was sent meanwhile, and then the two were seen to race.
LEMMA InvitationsSend ==
    ASSUME IInv, NEW t \in Caller, SendInvite(t)
    PROVE  Invitations'
<1> USE DEF database, openfga, identity, observed
<1> DEFINE c == task[t]
           new == [code |-> c.code, email |-> c.sub, role |-> c.role, proj |-> c.proj, sponsor |-> c.by, fresh |-> TRUE]
<1>0. /\ task \in [Caller -> Call] /\ c \in Call /\ Shape(c) /\ c.code \in Code /\ DOMAIN task = Caller
      /\ c.op = "invite" /\ c.pc = "send" /\ Sender(t)
  BY DEF IInv, TypeOK, Shaped, Caller, SendInvite, At, Shape, Sender
<1>1. codes' = codes /\ accepted' = accepted /\ raced \subseteq raced' /\ mails \subseteq mails'
  BY RaceGrows DEF SendInvite, Publish
<1>2. task'[t].pc = "idle" /\ \A u \in Caller \ {t} : task'[u] = task[u]
  BY <1>0, GoEq DEF SendInvite, Return, Idle
<1>3. CASE invites' = invites
  <2>1. \A u \in Caller : task'[u].pc = "send" => task'[u] = task[u]
    BY <1>2
  <2> QED BY <1>1, <1>3, <2>1, InvitationsQuiet
<1>4. CASE invites' = invites \cup {new} /\ mails' = mails \cup {<<c.code, c.role>>}
  <2>1. new.code = c.code /\ new.email = c.sub /\ new.proj = c.proj /\ new.role = c.role
    OBVIOUS
  <2>2. invites' = invites \cup {new} /\ mails' = mails \cup {<<c.code, c.role>>}
    BY <1>4
  <2> HIDE DEF new
  <2>3. /\ c.code \in codes /\ accepted[c.code] = 0
        /\ \A i \in invites : i.code # c.code
        /\ \A u \in Caller \ {t} : Sender(u) => task[u].code # c.code
    BY <1>0 DEF IInv, Invitations, CodeOnce
  <2>4. CodeOnce'
    BY <1>1, <1>2, <2>1, <2>2, <2>3 DEF IInv, Invitations, CodeOnce, Sender
  <2>5. AcceptedOnce'
    BY <1>1 DEF IInv, Invitations, AcceptedOnce
  <2>6. ReadMailed'
    BY <1>1, <1>2 DEF IInv, Invitations, ReadMailed
  <2>7. InvitationMailed'
    BY <2>1, <2>2 DEF IInv, Invitations, InvitationMailed
  <2>8. OneInvitation'
    <3>1. \A i \in invites : i.email = c.sub /\ i.proj = c.proj => <<c.sub, c.proj, "invite">> \in raced
      BY <1>0 DEF IInv, Invitations, NoneYet, InvitesFor, Sender, Target, Kind
    <3> QED BY <1>1, <2>1, <2>2, <3>1 DEF IInv, Invitations, OneInvitation
  <2>9. NoneYet'
    <3> SUFFICES ASSUME NEW u \in Caller, Sender(u)'
                 PROVE  (InvitesFor(task[u].sub, task[u].proj) = {} \/ Target(task[u]) \in raced)'
      BY DEF NoneYet
    <3>1. u # t /\ task'[u] = task[u] /\ Sender(u)
      BY <1>2 DEF Sender
    <3>2. CASE Target(task[u]) = Target(c)
      <4>1. Target(c) \in raced'
        BY <1>0, <3>1, <3>2 DEF SendInvite, Race, Pending, Sender
      <4> QED BY <3>1, <3>2, <4>1 DEF Target
    <3>3. CASE Target(task[u]) # Target(c)
      <4>1. ~(task[u].sub = c.sub /\ task[u].proj = c.proj)
        BY <1>0, <3>1, <3>3 DEF Target, Sender
      <4>2. InvitesFor(task[u].sub, task[u].proj) = {} \/ Target(task[u]) \in raced
        BY <3>1 DEF IInv, Invitations, NoneYet
      <4> QED BY <1>1, <2>1, <2>2, <3>1, <4>1, <4>2 DEF InvitesFor, Target
    <3> QED BY <3>2, <3>3
  <2> QED BY <2>4, <2>5, <2>6, <2>7, <2>8, <2>9 DEF Invitations
<1> QED BY <1>3, <1>4 DEF SendInvite, Publish

\* A step that rewrites invitations: the code, the address and the project stay.
LEMMA InvitationsRewritten ==
    ASSUME IInv, codes' = codes, accepted' = accepted, mails \subseteq mails', raced \subseteq raced',
           \A u \in Caller : task'[u].pc = "send" => task'[u] = task[u],
           NEW f, \A j \in invites' : \E i \in invites : j = f[i],
           \A i \in invites : /\ f[i].code = i.code /\ f[i].email = i.email /\ f[i].proj = i.proj
                              /\ <<i.code, f[i].role>> \in mails'
    PROVE  Invitations'
<1>0. \A j \in invites' : \E i \in invites : j.code = i.code /\ j.email = i.email /\ j.proj = i.proj
  <2> TAKE j \in invites'
  <2>1. PICK i \in invites : j = f[i]
    OBVIOUS
  <2>2. f[i].code = i.code /\ f[i].email = i.email /\ f[i].proj = i.proj
    OBVIOUS
  <2> QED BY <2>1, <2>2
<1>1. CodeOnce'
  <2>1. /\ \A j \in invites' : j.code \in codes' /\ accepted'[j.code] = 0
        /\ \A x \in Code : x \notin codes' => accepted'[x] = 0
    BY <1>0 DEF IInv, Invitations, CodeOnce
  <2> SUFFICES ASSUME NEW u \in Caller, Sender(u)'
               PROVE  /\ task'[u].code \in codes' /\ accepted'[task'[u].code] = 0
                      /\ \A j \in invites' : j.code # task'[u].code
                      /\ \A v \in Caller \ {u} : Sender(v)' => task'[v].code # task'[u].code
    BY <2>1 DEF CodeOnce
  <2>2. \A v \in Caller : Sender(v)' => Sender(v) /\ task'[v] = task[v]
    BY DEF Sender
  <2>3. /\ task[u].code \in codes /\ accepted[task[u].code] = 0
        /\ \A j \in invites : j.code # task[u].code
        /\ \A v \in Caller \ {u} : Sender(v) => task[v].code # task[u].code
    BY <2>2 DEF IInv, Invitations, CodeOnce
  <2> QED BY <1>0, <2>2, <2>3
<1>2. AcceptedOnce'
  BY DEF IInv, Invitations, AcceptedOnce
<1>3. ReadMailed'
  BY DEF IInv, Invitations, ReadMailed
<1>4. InvitationMailed'
  <2> SUFFICES ASSUME NEW j \in invites' PROVE <<j.code, j.role>> \in mails'
    BY DEF InvitationMailed
  <2>1. PICK i \in invites : j = f[i]
    OBVIOUS
  <2>2. f[i].code = i.code /\ <<i.code, f[i].role>> \in mails'
    OBVIOUS
  <2> QED BY <2>1, <2>2
<1>5. NoneYet'
  <2> SUFFICES ASSUME NEW u \in Caller, Sender(u)'
               PROVE  (InvitesFor(task[u].sub, task[u].proj) = {} \/ Target(task[u]) \in raced)'
    BY DEF NoneYet
  <2>1. task'[u] = task[u] /\ Sender(u)
    BY DEF Sender
  <2>2. InvitesFor(task[u].sub, task[u].proj) = {} \/ Target(task[u]) \in raced
    BY <2>1 DEF IInv, Invitations, NoneYet
  <2>3. CASE InvitesFor(task[u].sub, task[u].proj) = {}
    BY <1>0, <2>1, <2>3 DEF InvitesFor
  <2>4. CASE Target(task[u]) \in raced
    BY <2>1, <2>4 DEF Target
  <2> QED BY <2>2, <2>3, <2>4
<1>6. OneInvitation'
  <2> SUFFICES ASSUME NEW i \in invites', NEW j \in invites', i.email = j.email, i.proj = j.proj
               PROVE  i = j \/ <<i.email, i.proj, "invite">> \in raced'
    BY DEF OneInvitation
  <2>1. PICK i0 \in invites : i = f[i0]
    OBVIOUS
  <2>2. PICK j0 \in invites : j = f[j0]
    OBVIOUS
  <2>3. i0.email = i.email /\ i0.proj = i.proj /\ j0.email = j.email /\ j0.proj = j.proj
    BY <2>1, <2>2
  <2>4. i0 = j0 \/ <<i0.email, i0.proj, "invite">> \in raced
    BY <2>3 DEF IInv, Invitations, OneInvitation
  <2> QED BY <2>1, <2>2, <2>3, <2>4
<1> QED BY <1>1, <1>2, <1>3, <1>4, <1>5, <1>6 DEF Invitations

\* An update mails the role it writes, or has read that role and so knows it was mailed.
LEMMA InvitationsUpdate ==
    ASSUME IInv, NEW t \in Caller, SendUpdate(t)
    PROVE  Invitations'
<1> USE DEF database, openfga, identity, observed
<1> DEFINE c == task[t]
           old == {i \in invites : i.code = c.code}
           f == [i \in invites |-> IF i.code = c.code THEN [i EXCEPT !.role = c.role, !.fresh = TRUE] ELSE i]
<1>0. task \in [Caller -> Call] /\ c \in Call /\ invites \subseteq Invite /\ c.op = "update_invite" /\ c.pc = "send"
  BY DEF IInv, TypeOK, Caller, SendUpdate, At
<1>1. codes' = codes /\ accepted' = accepted /\ raced' = raced /\ mails \subseteq mails'
  BY DEF SendUpdate
<1>2. \A u \in Caller : task'[u].pc = "send" => task'[u] = task[u]
  <2>1. Go(t, Idle)
    BY DEF SendUpdate, Return
  <2>2. task'[t] = Idle /\ \A u \in Caller \ {t} : task'[u] = task[u]
    BY <1>0, <2>1, GoEq
  <2> QED BY <2>2 DEF Idle
<1>3. CASE invites' = invites
  BY <1>1, <1>2, <1>3, InvitationsQuiet
<1>4. CASE /\ invites' = (invites \ old) \cup {[i EXCEPT !.role = c.role, !.fresh = TRUE] : i \in old}
           /\ mails' = mails \cup {<<c.code, c.role>>} \/ ~MailOnUpdate(c)
  <2>1. \A j \in invites' : \E i \in invites : j = f[i]
    BY <1>4
  <2>2. <<c.code, c.role>> \in mails'
    <3>1. CASE ~MailOnUpdate(c)
      BY <1>0, <1>1, <3>1 DEF MailOnUpdate, IInv, Invitations, ReadMailed
    <3> QED BY <1>4, <3>1
  <2>3. \A i \in invites : /\ f[i].code = i.code /\ f[i].email = i.email /\ f[i].proj = i.proj
                           /\ f[i].role = IF i.code = c.code THEN c.role ELSE i.role
    BY <1>0 DEF Invite
  <2> HIDE DEF f
  <2>4. \A i \in invites : <<i.code, f[i].role>> \in mails'
    BY <1>1, <2>2, <2>3 DEF IInv, Invitations, InvitationMailed
  <2> QED BY <1>1, <1>2, <2>1, <2>3, <2>4, InvitationsRewritten
<1>5. \/ invites' = invites
      \/ /\ invites' = (invites \ old) \cup {[i EXCEPT !.role = c.role, !.fresh = TRUE] : i \in old}
         /\ mails' = mails \cup {<<c.code, c.role>>} \/ ~MailOnUpdate(c)
  BY DEF SendUpdate
<1> QED BY <1>3, <1>4, <1>5

\* An invitation that expires keeps all but its freshness.
LEMMA InvitationsExpire ==
    ASSUME IInv, Expire
    PROVE  Invitations'
<1> USE DEF database, openfga, identity, observed
<1>1. PICK e \in invites : invites' = (invites \ {e}) \cup {[e EXCEPT !.fresh = FALSE]}
  BY DEF Expire
<1> DEFINE f == [i \in invites |-> IF i = e THEN [e EXCEPT !.fresh = FALSE] ELSE i]
<1>2. UNCHANGED <<codes, accepted, raced, mails, task>> /\ invites \subseteq Invite
  BY DEF Expire, IInv, TypeOK
<1>3. \A j \in invites' : \E i \in invites : j = f[i]
  BY <1>1
<1>4. \A i \in invites : f[i].code = i.code /\ f[i].email = i.email /\ f[i].proj = i.proj /\ f[i].role = i.role
  BY <1>2 DEF Invite
<1> HIDE DEF f
<1>5. \A i \in invites : <<i.code, f[i].role>> \in mails'
  BY <1>2, <1>4 DEF IInv, Invitations, InvitationMailed
<1> QED BY <1>2, <1>3, <1>4, <1>5, InvitationsRewritten

\* An acceptance deletes the row of its code: there is no second one.
LEMMA InvitationsResolve ==
    ASSUME IInv, NEW t \in Caller, Resolve(t)
    PROVE  Invitations'
<1> USE DEF database, openfga, identity, observed
<1> DEFINE c == task[t]
<1>0. task \in [Caller -> Call] /\ c \in Call /\ c.code \in Code /\ accepted \in [Code -> Nat] /\ invites \subseteq Invite
  BY DEF IInv, TypeOK, Shaped, Caller, Resolve, At, Shape
<1>1. codes' = codes /\ raced' = raced /\ mails' = mails /\ invites' \subseteq invites
  BY DEF Resolve
<1>2. \A u \in Caller : task'[u].pc = "send" => task'[u] = task[u]
  BY <1>0, GoEq DEF Resolve, Return, Idle
<1>3. CASE accepted' = accepted
  BY <1>1, <1>2, <1>3, InvitationsQuiet
<1>4. CASE /\ \E i \in invites : i.code = c.code
           /\ invites' = {i \in invites : i.code # c.code}
           /\ accepted' = [accepted EXCEPT ![c.code] = @ + 1]
  <2>1. PICK i \in invites : i.code = c.code
    BY <1>4
  <2>2. c.code \in codes /\ accepted[c.code] = 0 /\ \A u \in Caller : Sender(u) => task[u].code # c.code
    BY <2>1 DEF IInv, Invitations, CodeOnce
  <2>3. accepted'[c.code] = 1 /\ \A x \in Code \ {c.code} : accepted'[x] = accepted[x]
    BY <1>0, <1>4, <2>2
  <2>4. AcceptedOnce'
    BY <2>3 DEF IInv, Invitations, AcceptedOnce
  <2>5. /\ \A j \in invites' : j.code \in codes /\ accepted'[j.code] = 0
        /\ \A x \in Code : x \notin codes => accepted'[x] = 0
    BY <1>0, <1>4, <2>2, <2>3 DEF IInv, Invitations, CodeOnce, Invite
  <2>6. \A u \in Caller : Sender(u)' => Sender(u) /\ task'[u] = task[u]
    BY <1>2 DEF Sender
  <2>7. \A u \in Caller : Sender(u) => task[u].code \in Code
    BY DEF IInv, Shaped, Shape, Sender
  <2>8. CodeOnce'
    <3> SUFFICES ASSUME NEW u \in Caller, Sender(u)'
                 PROVE  /\ task'[u].code \in codes' /\ accepted'[task'[u].code] = 0
                        /\ \A j \in invites' : j.code # task'[u].code
                        /\ \A v \in Caller \ {u} : Sender(v)' => task'[v].code # task'[u].code
      BY <1>1, <2>5 DEF CodeOnce
    <3>1. Sender(u) /\ task'[u] = task[u] /\ task[u].code \in Code
      BY <2>6, <2>7
    <3>2. /\ task[u].code \in codes /\ accepted[task[u].code] = 0
          /\ \A j \in invites : j.code # task[u].code
          /\ \A v \in Caller \ {u} : Sender(v) => task[v].code # task[u].code
      BY <3>1 DEF IInv, Invitations, CodeOnce
    <3> QED BY <1>1, <2>2, <2>3, <2>6, <3>1, <3>2
  <2>9. ReadMailed'
    BY <1>1, <1>2 DEF IInv, Invitations, ReadMailed
  <2>10. InvitationMailed' /\ OneInvitation'
    BY <1>1 DEF IInv, Invitations, InvitationMailed, OneInvitation
  <2>11. NoneYet'
    BY <1>1, <2>6 DEF IInv, Invitations, NoneYet, InvitesFor, Target
  <2> QED BY <2>4, <2>8, <2>9, <2>10, <2>11 DEF Invitations
<1> QED BY <1>3, <1>4 DEF Resolve, Deleted

\* Every step of a call keeps what is known of invitations.
LEMMA InvitationsStep ==
    ASSUME IInv, [Next]_vars
    PROVE  Invitations'
<1> USE DEF database, openfga, identity, observed
<1>0. task \in [Caller -> Call] /\ TypeOK /\ Shaped /\ IdsKnown
  BY DEF IInv, TypeOK, Caller, Projects
<1>1. ASSUME NEW t \in Caller, Moves(t), task'[t].pc # "send", codes' = codes, accepted' = accepted,
             invites' \subseteq invites, mails \subseteq mails', raced \subseteq raced'
      PROVE  Invitations'
  <2>1. \A u \in Caller \ {t} : task'[u] = task[u]
    BY <1>0, <1>1, GoTask DEF Moves
  <2> QED BY <1>1, <2>1, InvitationsQuiet
<1>2. ASSUME NEW t \in Caller, Request(t) PROVE Invitations'
  <2>1. Moves(t) /\ UNCHANGED <<invites, mails, codes, accepted, raced>>
    BY <1>0, <1>2, RequestTyped
  <2>2. task'[t].pc # "send"
    BY <1>0, <1>2, RequestCourse
  <2> QED BY <1>1, <2>1, <2>2
<1>3. ASSUME NEW t \in Caller, Step(t) \/ Abort(t), ~CreateInvite(t), ~FindInvite(t), ~SendInvite(t), ~SendUpdate(t), ~Resolve(t)
      PROVE  Invitations'
  <2>1. Moves(t) /\ task'[t].pc # "send"
    BY <1>0, <1>3, StepTyped, StepCourse DEF Course
  <2>2. codes' = codes /\ accepted' = accepted /\ invites' \subseteq invites /\ mails \subseteq mails' /\ raced \subseteq raced'
    BY <1>3, RaceGrows DEF Step, Abort, RemoveInvite, ReadFormer, AssignRole, RemoveRole, Revoke, Grant, InsertProject,
       InsertFails, UndoTuple, CreateChild, Adopt, PurgeProject, DeleteRows, Deadlock, Orphan, CleanUp, Commit, Forget
  <2> QED BY <1>1, <2>1, <2>2
<1>4. ASSUME NEW t \in Caller, Step(t) \/ Abort(t) PROVE Invitations'
  BY <1>3, <1>4, InvitationsCreate, InvitationsFind, InvitationsSend, InvitationsUpdate, InvitationsResolve
<1>5. CASE DeleteAccount \/ DropEvent \/ UNCHANGED vars
  <2>1. UNCHANGED <<invites, mails, codes, accepted, raced, task>>
    BY <1>5 DEF DeleteAccount, DropEvent, vars
  <2> QED BY <2>1, InvitationsQuiet
<1>6. HandleEvents => Request(Cron)
  BY DEF HandleEvents, Request
<1> QED BY <1>2, <1>4, <1>5, <1>6, InvitationsExpire DEF Next, Caller

-----------------------------------------------------------------------------
(* Roles *)

\* A call that has returned.
LEMMA ReturnEq ==
    ASSUME task \in [Caller -> Call], NEW t \in Caller, Return(t)
    PROVE  /\ task'[t].pc = "idle" /\ task'[t].op = "decline" /\ task'[t].doomed = {} /\ task'[t].child = None /\ task'[t].proj = None
           /\ \A u \in Caller \ {t} : task'[u] = task[u]
<1>1. task'[t] = Idle /\ \A u \in Caller \ {t} : task'[u] = task[u]
  BY GoEq DEF Return
<1> QED BY <1>1 DEF Idle

\* A call with roles left to delete, or with none.
LEMMA RevokingEq ==
    ASSUME task \in [Caller -> Call], NEW t \in Caller, NEW c \in Call, NEW as, Go(t, Revoking(c, as))
    PROVE  /\ task'[t].op = c.op /\ task'[t].sub = c.sub /\ task'[t].proj = c.proj /\ task'[t].child = c.child
           /\ task'[t].projs = c.projs /\ task'[t].doomed = c.doomed /\ task'[t].todo = as
           /\ task'[t].pc = IF as = {} THEN AfterRevoke(c) ELSE "revoke"
           /\ \A u \in Caller \ {t} : task'[u] = task[u]
<1> DEFINE pc == IF as = {} THEN AfterRevoke(c) ELSE "revoke"
<1>1. task'[t] = [c EXCEPT !.todo = as, !.pc = pc] /\ \A u \in Caller \ {t} : task'[u] = task[u]
  BY GoEq DEF Revoking
<1> HIDE DEF pc
<1>2. task'[t].todo = as /\ task'[t].pc = pc /\ task'[t].op = c.op /\ task'[t].sub = c.sub /\ task'[t].proj = c.proj
      /\ task'[t].child = c.child /\ task'[t].doomed = c.doomed /\ task'[t].projs = c.projs
  BY <1>1 DEF Call
<1> QED BY <1>1, <1>2 DEF pc

\* Such a call goes on or, with nothing left to do, returns.
LEMMA ProceedEq ==
    ASSUME NEW t \in Caller, NEW c \in Call, NEW as, Proceed(t, Revoking(c, as))
    PROVE  Return(t) \/ Go(t, Revoking(c, as))
  BY DEF Proceed, Return

\* A step that gives no role and starts no change of roles.
LEMMA RolesQuiet ==
    ASSUME IInv, tuples' \subseteq tuples, raced \subseteq raced', \A u \in Caller : Changer(u)' => task'[u] = task[u]
    PROVE  Roles'
<1>1. OneRole'
  BY DEF IInv, Roles, OneRole
<1>2. FormerKnown'
  <2> SUFFICES ASSUME NEW u \in Caller, Changer(u)'
               PROVE  (\/ RolesOf(task[u].sub, task[u].proj) \subseteq (IF task[u].pc = "revoke" THEN task[u].todo ELSE {})
                       \/ Target(task[u]) \in raced)'
    BY DEF FormerKnown
  <2>1. task'[u] = task[u] /\ Changer(u)
    BY DEF Changer
  <2>2. \/ RolesOf(task[u].sub, task[u].proj) \subseteq (IF task[u].pc = "revoke" THEN task[u].todo ELSE {})
        \/ Target(task[u]) \in raced
    BY <2>1 DEF IInv, Roles, FormerKnown
  <2> QED BY <2>1, <2>2 DEF RolesOf, Assignments, Target
<1> QED BY <1>1, <1>2 DEF Roles

\* A step of one call that leaves the others' changes as they are.
LEMMA RolesMoved ==
    ASSUME IInv, tuples' \subseteq tuples, raced \subseteq raced', NEW t \in Caller,
           \A u \in Caller \ {t} : task'[u] = task[u],
           Changer(t)' => \/ (RolesOf(task[t].sub, task[t].proj) \subseteq (IF task[t].pc = "revoke" THEN task[t].todo ELSE {}))'
                          \/ (Target(task[t]) \in raced)'
    PROVE  Roles'
<1>1. OneRole'
  BY DEF IInv, Roles, OneRole
<1>2. FormerKnown'
  <2> SUFFICES ASSUME NEW u \in Caller \ {t}, Changer(u)'
               PROVE  (\/ RolesOf(task[u].sub, task[u].proj) \subseteq (IF task[u].pc = "revoke" THEN task[u].todo ELSE {})
                       \/ Target(task[u]) \in raced)'
    BY DEF FormerKnown
  <2>1. task'[u] = task[u] /\ Changer(u)
    BY DEF Changer
  <2>2. \/ RolesOf(task[u].sub, task[u].proj) \subseteq (IF task[u].pc = "revoke" THEN task[u].todo ELSE {})
        \/ Target(task[u]) \in raced
    BY <2>1 DEF IInv, Roles, FormerKnown
  <2> QED BY <2>1, <2>2 DEF RolesOf, Assignments, Target
<1> QED BY <1>1, <1>2 DEF Roles

\* What is read is all there is.
LEMMA RolesRead ==
    ASSUME IInv, NEW t \in Caller, ReadFormer(t) \/ AssignRole(t)
    PROVE  Roles'
<1> USE DEF database, openfga, identity, observed
<1> DEFINE c == task[t]
<1>0. task \in [Caller -> Call] /\ c \in Call /\ tuples' = tuples /\ raced' = raced
  BY DEF IInv, TypeOK, Caller, ReadFormer, AssignRole
<1>1. CASE Return(t)
  BY <1>0, <1>1, ReturnEq, RolesQuiet DEF Changer
<1>2. CASE Go(t, Revoking(c, FormerRoles(c.sub, c.proj)))
  <2>1. /\ task'[t].sub = c.sub /\ task'[t].proj = c.proj /\ task'[t].todo = RolesOf(c.sub, c.proj)
        /\ RolesOf(c.sub, c.proj) # {} => task'[t].pc = "revoke"
        /\ \A u \in Caller \ {t} : task'[u] = task[u]
    BY <1>0, <1>2, RevokingEq DEF FormerRoles
  <2>2. (RolesOf(task[t].sub, task[t].proj) \subseteq (IF task[t].pc = "revoke" THEN task[t].todo ELSE {}))'
    BY <1>0, <2>1 DEF RolesOf, Assignments
  <2> QED BY <1>0, <2>1, <2>2, RolesMoved
<1>3. ASSUME NEW met, Proceed(t, Revoking([c EXCEPT !.op = "remove_role"], met)) PROVE Roles'
  <2> DEFINE d == [c EXCEPT !.op = "remove_role"]
  <2>1. d \in Call /\ d.op = "remove_role"
    BY <1>0 DEF Call, Operation, ManageOps, RemoveOps
  <2>2. Return(t) \/ Go(t, Revoking(d, met))
    BY <1>3, <2>1, ProceedEq
  <2> HIDE DEF d
  <2>3. CASE Go(t, Revoking(d, met))
    <3>1. task'[t].op = "remove_role" /\ \A u \in Caller \ {t} : task'[u] = task[u]
      BY <1>0, <2>1, <2>3, RevokingEq
    <3> QED BY <1>0, <3>1, RolesMoved DEF Changer
  <2> QED BY <1>1, <2>2, <2>3
<1>4. CASE Go(t, [c EXCEPT !.pc = "grant"]) /\ RolesOf(c.sub, c.proj) = {}
  <2>1. task'[t] = [c EXCEPT !.pc = "grant"] /\ \A u \in Caller \ {t} : task'[u] = task[u]
    BY <1>0, <1>4, GoEq
  <2>2. task'[t].sub = c.sub /\ task'[t].proj = c.proj /\ task'[t].pc = "grant"
    BY <1>0, <2>1 DEF Call
  <2>3. (RolesOf(task[t].sub, task[t].proj) \subseteq (IF task[t].pc = "revoke" THEN task[t].todo ELSE {}))'
    BY <1>0, <1>4, <2>2 DEF RolesOf, Assignments
  <2> QED BY <1>0, <2>1, <2>3, RolesMoved
<1> QED BY <1>1, <1>2, <1>3, <1>4 DEF ReadFormer, AssignRole

\* What is revoked is no longer to be revoked.
LEMMA RolesRevoke ==
    ASSUME IInv, NEW t \in Caller, Revoke(t)
    PROVE  Roles'
<1> USE DEF database, openfga, identity, observed
<1> DEFINE c == task[t]
<1>0. task \in [Caller -> Call] /\ c \in Call /\ c.pc = "revoke" /\ raced' = raced
  BY DEF IInv, TypeOK, Caller, Revoke, At
<1>1. PICK a \in c.todo : tuples' = tuples \ {a} /\ Proceed(t, Revoking(c, c.todo \ {a}))
  BY DEF Revoke
<1>2. CASE Return(t)
  BY <1>0, <1>1, <1>2, ReturnEq, RolesQuiet DEF Changer
<1>3. CASE Go(t, Revoking(c, c.todo \ {a}))
  <2> DEFINE as == c.todo \ {a}
  <2>1. /\ task'[t].op = c.op /\ task'[t].sub = c.sub /\ task'[t].proj = c.proj /\ task'[t].todo = as
        /\ as # {} => task'[t].pc = "revoke"
        /\ \A u \in Caller \ {t} : task'[u] = task[u]
    BY <1>0, <1>3, RevokingEq
  <2>2. ASSUME Changer(t)'
        PROVE  \/ (RolesOf(task[t].sub, task[t].proj) \subseteq (IF task[t].pc = "revoke" THEN task[t].todo ELSE {}))'
               \/ (Target(task[t]) \in raced)'
    <3>1. Changer(t)
      BY <1>0, <2>1, <2>2 DEF Changer
    <3>2. RolesOf(c.sub, c.proj) \subseteq c.todo \/ Target(c) \in raced
      BY <1>0, <3>1 DEF IInv, Roles, FormerKnown
    <3>3. CASE Target(c) \in raced
      BY <1>0, <2>1, <3>3 DEF Target
    <3>4. CASE RolesOf(c.sub, c.proj) \subseteq c.todo
      <4>1. RolesOf(c.sub, c.proj)' \subseteq as
        BY <1>1, <2>1, <3>4 DEF RolesOf, Assignments
      <4> QED BY <2>1, <4>1 DEF RolesOf, Assignments
    <3> QED BY <3>2, <3>3, <3>4
  <2> QED BY <1>0, <1>1, <2>1, <2>2, RolesMoved
<1> QED BY <1>0, <1>1, <1>2, <1>3, ProceedEq

\* Who gives a role has revoked all there were; another change under way is seen to race.
LEMMA RolesGrant ==
    ASSUME IInv, NEW t \in Caller, Grant(t)
    PROVE  Roles'
<1> USE DEF database, openfga, identity, observed
<1> DEFINE c == task[t]
           new == [sub |-> c.sub, role |-> c.role, proj |-> c.proj]
<1>0. /\ task \in [Caller -> Call] /\ c \in Call /\ c.pc = "grant" /\ DOMAIN task = Caller
      /\ c.op \in {"update_role", "accept", "assign"} /\ Changer(t) /\ Target(c) = <<c.sub, c.proj, "role">>
  BY DEF IInv, TypeOK, Shaped, Shape, Caller, Grant, At, Changer, Target, Kind
<1>1. tuples' = tuples \cup {new} /\ Race(t) /\ raced \subseteq raced'
  BY RaceGrows DEF Grant
<1>2. new.sub = c.sub /\ new.proj = c.proj
  OBVIOUS
<1>3. task'[t].pc # "grant" /\ task'[t].pc # "revoke" /\ \A u \in Caller \ {t} : task'[u] = task[u]
  <2>1. CASE Return(t)
    BY <1>0, <2>1, ReturnEq
  <2>2. CASE Go(t, [c EXCEPT !.pc = "resolve"])
    <3>1. task'[t] = [c EXCEPT !.pc = "resolve"] /\ \A u \in Caller \ {t} : task'[u] = task[u]
      BY <1>0, <2>2, GoEq
    <3> QED BY <1>0, <3>1 DEF Call
  <2> QED BY <2>1, <2>2 DEF Grant
<1> HIDE DEF new
<1>4. RolesOf(c.sub, c.proj) = {} \/ <<c.sub, c.proj, "role">> \in raced
  BY <1>0 DEF IInv, Roles, FormerKnown
<1>5. OneRole'
  <2> SUFFICES ASSUME NEW a \in tuples', NEW b \in tuples', a.sub = b.sub, a.proj = b.proj
               PROVE  a = b \/ <<a.sub, a.proj, "role">> \in raced'
    BY DEF OneRole
  <2>1. CASE a \in tuples /\ b \in tuples
    BY <1>1, <2>1 DEF IInv, Roles, OneRole
  <2>2. CASE a = new \/ b = new
    BY <1>1, <1>2, <1>4, <2>2 DEF RolesOf, Assignments
  <2> QED BY <1>1, <2>1, <2>2
<1>6. FormerKnown'
  <2> SUFFICES ASSUME NEW u \in Caller, Changer(u)'
               PROVE  (\/ RolesOf(task[u].sub, task[u].proj) \subseteq (IF task[u].pc = "revoke" THEN task[u].todo ELSE {})
                       \/ Target(task[u]) \in raced)'
    BY DEF FormerKnown
  <2>1. u # t /\ task'[u] = task[u] /\ Changer(u)
    BY <1>3 DEF Changer
  <2>2. CASE Target(task[u]) = Target(c)
    <3>1. Target(c) \in raced'
      BY <1>0, <1>1, <2>1, <2>2 DEF Race, Pending, Changer
    <3> QED BY <2>1, <2>2, <3>1 DEF Target
  <2>3. CASE Target(task[u]) # Target(c)
    <3>1. ~(task[u].sub = c.sub /\ task[u].proj = c.proj)
      BY <1>0, <2>1, <2>3 DEF Target, Kind, Changer
    <3>2. \/ RolesOf(task[u].sub, task[u].proj) \subseteq (IF task[u].pc = "revoke" THEN task[u].todo ELSE {})
          \/ Target(task[u]) \in raced
      BY <2>1 DEF IInv, Roles, FormerKnown
    <3> QED BY <1>1, <1>2, <2>1, <3>1, <3>2 DEF RolesOf, Assignments, Target
  <2> QED BY <2>2, <2>3
<1> QED BY <1>5, <1>6 DEF Roles

\* The administrator of a new project is the first to have a role in it.
LEMMA RolesEnroll ==
    ASSUME IInv, NEW t \in Caller, Enroll(t)
    PROVE  Roles'
<1> USE DEF database, openfga, identity, observed
<1>0. task \in [Caller -> Call] /\ raced' = raced /\ TypeOK /\ Shaped /\ IdsKnown /\ None \notin Project
  BY MembershipAssumption DEF IInv, TypeOK, Caller, Enroll, Projects
<1>1. PICK u \in User, p \in Project \ ids : tuples' = tuples \cup {[sub |-> u, role |-> "admin", proj |-> p]}
  BY DEF Enroll
<1> DEFINE new == [sub |-> u, role |-> "admin", proj |-> p]
<1>2. new.proj = p /\ tuples' = tuples \cup {new}
  BY <1>1
<1>3. Moves(t) /\ task'[t].pc = "insert"
  BY <1>0, RequestTyped, RequestCourse DEF Request
<1>4. \A v \in Caller \ {t} : task'[v] = task[v]
  BY <1>0, <1>3, GoTask DEF Moves
<1> HIDE DEF new
<1>5. OneRole'
  BY <1>0, <1>2 DEF IInv, Roles, OneRole, IdsKnown
<1>6. FormerKnown'
  <2> SUFFICES ASSUME NEW v \in Caller, Changer(v)'
               PROVE  (\/ RolesOf(task[v].sub, task[v].proj) \subseteq (IF task[v].pc = "revoke" THEN task[v].todo ELSE {})
                       \/ Target(task[v]) \in raced)'
    BY DEF FormerKnown
  <2>1. task'[v] = task[v] /\ Changer(v) /\ task[v].proj # p
    BY <1>0, <1>3, <1>4 DEF Changer, IdsKnown
  <2>2. \/ RolesOf(task[v].sub, task[v].proj) \subseteq (IF task[v].pc = "revoke" THEN task[v].todo ELSE {})
        \/ Target(task[v]) \in raced
    BY <2>1 DEF IInv, Roles, FormerKnown
  <2> QED BY <1>0, <1>2, <2>1, <2>2 DEF RolesOf, Assignments, Target
<1> QED BY <1>5, <1>6 DEF Roles

\* Every step keeps what is known of roles.
LEMMA RolesStep ==
    ASSUME IInv, [Next]_vars
    PROVE  Roles'
<1> USE DEF database, openfga, identity, observed
<1>0. task \in [Caller -> Call] /\ TypeOK /\ Shaped /\ IdsKnown
  BY DEF IInv, TypeOK, Caller, Projects
<1>1. ASSUME NEW t \in Caller, Moves(t), ~Changer(t)', tuples' \subseteq tuples, raced \subseteq raced'
      PROVE  Roles'
  <2>1. \A u \in Caller \ {t} : task'[u] = task[u]
    BY <1>0, <1>1, GoTask DEF Moves
  <2> QED BY <1>1, <2>1, RolesQuiet
<1>2. ASSUME NEW t \in Caller, Request(t) PROVE Roles'
  <2>1. CASE Enroll(t)
    BY <2>1, RolesEnroll
  <2>2. CASE ~Enroll(t)
    <3>1. Moves(t) /\ raced' = raced
      BY <1>0, <1>2, RequestTyped
    <3>2. tuples' = tuples
      BY <1>0, <1>2, <2>2, RequestTyped
    <3>3. ~Changer(t)'
      BY <1>0, <1>2, RequestCourse DEF Changer
    <3> QED BY <1>1, <3>1, <3>2, <3>3
  <2> QED BY <2>1, <2>2
<1>3. ASSUME NEW t \in Caller, RemoveRole(t) \/ PurgeProject(t) PROVE ~Changer(t)'
  <2> DEFINE c == task[t]
  <2>0. c \in Call /\ Shape(c)
    BY <1>0 DEF Shaped
  <2>1. c.op \in {"remove_role", "delete_project", "delete_user"}
    BY <1>3, <2>0 DEF RemoveRole, PurgeProject, At, Shape
  <2>2. CASE Return(t)
    BY <1>0, <2>2, ReturnEq DEF Changer
  <2>3. ASSUME NEW as, Go(t, Revoking(c, as)) PROVE ~Changer(t)'
    <3>1. task'[t].op = c.op
      BY <1>0, <2>0, <2>3, RevokingEq
    <3> QED BY <2>1, <3>1 DEF Changer
  <2>4. CASE Go(t, [c EXCEPT !.pc = "cleanup"])
    <3>1. task'[t] = [c EXCEPT !.pc = "cleanup"]
      BY <1>0, <2>4, GoEq
    <3> QED BY <2>0, <3>1 DEF Changer, Call
  <2> QED BY <1>3, <2>2, <2>3, <2>4 DEF RemoveRole, PurgeProject, Return
<1>4. ASSUME NEW t \in Caller, Step(t) \/ Abort(t), ~ReadFormer(t), ~AssignRole(t), ~Revoke(t), ~Grant(t)
      PROVE  Roles'
  <2>1. Moves(t) /\ Course(t)
    BY <1>0, <1>4, StepTyped, StepCourse
  <2>2. ~Changer(t)'
    BY <1>3, <1>4, <2>1 DEF Course, Changer
  <2>3. tuples' \subseteq tuples /\ raced \subseteq raced'
    BY <1>4, RaceGrows DEF Step, Abort, CreateInvite, SendInvite, FindInvite, SendUpdate, Resolve, RemoveInvite, RemoveRole,
       InsertProject, InsertFails, UndoTuple, CreateChild, Adopt, PurgeProject, DeleteRows, Deadlock, Orphan, CleanUp, Commit, Forget
  <2> QED BY <1>1, <2>1, <2>2, <2>3
<1>5. ASSUME NEW t \in Caller, Step(t) \/ Abort(t) PROVE Roles'
  BY <1>4, <1>5, RolesRead, RolesRevoke, RolesGrant
<1>6. CASE Expire \/ DeleteAccount \/ DropEvent \/ UNCHANGED vars
  <2>1. UNCHANGED <<tuples, raced, task>>
    BY <1>6 DEF Expire, DeleteAccount, DropEvent, vars
  <2> QED BY <2>1, RolesQuiet
<1>7. HandleEvents => Request(Cron)
  BY DEF HandleEvents, Request
<1> QED BY <1>2, <1>5, <1>6, <1>7 DEF Next, Caller

-----------------------------------------------------------------------------
(* Projects *)

\* Which steps of a call write what.
LEMMA StepWrites ==
    ASSUME NEW t \in Caller, Step(t) \/ Abort(t)
    PROVE  /\ Grant(t) \/ tuples' \subseteq tuples
           /\ Commit(t) \/ rows \subseteq rows'
           /\ InsertProject(t) \/ rows' \subseteq rows
           /\ InsertProject(t) \/ Commit(t) \/ parent' = parent
           /\ Adopt(t) \/ adopted' \subseteq adopted
           /\ SendInvite(t) \/ SendUpdate(t) \/ invites' \subseteq invites
           /\ leaked \subseteq leaked' /\ ids \subseteq ids' /\ stranded \subseteq stranded'
<1> USE DEF database, openfga, identity, observed
<1> QED BY DEF Step, Abort, CreateInvite, SendInvite, FindInvite, SendUpdate, RemoveInvite, Resolve, ReadFormer, AssignRole,
       RemoveRole, Revoke, Grant, InsertProject, InsertFails, UndoTuple, CreateChild, Adopt, PurgeProject, DeleteRows,
       Deadlock, Orphan, CleanUp, Commit, Forget

\* The other calls stay where they are.
LEMMA StepOthers ==
    ASSUME TypeOK, Shaped, NEW t \in Caller, Step(t) \/ Abort(t)
    PROVE  \A u \in Caller \ {t} : task'[u] = task[u]
<1>1. PICK c \in Call : Go(t, c)
  BY StepTyped DEF Moves
<1> QED BY <1>1, GoTask DEF TypeOK, Caller

\* A new project gets a new id.
LEMMA ChildEq ==
    ASSUME TypeOK, NEW t \in Caller, CreateChild(t)
    PROVE  \/ /\ task'[t].pc = "idle" /\ task'[t].child = None /\ ids' = ids
           \/ \E p \in Project \ ids : /\ ids' = ids \cup {p} /\ task'[t].pc = "adopt" /\ task'[t].child = p
                                       /\ task'[t].op = "create_child"
<1>0. task \in [Caller -> Call] /\ task[t] \in Call
  BY DEF TypeOK, Caller
<1>1. CASE Return(t) /\ UNCHANGED ids
  BY <1>0, <1>1, ReturnEq
<1>2. ASSUME NEW p \in Project \ ids, ids' = ids \cup {p}, Go(t, [task[t] EXCEPT !.pc = "adopt", !.child = p])
      PROVE  \E q \in Project \ ids : /\ ids' = ids \cup {q} /\ task'[t].pc = "adopt" /\ task'[t].child = q
                                      /\ task'[t].op = "create_child"
  <2>1. task'[t] = [task[t] EXCEPT !.pc = "adopt", !.child = p]
    BY <1>0, <1>2, GoEq
  <2> QED BY <1>0, <1>2, <2>1 DEF Call, CreateChild
<1> QED BY <1>1, <1>2 DEF CreateChild

\* The ids in use are ids that were generated.
LEMMA IdsStep ==
    ASSUME IInv, NEW t \in Caller, Step(t) \/ Abort(t)
    PROVE  IdsKnown'
<1> DEFINE c == task[t]
<1>0. /\ TypeOK /\ Shaped /\ IdsKnown /\ c \in Call /\ Shape(c) /\ None \notin Project /\ ids \subseteq ids'
      /\ invites \subseteq Invite
  BY MembershipAssumption, StepWrites DEF IInv, TypeOK, Shaped, Projects, Caller
<1>k. c.proj \in ids \cup {None} /\ c.child \in ids \cup {None}
  BY <1>0 DEF IdsKnown
<1>1. rows' \subseteq ids'
  <2>1. CASE InsertProject(t)
    <3>1. c.child \in ids
      BY <1>0, <1>k, <2>1 DEF InsertProject, At, Shape
    <3> QED BY <1>0, <2>1, <3>1 DEF InsertProject, IdsKnown
  <2> QED BY <1>0, <2>1, StepWrites DEF IdsKnown
<1>2. \A a \in tuples' : a.proj \in ids'
  <2>1. CASE Grant(t)
    <3>1. c.proj \in ids
      BY <1>0, <1>k, <2>1 DEF Grant, At, Shape, EnrollOps
    <3>2. tuples' = tuples \cup {[sub |-> c.sub, role |-> c.role, proj |-> c.proj]}
      BY <2>1 DEF Grant
    <3> QED BY <1>0, <3>1, <3>2 DEF IdsKnown
  <2> QED BY <1>0, <2>1, StepWrites DEF IdsKnown
<1>3. \A o \in adopted' : o[2] \in ids'
  <2>1. CASE Adopt(t)
    <3>1. c.child \in ids
      BY <1>0, <1>k, <2>1 DEF Adopt, At, Shape
    <3>2. adopted' = adopted \cup {<<c.proj, c.child>>}
      BY <2>1 DEF Adopt
    <3> QED BY <1>0, <3>1, <3>2 DEF IdsKnown
  <2> QED BY <1>0, <2>1, StepWrites DEF IdsKnown
<1>4. \A i \in invites' : i.proj \in ids'
  <2>1. CASE SendInvite(t)
    <3>1. c.proj \in ids
      BY <1>0, <1>k, <2>1 DEF SendInvite, At, Shape, EnrollOps
    <3> DEFINE new == [code |-> c.code, email |-> c.sub, role |-> c.role, proj |-> c.proj, sponsor |-> c.by, fresh |-> TRUE]
    <3>2. new.proj = c.proj /\ invites' \subseteq invites \cup {new}
      BY <2>1 DEF SendInvite
    <3> HIDE DEF new
    <3> QED BY <1>0, <3>1, <3>2 DEF IdsKnown
  <2>2. CASE SendUpdate(t)
    <3> DEFINE old == {i \in invites : i.code = c.code}
    <3>0. invites' = invites \/ invites' = (invites \ old) \cup {[i EXCEPT !.role = c.role, !.fresh = TRUE] : i \in old}
      BY <2>2 DEF SendUpdate
    <3>1. \A j \in invites' : j \in invites \/ \E i \in invites : j = [i EXCEPT !.role = c.role, !.fresh = TRUE]
      BY <3>0
    <3>2. ASSUME NEW i \in invites, NEW j, j = [i EXCEPT !.role = c.role, !.fresh = TRUE] PROVE j.proj \in ids
      BY <1>0, <3>2 DEF IdsKnown, Invite
    <3> QED BY <1>0, <3>1, <3>2 DEF IdsKnown
  <2> QED BY <1>0, <2>1, <2>2, StepWrites DEF IdsKnown
<1>5. task'[t].proj \in ids' \cup {None}
  <2>1. CASE CleanUp(t)
    <3>1. CASE Go(t, [c EXCEPT !.pc = "commit"])
      <4>1. task'[t] = [c EXCEPT !.pc = "commit"]
        BY <1>0, <3>1, GoEq DEF TypeOK, Caller
      <4> QED BY <1>0, <1>k, <4>1 DEF Call
    <3>2. ASSUME NEW p \in rows, NEW ps, Go(t, [c EXCEPT !.projs = ps, !.pc = "purge", !.proj = p])
          PROVE  task'[t].proj \in ids' \cup {None}
      <4>1. task'[t] = [c EXCEPT !.projs = ps, !.pc = "purge", !.proj = p]
        BY <1>0, <3>2, GoEq DEF TypeOK, Caller
      <4> QED BY <1>0, <4>1 DEF Call, IdsKnown
    <3>3. ASSUME NEW ps, Go(t, [c EXCEPT !.projs = ps])
          PROVE  task'[t].proj \in ids' \cup {None}
      <4>1. task'[t] = [c EXCEPT !.projs = ps]
        BY <1>0, <3>3, GoEq DEF TypeOK, Caller
      <4> QED BY <1>0, <1>k, <4>1 DEF Call
    <3> QED BY <2>1, <3>1, <3>2, <3>3 DEF CleanUp
  <2> QED BY <1>0, <1>k, <2>1, StepCourse DEF Course
<1>6. task'[t].child \in ids' \cup {None}
  <2>1. CASE CreateChild(t)
    BY <1>0, <2>1, ChildEq
  <2> QED BY <1>0, <1>k, <2>1, StepCourse DEF Course
<1>7. \A u \in Caller : task'[u].proj \in ids' \cup {None} /\ task'[u].child \in ids' \cup {None}
  BY <1>0, <1>5, <1>6, StepOthers DEF IdsKnown
<1> QED BY <1>1, <1>2, <1>3, <1>4, <1>7 DEF IdsKnown

\* A project that is being created stays without row and with its creator.
LEMMA CreationStep ==
    ASSUME IInv, NEW t \in Caller, Step(t) \/ Abort(t)
    PROVE  Creation'
<1> DEFINE c == task[t]
<1>0. TypeOK /\ Shaped /\ IdsKnown /\ Creation /\ c \in Call /\ Shape(c) /\ None \notin Project
  BY MembershipAssumption DEF IInv, TypeOK, Shaped, Projects, Caller
<1>1. \A u \in Caller \ {t} : task'[u] = task[u] /\ (Unborn(u)' => Unborn(u))
  BY <1>0, StepOthers DEF Unborn
<1>2. \A u \in Caller : Unborn(u) => task[u].child \in ids
  BY <1>0 DEF Unborn, Shaped, Shape, IdsKnown
\* It goes on, with the same project.
<1>3. CASE Unborn(t) /\ task'[t].child = c.child /\ rows' = rows
  <2> SUFFICES ASSUME NEW u \in Caller, NEW v \in Caller, Unborn(u)'
               PROVE  task'[u].child \notin rows' /\ (Unborn(v)' /\ task'[u].child = task'[v].child => u = v)
    BY DEF Creation
  <2> QED BY <1>0, <1>1, <1>3 DEF Creation
\* It begins, with a new one.
<1>4. CASE \E p \in Project \ ids : task'[t].child = p /\ rows' = rows
  <2> SUFFICES ASSUME NEW u \in Caller, NEW v \in Caller, Unborn(u)'
               PROVE  task'[u].child \notin rows' /\ (Unborn(v)' /\ task'[u].child = task'[v].child => u = v)
    BY DEF Creation
  <2>1. task'[t].child \notin ids /\ task'[t].child \notin rows'
    BY <1>0, <1>4 DEF IdsKnown
  <2>2. \A w \in Caller \ {t} : Unborn(w)' => task'[w].child \in ids /\ task'[w].child \notin rows'
    BY <1>0, <1>1, <1>2, <1>4 DEF Creation
  <2> QED BY <1>0, <1>1, <2>1, <2>2 DEF Creation
\* It is over.
<1>5. CASE ~Unborn(t)'
  <2>1. \A u \in Caller : Unborn(u)' => u # t /\ Unborn(u) /\ task'[u] = task[u]
    BY <1>1, <1>5
  <2>2. \A u \in Caller \ {t} : Unborn(u) => task[u].child \notin rows'
    <3>1. CASE InsertProject(t)
      <4>1. Unborn(t) /\ rows' = rows \cup {c.child}
        BY <3>1 DEF InsertProject, At, Unborn
      <4> QED BY <1>0, <4>1 DEF Creation
    <3> QED BY <1>0, <3>1, StepWrites DEF Creation
  <2> SUFFICES ASSUME NEW u \in Caller, NEW v \in Caller, Unborn(u)'
               PROVE  task'[u].child \notin rows' /\ (Unborn(v)' /\ task'[u].child = task'[v].child => u = v)
    BY DEF Creation
  <2> QED BY <1>0, <2>1, <2>2 DEF Creation
<1>6. CASE Adopt(t)
  <2>1. task'[t] = [c EXCEPT !.pc = "insert"] /\ Unborn(t) /\ rows' = rows
    BY <1>0, <1>6, GoEq DEF Adopt, TypeOK, Caller, At, Unborn, database
  <2>2. task'[t].child = c.child
    BY <1>0, <2>1 DEF Call
  <2> QED BY <1>3, <2>1, <2>2
<1>7. CASE InsertFails(t)
  <2>1. Undo(c).pc = "undo" /\ Undo(c).child = c.child
    BY <1>0 DEF Undo, Call
  <2>2. task'[t] = Undo(c) /\ Unborn(t) /\ rows' = rows
    BY <1>0, <1>7, <2>1, GoEq DEF InsertFails, Proceed, TypeOK, Caller, At, Unborn, database
  <2> QED BY <1>3, <2>1, <2>2
<1>8. CASE CreateChild(t)
  <2>1. rows' = rows
    BY <1>8 DEF CreateChild, database
  <2> QED BY <1>0, <1>4, <1>5, <1>8, <2>1, ChildEq DEF Unborn
<1>9. Unborn(t)' => Adopt(t) \/ InsertFails(t) \/ CreateChild(t)
  BY <1>0, StepCourse DEF Course, Unborn
<1> QED BY <1>5, <1>6, <1>7, <1>8, <1>9

\* What the deletion of rows adds.
LEMMA DeleteRowsEq ==
    ASSUME TypeOK, NEW t \in Caller, DeleteRows(t)
    PROVE  \E of \in SUBSET rows :
             /\ task'[t].doomed = task[t].doomed \cup of
             /\ \A p \in of : p = task[t].proj \/ parent[p] = task[t].proj
             /\ \A p \in of : Locked(p) => p \in task[t].doomed
             /\ task'[t].pc \notin {"revoke", "rows"} /\ task'[t].op = task[t].op
<1> DEFINE c == task[t]
           of == IF c.proj \in rows THEN {p \in rows : p = c.proj \/ parent[p] = c.proj} ELSE {}
           orphans == {<<parent[p], p>> : p \in {q \in of : parent[q] # None}}
           pc == IF orphans = {} THEN AfterPurge(c) ELSE "orphan"
<1>0. task \in [Caller -> Call] /\ c \in Call
  BY DEF TypeOK, Caller
<1>1. Go(t, [c EXCEPT !.doomed = c.doomed \cup of, !.orphans = orphans, !.pc = pc]) /\ \A p \in of : ~(Locked(p) /\ p \notin c.doomed)
  BY DEF DeleteRows
<1>2. of \in SUBSET rows /\ (\A p \in of : p = c.proj \/ parent[p] = c.proj) /\ pc \in {"cleanup", "commit", "orphan"}
  BY DEF AfterPurge
<1> HIDE DEF of, orphans, pc
<1>3. task'[t] = [c EXCEPT !.doomed = c.doomed \cup of, !.orphans = orphans, !.pc = pc]
  BY <1>0, <1>1, GoEq
<1>4. task'[t].doomed = c.doomed \cup of /\ task'[t].pc = pc /\ task'[t].op = c.op
  BY <1>0, <1>3 DEF Call
<1> QED BY <1>1, <1>2, <1>4

\* Rows that a transaction has deleted are there until its commit, and are not deleted twice.
LEMMA DoomStep ==
    ASSUME IInv, NEW t \in Caller, Step(t) \/ Abort(t)
    PROVE  Doom'
<1> DEFINE c == task[t]
<1>0. TypeOK /\ Shaped /\ Doom /\ DOMAIN task = Caller /\ c \in Call
  BY DEF IInv, TypeOK, Projects, Caller
<1>1. \A u \in Caller \ {t} : task'[u] = task[u]
  BY <1>0, StepOthers
<1>2. ASSUME rows \subseteq rows', task'[t].doomed = c.doomed \/ task'[t].doomed = {} PROVE Doom'
  BY <1>0, <1>1, <1>2 DEF Doom
<1>3. CASE DeleteRows(t)
  <2>1. PICK of \in SUBSET rows : task'[t].doomed = c.doomed \cup of /\ \A p \in of : Locked(p) => p \in c.doomed
    BY <1>0, <1>3, DeleteRowsEq
  <2>2. \A u \in Caller \ {t} : of \cap task[u].doomed = {}
    BY <1>0, <2>1 DEF Locked, Doom
  <2>3. rows' = rows
    BY <1>3 DEF DeleteRows, database
  <2> QED BY <1>0, <1>1, <2>1, <2>2, <2>3 DEF Doom
<1>4. CASE Commit(t)
  <2>1. rows' = rows \ c.doomed
    BY <1>4 DEF Commit
  <2>2. task'[t].doomed = {}
    <3>1. CASE Return(t)
      BY <1>0, <3>1, ReturnEq DEF TypeOK, Caller
    <3>2. ASSUME NEW as, Go(t, [c EXCEPT !.pc = "forget", !.doomed = {}, !.todo = as]) PROVE task'[t].doomed = {}
      <4>1. task'[t] = [c EXCEPT !.pc = "forget", !.doomed = {}, !.todo = as]
        BY <1>0, <3>2, GoEq DEF TypeOK, Caller
      <4> QED BY <1>0, <4>1 DEF Call
    <3> QED BY <1>4, <3>1, <3>2 DEF Commit
  <2> QED BY <1>0, <1>1, <2>1, <2>2 DEF Doom
<1>5. CASE ~DeleteRows(t) /\ ~Commit(t)
  BY <1>0, <1>2, <1>5, StepCourse, StepWrites DEF Course
<1> QED BY <1>3, <1>4, <1>5

\* Roles given in a project whose roles are being deleted are known to leak.
LEMMA GivenMeanwhile ==
    ASSUME IInv, NEW t \in Caller, Step(t) \/ Abort(t), NEW p, BeingDeleted(p)
    PROVE  Assignments(p)' \subseteq Assignments(p) \/ p \in leaked'
<1>1. CASE Grant(t)
  <2> DEFINE new == [sub |-> task[t].sub, role |-> task[t].role, proj |-> task[t].proj]
  <2>1. tuples' = tuples \cup {new} /\ new.proj = task[t].proj
    BY <1>1 DEF Grant
  <2>2. p = task[t].proj => p \in leaked'
    BY <1>1 DEF Grant
  <2> HIDE DEF new
  <2> QED BY <2>1, <2>2 DEF Assignments
<1> QED BY <1>1, StepWrites DEF Assignments

\* A deletion has read all roles of its project, and revokes what it has read.
LEMMA PurgedStep ==
    ASSUME IInv, NEW t \in Caller, Step(t) \/ Abort(t)
    PROVE  Purged'
<1> DEFINE c == task[t]
           Deleting(d) == d.op \in {"delete_project", "delete_user"} /\ d.pc \in {"revoke", "rows"}
<1>0. /\ TypeOK /\ Shaped /\ Doom /\ Creation /\ Purged /\ DOMAIN task = Caller /\ task \in [Caller -> Call] /\ c \in Call /\ Shape(c)
      /\ None \notin Project /\ parent \in [Project -> Project \cup {None}] /\ rows \subseteq Project /\ leaked \subseteq leaked'
  BY MembershipAssumption, StepWrites DEF IInv, TypeOK, Shaped, Projects, Caller
<1>1. \A u \in Caller \ {t} : task'[u] = task[u]
  BY <1>0, StepOthers
\* What is known of the other deletions stays.
<1>2. ASSUME NEW u \in Caller, Deleting(task[u]), task'[u] = task[u]
      PROVE  (\/ Assignments(task[u].proj) \subseteq (IF task[u].pc = "revoke" THEN task[u].todo ELSE {})
              \/ task[u].proj \in leaked)'
  <2>1. BeingDeleted(task[u].proj)
    BY <1>0, <1>2 DEF BeingDeleted
  <2>2. Assignments(task[u].proj)' \subseteq Assignments(task[u].proj) \/ task[u].proj \in leaked'
    <3> DEFINE p == task[u].proj
    <3>1. ASSUME NEW q, q = p PROVE Assignments(q)' \subseteq Assignments(q) \/ q \in leaked'
      BY <2>1, <3>1, GivenMeanwhile
    <3> QED BY <1>2, <3>1 DEF Assignments
  <2>3. \/ Assignments(task[u].proj) \subseteq (IF task[u].pc = "revoke" THEN task[u].todo ELSE {})
        \/ task[u].proj \in leaked
    BY <1>0, <1>2 DEF Purged
  <2> QED BY <1>0, <1>2, <2>2, <2>3 DEF Assignments
<1>3. ASSUME NEW u \in Caller, u # t \/ ~Commit(t), NEW p \in task[u].doomed
      PROVE  parent'[p] # None \/ Assignments(p)' = {} \/ p \in leaked'
  <2>1. Assignments(p)' \subseteq Assignments(p) \/ p \in leaked'
    BY <1>0, <1>3, GivenMeanwhile DEF BeingDeleted
  <2>2. p \in rows /\ (parent[p] # None \/ Assignments(p) = {} \/ p \in leaked)
    BY <1>0 DEF Purged, Doom
  <2>3. parent'[p] = parent[p]
    <3>1. CASE InsertProject(t)
      <4>1. c.child \notin rows /\ parent' = [parent EXCEPT ![c.child] = c.proj]
        BY <1>0, <3>1 DEF InsertProject, At, Creation, Unborn
      <4> QED BY <1>0, <2>2, <4>1
    <3>2. CASE Commit(t)
      <4>1. parent' = [q \in Project |-> IF q \in c.doomed THEN None ELSE parent[q]]
        BY <3>2 DEF Commit
      <4>2. p \notin c.doomed
        BY <1>0, <1>3, <3>2 DEF Doom
      <4> QED BY <1>0, <2>2, <4>1, <4>2
    <3> QED BY <3>1, <3>2, StepWrites
  <2> QED BY <1>0, <2>1, <2>2, <2>3
\* This one goes on with what it knows.
<1>4. ASSUME Deleting(task'[t])
      PROVE  (\/ Assignments(task[t].proj) \subseteq (IF task[t].pc = "revoke" THEN task[t].todo ELSE {})
              \/ task[t].proj \in leaked)'
  <2>r. ~Return(t)
    BY <1>0, <1>4, ReturnEq
  <2>1. CASE PurgeProject(t)
    <3>1. CASE Go(t, Revoking(c, RolesToDelete(c.proj)))
      <4>1. /\ task'[t].proj = c.proj /\ task'[t].todo = Assignments(c.proj)
            /\ Assignments(c.proj) # {} => task'[t].pc = "revoke"
        BY <1>0, <3>1, RevokingEq DEF RolesToDelete
      <4>2. tuples' = tuples
        BY <2>1 DEF PurgeProject, openfga
      <4> QED BY <4>1, <4>2 DEF Assignments
    <3>2. CASE Go(t, [c EXCEPT !.pc = "cleanup"])
      <4>1. task'[t] = [c EXCEPT !.pc = "cleanup"]
        BY <1>0, <3>2, GoEq
      <4> QED BY <1>0, <1>4, <4>1 DEF Call
    <3> QED BY <2>1, <2>r, <3>1, <3>2 DEF PurgeProject, Return
  <2>2. CASE Revoke(t)
    <3>1. PICK a \in c.todo : tuples' = tuples \ {a} /\ Proceed(t, Revoking(c, c.todo \ {a}))
      BY <2>2 DEF Revoke
    <3> DEFINE as == c.todo \ {a}
    <3>2. /\ task'[t].proj = c.proj /\ task'[t].todo = as /\ task'[t].op = c.op
          /\ as # {} => task'[t].pc = "revoke"
      BY <1>0, <2>r, <3>1, ProceedEq, RevokingEq
    <3>3. c.pc = "revoke" /\ Deleting(c)
      BY <1>4, <2>2, <3>2 DEF Revoke, At
    <3>4. Assignments(c.proj) \subseteq c.todo \/ c.proj \in leaked
      BY <1>0, <3>3 DEF Purged
    <3>5. CASE Assignments(c.proj) \subseteq c.todo
      <4>1. Assignments(c.proj)' \subseteq as
        BY <3>1, <3>2, <3>5 DEF Assignments
      <4> QED BY <3>2, <4>1 DEF Assignments
    <3> QED BY <1>0, <3>2, <3>4, <3>5
  <2>3. CASE RemoveRole(t)
    <3>1. \E as : Go(t, Revoking(c, as))
      BY <2>3, <2>r DEF RemoveRole
    <3>2. task'[t].op = "remove_role"
      BY <1>0, <2>3, <3>1, RevokingEq DEF RemoveRole
    <3> QED BY <1>4, <3>2
  <2>4. CASE ReadFormer(t)
    <3>1. CASE Go(t, Revoking(c, FormerRoles(c.sub, c.proj)))
      <4>1. task'[t].op = c.op
        BY <1>0, <3>1, RevokingEq
      <4> QED BY <1>4, <2>4, <4>1 DEF ReadFormer
    <3>2. ASSUME NEW met, Proceed(t, Revoking([c EXCEPT !.op = "remove_role"], met)) PROVE task'[t].op = "remove_role"
      <4> DEFINE d == [c EXCEPT !.op = "remove_role"]
      <4>1. d \in Call /\ d.op = "remove_role"
        BY <1>0 DEF Call, Operation, ManageOps, RemoveOps
      <4>2. Go(t, Revoking(d, met))
        BY <2>r, <3>2, <4>1, ProceedEq
      <4> HIDE DEF d
      <4> QED BY <1>0, <4>1, <4>2, RevokingEq
    <3> QED BY <1>4, <2>4, <2>r, <3>1, <3>2 DEF ReadFormer
  <2> QED BY <1>0, <1>4, <2>1, <2>2, <2>3, <2>4, StepCourse DEF Course
<1>5. ASSUME NEW p \in task'[t].doomed PROVE parent'[p] # None \/ Assignments(p)' = {} \/ p \in leaked'
  <2>1. CASE DeleteRows(t)
    <3>1. PICK of \in SUBSET rows : task'[t].doomed = c.doomed \cup of /\ \A q \in of : q = c.proj \/ parent[q] = c.proj
      BY <1>0, <2>1, DeleteRowsEq
    <3>2. c.pc = "rows" /\ Deleting(c) /\ c.proj \in Project
      BY <1>0, <2>1 DEF DeleteRows, At, Shape
    <3>3. UNCHANGED <<parent, tuples, leaked>>
      BY <2>1 DEF DeleteRows, database, openfga, observed
    <3>4. Assignments(c.proj) = {} \/ c.proj \in leaked
      BY <1>0, <3>2 DEF Purged
    <3>5. CASE p \in c.doomed
      BY <1>0, <3>3, <3>5 DEF Purged, Assignments
    <3>6. CASE p \in of
      BY <1>0, <3>1, <3>2, <3>3, <3>4, <3>6 DEF Assignments
    <3> QED BY <1>5, <3>1, <3>5, <3>6
  <2>2. CASE Commit(t)
    <3>1. CASE Return(t)
      BY <1>0, <1>5, <3>1, ReturnEq
    <3>2. ASSUME NEW as, Go(t, [c EXCEPT !.pc = "forget", !.doomed = {}, !.todo = as]) PROVE task'[t].doomed = {}
      <4>1. task'[t] = [c EXCEPT !.pc = "forget", !.doomed = {}, !.todo = as]
        BY <1>0, <3>2, GoEq
      <4> QED BY <1>0, <4>1 DEF Call
    <3> QED BY <1>5, <2>2, <3>1, <3>2 DEF Commit
  <2>3. CASE ~DeleteRows(t) /\ ~Commit(t)
    <3>1. p \in c.doomed
      BY <1>0, <1>5, <2>3, StepCourse DEF Course
    <3> QED BY <1>3, <2>3, <3>1
  <2> QED BY <2>1, <2>2, <2>3
<1>6. ASSUME NEW u \in Caller
      PROVE  /\ Deleting(task'[u]) => (\/ Assignments(task[u].proj) \subseteq (IF task[u].pc = "revoke" THEN task[u].todo ELSE {})
                                       \/ task[u].proj \in leaked)'
             /\ \A p \in task'[u].doomed : parent'[p] # None \/ Assignments(p)' = {} \/ p \in leaked'
  <2>1. CASE u = t
    BY <1>4, <1>5, <2>1
  <2>2. CASE u # t
    <3>1. task'[u] = task[u]
      BY <1>1, <2>2
    <3>2. ASSUME Deleting(task'[u])
          PROVE  (\/ Assignments(task[u].proj) \subseteq (IF task[u].pc = "revoke" THEN task[u].todo ELSE {})
                  \/ task[u].proj \in leaked)'
      BY <1>2, <3>1, <3>2
    <3>3. \A p \in task'[u].doomed : parent'[p] # None \/ Assignments(p)' = {} \/ p \in leaked'
      BY <1>3, <2>2, <3>1
    <3> QED BY <3>2, <3>3
  <2> QED BY <2>1, <2>2
<1> QED BY <1>6 DEF Purged

\* A role outlives its project only where it is known to leak.
LEMMA BackedStep ==
    ASSUME IInv, NEW t \in Caller, Step(t) \/ Abort(t)
    PROVE  Backed'
<1> DEFINE c == task[t]
<1>0. /\ TypeOK /\ Shaped /\ Purged /\ Backed /\ task \in [Caller -> Call] /\ c \in Call /\ Shape(c) /\ leaked \subseteq leaked'
  BY StepWrites DEF IInv, TypeOK, Shaped, Projects, Caller
<1>1. \A u \in Caller \ {t} : task'[u] = task[u]
  BY <1>0, StepOthers
<1> SUFFICES ASSUME NEW a \in tuples'
             PROVE  \/ a.proj \in rows' \cup leaked'
                    \/ \E u \in Task : /\ task'[u].op \in EnrollOps /\ task'[u].child = a.proj
                                       /\ a = [sub |-> task'[u].by, role |-> "admin", proj |-> task'[u].child]
  BY DEF Backed
<1>2. CASE a \notin tuples
  <2>1. Grant(t)
    BY <1>2, StepWrites
  <2>2. a = [sub |-> c.sub, role |-> c.role, proj |-> c.proj] /\ rows' = rows
        /\ (c.proj \in rows \/ c.proj \in leaked')
    BY <1>2, <2>1 DEF Grant, database
  <2> QED BY <2>2
<1>3. CASE a \in tuples /\ a.proj \in rows
  <2>1. CASE Commit(t)
    <3>1. rows' = rows \ c.doomed /\ leaked' = leaked \cup {p \in c.doomed : parent[p] # None /\ Assignments(p) # {}}
      BY <2>1 DEF Commit
    <3>2. a \in Assignments(a.proj)
      BY <1>3 DEF Assignments
    <3>3. CASE a.proj \in c.doomed
      <4>1. parent[a.proj] # None \/ a.proj \in leaked
        BY <1>0, <3>2, <3>3 DEF Purged
      <4> QED BY <1>0, <3>1, <3>2, <3>3, <4>1
    <3> QED BY <1>3, <3>1, <3>3
  <2> QED BY <1>3, <2>1, StepWrites
<1>4. CASE a.proj \in leaked
  BY <1>0, <1>4
<1>5. ASSUME NEW u \in Task, task[u].op \in EnrollOps, task[u].child = a.proj,
             a = [sub |-> task[u].by, role |-> "admin", proj |-> task[u].child]
      PROVE  \/ a.proj \in rows' \cup leaked'
             \/ \E v \in Task : /\ task'[v].op \in EnrollOps /\ task'[v].child = a.proj
                                /\ a = [sub |-> task'[v].by, role |-> "admin", proj |-> task'[v].child]
  <2>1. CASE u # t
    <3>1. task'[u] = task[u]
      BY <1>1, <2>1 DEF Caller
    <3> QED BY <1>5, <3>1
  <2>2. CASE u = t
    <3>0. c.op \in EnrollOps /\ c.pc \in {"insert", "undo"} /\ c.child = a.proj
      BY <1>0, <1>5, <2>2 DEF Shape
    <3>1. InsertProject(t) \/ InsertFails(t) \/ UndoTuple(t) \/ Abort(t)
      BY <3>0 DEF Step, CreateInvite, SendInvite, FindInvite, SendUpdate, RemoveInvite, Resolve, ReadFormer, AssignRole,
         RemoveRole, Revoke, Grant, CreateChild, Adopt, PurgeProject, DeleteRows, Deadlock, Orphan, CleanUp, Commit, Forget,
         At, EnrollOps
    <3>2. CASE InsertProject(t)
      BY <3>0, <3>2 DEF InsertProject
    <3>3. CASE InsertFails(t)
      <4>1. Undo(c).pc = "undo" /\ Undo(c).op = c.op /\ Undo(c).child = c.child /\ Undo(c).by = c.by
        BY <1>0 DEF Undo, Call
      <4>2. task'[t] = Undo(c)
        BY <1>0, <3>3, <4>1, GoEq DEF InsertFails, Proceed
      <4>3. task'[u].op = task[u].op /\ task'[u].child = task[u].child /\ task'[u].by = task[u].by
        BY <2>2, <4>1, <4>2
      <4> QED BY <1>5, <4>3
    <3>4. CASE UndoTuple(t)
      <4>1. a \in tuples'
        OBVIOUS
      <4>2. a = [sub |-> c.by, role |-> "admin", proj |-> c.child]
        BY <1>5, <2>2
      <4> QED BY <3>0, <3>4, <4>1, <4>2 DEF UndoTuple
    <3>5. CASE Abort(t)
      BY <3>0, <3>5 DEF Abort, At
    <3> QED BY <3>1, <3>2, <3>3, <3>4, <3>5
  <2> QED BY <2>1, <2>2
<1> QED BY <1>0, <1>2, <1>3, <1>4, <1>5 DEF Backed

\* The project that is enrolled has a new id and the caller as its administrator.
LEMMA EnrollEq ==
    ASSUME TypeOK, NEW t \in Caller, Enroll(t)
    PROVE  \E u \in User, p \in Project \ ids :
             /\ ids' = ids \cup {p} /\ tuples' = tuples \cup {[sub |-> u, role |-> "admin", proj |-> p]}
             /\ task'[t].op \in EnrollOps /\ task'[t].child = p /\ task'[t].by = u
<1>1. PICK op \in EnrollOps \cap Op, u \in User \ gone, p \in Project \ ids :
        /\ ids' = ids \cup {p} /\ tuples' = tuples \cup {[sub |-> u, role |-> "admin", proj |-> p]}
        /\ Go(t, [Idle EXCEPT !.op = op, !.pc = "insert", !.by = u, !.sub = u, !.child = p])
  BY DEF Enroll
<1>2. task'[t] = [Idle EXCEPT !.op = op, !.pc = "insert", !.by = u, !.sub = u, !.child = p]
  BY <1>1, GoEq DEF TypeOK, Caller
<1>3. task'[t].op = op /\ task'[t].child = p /\ task'[t].by = u
  BY <1>2, IdleTyped DEF Call
<1> QED BY <1>1, <1>3

\* A request adds a project that nothing is known of, or none.
LEMMA ProjectsRequest ==
    ASSUME IInv, NEW t \in Caller, Request(t), Enroll(t) => t \in Task
    PROVE  Projects'
<1> USE DEF database, openfga, identity, observed
<1>0. /\ TypeOK /\ Shaped /\ IdsKnown /\ Creation /\ Doom /\ Purged /\ Backed /\ task \in [Caller -> Call] /\ None \notin Project
      /\ Shape(task[t])
  BY MembershipAssumption DEF IInv, TypeOK, Projects, Caller, Shaped
<1>1. Moves(t) /\ UNCHANGED <<rows, parent, invites, adopted, leaked>>
  BY <1>0, RequestTyped
<1>2. \A u \in Caller \ {t} : task'[u] = task[u]
  BY <1>0, <1>1, GoTask DEF Moves
<1>3. /\ task'[t].pc \in {"allowed", "resolve", "cleanup", "insert"}
      /\ task'[t].pc = "insert" => Enroll(t)
      /\ task'[t].doomed = {}
      /\ task'[t].proj \in ids \cup {None}
      /\ Enroll(t) \/ task'[t].child = None
  BY <1>0, RequestCourse
<1>4. task[t].op \notin EnrollOps
  <2>1. task[t].pc = "idle"
    BY <1>0, RequestTyped DEF At
  <2> QED BY <1>0, <2>1 DEF Shape
<1>e. ASSUME ~Enroll(t) PROVE ids' = ids /\ tuples' = tuples
  BY <1>0, <1>e, RequestTyped
<1>5. \/ ids' = ids /\ tuples' = tuples /\ ~Enroll(t)
      \/ \E u \in User, p \in Project \ ids :
           /\ ids' = ids \cup {p} /\ tuples' = tuples \cup {[sub |-> u, role |-> "admin", proj |-> p]}
           /\ task'[t].op \in EnrollOps /\ task'[t].child = p /\ task'[t].by = u
  <2>1. CASE Enroll(t)
    BY <1>0, <2>1, EnrollEq
  <2>2. CASE ~Enroll(t)
    BY <1>e, <2>2
  <2> QED BY <2>1, <2>2
<1>6. ids \subseteq ids' /\ \A a \in tuples' : a \in tuples \/ a.proj \notin ids
  BY <1>5
<1>7. IdsKnown'
  <2>1. \A a \in tuples' : a.proj \in ids'
    BY <1>0, <1>5 DEF IdsKnown
  <2>2. task'[t].child \in ids' \cup {None}
    BY <1>3, <1>5
  <2> QED BY <1>0, <1>1, <1>2, <1>3, <1>6, <2>1, <2>2 DEF IdsKnown
<1>8. Creation'
  <2>1. \A u \in Caller \ {t} : Unborn(u)' => Unborn(u) /\ task'[u] = task[u] /\ task[u].child \in ids
    BY <1>0, <1>2 DEF Unborn, Shaped, Shape, IdsKnown
  <2>2. Unborn(t)' => task'[t].child \notin ids
    BY <1>3, <1>5 DEF Unborn
  <2> SUFFICES ASSUME NEW u \in Caller, NEW v \in Caller, Unborn(u)'
               PROVE  task'[u].child \notin rows' /\ (Unborn(v)' /\ task'[u].child = task'[v].child => u = v)
    BY DEF Creation
  <2> QED BY <1>0, <1>1, <2>1, <2>2 DEF Creation, IdsKnown
<1>9. Doom'
  BY <1>0, <1>1, <1>2, <1>3 DEF Doom
<1>10. Purged'
  <2>1. ASSUME NEW p \in ids PROVE Assignments(p)' = Assignments(p)
    <3>1. tuples \subseteq tuples'
      BY <1>5
    <3> QED BY <1>6, <3>1 DEF Assignments
  <2>2. ASSUME NEW u \in Caller
        PROVE  /\ task'[u].op \in {"delete_project", "delete_user"} /\ task'[u].pc \in {"revoke", "rows"} =>
                    (\/ Assignments(task[u].proj) \subseteq (IF task[u].pc = "revoke" THEN task[u].todo ELSE {})
                     \/ task[u].proj \in leaked)'
               /\ \A p \in task'[u].doomed : parent'[p] # None \/ Assignments(p)' = {} \/ p \in leaked'
    <3>1. CASE u = t
      BY <1>3, <3>1
    <3>2. CASE u # t
      <4>1. task'[u] = task[u]
        BY <1>2, <3>2
      <4>2. \A p \in task[u].doomed : p \in ids
        BY <1>0 DEF Doom, IdsKnown
      <4>3. \A p \in task'[u].doomed : parent'[p] # None \/ Assignments(p)' = {} \/ p \in leaked'
        BY <1>0, <1>1, <2>1, <4>1, <4>2 DEF Purged
      <4>4. ASSUME task[u].op \in {"delete_project", "delete_user"}, task[u].pc \in {"revoke", "rows"}
            PROVE  (\/ Assignments(task[u].proj) \subseteq (IF task[u].pc = "revoke" THEN task[u].todo ELSE {})
                    \/ task[u].proj \in leaked)'
        <5>1. task[u].proj \in ids
          BY <1>0, <4>4 DEF IdsKnown, Shaped, Shape
        <5>2. ASSUME NEW q, q = task[u].proj PROVE Assignments(q)' = Assignments(q)
          BY <2>1, <5>1, <5>2
        <5>3. \/ Assignments(task[u].proj) \subseteq (IF task[u].pc = "revoke" THEN task[u].todo ELSE {})
              \/ task[u].proj \in leaked
          BY <1>0, <4>4 DEF Purged
        <5> QED BY <1>1, <4>1, <5>2, <5>3 DEF Assignments
      <4> QED BY <4>1, <4>3, <4>4
    <3> QED BY <3>1, <3>2
  <2> QED BY <2>2 DEF Purged
<1>11. Backed'
  <2> SUFFICES ASSUME NEW a \in tuples'
               PROVE  \/ a.proj \in rows' \cup leaked'
                      \/ \E u \in Task : /\ task'[u].op \in EnrollOps /\ task'[u].child = a.proj
                                         /\ a = [sub |-> task'[u].by, role |-> "admin", proj |-> task'[u].child]
    BY DEF Backed
  <2>1. CASE a \in tuples
    <3>1. CASE a.proj \in rows \cup leaked
      BY <1>1, <3>1
    <3>2. ASSUME NEW u \in Task, task[u].op \in EnrollOps, task[u].child = a.proj,
                 a = [sub |-> task[u].by, role |-> "admin", proj |-> task[u].child]
          PROVE  \E v \in Task : /\ task'[v].op \in EnrollOps /\ task'[v].child = a.proj
                                 /\ a = [sub |-> task'[v].by, role |-> "admin", proj |-> task'[v].child]
      <4>1. task'[u] = task[u]
        BY <1>2, <1>4, <3>2 DEF Caller
      <4> QED BY <3>2, <4>1
    <3> QED BY <1>0, <2>1, <3>1, <3>2 DEF Backed
  <2>2. CASE a \notin tuples
    <3>1. PICK u \in User, p \in Project \ ids :
            /\ tuples' = tuples \cup {[sub |-> u, role |-> "admin", proj |-> p]}
            /\ task'[t].op \in EnrollOps /\ task'[t].child = p /\ task'[t].by = u
      BY <1>5, <2>2
    <3>2. t \in Task
      BY <1>e, <2>2
    <3>3. a = [sub |-> u, role |-> "admin", proj |-> p]
      BY <2>2, <3>1
    <3> QED BY <3>1, <3>2, <3>3
  <2> QED BY <2>1, <2>2
<1> QED BY <1>7, <1>8, <1>9, <1>10, <1>11 DEF Projects

\* Every step keeps what is known of projects.
LEMMA ProjectsStep ==
    ASSUME IInv, [Next]_vars
    PROVE  Projects'
<1> USE DEF database, openfga, identity, observed
<1>1. ASSUME NEW t \in Caller, Step(t) \/ Abort(t) PROVE Projects'
  BY <1>1, IdsStep, CreationStep, DoomStep, PurgedStep, BackedStep DEF Projects
<1>2. CASE HandleEvents
  <2>1. Request(Cron) /\ ids' = ids
    BY <1>2 DEF HandleEvents, Request, DeleteUser
  <2>2. ~Enroll(Cron)
    BY <2>1 DEF Enroll
  <2> QED BY <2>1, <2>2, ProjectsRequest DEF Caller
<1>3. CASE DeleteAccount \/ DropEvent \/ UNCHANGED vars
  <2>1. UNCHANGED <<rows, parent, tuples, adopted, invites, ids, leaked, task>>
    BY <1>3 DEF DeleteAccount, DropEvent, vars
  <2>2. IdsKnown' /\ Creation' /\ Doom'
    BY <2>1 DEF IInv, Projects, IdsKnown, Creation, Unborn, Doom
  <2>3. Purged' /\ Backed'
    BY <2>1 DEF IInv, Projects, Purged, Assignments, Backed
  <2> QED BY <2>2, <2>3 DEF Projects
<1>4. CASE Expire
  <2>1. UNCHANGED <<rows, parent, tuples, adopted, ids, leaked, task>>
    BY <1>4 DEF Expire
  <2>2. PICK i \in invites : invites' = (invites \ {i}) \cup {[i EXCEPT !.fresh = FALSE]}
    BY <1>4 DEF Expire
  <2>3. [i EXCEPT !.fresh = FALSE].proj = i.proj
    BY DEF IInv, TypeOK, Invite
  <2>4. \A j \in invites' : j.proj \in ids
    BY <2>2, <2>3 DEF IInv, Projects, IdsKnown
  <2>5. IdsKnown' /\ Creation' /\ Doom'
    BY <2>1, <2>4 DEF IInv, Projects, IdsKnown, Creation, Unborn, Doom
  <2>6. Purged' /\ Backed'
    BY <2>1 DEF IInv, Projects, Purged, Assignments, Backed
  <2> QED BY <2>5, <2>6 DEF Projects
<1> QED BY <1>1, <1>2, <1>3, <1>4, ProjectsRequest DEF Next, Caller

-----------------------------------------------------------------------------
(* Administrators *)

\* The call is deleting the project.
Erasing(c, p) ==
    \/ p \in c.doomed
    \/ c.proj = p /\ c.op \in {"delete_project", "delete_user"} /\ c.pc \in {"revoke", "rows"}

\* A deletion of a user looks at its projects in CleanUp and gives one of them up in PurgeProject only.
Keeps(t) ==
    \/ CleanUp(t)
    \/ PurgeProject(t)
    \/ task'[t].op = "delete_user" =>
         task[t].op = "delete_user" /\ task'[t].sub = task[t].sub /\ task'[t].projs = task[t].projs /\ task[t].pc # "purge"

\* A deletion of a project goes on, fails, or is done.
Pursues(t) == \A p : Erasing(task[t], p) => Erasing(task'[t], p) \/ p \in stranded' \/ p \notin rows'

Abides(t) == Holds(task'[t]) /\ Keeps(t) /\ Pursues(t)

\* So it is in every step of a call.
LEMMA HeldStep ==
    ASSUME IInv, NEW t \in Caller, Step(t) \/ Abort(t)
    PROVE  Abides(t)
<1> USE DEF database, openfga, identity, observed
<1> DEFINE c == task[t]
           deletes == {"delete_project", "delete_user"}
<1>0. /\ task \in [Caller -> Call] /\ c \in Call /\ Shape(c) /\ Holds(c) /\ None \notin Project
  BY MembershipAssumption DEF IInv, TypeOK, Shaped, Caller, Managers, Held
\* The call returns, and leaves no deletion behind.
<1>1. ASSUME Return(t), \A p : Erasing(c, p) => p \in stranded' \/ p \notin rows' PROVE Abides(t)
  <2>1. task'[t].pc = "idle" /\ task'[t].op = "decline" /\ task'[t].doomed = {}
    BY <1>0, <1>1, ReturnEq
  <2>2. Holds(task'[t])
    BY <2>1 DEF Holds
  <2>3. Keeps(t)
    BY <2>1 DEF Keeps
  <2>4. Pursues(t)
    BY <1>1 DEF Pursues
  <2> QED BY <2>2, <2>3, <2>4 DEF Abides
\* It deletes nothing.
<1>2. c.op \notin deletes => \A p : ~Erasing(c, p)
  BY <1>0 DEF Holds, Erasing
<1>3. ASSUME c.op \notin deletes, task'[t].op \notin deletes, task'[t].doomed = c.doomed,
             task'[t].pc \notin {"idle", "forget"}
      PROVE  Abides(t)
  <2>1. Holds(task'[t])
    BY <1>0, <1>3 DEF Holds
  <2>2. Keeps(t)
    BY <1>3 DEF Keeps
  <2>3. Pursues(t)
    BY <1>2, <1>3 DEF Pursues
  <2> QED BY <2>1, <2>2, <2>3 DEF Abides
<1>4. CASE c.op \notin deletes /\ Return(t)
  BY <1>1, <1>2, <1>4
\* It goes on with its deletion.
<1>5. ASSUME c.op \in deletes, task'[t].op = c.op, task'[t].sub = c.sub, task'[t].projs = c.projs,
             Holds(task'[t]), Pursues(t), c.pc # "purge"
      PROVE  Abides(t)
  <2>1. Keeps(t)
    BY <1>5 DEF Keeps
  <2> QED BY <1>5, <2>1 DEF Abides
<1>6. CASE CreateInvite(t)
  <2>1. c.op \notin deletes
    BY <1>6 DEF CreateInvite
  <2>2. ASSUME NEW k, Go(t, [c EXCEPT !.pc = "send", !.code = k]) PROVE Abides(t)
    <3>1. task'[t] = [c EXCEPT !.pc = "send", !.code = k]
      BY <1>0, <2>2, GoEq
    <3>2. task'[t].op = c.op /\ task'[t].doomed = c.doomed /\ task'[t].pc = "send"
      BY <1>0, <3>1 DEF Call
    <3> QED BY <1>3, <2>1, <3>2
  <2>3. Return(t) \/ \E k : Go(t, [c EXCEPT !.pc = "send", !.code = k])
    BY <1>6 DEF CreateInvite
  <2> QED BY <1>4, <2>1, <2>2, <2>3
<1>7. CASE FindInvite(t)
  <2>1. c.op \notin deletes
    BY <1>7 DEF FindInvite
  <2>2. ASSUME NEW k, NEW as, Go(t, [c EXCEPT !.pc = "send", !.code = k, !.todo = as]) PROVE Abides(t)
    <3>1. task'[t] = [c EXCEPT !.pc = "send", !.code = k, !.todo = as]
      BY <1>0, <2>2, GoEq
    <3>2. task'[t].op = c.op /\ task'[t].doomed = c.doomed /\ task'[t].pc = "send"
      BY <1>0, <3>1 DEF Call
    <3> QED BY <1>3, <2>1, <3>2
  <2>3. Return(t) \/ \E k, as : Go(t, [c EXCEPT !.pc = "send", !.code = k, !.todo = as])
    BY <1>7 DEF FindInvite
  <2> QED BY <1>4, <2>1, <2>2, <2>3
<1>8. CASE SendInvite(t) \/ SendUpdate(t) \/ RemoveInvite(t) \/ Resolve(t) \/ InsertProject(t) \/ UndoTuple(t)
  <2>1. Return(t)
    BY <1>8 DEF SendInvite, SendUpdate, RemoveInvite, Resolve, InsertProject, UndoTuple
  <2>2. c.pc \in {"send", "resolve", "insert", "undo"}
    BY <1>8 DEF SendInvite, SendUpdate, RemoveInvite, Resolve, InsertProject, UndoTuple, At
  <2>3. c.op \notin deletes
    BY <1>0, <2>2 DEF Shape, ResolveOps, EnrollOps
  <2> QED BY <1>4, <2>1, <2>3
<1>9. CASE Deadlock(t) \/ Abort(t)
  <2>1. Return(t)
    BY <1>9 DEF Deadlock, Abort
  <2>2. ASSUME NEW p, Erasing(c, p) PROVE p \in stranded'
    <3>1. CASE Deadlock(t)
      BY <2>2, <3>1 DEF Deadlock, Erasing
    <3>2. CASE Abort(t)
      <4>1. c.op \in deletes /\ (p \in c.doomed \/ (p = c.proj /\ p # None))
        BY <1>0, <1>2, <2>2 DEF Erasing, Shape
      <4> QED BY <3>2, <4>1 DEF Abort
    <3> QED BY <1>9, <3>1, <3>2
  <2> QED BY <1>1, <2>1, <2>2
<1>10. CASE ReadFormer(t)
  <2>1. c.op \in {"update_role", "accept"}
    BY <1>10 DEF ReadFormer
  <2>2. ASSUME NEW d \in Call, d.op \in {"update_role", "accept", "remove_role"}, d.doomed = c.doomed, NEW as,
               Proceed(t, Revoking(d, as))
        PROVE  Abides(t)
    <3>1. CASE Go(t, Revoking(d, as)) /\ ~Return(t)
      <4>1. task'[t].op = d.op /\ task'[t].doomed = c.doomed /\ task'[t].pc \in {"idle", "grant", "revoke"}
        BY <1>0, <2>2, <3>1, RevokingEq DEF AfterRevoke
      <4>2. Revoking(d, as).pc # "idle"
        BY <2>2, <3>1 DEF Proceed, Return
      <4>3. task'[t].pc # "idle"
        BY <1>0, <3>1, <4>2, GoEq
      <4> QED BY <1>3, <2>1, <2>2, <4>1, <4>3
    <3> QED BY <1>4, <2>1, <2>2, <3>1, ProceedEq
  <2>3. ASSUME NEW as, Go(t, Revoking(c, as)) PROVE Abides(t)
    <3>1. task'[t].op = c.op /\ task'[t].doomed = c.doomed /\ task'[t].pc \in {"grant", "revoke"}
      BY <1>0, <2>1, <2>3, RevokingEq DEF AfterRevoke
    <3> QED BY <1>3, <2>1, <3>1
  <2>4. /\ [c EXCEPT !.op = "remove_role"] \in Call /\ [c EXCEPT !.op = "remove_role"].op = "remove_role"
        /\ [c EXCEPT !.op = "remove_role"].doomed = c.doomed
    BY <1>0 DEF Call, Operation, ManageOps, RemoveOps
  <2>5. \/ Return(t) \/ \E as : Go(t, Revoking(c, as))
        \/ \E as : Proceed(t, Revoking([c EXCEPT !.op = "remove_role"], as))
    BY <1>10 DEF ReadFormer
  <2> QED BY <1>4, <2>1, <2>2, <2>3, <2>4, <2>5
<1>11. CASE AssignRole(t)
  <2>1. c.op \notin deletes
    BY <1>11 DEF AssignRole
  <2>2. ASSUME Go(t, [c EXCEPT !.pc = "grant"]) PROVE Abides(t)
    <3>1. task'[t] = [c EXCEPT !.pc = "grant"]
      BY <1>0, <2>2, GoEq
    <3>2. task'[t].op = c.op /\ task'[t].doomed = c.doomed /\ task'[t].pc = "grant"
      BY <1>0, <3>1 DEF Call
    <3> QED BY <1>3, <2>1, <3>2
  <2>3. Return(t) \/ Go(t, [c EXCEPT !.pc = "grant"])
    BY <1>11 DEF AssignRole
  <2> QED BY <1>4, <2>1, <2>2, <2>3
<1>12. CASE RemoveRole(t)
  <2>1. c.op = "remove_role"
    BY <1>12 DEF RemoveRole
  <2>2. ASSUME NEW as, as # {}, Go(t, Revoking(c, as)) PROVE Abides(t)
    <3>1. task'[t].op = c.op /\ task'[t].doomed = c.doomed /\ task'[t].pc = "revoke"
      BY <1>0, <2>2, RevokingEq
    <3> QED BY <1>3, <2>1, <3>1
  <2>3. Return(t) \/ \E as : as # {} /\ Go(t, Revoking(c, as))
    BY <1>12 DEF RemoveRole
  <2> QED BY <1>4, <2>1, <2>2, <2>3
<1>13. CASE Revoke(t)
  <2>0. c.pc = "revoke"
    BY <1>13 DEF Revoke, At
  <2>1. PICK a \in c.todo : Proceed(t, Revoking(c, c.todo \ {a}))
    BY <1>13 DEF Revoke
  <2> DEFINE as == c.todo \ {a}
             d == Revoking(c, as)
  <2>2. CASE c.op \notin deletes
    <3>1. CASE Go(t, d) /\ ~Return(t)
      <4>1. task'[t].op = c.op /\ task'[t].doomed = c.doomed /\ task'[t].pc \in {"idle", "grant", "revoke"}
        BY <1>0, <2>2, <3>1, RevokingEq DEF AfterRevoke
      <4>2. d.pc # "idle"
        BY <2>1, <3>1 DEF Proceed, Return
      <4>3. task'[t].pc # "idle"
        BY <1>0, <3>1, <4>2, GoEq
      <4> QED BY <1>3, <2>2, <4>1, <4>3
    <3> QED BY <1>0, <1>4, <2>1, <2>2, <3>1, ProceedEq
  <2>3. CASE c.op \in deletes
    <3>1. AfterRevoke(c) = "rows"
      BY <2>3 DEF AfterRevoke
    <3>2. d.pc # "idle"
      BY <1>0, <3>1 DEF Revoking, Call
    <3>3. Go(t, d)
      BY <2>1, <3>2 DEF Proceed
    <3>4. /\ task'[t].op = c.op /\ task'[t].sub = c.sub /\ task'[t].proj = c.proj /\ task'[t].todo = as /\ task'[t].doomed = c.doomed
          /\ task'[t].projs = c.projs /\ task'[t].pc \in {"revoke", "rows"}
      BY <1>0, <3>1, <3>3, RevokingEq
    <3>6. Holds(task'[t])
      BY <1>0, <2>0, <2>3, <3>4 DEF Holds
    <3>7. Pursues(t)
      BY <2>3, <3>4 DEF Pursues, Erasing
    <3> QED BY <1>5, <2>0, <2>3, <3>4, <3>6, <3>7
  <2> QED BY <2>2, <2>3
<1>14. CASE Grant(t)
  <2>1. c.op \notin deletes
    BY <1>0, <1>14 DEF Grant, At, Shape
  <2>2. ASSUME Go(t, [c EXCEPT !.pc = "resolve"]) PROVE Abides(t)
    <3>1. task'[t] = [c EXCEPT !.pc = "resolve"]
      BY <1>0, <2>2, GoEq
    <3>2. task'[t].op = c.op /\ task'[t].doomed = c.doomed /\ task'[t].pc = "resolve"
      BY <1>0, <3>1 DEF Call
    <3> QED BY <1>3, <2>1, <3>2
  <2>3. Return(t) \/ Go(t, [c EXCEPT !.pc = "resolve"])
    BY <1>14 DEF Grant
  <2> QED BY <1>4, <2>1, <2>2, <2>3
<1>15. CASE InsertFails(t)
  <2>1. c.op \notin deletes
    BY <1>15 DEF InsertFails, EnrollOps
  <2>2. Undo(c).pc = "undo" /\ Undo(c).op = c.op /\ Undo(c).doomed = c.doomed
    BY <1>0 DEF Undo, Call
  <2>3. task'[t] = Undo(c)
    BY <1>0, <1>15, <2>2, GoEq DEF InsertFails, Proceed
  <2> QED BY <1>3, <2>1, <2>2, <2>3
<1>16. CASE CreateChild(t)
  <2>1. c.op \notin deletes
    BY <1>16 DEF CreateChild
  <2>2. ASSUME NEW p, Go(t, [c EXCEPT !.pc = "adopt", !.child = p]) PROVE Abides(t)
    <3>1. task'[t] = [c EXCEPT !.pc = "adopt", !.child = p]
      BY <1>0, <2>2, GoEq
    <3>2. task'[t].op = c.op /\ task'[t].doomed = c.doomed /\ task'[t].pc = "adopt"
      BY <1>0, <3>1 DEF Call
    <3> QED BY <1>3, <2>1, <3>2
  <2>3. Return(t) \/ \E p : Go(t, [c EXCEPT !.pc = "adopt", !.child = p])
    BY <1>16 DEF CreateChild
  <2> QED BY <1>4, <2>1, <2>2, <2>3
<1>17. CASE Adopt(t)
  <2>1. c.op \notin deletes
    BY <1>0, <1>17 DEF Adopt, At, Shape
  <2>2. task'[t] = [c EXCEPT !.pc = "insert"]
    BY <1>0, <1>17, GoEq DEF Adopt
  <2>3. task'[t].op = c.op /\ task'[t].doomed = c.doomed /\ task'[t].pc = "insert"
    BY <1>0, <2>2 DEF Call
  <2> QED BY <1>3, <2>1, <2>3
<1>18. CASE PurgeProject(t)
  <2>0. c.op \in deletes /\ c.pc \in {"purge", "allowed"} /\ Keeps(t)
    BY <1>0, <1>18 DEF PurgeProject, At, Shape, Keeps
  <2>1. CASE Go(t, Revoking(c, RolesToDelete(c.proj)))
    <3>1. AfterRevoke(c) = "rows"
      BY <2>0 DEF AfterRevoke
    <3>2. /\ task'[t].op = c.op /\ task'[t].proj = c.proj /\ task'[t].todo = Assignments(c.proj) /\ task'[t].doomed = c.doomed
          /\ task'[t].pc \in {"revoke", "rows"}
      BY <1>0, <2>1, <3>1, RevokingEq DEF RolesToDelete
    <3>3. Holds(task'[t])
      BY <1>0, <2>0, <3>2 DEF Holds, Assignments
    <3>4. Pursues(t)
      BY <2>0, <3>2 DEF Pursues, Erasing
    <3> QED BY <2>0, <3>3, <3>4 DEF Abides
  <2>2. CASE c.op = "delete_user" /\ Go(t, [c EXCEPT !.pc = "cleanup"])
    <3>1. task'[t] = [c EXCEPT !.pc = "cleanup"]
      BY <1>0, <2>2, GoEq
    <3>2. task'[t].op = c.op /\ task'[t].doomed = c.doomed /\ task'[t].pc = "cleanup"
      BY <1>0, <3>1 DEF Call
    <3>3. Holds(task'[t])
      BY <2>2, <3>2 DEF Holds
    <3>4. Pursues(t)
      BY <2>0, <3>2 DEF Pursues, Erasing
    <3> QED BY <2>0, <3>3, <3>4 DEF Abides
  <2>3. CASE c.op # "delete_user" /\ Return(t)
    <3>1. \A p : ~Erasing(c, p)
      BY <1>0, <2>0, <2>3 DEF Holds, Erasing
    <3> QED BY <1>1, <2>3, <3>1
  <2> QED BY <1>18, <2>1, <2>2, <2>3 DEF PurgeProject, Return
<1>19. CASE DeleteRows(t)
  <2>0. c.op \in deletes /\ c.pc = "rows"
    BY <1>0, <1>19 DEF DeleteRows, At, Shape
  <2> DEFINE of == IF c.proj \in rows THEN {p \in rows : p = c.proj \/ parent[p] = c.proj} ELSE {}
             orphans == {<<parent[p], p>> : p \in {q \in of : parent[q] # None}}
             pc == IF orphans = {} THEN AfterPurge(c) ELSE "orphan"
             dd == c.doomed \cup of
  <2>1. Go(t, [c EXCEPT !.doomed = dd, !.orphans = orphans, !.pc = pc]) /\ rows' = rows
    BY <1>19 DEF DeleteRows
  <2>2. (c.proj \in rows => c.proj \in dd) /\ c.doomed \subseteq dd
        /\ pc \in {"orphan", IF c.op = "delete_user" THEN "cleanup" ELSE "commit"}
    BY DEF AfterPurge
  <2> HIDE DEF dd, of, orphans, pc
  <2>3. task'[t] = [c EXCEPT !.doomed = dd, !.orphans = orphans, !.pc = pc]
    BY <1>0, <2>1, GoEq
  <2>4. task'[t].op = c.op /\ task'[t].sub = c.sub /\ task'[t].projs = c.projs /\ task'[t].doomed = dd /\ task'[t].pc = pc
    BY <1>0, <2>3 DEF Call
  <2>5. Holds(task'[t])
    BY <2>0, <2>2, <2>4 DEF Holds
  <2>6. Pursues(t)
    BY <2>1, <2>2, <2>4 DEF Pursues, Erasing
  <2> QED BY <1>5, <2>0, <2>4, <2>5, <2>6
<1>20. CASE Orphan(t)
  <2>0. c.op \in deletes /\ c.pc = "orphan"
    BY <1>0, <1>20 DEF Orphan, At, Shape
  <2>1. PICK os, pc : /\ pc \in {"orphan", IF c.op = "delete_user" THEN "cleanup" ELSE "commit"}
                      /\ Go(t, [c EXCEPT !.orphans = os, !.pc = pc])
    BY <1>20 DEF Orphan, AfterPurge
  <2>2. task'[t] = [c EXCEPT !.orphans = os, !.pc = pc]
    BY <1>0, <2>1, GoEq
  <2>3. task'[t].op = c.op /\ task'[t].sub = c.sub /\ task'[t].projs = c.projs /\ task'[t].doomed = c.doomed /\ task'[t].pc = pc
    BY <1>0, <2>2 DEF Call
  <2>4. Holds(task'[t])
    BY <2>0, <2>1, <2>3 DEF Holds
  <2>5. Pursues(t)
    BY <2>0, <2>3 DEF Pursues, Erasing
  <2> QED BY <1>5, <2>0, <2>3, <2>4, <2>5
<1>21. CASE CleanUp(t)
  <2>0. c.op = "delete_user" /\ c.pc = "cleanup" /\ Keeps(t)
    BY <1>0, <1>21 DEF CleanUp, At, Shape, Keeps
  <2>1. ASSUME task'[t].op = c.op, task'[t].doomed = c.doomed,
               task'[t].pc \in {"cleanup", "purge"} \/ (task'[t].pc = "commit" /\ task'[t].projs = {})
        PROVE  Abides(t)
    <3>1. Holds(task'[t])
      BY <2>0, <2>1 DEF Holds
    <3>2. Pursues(t)
      BY <2>0, <2>1 DEF Pursues, Erasing
    <3> QED BY <2>0, <3>1, <3>2 DEF Abides
  <2>2. CASE c.projs = {} /\ Go(t, [c EXCEPT !.pc = "commit"])
    <3>1. task'[t] = [c EXCEPT !.pc = "commit"]
      BY <1>0, <2>2, GoEq
    <3>2. task'[t].op = c.op /\ task'[t].doomed = c.doomed /\ task'[t].pc = "commit" /\ task'[t].projs = {}
      BY <1>0, <2>2, <3>1 DEF Call
    <3> QED BY <2>1, <3>2
  <2>3. ASSUME NEW ps, Go(t, [c EXCEPT !.projs = ps]) PROVE Abides(t)
    <3>1. task'[t] = [c EXCEPT !.projs = ps]
      BY <1>0, <2>3, GoEq
    <3>2. task'[t].op = c.op /\ task'[t].doomed = c.doomed /\ task'[t].pc = "cleanup"
      BY <1>0, <2>0, <3>1 DEF Call
    <3> QED BY <2>1, <3>2
  <2>4. ASSUME NEW ps, NEW p, Go(t, [c EXCEPT !.projs = ps, !.pc = "purge", !.proj = p]) PROVE Abides(t)
    <3>1. task'[t] = [c EXCEPT !.projs = ps, !.pc = "purge", !.proj = p]
      BY <1>0, <2>4, GoEq
    <3>2. task'[t].op = c.op /\ task'[t].doomed = c.doomed /\ task'[t].pc = "purge"
      BY <1>0, <3>1 DEF Call
    <3> QED BY <2>1, <3>2
  <2>5. \/ c.projs = {} /\ Go(t, [c EXCEPT !.pc = "commit"])
        \/ \E ps : Go(t, [c EXCEPT !.projs = ps])
        \/ \E ps, p : Go(t, [c EXCEPT !.projs = ps, !.pc = "purge", !.proj = p])
    BY <1>21 DEF CleanUp
  <2> QED BY <2>2, <2>3, <2>4, <2>5
<1>22. CASE Commit(t)
  <2>0. c.op \in deletes /\ c.pc = "commit" /\ rows' = rows \ c.doomed
    BY <1>0, <1>22 DEF Commit, At, Shape
  <2>1. \A p : Erasing(c, p) => p \notin rows'
    BY <2>0 DEF Erasing
  <2>2. CASE Return(t)
    <3> QED BY <1>1, <2>1, <2>2
  <2>3. CASE c.op = "delete_user" /\ Go(t, [c EXCEPT !.pc = "forget", !.doomed = {}, !.todo = TuplesToForget(c.sub)])
    <3>1. task'[t] = [c EXCEPT !.pc = "forget", !.doomed = {}, !.todo = TuplesToForget(c.sub)]
      BY <1>0, <2>3, GoEq
    <3>2. /\ task'[t].op = c.op /\ task'[t].sub = c.sub /\ task'[t].projs = c.projs /\ task'[t].doomed = {} /\ task'[t].pc = "forget"
          /\ task'[t].todo = TuplesToForget(c.sub)
      BY <1>0, <3>1 DEF Call
    <3>3. Holds(task'[t])
      BY <1>0, <2>0, <2>3, <3>2 DEF Holds, TuplesToForget
    <3>4. Pursues(t)
      BY <2>1 DEF Pursues
    <3> QED BY <1>5, <2>0, <3>2, <3>3, <3>4
  <2> QED BY <1>22, <2>2, <2>3 DEF Commit
<1>23. CASE Forget(t)
  <2>0. c.op = "delete_user" /\ c.pc = "forget" /\ c.doomed = {} /\ c.projs = {}
    BY <1>0, <1>23 DEF Forget, At, Shape, Holds
  <2>1. \A p : ~Erasing(c, p)
    BY <2>0 DEF Erasing
  <2>2. CASE Return(t)
    <3> QED BY <1>1, <2>1, <2>2
  <2>3. ASSUME NEW a, Go(t, [c EXCEPT !.todo = c.todo \ {a}]) PROVE Abides(t)
    <3> DEFINE as == c.todo \ {a}
    <3>1. task'[t] = [c EXCEPT !.todo = as]
      BY <1>0, <2>3, GoEq
    <3>2. /\ task'[t].op = c.op /\ task'[t].sub = c.sub /\ task'[t].projs = c.projs /\ task'[t].doomed = c.doomed /\ task'[t].pc = c.pc
          /\ task'[t].todo = as
      BY <1>0, <3>1 DEF Call
    <3>3. Holds(task'[t])
      BY <1>0, <2>0, <3>2 DEF Holds
    <3>4. Pursues(t)
      BY <2>1 DEF Pursues
    <3> QED BY <1>5, <2>0, <3>2, <3>3, <3>4
  <2>4. Return(t) \/ \E a : Go(t, [c EXCEPT !.todo = c.todo \ {a}])
    BY <1>23 DEF Forget
  <2> QED BY <2>2, <2>3, <2>4
<1> QED
  BY <1>6, <1>7, <1>8, <1>9, <1>10, <1>11, <1>12, <1>13, <1>14, <1>15, <1>16, <1>17, <1>18, <1>19, <1>20, <1>21, <1>22, <1>23
     DEF Step

\* An administrator who could be counted on can be, unless the deletion of that very user looks at the project.
LEMMA StayingKept ==
    ASSUME IInv, NEW t \in Caller, DOMAIN task' = Caller, \A u \in Caller \ {t} : task'[u] = task[u],
           NEW s, NEW p, ~PassedOver(s, p),
           \/ task'[t].op # "delete_user"
           \/ task'[t].sub # s
           \/ p \in task'[t].projs
           \/ task'[t].pc = "purge" /\ task'[t].proj = p
    PROVE  ~PassedOver(s, p)'
  BY DEF IInv, TypeOK, Caller, PassedOver

\* Every step of a call leaves the projects an administrator, or is a known point.
LEMMA MannedStep ==
    ASSUME IInv, NEW t \in Caller, Step(t) \/ Abort(t)
    PROVE  Manned'
<1> USE DEF database, openfga, identity, observed
<1> DEFINE c == task[t]
<1>0. /\ task \in [Caller -> Call] /\ DOMAIN task = Caller /\ c \in Call /\ Shape(c) /\ Holds(c) /\ TypeOK /\ Shaped
      /\ None \notin Project /\ rows \subseteq Project /\ parent \in [Project -> Project \cup {None}]
      /\ Manned /\ Creation /\ stranded \subseteq stranded'
  BY MembershipAssumption, StepWrites DEF IInv, TypeOK, Shaped, Caller, Projects, Managers, Held
<1>1. task' \in [Caller -> Call] /\ DOMAIN task' = Caller /\ \A u \in Caller \ {t} : task'[u] = task[u]
  <2>1. Moves(t)
    BY <1>0, StepTyped
  <2> QED BY <1>0, <2>1, MovesTyped, StepOthers
<1>2. Keeps(t) /\ Pursues(t)
  BY HeldStep DEF Abides
<1> SUFFICES ASSUME NEW p \in rows', parent'[p] = None, p \notin stranded', ~BeingDeleted(p)'
             PROVE  Staying(p)' # {}
  BY DEF Manned
<1>3. p \in Project
  <2>1. CASE InsertProject(t)
    BY <1>0, <2>1 DEF InsertProject, At, Shape
  <2> QED BY <1>0, <2>1, StepWrites
<1>4. ASSUME NEW b \in Staying(p), b \in tuples', ~PassedOver(b.sub, p)' PROVE Staying(p)' # {}
  BY <1>4 DEF Staying, Admins, Assignments
\* A project that is not being deleted now was not before.
<1>5. p \in rows => ~BeingDeleted(p)
  <2> SUFFICES ASSUME p \in rows, NEW u \in Caller, Erasing(task[u], p) PROVE FALSE
    BY <1>0 DEF BeingDeleted, Erasing
  <2>1. \A v \in Caller : ~Erasing(task'[v], p)
    BY <1>1 DEF BeingDeleted, Erasing
  <2> QED BY <1>1, <1>2, <2>1 DEF Pursues
<1>6. CASE p \notin rows
  <2>1. InsertProject(t) /\ p = c.child /\ parent'[p] = c.proj /\ c.pc = "insert" /\ tuples' = tuples
    BY <1>0, <1>3, <1>6, StepWrites DEF InsertProject, At
  <2>2. c.op \in EnrollOps
    BY <1>0, <2>1 DEF Shape, EnrollOps
  <2>3. Staying(p) # {}
    BY <2>1, <2>2 DEF InsertProject
  <2>4. PICK b \in Staying(p) : TRUE
    BY <2>3
  <2>5. task'[t].op # "delete_user"
    BY <1>0, <2>1, ReturnEq DEF InsertProject
  <2>6. ~PassedOver(b.sub, p)
    BY DEF Staying
  <2>7. b \in tuples'
    BY <2>1 DEF Staying, Admins, Assignments
  <2> QED BY <1>1, <1>4, <2>5, <2>6, <2>7, StayingKept
<1>7. CASE p \in rows
  <2>1. parent[p] = None
    <3>1. CASE InsertProject(t)
      <4>1. c.child \notin rows /\ parent' = [parent EXCEPT ![c.child] = c.proj]
        BY <1>0, <3>1 DEF InsertProject, At, Creation, Unborn
      <4> QED BY <1>0, <1>3, <1>7, <4>1
    <3>2. CASE Commit(t)
      BY <1>3, <3>2 DEF Commit
    <3> QED BY <3>1, <3>2, StepWrites
  <2>2. PICK b \in Staying(p) : TRUE
    BY <1>0, <1>5, <1>7, <2>1 DEF Manned
  <2>3. b \in tuples /\ b.proj = p /\ b.role = "admin" /\ ~PassedOver(b.sub, p)
    BY DEF Staying, Admins, Assignments
  <2>4. CASE CleanUp(t)
    <3>0. c.pc = "cleanup" /\ c.op = "delete_user" /\ tuples' = tuples
      BY <1>0, <2>4 DEF CleanUp, At, Shape
    <3>1. ASSUME NEW ps, Go(t, [c EXCEPT !.projs = ps])
          PROVE  task'[t].sub = c.sub /\ task'[t].projs = ps /\ task'[t].doomed = c.doomed
      <4>1. task'[t] = [c EXCEPT !.projs = ps]
        BY <1>0, <3>1, GoEq
      <4> QED BY <1>0, <4>1 DEF Call
    <3>2. ASSUME NEW ps, NEW q, Go(t, [c EXCEPT !.projs = ps, !.pc = "purge", !.proj = q])
          PROVE  task'[t].sub = c.sub /\ task'[t].projs = ps /\ task'[t].pc = "purge" /\ task'[t].proj = q
      <4>1. task'[t] = [c EXCEPT !.projs = ps, !.pc = "purge", !.proj = q]
        BY <1>0, <3>2, GoEq
      <4> QED BY <1>0, <4>1 DEF Call
    <3>3. ASSUME Go(t, [c EXCEPT !.pc = "commit"]) PROVE task'[t].sub = c.sub /\ task'[t].projs = c.projs
      <4>1. task'[t] = [c EXCEPT !.pc = "commit"]
        BY <1>0, <3>3, GoEq
      <4> QED BY <1>0, <4>1 DEF Call
    \* The deletion of this administrator has the project still to look at.
    <3>4. CASE b.sub # c.sub
      <4>1. task'[t].sub = c.sub
        BY <2>4, <3>1, <3>2, <3>3 DEF CleanUp
      <4>2. ~PassedOver(b.sub, p)'
        BY <1>1, <2>3, <3>4, <4>1, StayingKept
      <4> QED BY <1>4, <2>3, <3>0, <4>2
    <3>5. CASE b.sub = c.sub
      <4>1. p \in c.projs
        BY <1>0, <2>3, <3>0, <3>5 DEF PassedOver
      <4>2. PICK q \in c.projs :
              \/ q \in rows \ c.doomed /\ parent[q] = None /\ ~HasOtherAdmins(q, c.sub)
                 /\ Go(t, [c EXCEPT !.projs = c.projs \ {q}, !.pc = "purge", !.proj = q])
              \/ ~(q \in rows \ c.doomed /\ parent[q] = None /\ ~HasOtherAdmins(q, c.sub))
                 /\ Go(t, [c EXCEPT !.projs = c.projs \ {q}])
                 /\ (HasAdminsLeaving(q, c.sub) => q \in stranded')
        BY <2>4, <4>1 DEF CleanUp
      <4>3. CASE Go(t, [c EXCEPT !.projs = c.projs \ {q}, !.pc = "purge", !.proj = q])
        <5>0. task'[t].projs = c.projs \ {q} /\ task'[t].pc = "purge" /\ task'[t].proj = q
          BY <3>2, <4>3
        <5>1. p \in task'[t].projs \/ (task'[t].pc = "purge" /\ task'[t].proj = p)
          BY <4>1, <5>0
        <5>2. ~PassedOver(b.sub, p)'
          BY <1>1, <2>3, <5>1, StayingKept
        <5> QED BY <1>4, <2>3, <3>0, <5>2
      <4>4. CASE Go(t, [c EXCEPT !.projs = c.projs \ {q}]) /\ q # p
        <5>1. p \in task'[t].projs
          BY <3>1, <4>1, <4>4
        <5>2. ~PassedOver(b.sub, p)'
          BY <1>1, <2>3, <5>1, StayingKept
        <5> QED BY <1>4, <2>3, <3>0, <5>2
      <4>5. CASE /\ q = p /\ Go(t, [c EXCEPT !.projs = c.projs \ {q}])
                 /\ ~(q \in rows \ c.doomed /\ parent[q] = None /\ ~HasOtherAdmins(q, c.sub))
                 /\ (HasAdminsLeaving(q, c.sub) => q \in stranded')
        <5>1. p \notin c.doomed
          BY <1>0, <1>5, <1>7 DEF BeingDeleted
        <5>2. HasOtherAdmins(p, c.sub) /\ ~HasAdminsLeaving(p, c.sub)
          BY <1>7, <2>1, <4>5, <5>1
        <5>3. PICK d \in Staying(p) : d.sub # c.sub
          BY <5>2 DEF HasOtherAdmins, HasAdminsLeaving
        <5>4. d \in tuples /\ ~PassedOver(d.sub, p)
          BY DEF Staying, Admins, Assignments
        <5>5. task'[t].sub = c.sub
          BY <3>1, <4>5
        <5>6. ~PassedOver(d.sub, p)'
          BY <1>1, <5>3, <5>4, <5>5, StayingKept
        <5> QED BY <1>4, <3>0, <5>4, <5>6
      <4> QED BY <4>2, <4>3, <4>4, <4>5
    <3> QED BY <3>4, <3>5
  <2>5. CASE PurgeProject(t)
    <3>0. tuples' = tuples
      BY <2>5 DEF PurgeProject
    <3>1. CASE Go(t, Revoking(c, RolesToDelete(c.proj)))
      <4>1. c.op \in {"delete_project", "delete_user"} /\ (c.op = "delete_user" => c.pc = "purge")
        BY <1>0, <2>5 DEF PurgeProject, At, Shape
      <4>2. AfterRevoke(c) = "rows"
        BY <4>1 DEF AfterRevoke
      <4>3. /\ task'[t].op = c.op /\ task'[t].sub = c.sub /\ task'[t].proj = c.proj /\ task'[t].projs = c.projs
            /\ task'[t].pc \in {"revoke", "rows"}
        BY <1>0, <3>1, <4>2, RevokingEq
      <4>4. c.proj # p
        BY <1>1, <4>1, <4>3 DEF BeingDeleted
      <4>5. c.op # "delete_user" \/ c.sub # b.sub \/ p \in c.projs
        BY <1>0, <2>3, <4>1, <4>4 DEF PassedOver
      <4>6. ~PassedOver(b.sub, p)'
        BY <1>1, <2>3, <4>3, <4>5, StayingKept
      <4> QED BY <1>4, <2>3, <3>0, <4>6
    <3>2. CASE c.proj \notin rows /\ c.op = "delete_user" /\ Go(t, [c EXCEPT !.pc = "cleanup"])
      <4>1. task'[t] = [c EXCEPT !.pc = "cleanup"]
        BY <1>0, <3>2, GoEq
      <4>2. task'[t].sub = c.sub /\ task'[t].projs = c.projs
        BY <1>0, <4>1 DEF Call
      <4>3. c.sub # b.sub \/ p \in c.projs
        BY <1>0, <1>7, <2>3, <3>2 DEF PassedOver
      <4>4. ~PassedOver(b.sub, p)'
        BY <1>1, <2>3, <4>2, <4>3, StayingKept
      <4> QED BY <1>4, <2>3, <3>0, <4>4
    <3>3. CASE Return(t)
      <4>1. task'[t].op # "delete_user"
        BY <1>0, <3>3, ReturnEq
      <4>2. ~PassedOver(b.sub, p)'
        BY <1>1, <2>3, <4>1, StayingKept
      <4> QED BY <1>4, <2>3, <3>0, <4>2
    <3> QED BY <2>5, <3>1, <3>2, <3>3 DEF PurgeProject, Return
  <2>6. CASE ~CleanUp(t) /\ ~PurgeProject(t)
    <3>1. ASSUME NEW d \in Staying(p) PROVE ~PassedOver(d.sub, p)'
      <4>1. ~PassedOver(d.sub, p)
        BY DEF Staying
      <4>2. task'[t].op # "delete_user" \/ task'[t].sub # d.sub \/ p \in task'[t].projs
        BY <1>0, <1>2, <2>6, <4>1 DEF Keeps, PassedOver
      <4> QED BY <1>1, <4>1, <4>2, StayingKept
    <3>2. CASE b \in tuples'
      BY <1>4, <3>1, <3>2
    <3>3. CASE b \notin tuples'
      <4>1. Revoke(t) \/ Forget(t) \/ UndoTuple(t)
        BY <2>3, <2>6, <3>3 DEF Step, Abort, CreateInvite, SendInvite, FindInvite, SendUpdate, RemoveInvite, Resolve, ReadFormer,
           AssignRole, RemoveRole, Grant, InsertProject, InsertFails, CreateChild, Adopt, DeleteRows, Deadlock, Orphan, Commit
      <4>2. CASE Revoke(t)
        <5>1. PICK a \in c.todo :
                /\ tuples' = tuples \ {a}
                /\ stranded' = IF /\ a.role = "admin" /\ a.proj \in rows /\ c.op \in ManageOps \cup ResolveOps
                                  /\ Staying(a.proj) \subseteq {a}
                               THEN stranded \cup {a.proj} ELSE stranded
          BY <4>2 DEF Revoke
        <5>2. a = b
          BY <2>3, <3>3, <5>1
        <5>3. c.op \in {"update_role", "accept", "remove_role"}
          <6>1. c.op \in {"update_role", "accept", "remove_role", "delete_project", "delete_user"} /\ c.pc = "revoke"
            BY <1>0, <4>2 DEF Revoke, At, Shape
          <6>2. c.op \notin {"delete_project", "delete_user"}
            BY <1>0, <1>5, <1>7, <2>3, <5>1, <5>2, <6>1 DEF Holds, BeingDeleted
          <6> QED BY <6>1, <6>2
        <5>4. c.op \in ManageOps \cup ResolveOps
          BY <5>3 DEF ManageOps, UpdateOps, RemoveOps, ResolveOps
        <5>5. PICK d \in Staying(p) : d # b
          BY <1>7, <2>3, <5>1, <5>2, <5>4
        <5>6. d \in tuples'
          BY <5>1, <5>2, <5>5 DEF Staying, Admins, Assignments
        <5> QED BY <1>4, <3>1, <5>5, <5>6
      <4>3. CASE Forget(t)
        <5>1. c.pc = "forget" /\ c.op = "delete_user" /\ c.projs = {}
          BY <1>0, <4>3 DEF Forget, At, Shape, Holds
        <5>2. b \in c.todo
          BY <2>3, <3>3, <4>3 DEF Forget
        <5>3. b.sub = c.sub
          BY <1>0, <5>1, <5>2 DEF Holds
        <5> QED BY <1>0, <2>3, <5>1, <5>3 DEF PassedOver
      <4>4. CASE UndoTuple(t)
        <5>1. b = [sub |-> c.by, role |-> "admin", proj |-> c.child] /\ c.pc = "undo"
          BY <2>3, <3>3, <4>4 DEF UndoTuple, At
        <5>2. c.child \notin rows /\ c.child = p
          BY <1>0, <2>3, <5>1 DEF Creation, Unborn
        <5> QED BY <1>7, <5>2
      <4> QED BY <4>1, <4>2, <4>3, <4>4
    <3> QED BY <3>2, <3>3
  <2> QED BY <2>4, <2>5, <2>6
<1> QED BY <1>6, <1>7

\* A user whose deletion begins has all projects to look at.
LEMMA DeletionBegins ==
    ASSUME IInv, NEW t \in Caller, Request(t), task'[t].op = "delete_user", NEW a \in tuples, a.sub = task'[t].sub
    PROVE  a.proj \in task'[t].projs
<1>0. task \in [Caller -> Call] /\ Idle \in Call
  BY IdleTyped DEF IInv, TypeOK, Caller
<1>1. ASSUME NEW op, NEW u, NEW s, NEW r, NEW p,
             Go(t, [Idle EXCEPT !.op = op, !.pc = "allowed", !.by = u, !.sub = s, !.role = r, !.proj = p])
      PROVE  op = "delete_user"
  <2>1. task'[t] = [Idle EXCEPT !.op = op, !.pc = "allowed", !.by = u, !.sub = s, !.role = r, !.proj = p]
    BY <1>0, <1>1, GoEq
  <2> QED BY <1>0, <2>1 DEF Call
<1>2. ~ManageRoles(t) /\ ~ManageProject(t)
  <2>1. "delete_user" \notin ManageOps /\ "delete_user" \notin AdminOps
    BY DEF ManageOps, AssignOps, UpdateOps, RemoveOps, AdminOps
  <2>2. ASSUME NEW op \in ManageOps, NEW u \in User, NEW r \in Role, NEW p \in Project, NEW s
        PROVE  ~Begin(t, op, u, s, r, p)
    BY <1>1, <2>1 DEF Begin
  <2>3. ~ManageProject(t)
    BY <1>1, <2>1 DEF ManageProject, Begin
  <2> QED BY <2>2, <2>3 DEF ManageRoles
<1>3. ~ResolveInvitation(t)
  <2> SUFFICES ASSUME ResolveInvitation(t) PROVE FALSE
    OBVIOUS
  <2>1. PICK op \in ResolveOps, u \in User, i \in invites, pc \in {"allowed", "resolve"} :
          Go(t, [Idle EXCEPT !.op = op, !.pc = pc, !.by = u, !.sub = u, !.role = i.role, !.proj = i.proj, !.code = i.code])
    BY DEF ResolveInvitation
  <2>2. task'[t] = [Idle EXCEPT !.op = op, !.pc = pc, !.by = u, !.sub = u, !.role = i.role, !.proj = i.proj, !.code = i.code]
    BY <1>0, <2>1, GoEq
  <2> QED BY <1>0, <2>2 DEF Call, ResolveOps
<1>4. ~Enroll(t)
  BY EnrollEq DEF IInv, EnrollOps
<1>5. PICK u \in User : DeleteUser(t, u)
  BY <1>2, <1>3, <1>4 DEF Request
<1> DEFINE ps == ProjectsForUser(u)
<1>6. task'[t] = [Idle EXCEPT !.op = "delete_user", !.pc = "cleanup", !.by = u, !.sub = u, !.projs = ps]
  BY <1>0, <1>5, GoEq DEF DeleteUser
<1>7. a.sub = u => a.proj \in ps
  BY DEF ProjectsForUser
<1> HIDE DEF ps
<1>8. task'[t].sub = u /\ task'[t].projs = ps
  BY <1>0, <1>6 DEF Call
<1> QED BY <1>7, <1>8

\* A request changes nothing for the administrators there are.
LEMMA ManagersRequest ==
    ASSUME IInv, NEW t \in Caller, Request(t)
    PROVE  Managers'
<1> USE DEF database, openfga, identity, observed
<1>0. /\ TypeOK /\ Shaped /\ IdsKnown /\ task \in [Caller -> Call] /\ DOMAIN task = Caller /\ Held /\ Manned /\ Holds(task[t])
  BY DEF IInv, TypeOK, Projects, Caller, Managers, Held
<1>1. Moves(t) /\ UNCHANGED <<rows, parent, stranded>>
  BY <1>0, RequestTyped
<1>2. task' \in [Caller -> Call] /\ DOMAIN task' = Caller /\ \A u \in Caller \ {t} : task'[u] = task[u]
  <2>1. \A u \in Caller \ {t} : task'[u] = task[u]
    BY <1>0, <1>1, GoTask DEF Moves
  <2> QED BY <1>0, <1>1, <2>1, MovesTyped
<1>3. task'[t].pc \in {"allowed", "resolve", "cleanup", "insert"} /\ task'[t].doomed = {}
  BY <1>0, RequestCourse
<1>4. task[t].pc = "idle" /\ tuples \subseteq tuples'
  <2>1. Enroll(t) => tuples \subseteq tuples'
    BY DEF Enroll
  <2> QED BY <1>0, <2>1, RequestTyped DEF At
<1>5. Held'
  <2>1. Holds(task'[t])
    BY <1>3 DEF Holds
  <2>2. \A u \in Caller \ {t} : Holds(task'[u])
    BY <1>0, <1>2 DEF Held
  <2>3. ASSUME NEW u \in Caller PROVE Holds(task'[u])
    BY <2>1, <2>2
  <2> QED BY <2>3 DEF Held
<1>6. Manned'
  <2> SUFFICES ASSUME NEW p \in rows, parent[p] = None, p \notin stranded, ~BeingDeleted(p)'
               PROVE  Staying(p)' # {}
    BY <1>1 DEF Manned
  <2>1. ~BeingDeleted(p)
    <3>1. \A u \in Caller : ~Erasing(task'[u], p)
      BY <1>2 DEF BeingDeleted, Erasing
    <3>2. ~Erasing(task[t], p)
      BY <1>0, <1>4 DEF Holds, Erasing
    <3> QED BY <1>0, <1>2, <3>1, <3>2 DEF BeingDeleted, Erasing
  <2>2. PICK b \in Staying(p) : TRUE
    BY <1>0, <2>1 DEF Manned
  <2>3. b \in tuples /\ b.proj = p /\ ~PassedOver(b.sub, p)
    BY DEF Staying, Admins, Assignments
  <2>4. task'[t].op # "delete_user" \/ task'[t].sub # b.sub \/ p \in task'[t].projs
    BY <2>3, DeletionBegins
  <2>5. ~PassedOver(b.sub, p)'
    BY <1>2, <2>3, <2>4, StayingKept
  <2> QED BY <1>4, <2>2, <2>5 DEF Staying, Admins, Assignments
<1> QED BY <1>5, <1>6 DEF Managers

\* Every step keeps what is known of administrators.
LEMMA ManagersStep ==
    ASSUME IInv, [Next]_vars
    PROVE  Managers'
<1> USE DEF database, openfga, identity, observed
<1>1. ASSUME NEW t \in Caller, Step(t) \/ Abort(t) PROVE Managers'
  <2>1. \A u \in Caller \ {t} : task'[u] = task[u] /\ Holds(task[u])
    BY <1>1, StepOthers DEF IInv, Managers, Held
  <2>2. Holds(task'[t])
    BY <1>1, HeldStep DEF Abides
  <2>3. ASSUME NEW u \in Caller PROVE Holds(task'[u])
    BY <2>1, <2>2
  <2> QED BY <1>1, <2>3, MannedStep DEF Managers, Held
<1>2. CASE Expire \/ DeleteAccount \/ DropEvent \/ UNCHANGED vars
  <2>1. UNCHANGED <<rows, parent, tuples, stranded, task>>
    BY <1>2 DEF Expire, DeleteAccount, DropEvent, vars
  <2>2. Held'
    BY <2>1 DEF IInv, Managers, Held
  <2>3. \A p : (BeingDeleted(p) => BeingDeleted(p)') /\ Staying(p) \subseteq Staying(p)'
    BY <2>1 DEF BeingDeleted, Staying, Admins, Assignments, PassedOver
  <2>4. Manned'
    BY <2>1, <2>3 DEF IInv, Managers, Manned
  <2> QED BY <2>2, <2>4 DEF Managers
<1>3. HandleEvents => Request(Cron)
  BY DEF HandleEvents, Request
<1> QED BY <1>1, <1>2, <1>3, ManagersRequest DEF Next, Caller

-----------------------------------------------------------------------------
(* Results *)

\* The invariant holds at the start, with or without founders.
LEMMA InitInv == Init => IInv
<1> SUFFICES ASSUME Init PROVE IInv
  OBVIOUS
<1>1. /\ task = [t \in Caller |-> Idle] /\ Idle \in Call /\ Shape(Idle)
      /\ Idle.pc = "idle" /\ Idle.op = "decline" /\ Idle.proj = None /\ Idle.child = None /\ Idle.doomed = {}
  BY IdleTyped DEF Init, Caller, Idle
<1>2. \A t \in Caller : /\ task[t].pc = "idle" /\ task[t].op = "decline" /\ task[t].proj = None /\ task[t].child = None
                        /\ task[t].doomed = {}
  BY <1>1
<1>3. TypeOK
  <2>1. /\ tuples \subseteq Tuple /\ users \subseteq User /\ rows \subseteq Project
        /\ parent \in [Project -> Project \cup {None}] /\ accepted \in [Code -> Nat]
        /\ faults \in 0..MaxFaults /\ calls \in 0..MaxCalls /\ ids \subseteq Project
    BY MembershipAssumption DEF Init, Tuple, Subject
  <2>2. task \in [Caller -> Call]
    BY <1>1
  <2>3. invites = {} /\ adopted = {} /\ mails = {} /\ gone = {} /\ listed = {} /\ missed = {} /\ codes = {} /\ leaked = {} /\ stranded = {}
    BY DEF Init
  <2> QED BY <2>1, <2>2, <2>3 DEF TypeOK, Caller
<1>4. Shaped
  BY <1>1 DEF Shaped
<1>5. Invitations
  BY <1>2 DEF Init, Invitations, CodeOnce, AcceptedOnce, ReadMailed, InvitationMailed, NoneYet, OneInvitation, Sender
<1>6. \A a \in tuples : a.role = "admin" /\ a.proj = Home /\ rows = {Home}
  BY DEF Init
<1>7. OneRole
  <2> SUFFICES ASSUME NEW a \in tuples, NEW b \in tuples, a.sub = b.sub PROVE a = b
    BY DEF OneRole
  <2> QED BY <1>3, <1>6 DEF TypeOK, Tuple
<1>8. Roles
  BY <1>2, <1>7 DEF Roles, FormerKnown, Changer
<1>9. Projects
  <2>1. ids = rows /\ adopted = {} /\ invites = {}
    BY DEF Init
  <2>2. IdsKnown /\ Creation /\ Doom
    BY <1>2, <1>6, <2>1 DEF IdsKnown, Creation, Unborn, Doom
  <2>3. Purged /\ Backed
    BY <1>2, <1>6 DEF Purged, Backed
  <2> QED BY <2>2, <2>3 DEF Projects
<1>10. Managers
  <2>1. Held
    <3>1. Holds(Idle)
      BY <1>1 DEF Holds
    <3> QED BY <1>1, <3>1 DEF Held
  <2>2. DOMAIN task = Caller
    BY <1>1
  <2>3. \A s, p : ~PassedOver(s, p)
    BY <1>2, <2>2 DEF PassedOver
  <2>4. ASSUME NEW p \in rows PROVE Staying(p) # {}
    <3>1. p = Home /\ Founders # {}
      BY <2>4 DEF Init
    <3>2. PICK u \in Founders : TRUE
      BY <3>1
    <3> DEFINE a == [sub |-> u, role |-> "admin", proj |-> Home]
    <3>3. a \in tuples /\ a.role = "admin" /\ a.proj = Home
      BY DEF Init
    <3> HIDE DEF a
    <3> QED BY <2>3, <3>1, <3>3 DEF Staying, Admins, Assignments
  <2> QED BY <2>1, <2>4 DEF Managers, Manned
<1> QED BY <1>3, <1>4, <1>5, <1>8, <1>9, <1>10 DEF IInv

\* Every step keeps the invariant.
LEMMA StepInv == IInv /\ [Next]_vars => IInv'
<1> SUFFICES ASSUME IInv, [Next]_vars PROVE IInv'
  OBVIOUS
<1>1. TypeOK' /\ Shaped'
  BY TypeStep DEF IInv
<1> QED BY <1>1, InvitationsStep, RolesStep, ProjectsStep, ManagersStep DEF IInv

\* The inductive invariant holds throughout.
LEMMA Invariant == Spec => []IInv
  BY InitInv, StepInv, PTL DEF Spec

\* The rows, the tuples and the calls under way keep their types, whatever fails.
THEOREM TypeCorrect == Spec => []TypeOK
<1>1. IInv => TypeOK
  BY DEF IInv
<1> QED BY <1>1, Invariant, PTL

\* However many calls of ResolveInvitation carry a code, at most one accepts it and succeeds:
\* a code is generated once, its row is written once, and the acceptance deletes that row.
THEOREM AcceptedOnceHolds == Spec => []AcceptedOnce
<1>1. IInv => AcceptedOnce
  BY DEF IInv, Invitations
<1> QED BY <1>1, Invariant, PTL

\* Every invitation was mailed with the role it has: CreateInvite and UpdateInvite mail before
\* they commit, and an update that mails nothing has read the role it writes.
THEOREM InvitationMailedHolds == Spec => []InvitationMailed
<1>1. IInv => InvitationMailed
  BY DEF IInv, Invitations
<1> QED BY <1>1, Invariant, PTL

\* An address has one invitation to a project, unless two calls of CreateInvite for it overlapped.
THEOREM OneInvitationHolds == Spec => []OneInvitation
<1>1. IInv => OneInvitation
  BY DEF IInv, Invitations
<1> QED BY <1>1, Invariant, PTL

\* A subject has one role in a project, unless two changes of its role overlapped: what
\* UpdateRoleAssignment, acceptInvitation and CreateRoleAssignment give comes after all there was is gone.
THEOREM OneRoleHolds == Spec => []OneRole
<1>1. IInv => OneRole
  BY DEF IInv, Roles
<1> QED BY <1>1, Invariant, PTL

\* A role is held in a project that has a row or is being created, except where the code gives up:
\* DeleteProject revokes every role it has read before the rows go.
THEOREM RolesBackedHolds == Spec => []RolesBacked
<1>1. IInv => RolesBacked
  BY DEF IInv, Projects, Backed, RolesBacked
<1> QED BY <1>1, Invariant, PTL

\* A project without parent has an administrator or is being deleted, except where the code gives up:
\* CleanUpUnmanagedProjects looks at every project of a user before the user's roles go, and leaves
\* alone only those with an administrator who stays or is looked at later.
THEOREM ProjectsManagedHolds == Spec => []ProjectsManaged
<1>1. IInv => ProjectsManaged
  BY DEF IInv, Managers, Manned, ProjectsManaged, Staying
<1> QED BY <1>1, Invariant, PTL

=============================================================================
