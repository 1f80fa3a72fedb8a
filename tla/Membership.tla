----------------------------- MODULE Membership -----------------------------
(***************************************************************************)
(* Users, projects, roles and invitations.                                 *)
(*                                                                         *)
(* The rows of users, projects and user_invites are in PostgreSQL; who has *)
(* which role in which project is in OpenFGA (internal/authz).  A handler  *)
(* opens a transaction, calls OpenFGA in the middle of it, and commits: a  *)
(* tuple that was written or deleted stays so when the commit fails.  The  *)
(* handlers are those of internal/controlplane (handlers_authz, _user,     *)
(* _projects, identity_events) with internal/invites, internal/roles and   *)
(* internal/projects.                                                      *)
(*                                                                         *)
(* A step is one call that others can see: a read or a write of OpenFGA,   *)
(* a read the handler acts on later, a commit.  What a transaction writes  *)
(* becomes visible with its commit, so those writes are part of that step. *)
(*                                                                         *)
(* accepted, raced, leaked, stranded and missed observe the run and guard  *)
(* nothing.                                                                *)
(***************************************************************************)
EXTENDS Naturals, FiniteSets

CONSTANTS
    User,        \* people, each with one address
    Machine,     \* identities of another provider, which get roles directly
    Role,        \* roles in use
    Project,     \* project ids (bound)
    Code,        \* invitation codes (bound)
    Task,        \* calls under way at a time (bound)
    Cron,        \* the job that fetches the events of the identity provider
    Op,          \* operations that are called
    Founders,    \* users there are at the start: administrators of Home
    AdminDeleters, \* AuthzConfig: users who may delete what they have no role for
    Home,        \* the project there is at the start, if it has founders
    None,
    MaxFaults,   \* bound: failed calls and crashes
    MaxCalls     \* bound: requests

\* Requests to the control plane, and what each asks permission for.
AssignOps  == {"invite", "assign"}
UpdateOps  == {"update_invite", "update_role"}
RemoveOps  == {"remove_invite", "remove_role"}
ManageOps  == AssignOps \cup UpdateOps \cup RemoveOps
ResolveOps == {"accept", "decline"}
EnrollOps  == {"create_user", "create_project"}
AdminOps   == {"create_child", "delete_project"}
Operation  == ManageOps \cup ResolveOps \cup EnrollOps \cup AdminOps \cup {"delete_user"}

ASSUME MembershipAssumption ==
    /\ User \cap Machine = {}
    /\ "admin" \in Role
    /\ Cron \notin Task
    /\ Op \subseteq Operation
    /\ Founders \subseteq User
    /\ AdminDeleters \subseteq User
    /\ Home \in Project
    /\ None \notin User \cup Machine \cup Project \cup Code \cup Role
    /\ MaxFaults \in Nat
    /\ MaxCalls \in Nat

VARIABLES
    users,       \* rows of users
    rows,        \* rows of projects
    parent,      \* parent_id of a row
    invites,     \* rows of user_invites
    tuples,      \* role assignments in OpenFGA
    adopted,     \* parent relations in OpenFGA: <<parent, child>>
    mails,       \* invitation mails published: <<code, role>>
    gone,        \* accounts the identity provider has deleted
    listed,      \* those whose event is on the page of events it answers with
    codes,       \* codes generated
    ids,         \* project ids generated
    task,        \* calls under way
    faults,      \* faults so far
    calls,       \* requests so far
    accepted,    \* by code: calls of ResolveInvitation that accepted it and succeeded
    raced,       \* targets that two calls were changing at a time
    leaked,      \* projects whose tuples outlive them, at a known point
    stranded,    \* projects that lose their administrators, at a known point
    missed       \* accounts whose event is gone before they were forgotten

database == <<users, rows, parent, invites>>
openfga  == <<tuples, adopted>>
identity == <<gone, listed, missed>>
observed == <<accepted, raced, leaked, stranded>>
vars == <<database, openfga, mails, identity, codes, ids, task, faults, calls, observed>>

Subject == User \cup Machine
Tuple   == [sub : Subject, role : Role, proj : Project]
Invite  == [code : Code, email : User, role : Role, proj : Project, sponsor : User, fresh : BOOLEAN]

Status  == {"idle", "allowed", "send", "revoke", "grant", "resolve", "insert", "undo", "adopt",
            "cleanup", "purge", "rows", "orphan", "commit", "forget"}

Call ==
    [op : Operation, pc : Status, by : User \cup {None}, sub : Subject \cup {None},
     role : Role \cup {None}, proj : Project \cup {None}, child : Project \cup {None},
     code : Code \cup {None}, todo : SUBSET Tuple, projs : SUBSET Project,
     doomed : SUBSET Project, orphans : SUBSET (Project \X Project)]

Idle ==
    [op |-> "decline", pc |-> "idle", by |-> None, sub |-> None, role |-> None, proj |-> None,
     child |-> None, code |-> None, todo |-> {}, projs |-> {}, doomed |-> {}, orphans |-> {}]

Init ==
    /\ users = Founders
    /\ rows = IF Founders = {} THEN {} ELSE {Home}
    /\ parent = [p \in Project |-> None]
    /\ invites = {}
    /\ tuples = {[sub |-> u, role |-> "admin", proj |-> Home] : u \in Founders}
    /\ adopted = {}
    /\ mails = {}
    /\ gone = {} /\ listed = {} /\ missed = {}
    /\ codes = {}
    /\ ids = rows
    /\ task = [t \in Task \cup {Cron} |-> Idle]
    /\ faults = 0
    /\ calls = 0
    /\ accepted = [c \in Code |-> 0]
    /\ raced = {}
    /\ leaked = {}
    /\ stranded = {}

-----------------------------------------------------------------------------
(* Reads *)

\* Check: a role given in the project or in its parent.
HasRole(u, names, p) ==
    \E a \in tuples : a.sub = u /\ a.role \in names /\ (a.proj = p \/ <<a.proj, p>> \in adopted)

\* minder.fga: role_assignment_*, and create and delete; or allowedAdminDelete,
\* for a project there is or was: nobody guesses an ID.
Permitted(u, op, p) ==
    \/ HasRole(u, IF op \in ManageOps THEN {"admin", "permissions_manager"} ELSE {"admin"}, p)
    \/ u \in AdminDeleters /\ op \in RemoveOps \cup {"delete_project"} /\ p \in ids

\* AssignmentsToProject
Assignments(p) == {a \in tuples : a.proj = p}

RolesOf(s, p) == {a \in Assignments(p) : a.sub = s}

Admins(p) == {a \in Assignments(p) : a.role = "admin"}

\* ProjectsForUser: the projects of the user's tuples, and those they adopted.
ProjectsForUser(s) ==
    LET direct == {a.proj : a \in {b \in tuples : b.sub = s}} IN
    direct \cup {p \in Project : \E d \in direct : <<d, p>> \in adopted}

\* Mutant: whoever has a role counts.
HasOtherMembers(p, s) == \E a \in Assignments(p) : a.sub # s

\* hasOtherRoleAssignments
HasOtherAdmins(p, s) == \E a \in Admins(p) : a.sub # s

\* Mutant: an existing invitation is not looked for.
AnyInvites(email, p) == {}

\* GetInvitationsByEmailAndProject
InvitesFor(email, p) == {i \in invites : i.email = email /\ i.proj = p}

\* The user exists: only people have a row.
Exists(s) == s \in Machine \/ s \in users

\* Rows that another transaction has deleted and not committed: to write them is to wait.
Locked(p) == \E t \in DOMAIN task : p \in task[t].doomed

\* Its roles are read for deletion: those given from here on stay.
BeingDeleted(p) ==
    \E t \in DOMAIN task : \/ p \in task[t].doomed
                           \/ task[t].proj = p /\ task[t].op \in {"delete_project", "delete_user"}
                              /\ task[t].pc \in {"revoke", "rows"}

\* A child row that is inserted and not committed keeps its parent.
ChildPending(p) == \E t \in DOMAIN task : task[t].pc \in {"adopt", "insert"} /\ task[t].op = "create_child" /\ task[t].proj = p

\* A deletion of the user is under way that has looked at the project, or never will,
\* and has not chosen to delete it.
PassedOver(u, p) ==
    \E t \in DOMAIN task : /\ task[t].op = "delete_user" /\ task[t].sub = u
                           /\ p \notin task[t].projs
                           /\ ~(task[t].pc = "purge" /\ task[t].proj = p)

\* The administrators a project can count on.
Staying(p) == {a \in Admins(p) : ~PassedOver(a.sub, p)}

-----------------------------------------------------------------------------
(* The course of a call *)

Go(t, c) == task' = [task EXCEPT ![t] = c]

At(t, pc) == task[t].pc = pc

\* The call returns.
Return(t) == Go(t, Idle)

\* What a call gives, and to whom; a call that only takes away races with nobody.
Kind(op) ==
    CASE op = "invite" -> "invite" [] op \in {"update_role", "accept", "assign"} -> "role" [] OTHER -> "none"
Target(c) == <<c.sub, c.proj, Kind(c.op)>>

Pending(c) == c.pc \in {"send", "revoke", "grant"}

\* Two calls are giving the same.
Race(t) ==
    raced' = IF \E t2 \in DOMAIN task \ {t} : Pending(task[t2]) /\ Target(task[t2]) = Target(task[t])
             THEN raced \cup {Target(task[t])} ELSE raced

\* The role of a request, and whom it is about, are given; so is the project.
Begin(t, op, u, s, r, p) ==
    /\ op \in Op
    /\ At(t, "idle")
    /\ u \notin gone
    /\ Go(t, [Idle EXCEPT !.op = op, !.pc = "allowed", !.by = u, !.sub = s, !.role = r, !.proj = p])
    /\ UNCHANGED <<database, openfga, mails, identity, codes, ids, faults, observed>>

\* ProjectAuthorizationInterceptor, and isUserSelfUpdating.  An address stands for its owner.
ManageRoles(t) ==
    \E op \in ManageOps, u \in User, r \in Role, p \in Project :
        \E s \in IF op = "assign" THEN Machine ELSE IF op \in {"invite", "update_invite", "remove_invite"} THEN User ELSE Subject :
            /\ op \notin RemoveOps => s # u
            /\ Permitted(u, op, p)
            /\ Begin(t, op, u, s, r, p)

ManageProject(t) ==
    \E op \in AdminOps, u \in User, p \in Project :
        Permitted(u, op, p) /\ Begin(t, op, u, u, "admin", p)

\* A call ends with an error where it is: the transaction is rolled back, what
\* was done outside of it stays.  A crash does the same.  Before it has done
\* anything, a call that fails is one that was not made.
Abort(t) ==
    /\ task[t].pc \notin {"idle", "allowed", "send", "undo"}
    /\ faults < MaxFaults
    /\ faults' = faults + 1
    /\ Return(t)
    /\ leaked' = IF task[t].op \in EnrollOps /\ At(t, "insert") THEN leaked \cup {task[t].child} ELSE leaked
    /\ stranded' = IF task[t].op \in {"delete_project", "delete_user"}
                   THEN stranded \cup ({task[t].proj} \ {None}) \cup task[t].doomed ELSE stranded
    /\ UNCHANGED <<calls, database, openfga, mails, identity, codes, ids, accepted, raced>>

-----------------------------------------------------------------------------
(* internal/invites *)

\* Mutant: no random bytes, and the code is empty.
EmptyCode == {None}

\* GenerateCode: random, so new.
GenerateCode == Code \ codes

\* CreateInvite, up to the insert: the sponsor has a row, the address no invitation.
CreateInvite(t) ==
    /\ At(t, "allowed") /\ task[t].op = "invite"
    /\ IF task[t].proj \in rows /\ task[t].by \in users /\ InvitesFor(task[t].sub, task[t].proj) = {}
       THEN \E c \in GenerateCode : /\ Go(t, [task[t] EXCEPT !.pc = "send", !.code = c])
                                    /\ codes' = codes \cup {c}
       ELSE Return(t) /\ UNCHANGED codes
    /\ UNCHANGED <<calls, database, openfga, mails, identity, ids, faults, observed>>

\* Mutant: an invitation whose mail cannot be published is kept.
PublishOrDrop(c) == {mails, mails \cup {<<c.code, c.role>>}}

\* Publish, before the commit: an error of it undoes the insert (Abort).
Publish(c) == {mails \cup {<<c.code, c.role>>}}

\* The insert, the mail and the commit; the mail is out when the commit fails.
SendInvite(t) ==
    LET c == task[t] IN
    /\ At(t, "send") /\ c.op = "invite" /\ ~Locked(c.proj)
    /\ \/ /\ c.proj \in rows /\ c.by \in users
          /\ mails' \in Publish(c)
          /\ invites' = invites \cup {[code |-> c.code, email |-> c.sub, role |-> c.role, proj |-> c.proj,
                                       sponsor |-> c.by, fresh |-> TRUE]}
          /\ UNCHANGED faults
       \/ /\ c.proj \notin rows \/ c.by \notin users
          /\ UNCHANGED <<mails, invites, faults>>
       \/ /\ faults < MaxFaults /\ faults' = faults + 1
          /\ mails' = mails \cup {<<c.code, c.role>>}
          /\ UNCHANGED invites
    /\ Race(t)
    /\ Return(t)
    /\ UNCHANGED <<calls, users, rows, parent, openfga, identity, codes, ids, accepted, leaked, stranded>>

\* UpdateInvite and the email branch of RemoveRole, up to the write: one
\* invitation, with the role to be removed.
FindInvite(t) ==
    /\ At(t, "allowed") /\ task[t].op \in {"update_invite", "remove_invite"}
    /\ LET all == InvitesFor(task[t].sub, task[t].proj)
           of  == IF task[t].op = "remove_invite" THEN {i \in all : i.role = task[t].role}
                  ELSE IF Cardinality(all) = 1 THEN all ELSE {}
       IN IF of = {} THEN Return(t)
          ELSE \E i \in of :
                  Go(t, [task[t] EXCEPT !.pc = "send", !.code = i.code,
                                        !.todo = {[sub |-> i.email, role |-> i.role, proj |-> i.proj]}])
    /\ UNCHANGED <<calls, database, openfga, mails, identity, codes, ids, faults, observed>>

\* The role that was read (kept in todo) differs from the new one.
MailOnUpdate(c) == \A a \in c.todo : a.role # c.role

\* The update, the mail and the commit.  Without a new role there is a mail
\* when the last update is a day old: either may be.
SendUpdate(t) ==
    LET c == task[t]
        old == {i \in invites : i.code = c.code} IN
    /\ At(t, "send") /\ c.op = "update_invite"
    /\ \/ /\ old # {}
          /\ mails' = mails \cup {<<c.code, c.role>>} \/ (~MailOnUpdate(c) /\ mails' = mails)
          /\ invites' = (invites \ old) \cup {[i EXCEPT !.role = c.role, !.fresh = TRUE] : i \in old}
          /\ UNCHANGED faults
       \/ old = {} /\ UNCHANGED <<mails, invites, faults>>
       \/ /\ old # {} /\ faults < MaxFaults /\ faults' = faults + 1
          /\ mails' = mails \cup {<<c.code, c.role>>}
          /\ UNCHANGED invites
    /\ Return(t)
    /\ UNCHANGED <<calls, users, rows, parent, openfga, identity, codes, ids, observed>>

\* RemoveInvite: DeleteInvitation returns the row, so none is an error.
RemoveInvite(t) ==
    /\ At(t, "send") /\ task[t].op = "remove_invite"
    /\ invites' = {i \in invites : i.code # task[t].code}
    /\ Return(t)
    /\ UNCHANGED <<calls, users, rows, parent, openfga, mails, identity, codes, ids, faults, observed>>

\* IsExpired: seven days after the last update.
Expire ==
    /\ \E i \in invites : i.fresh /\ invites' = (invites \ {i}) \cup {[i EXCEPT !.fresh = FALSE]}
    /\ UNCHANGED <<calls, users, rows, parent, openfga, mails, identity, codes, ids, task, faults, observed>>

-----------------------------------------------------------------------------
(* ResolveInvitation *)

\* GetInvite: anyone with the code but the sponsor, in time.
ResolveInvitation(t) ==
    \E op \in ResolveOps \cap Op, u \in User \ gone, i \in invites :
        /\ At(t, "idle")
        /\ i.fresh /\ i.sponsor # u
        /\ Go(t, [Idle EXCEPT !.op = op, !.pc = IF op = "accept" THEN "allowed" ELSE "resolve", !.by = u,
                              !.sub = u, !.role = i.role, !.proj = i.proj, !.code = i.code])
        /\ UNCHANGED <<database, openfga, mails, identity, codes, ids, faults, observed>>

\* Mutant: the row of another call is gone, and this one succeeds as well.
DeletedOrMissing(c) == {TRUE}

\* DeleteInvitation of the same code waits for the other transaction and finds no row.
Deleted(c) == {\E i \in invites : i.code = c.code}

\* The end of ResolveInvitation: the invitation is deleted, the user has a row.
\* With no row to delete it fails, and the role it gave stays.
Resolve(t) ==
    LET c == task[t] IN
    /\ At(t, "resolve")
    /\ \E ok \in Deleted(c) :
        IF ok
        THEN /\ invites' = {i \in invites : i.code # c.code}
             /\ users' = IF c.op = "accept" THEN users \cup {c.by} ELSE users
             /\ accepted' = IF c.op = "accept" THEN [accepted EXCEPT ![c.code] = @ + 1] ELSE accepted
        ELSE UNCHANGED <<invites, users, accepted>>
    /\ Return(t)
    /\ UNCHANGED <<calls, rows, parent, openfga, mails, identity, codes, ids, faults, raced, leaked, stranded>>

-----------------------------------------------------------------------------
(* internal/roles and acceptInvitation *)

\* Mutant: a role the user has already is not looked for.
NoRolesOf(s, p) == {}

\* The roles a change takes away first.
FormerRoles(s, p) == RolesOf(s, p)

\* Where a call goes on when it has nothing left to revoke.
AfterRevoke(c) ==
    CASE c.op \in {"update_role", "accept"} -> "grant"
      [] c.op \in {"delete_project", "delete_user"} -> "rows"
      [] OTHER -> "idle"

Revoking(c, as) == [c EXCEPT !.todo = as, !.pc = IF as = {} THEN AfterRevoke(c) ELSE "revoke"]

\* The call is over when there is no further step.
Proceed(t, c) == Go(t, IF c.pc = "idle" THEN Idle ELSE c)

\* UpdateRoleAssignment and acceptInvitation read the roles there are. Of several,
\* acceptInvitation revokes those it meets before it refuses to give the same again.
ReadFormer(t) ==
    LET c == task[t]
        of == FormerRoles(c.sub, c.proj)
        same == {a \in of : a.role = c.role}
    IN
    /\ At(t, "allowed")
    /\ \/ c.op = "update_role" /\ ~Exists(c.sub) /\ Return(t)
       \/ c.op = "update_role" /\ Exists(c.sub) /\ Go(t, Revoking(c, of))
       \/ c.op = "accept" /\ same = {} /\ Go(t, Revoking(c, of))
       \/ /\ c.op = "accept" /\ same # {}
          /\ \E met \in SUBSET (of \ same) : Proceed(t, Revoking([c EXCEPT !.op = "remove_role"], met))
    /\ UNCHANGED <<calls, database, openfga, mails, identity, codes, ids, faults, observed>>

\* CreateRoleAssignment: only machines are assigned a role without invitation.
AssignRole(t) ==
    LET c == task[t] IN
    /\ At(t, "allowed") /\ c.op = "assign"
    /\ IF c.proj \notin rows \/ RolesOf(c.sub, c.proj) # {}
       THEN Return(t)
       ELSE Go(t, [c EXCEPT !.pc = "grant"])
    /\ UNCHANGED <<calls, database, openfga, mails, identity, codes, ids, faults, observed>>

\* RemoveRoleAssignment: the assignment is there, and is not that of the last administrator.
RemoveRole(t) ==
    LET c == task[t]
        of == [sub |-> c.sub, role |-> c.role, proj |-> c.proj] IN
    /\ At(t, "allowed") /\ c.op = "remove_role"
    /\ IF ~Exists(c.sub) \/ of \notin tuples \/ (c.role = "admin" /\ Cardinality(Admins(c.proj)) <= 1)
       THEN Return(t)
       ELSE Go(t, Revoking(c, {of}))
    /\ UNCHANGED <<calls, database, openfga, mails, identity, codes, ids, faults, observed>>

\* authzClient.Delete, one tuple at a time; deleting none is no error.
Revoke(t) ==
    /\ At(t, "revoke")
    /\ \E a \in task[t].todo :
        /\ tuples' = tuples \ {a}
        /\ Proceed(t, Revoking(task[t], task[t].todo \ {a}))
        /\ stranded' = IF /\ a.role = "admin" /\ a.proj \in rows /\ task[t].op \in ManageOps \cup ResolveOps
                          /\ Staying(a.proj) \subseteq {a}
                       THEN stranded \cup {a.proj} ELSE stranded
    /\ UNCHANGED <<calls, database, adopted, mails, identity, codes, ids, faults, accepted, raced, leaked>>

\* authzClient.Write: existing is no error.
Grant(t) ==
    LET c == task[t] IN
    /\ At(t, "grant")
    /\ tuples' = tuples \cup {[sub |-> c.sub, role |-> c.role, proj |-> c.proj]}
    /\ IF c.op = "accept" THEN Go(t, [c EXCEPT !.pc = "resolve"]) ELSE Return(t)
    /\ Race(t)
    /\ leaked' = IF c.proj \in rows /\ ~BeingDeleted(c.proj) THEN leaked ELSE leaked \cup {c.proj}
    /\ UNCHANGED <<calls, database, adopted, mails, identity, codes, ids, faults, accepted, stranded>>

-----------------------------------------------------------------------------
(* internal/projects *)

\* CreateUser and ProvisionProject: ProvisionSelfEnrolledProject writes the
\* tuple of the new project before the row.  A row of the user is an error of CreateUser.
Enroll(t) ==
    \E op \in EnrollOps \cap Op, u \in User \ gone, p \in Project \ ids :
        /\ At(t, "idle")
        /\ op = "create_user" => u \notin users
        /\ ids' = ids \cup {p}
        /\ tuples' = tuples \cup {[sub |-> u, role |-> "admin", proj |-> p]}
        /\ Go(t, [Idle EXCEPT !.op = op, !.pc = "insert", !.by = u, !.sub = u, !.child = p])
        /\ UNCHANGED <<database, adopted, mails, identity, codes, faults, observed>>

\* The rows and the commit.
InsertProject(t) ==
    LET c == task[t] IN
    /\ At(t, "insert")
    /\ c.op = "create_user" => c.by \notin users
    /\ rows' = rows \cup {c.child}
    /\ parent' = [parent EXCEPT ![c.child] = c.proj]
    /\ users' = IF c.op = "create_user" THEN users \cup {c.by} ELSE users
    /\ Return(t)
    /\ stranded' = IF c.op \in EnrollOps /\ Staying(c.child) = {}
                   THEN stranded \cup {c.child} ELSE stranded
    /\ UNCHANGED <<calls, invites, openfga, mails, identity, codes, ids, faults, accepted, raced, leaked>>

\* Mutant: the tuple is left behind.
NoUndo(c) == [c EXCEPT !.pc = "idle"]

\* The deferred function of ProvisionSelfEnrolledProject deletes the tuple.
Undo(c) == [c EXCEPT !.pc = "undo"]

\* An insert fails: the name is taken, or another call created the user.
InsertFails(t) ==
    /\ At(t, "insert") /\ task[t].op \in EnrollOps
    /\ \/ task[t].op = "create_user" /\ task[t].by \in users /\ UNCHANGED faults
       \/ faults < MaxFaults /\ faults' = faults + 1
    /\ Proceed(t, Undo(task[t]))
    /\ UNCHANGED <<calls, database, openfga, mails, identity, codes, ids, observed>>

\* An error of the deletion is logged.
UndoTuple(t) ==
    LET c == task[t] IN
    /\ At(t, "undo")
    /\ \/ /\ tuples' = tuples \ {[sub |-> c.by, role |-> "admin", proj |-> c.child]}
          /\ UNCHANGED <<faults, leaked>>
       \/ /\ faults < MaxFaults /\ faults' = faults + 1
          /\ leaked' = leaked \cup {c.child}
          /\ UNCHANGED tuples
    /\ Return(t)
    /\ UNCHANGED <<calls, database, adopted, mails, identity, codes, ids, accepted, raced, stranded>>

\* provisionChildProject: the row is inserted under a project that has no parent.
CreateChild(t) ==
    LET c == task[t] IN
    /\ At(t, "allowed") /\ c.op = "create_child" /\ ~Locked(c.proj)
    /\ IF c.proj \in rows /\ parent[c.proj] = None
       THEN \E p \in Project \ ids : /\ ids' = ids \cup {p}
                                     /\ Go(t, [c EXCEPT !.pc = "adopt", !.child = p])
       ELSE Return(t) /\ UNCHANGED ids
    /\ UNCHANGED <<calls, database, openfga, mails, identity, codes, faults, observed>>

\* Adopt comes last before the commit.
Adopt(t) ==
    /\ At(t, "adopt")
    /\ adopted' = adopted \cup {<<task[t].proj, task[t].child>>}
    /\ Go(t, [task[t] EXCEPT !.pc = "insert"])
    /\ UNCHANGED <<calls, database, tuples, mails, identity, codes, ids, faults, observed>>

\* The roles DeleteProject takes away: those given in the project itself.
RolesToDelete(p) == Assignments(p)

\* DeleteProject, from the handler or from CleanUpUnmanagedProjects.
PurgeProject(t) ==
    LET c == task[t] IN
    /\ At(t, "purge") \/ (At(t, "allowed") /\ c.op = "delete_project")
    /\ IF c.proj \in rows THEN Go(t, Revoking(c, RolesToDelete(c.proj)))
       ELSE Go(t, IF c.op = "delete_user" THEN [c EXCEPT !.pc = "cleanup"] ELSE Idle)
    /\ UNCHANGED <<calls, database, openfga, mails, identity, codes, ids, faults, observed>>

\* After the deletion of a project's rows: commit, or the user's next project.
AfterPurge(c) == IF c.op = "delete_user" THEN "cleanup" ELSE "commit"

\* The DELETE of the project and its children, which holds their rows until the commit.
DeleteRows(t) ==
    LET c == task[t]
        of == IF c.proj \in rows THEN {p \in rows : p = c.proj \/ parent[p] = c.proj} ELSE {}
        orphans == {<<parent[p], p>> : p \in {q \in of : parent[q] # None}}
    IN
    /\ At(t, "rows")
    /\ \A p \in of : ~ChildPending(p) /\ ~(Locked(p) /\ p \notin c.doomed)
    /\ Go(t, [c EXCEPT !.doomed = @ \cup of, !.orphans = orphans,
                       !.pc = IF orphans = {} THEN AfterPurge(c) ELSE "orphan"])
    /\ UNCHANGED <<calls, database, openfga, mails, identity, codes, ids, faults, observed>>

\* PostgreSQL ends one of two transactions that wait for each other's rows:
\* ProjectsForUser has no order, and two calls may delete the same projects.
Deadlock(t) ==
    LET waits(x, y) == x.pc = "rows" /\ x.proj \in y.doomed IN
    /\ \E t2 \in DOMAIN task \ {t} : waits(task[t], task[t2]) /\ waits(task[t2], task[t])
    /\ Return(t)
    /\ stranded' = stranded \cup {task[t].proj} \cup task[t].doomed
    /\ UNCHANGED <<calls, database, openfga, mails, identity, codes, ids, faults, accepted, raced, leaked>>

\* Orphan, for every row that was deleted and had a parent.
Orphan(t) ==
    LET c == task[t] IN
    /\ At(t, "orphan")
    /\ \E o \in c.orphans :
        /\ adopted' = adopted \ {o}
        /\ Go(t, [c EXCEPT !.orphans = @ \ {o}, !.pc = IF c.orphans = {o} THEN AfterPurge(c) ELSE "orphan"])
    /\ UNCHANGED <<calls, database, tuples, mails, identity, codes, ids, faults, observed>>

\* DeleteUser: by the user, or by the job for an account whose event it was given.
DeleteUser(t, u) ==
    /\ "delete_user" \in Op
    /\ At(t, "idle")
    /\ IF t = Cron THEN u \in listed ELSE u \notin gone
    /\ Go(t, [Idle EXCEPT !.op = "delete_user", !.pc = "cleanup", !.by = u, !.sub = u, !.projs = ProjectsForUser(u)])
    /\ UNCHANGED <<database, openfga, mails, identity, codes, ids, faults, observed>>

\* The project has other administrators, and cannot count on any of them.
HasAdminsLeaving(p, s) ==
    /\ \E a \in Admins(p) : a.sub # s
    /\ \A a \in Staying(p) : a.sub = s

\* CleanUpUnmanagedProjects: a project without parent and without another administrator.
CleanUp(t) ==
    LET c == task[t] IN
    /\ At(t, "cleanup")
    /\ IF c.projs = {} THEN Go(t, [c EXCEPT !.pc = "commit"]) /\ UNCHANGED stranded
       ELSE \E p \in c.projs :
               IF p \in rows \ c.doomed /\ parent[p] = None /\ ~HasOtherAdmins(p, c.sub)
               THEN /\ Go(t, [c EXCEPT !.projs = @ \ {p}, !.pc = "purge", !.proj = p])
                    /\ UNCHANGED stranded
               ELSE /\ Go(t, [c EXCEPT !.projs = @ \ {p}])
                    /\ stranded' = IF HasAdminsLeaving(p, c.sub) THEN stranded \cup {p} ELSE stranded
    /\ UNCHANGED <<calls, database, openfga, mails, identity, codes, ids, faults, accepted, raced, leaked>>

\* Mutant: a user without row has nothing to clean up.
TuplesOfUser(s) == {a \in tuples : a.sub = s /\ s \in users}

\* authzClient.DeleteUser lists them role by role.
TuplesToForget(s) == {a \in tuples : a.sub = s}

\* The commit of a deletion; invitations to the projects and from the user go along.
Commit(t) ==
    LET c == task[t] IN
    /\ At(t, "commit")
    /\ rows' = rows \ c.doomed
    /\ parent' = [p \in Project |-> IF p \in c.doomed THEN None ELSE parent[p]]
    /\ users' = IF c.op = "delete_user" THEN users \ {c.sub} ELSE users
    /\ invites' = {i \in invites : i.proj \in rows' /\ i.sponsor \in users'}
    /\ leaked' = leaked \cup {p \in c.doomed : parent[p] # None /\ Assignments(p) # {}}
    /\ IF c.op = "delete_user"
       THEN Go(t, [c EXCEPT !.pc = "forget", !.doomed = {}, !.todo = TuplesToForget(c.sub)])
       ELSE Return(t)
    /\ UNCHANGED <<calls, openfga, mails, identity, codes, ids, faults, accepted, raced, stranded>>

\* authzClient.DeleteUser, and for the user's own request the identity provider.
Forget(t) ==
    LET c == task[t] IN
    /\ At(t, "forget")
    /\ IF c.todo = {}
       THEN /\ Return(t) /\ gone' = gone \cup {c.sub}
            /\ listed' = listed \cup ({c.sub} \ gone) /\ UNCHANGED tuples
       ELSE \E a \in c.todo : /\ tuples' = tuples \ {a}
                              /\ Go(t, [c EXCEPT !.todo = @ \ {a}])
                              /\ UNCHANGED <<gone, listed>>
    /\ UNCHANGED <<calls, database, adopted, mails, missed, codes, ids, faults, observed>>

\* The account is deleted at the identity provider, which lists the event.
DeleteAccount ==
    /\ "delete_user" \in Op
    /\ \E u \in User \ gone : gone' = gone \cup {u} /\ listed' = listed \cup {u}
    /\ UNCHANGED <<calls, database, openfga, mails, missed, codes, ids, task, faults, observed>>

\* There is a row or a role of the user, or a call under way that may bring one back.
Remembered(u) ==
    u \in users \/ (\E a \in tuples : a.sub = u) \/ \E t \in DOMAIN task : task[t].sub = u

\* GetEvents and GetAdminEvents ask for one page, of the default size: newer events
\* push an event off it, and after eventsExpiration it is deleted.
DropEvent ==
    /\ \E u \in listed : /\ listed' = listed \ {u}
                          /\ missed' = IF Remembered(u) THEN missed \cup {u} ELSE missed
    /\ UNCHANGED <<calls, database, openfga, mails, gone, codes, ids, task, faults, observed>>

-----------------------------------------------------------------------------

Step(t) ==
    \/ CreateInvite(t) \/ SendInvite(t) \/ FindInvite(t) \/ SendUpdate(t) \/ RemoveInvite(t)
    \/ Resolve(t) \/ ReadFormer(t) \/ AssignRole(t) \/ RemoveRole(t) \/ Revoke(t) \/ Grant(t)
    \/ InsertProject(t) \/ InsertFails(t) \/ UndoTuple(t) \/ CreateChild(t) \/ Adopt(t)
    \/ PurgeProject(t) \/ DeleteRows(t) \/ Deadlock(t) \/ Orphan(t) \/ CleanUp(t) \/ Commit(t) \/ Forget(t)

Request(t) ==
    ManageRoles(t) \/ ManageProject(t) \/ ResolveInvitation(t) \/ Enroll(t) \/ \E u \in User : DeleteUser(t, u)

\* HandleEvents and HandleAdminEvents, every five minutes.
HandleEvents == \E u \in User : DeleteUser(Cron, u)

Next ==
    \/ calls < MaxCalls /\ calls' = calls + 1 /\ \E t \in Task : Request(t)
    \/ \E t \in Task \cup {Cron} : Step(t) \/ Abort(t)
    \/ HandleEvents /\ UNCHANGED calls
    \/ Expire
    \/ DeleteAccount \/ DropEvent

Spec == Init /\ [][Next]_vars

\* A call that is under way goes on. The job runs again and again, and an error of
\* one event does not keep it from the next: it takes up each that stays listed.
Fairness ==
    /\ \A t \in Task \cup {Cron} : WF_vars(Step(t))
    /\ \A u \in User : SF_vars(DeleteUser(Cron, u) /\ UNCHANGED calls)

FairSpec == Spec /\ Fairness

-----------------------------------------------------------------------------
(* Properties *)

\* The rows, the tuples and the calls under way have their types.
TypeOK ==
    /\ users \subseteq User
    /\ rows \subseteq Project
    /\ parent \in [Project -> Project \cup {None}]
    /\ invites \subseteq Invite
    /\ tuples \subseteq Tuple
    /\ adopted \subseteq Project \X Project
    /\ mails \subseteq Code \X Role
    /\ gone \subseteq User /\ listed \subseteq User /\ missed \subseteq User
    /\ codes \subseteq Code
    /\ ids \subseteq Project
    /\ task \in [Task \cup {Cron} -> Call]
    /\ faults \in 0..MaxFaults
    /\ calls \in 0..MaxCalls
    /\ accepted \in [Code -> Nat]
    /\ leaked \subseteq Project
    /\ stranded \subseteq Project

\* However calls of ResolveInvitation overlap, fail and are repeated, at most one
\* call per code accepts the invitation and succeeds: the deletion of the row decides.
AcceptedOnce == \A c \in Code : accepted[c] <= 1

\* A subject has at most one role in a project, whatever fails between the
\* deletion of the old one and the writing of the new one; two only after two
\* changes of the subject's role overlapped.
OneRole ==
    \A a, b \in tuples : a.sub = b.sub /\ a.proj = b.proj => a = b \/ <<a.sub, a.proj, "role">> \in raced

\* An address has at most one invitation to a project, which UpdateInvite needs
\* to find it; two only after two calls of CreateInvite for it overlapped.
OneInvitation ==
    \A i, j \in invites : i.email = j.email /\ i.proj = j.proj => i = j \/ <<i.email, i.proj, "invite">> \in raced

\* Every invitation was mailed with the role it has now, after any sequence of
\* creations and updates, failed ones and overlapping ones included.
InvitationMailed == \A i \in invites : <<i.code, i.role>> \in mails

\* A role is held in a project that exists or is being created: ids that name
\* nothing keep roles only where the code gives up (leaked): a commit or the
\* undoing of the tuple fails, the project is a child of a deleted one, the role
\* is given while the project is deleted.
RolesBacked ==
    \A a \in tuples : a.proj \in rows \cup leaked \/ \E t \in Task : task[t].child = a.proj

\* A project without parent has an administrator or is being deleted, except
\* where the code gives up (stranded): a deletion ends after the roles and
\* before the commit, or a change of role, CleanUpUnmanagedProjects or the creation
\* of the project leaves no administrator but users whose own deletion has passed
\* the project over and is about to take their roles.
ProjectsManaged ==
    \A p \in rows : parent[p] # None \/ Admins(p) # {} \/ p \in stranded \/ BeingDeleted(p)

\* A user whose account is gone ends up without row and without roles, even when
\* a deletion fails half-way or calls of theirs were under way: the job tries again,
\* unless the event leaves the list before it was done for good (missed).
DeletedUserForgotten ==
    \A u \in User : <>[](u \in gone \ missed => u \notin users /\ \A a \in tuples : a.sub # u)

=============================================================================
