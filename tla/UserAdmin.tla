----------------------------- MODULE UserAdmin -----------------------------
(***************************************************************************)
(* User management: the table users and the requests that change it        *)
(* (server/internal/auth/service.go, server/internal/store/user.go).       *)
(*                                                                         *)
(* A request reads the target, counts the active administrators and writes *)
(* in three statements without a transaction around them: each is an       *)
(* action, and other requests come in between.                             *)
(***************************************************************************)
EXTENDS Naturals, FiniteSets, Requests

CONSTANTS
    Clients, \* requests served at the same time
    MaxId,   \* bound: accounts ever created
    NoUser   \* "no account"

Roles == {"admin", "editor", "viewer"}

User == [role : Roles, disabled : BOOLEAN]

ASSUME UserAssumption ==
    /\ MaxId \in Nat
    /\ Absent \notin Roles /\ Absent \notin BOOLEAN
    /\ NoUser \notin User

VARIABLES
    users,   \* the account of each id
    nextId,  \* the identity sequence
    pc,      \* what each request does next
    request, \* what it carries
    crossed  \* history: two requests that take away have been checked at a time

vars == <<users, nextId, pc, request, crossed>>

Ids == 1..MaxId

Request == [op : {"update", "delete"}, actor : Ids, target : Ids,
            role : Roles \cup {Absent}, disabled : BOOLEAN \cup {Absent}]

TypeOK ==
    /\ users \in [Ids -> User \cup {NoUser}]
    /\ nextId \in 1..MaxId + 1
    /\ \A i \in Ids : i >= nextId => users[i] = NoUser
    /\ pc \in [Clients -> {"ready", "register", "read", "count", "write"}]
    /\ request \in [Clients -> Request \cup {NoUser}]
    /\ \A c \in Clients : pc[c] \in {"read", "count", "write"} => request[c] \in Request
    /\ crossed \in BOOLEAN

Init ==
    /\ users = [i \in Ids |-> NoUser]
    /\ nextId = 1
    /\ pc = [c \in Clients |-> "ready"]
    /\ request = [c \in Clients |-> NoUser]
    /\ crossed = FALSE

-----------------------------------------------------------------------------

Accounts == {i \in Ids : users[i] # NoUser}

\* Administrators who can still log in.
IsActiveAdmin(u) == u # NoUser /\ u.role = "admin" /\ ~u.disabled

\* Mutant: disabled administrators are counted.
CountActiveAdmins_Disabled ==
    Cardinality({i \in Ids : users[i] # NoUser /\ users[i].role = "admin"})

CountActiveAdmins == Cardinality({i \in Ids : IsActiveAdmin(users[i])})

GoesOn(c, next) == pc' = [pc EXCEPT ![c] = next]

\* The request is answered, whether it succeeds or not.
Ends(c) ==
    /\ pc' = [pc EXCEPT ![c] = "ready"]
    /\ request' = [request EXCEPT ![c] = NoUser]

\* Mutant: an account is created under an id beyond the sequence's next.
createUser_Gap(role) ==
    /\ nextId < MaxId
    /\ users' = [users EXCEPT ![nextId + 1] = [role |-> role, disabled |-> FALSE]]
    /\ nextId' = nextId + 1

\* INSERT INTO users; the addresses of accounts differ.
createUser(role) ==
    /\ nextId <= MaxId
    /\ users' = [users EXCEPT ![nextId] = [role |-> role, disabled |-> FALSE]]
    /\ nextId' = nextId + 1

-----------------------------------------------------------------------------

\* POST /auth/register: nobody may register once there is an account.
Register(c) ==
    /\ pc[c] = "ready"
    /\ Accounts = {}
    /\ GoesOn(c, "register")
    /\ UNCHANGED <<users, nextId, request, crossed>>

\* The first account becomes an administrator.
Registers(c) ==
    /\ pc[c] = "register"
    /\ createUser("admin")
    /\ Ends(c)
    /\ UNCHANGED crossed

\* POST /users, by an administrator.
CreateUser(c, role) ==
    /\ pc[c] = "ready"
    /\ \E actor \in Ids : IsActiveAdmin(users[actor])
    /\ createUser(role)
    /\ UNCHANGED <<pc, request, crossed>>

\* Authenticate and RequireAction: the sender is an active administrator now.
Arrives(c, r) ==
    /\ pc[c] = "ready"
    /\ IsActiveAdmin(users[r.actor])
    /\ GoesOn(c, "read")
    /\ request' = [request EXCEPT ![c] = r]
    /\ UNCHANGED <<users, nextId, crossed>>

\* PATCH /users/:id with a role, a disabled flag, both or neither.
Update(c, actor, target, role, disabled) ==
    Arrives(c, [op |-> "update", actor |-> actor, target |-> target,
                role |-> role, disabled |-> disabled])

\* DELETE /users/:id.
Delete(c, actor, target) ==
    Arrives(c, [op |-> "delete", actor |-> actor, target |-> target,
                role |-> Absent, disabled |-> Absent])

\* The request changes its sender's own standing: ErrSelfDemote.
SelfDemotes(r) ==
    /\ r.actor = r.target
    /\ r.op = "delete" \/ r.role # Absent \/ r.disabled = TRUE

\* It takes something away from its target: the account, the role or the access.
Worsens(r) == r.op = "delete" \/ r.role \notin {Absent, "admin"} \/ r.disabled = TRUE

\* Request d has read its target, takes away and has not written.
TakingAway(d) == pc[d] \in {"count", "write"} /\ Worsens(request[d])

\* GetUser, and what the service decides from it.
ReadTarget(c) ==
    /\ pc[c] = "read"
    /\ LET r == request[c] IN
       \/ /\ users[r.target] = NoUser \/ SelfDemotes(r)
          /\ Ends(c)
          /\ UNCHANGED crossed
       \/ /\ users[r.target] # NoUser /\ ~SelfDemotes(r)
          /\ GoesOn(c, IF IsActiveAdmin(users[r.target]) /\ Worsens(r)
                       THEN "count" ELSE "write")
          /\ crossed' = (\/ crossed
                         \/ /\ Worsens(r)
                            /\ \E d \in Clients : TakingAway(d) /\ request[d].target # r.target)
          /\ UNCHANGED request
    /\ UNCHANGED <<users, nextId>>

\* CountActiveAdmins: the last one is not taken away (ErrLastAdmin).
CountAdmins(c) ==
    /\ pc[c] = "count"
    /\ \/ CountActiveAdmins <= 1 /\ Ends(c)
       \/ CountActiveAdmins > 1 /\ GoesOn(c, "write") /\ UNCHANGED request
    /\ UNCHANGED <<users, nextId, crossed>>

\* What a request leaves of its target.
Written(u, r) ==
    IF r.op = "delete" \/ u = NoUser THEN NoUser
    ELSE [role |-> coalesce(r.role, u.role), disabled |-> coalesce(r.disabled, u.disabled)]

\* UPDATE users or DELETE FROM users ... WHERE id = $1.
WriteTarget(c) ==
    /\ pc[c] = "write"
    /\ users' = [users EXCEPT ![request[c].target] = Written(@, request[c])]
    /\ Ends(c)
    /\ UNCHANGED <<nextId, crossed>>

-----------------------------------------------------------------------------

Next ==
    \E c \in Clients :
        \/ Register(c)
        \/ Registers(c)
        \/ \E role \in Roles : CreateUser(c, role)
        \/ \E actor, target \in Ids :
              \/ \E role \in Roles \cup {Absent}, disabled \in BOOLEAN \cup {Absent} :
                    Update(c, actor, target, role, disabled)
              \/ Delete(c, actor, target)
        \/ ReadTarget(c)
        \/ CountAdmins(c)
        \/ WriteTarget(c)

Spec == Init /\ [][Next]_vars

-----------------------------------------------------------------------------
(* Properties *)

\* Once there are accounts, someone can manage them: no sequence of requests
\* removes, demotes or disables the last active administrator, and then nobody
\* could ever again, for registration is closed. (http/users.go:17-18,
\* auth/service.go:179-196.)
ActiveAdminRemains ==
    Accounts # {} => \E i \in Ids : IsActiveAdmin(users[i])

\* How far the code keeps ActiveAdminRemains: the last active administrator is
\* lost only when two requests, each of which takes something away from another
\* account, have been between their reads and their writes at the same time.
\* Every other interleaving is covered: requests whose sender loses the rights
\* it had on arrival, promotions of a target that was read as no administrator,
\* two requests for one target. (auth/service.go:165-223.)
LostOnlyByCrossing == ActiveAdminRemains \/ crossed

\* What makes it inductive: requests that take away from different accounts are
\* apart, and one about to write leaves an active administrator.
Apart == \A c, d \in Clients :
    TakingAway(c) /\ TakingAway(d) => request[c].target = request[d].target

LeavesAnother == \A c \in Clients :
    pc[c] = "write" /\ Worsens(request[c]) =>
        \E i \in Ids : i # request[c].target /\ IsActiveAdmin(users[i])

AdminInv == TypeOK /\ (crossed \/ (ActiveAdminRemains /\ Apart /\ LeavesAnother))

=============================================================================
