--------------------------- MODULE Administration ---------------------------
(***************************************************************************)
(* Who belongs to which institution and in which roles: registration, with *)
(* a password (backend/api/auth.py) or through a provider                  *)
(* (backend/services/oauth_service.py), and what administrators change     *)
(* (backend/api/admin.py).                                                 *)
(*                                                                         *)
(* A handler does not wait while it reads and writes, but it commits at the*)
(* end: a server process takes one request at a time, and what two of them *)
(* know of each other is what is committed.  Permissions of roles, and who *)
(* may ask for what, are left out.                                         *)
(***************************************************************************)
EXTENDS Integers, FiniteSets

CONSTANTS
    Clerks,      \* server processes
    People,
    Homes,       \* institutions
    Shared,      \* those that never get their admin from a registration:
                 \* personal ones, and the default one for OAuth
    Seats,       \* [Homes -> max_users]
    OwnRoles,    \* roles that are not system roles
    NoOne,       \* no such user
    AtRest       \* a server process without a request

ASSUME AdministrationAssumption ==
    /\ IsFiniteSet(Clerks) /\ Seats \in [Homes -> Nat]
    /\ Shared \subseteq Homes
    /\ OwnRoles \cap {"admin", "dozent", "viewer"} = {}
    /\ NoOne \notin [home : Homes, status : {"pending", "active", "suspended"},
                     roles : SUBSET ({"admin", "dozent", "viewer"} \cup OwnRoles)]

VARIABLES
    clerks,      \* the server processes that run
    person,      \* [People -> NoOne or home, status and roles]
    roles,       \* the rows of roles
    desk,        \* what a server process is about to commit
    orphaned     \* institutions whose admin was taken away, or that got a
                 \* member some other way than by registration (history)

adminVars == <<clerks, person, roles, desk, orphaned>>

-----------------------------------------------------------------------------
SystemRoles == {"admin", "dozent", "viewer"}
Known == {u \in People : person[u] # NoOne}
Members(h) == {u \in Known : person[u].home = h}
Admins(h) == {u \in Members(h) : "admin" \in person[u].roles}
Seated(h) == {u \in Members(h) : person[u].status = "active"}

AdminInit ==
    /\ clerks \in (SUBSET Clerks) \ {{}}
    /\ person = [u \in People |-> NoOne]
    /\ roles = SystemRoles
    /\ desk = [c \in Clerks |-> AtRest]
    /\ orphaned = {}

Ready(c) == c \in clerks /\ desk[c] = AtRest
Serves(c, next) == desk' = [desk EXCEPT ![c] = next]
Does(c, what) == desk[c] # AtRest /\ desk[c].what = what

-----------------------------------------------------------------------------
(***************************************************************************)
(* Registration                                                            *)
(***************************************************************************)

\* The row is flushed, then counted: the first user of an institution becomes
\* its admin.
FirstMutant(h) == Known = {}
First(h) == Members(h) = {}

BeginRegister(c, u, h) ==
    /\ Ready(c) /\ person[u] = NoOne
    /\ Cardinality(Seated(h)) < Seats[h]
    /\ Serves(c, [what |-> "add", who |-> u,
                  row |-> [home |-> h, status |-> "pending",
                           roles |-> {IF First(h) /\ h \notin Shared
                                      THEN "admin" ELSE "dozent"}]])
    /\ UNCHANGED <<clerks, person, roles, orphaned>>

\* find_or_create_user_from_oauth: seats are not counted.
BeginOAuth(c, u, h) ==
    /\ Ready(c) /\ person[u] = NoOne
    /\ Serves(c, [what |-> "add", who |-> u,
                  row |-> [home |-> h, status |-> "active",
                           roles |-> {IF First(h) /\ h \notin Shared
                                      THEN "admin" ELSE "viewer"}]])
    /\ UNCHANGED <<clerks, person, roles, orphaned>>

\* The address is unique.
AddUser(c) ==
    /\ Does(c, "add")
    /\ person' = IF person[desk[c].who] = NoOne
                 THEN [person EXCEPT ![desk[c].who] = desk[c].row] ELSE person
    /\ Serves(c, AtRest)
    /\ UNCHANGED <<clerks, roles, orphaned>>

-----------------------------------------------------------------------------
(***************************************************************************)
(* Users                                                                   *)
(***************************************************************************)

\* Also the confirmation of an address.
UpdateUserStatus(c, u, status) ==
    /\ Ready(c) /\ u \in Known
    /\ person' = [person EXCEPT ![u].status = status]
    /\ UNCHANGED <<clerks, roles, desk, orphaned>>

\* The role of a deleted row cannot be given: a foreign key.
AssignRole(c, u, r) ==
    /\ Ready(c) /\ u \in Known /\ r \in roles \ person[u].roles
    /\ person' = [person EXCEPT ![u].roles = @ \cup {r}]
    /\ UNCHANGED <<clerks, roles, desk, orphaned>>

LastRole(u) == Cardinality(person[u].roles) = 1

BeginRemoveRole(c, u, r) ==
    /\ Ready(c) /\ u \in Known /\ r \in person[u].roles /\ ~LastRole(u)
    /\ Serves(c, [what |-> "strip", who |-> u, role |-> r])
    /\ UNCHANGED <<clerks, person, roles, orphaned>>

\* A row that is gone already makes the request fail.
RemoveRole(c) ==
    /\ Does(c, "strip")
    /\ LET u == desk[c].who
           r == desk[c].role
       IN  \/ /\ u \in Known /\ r \in person[u].roles
              /\ person' = [person EXCEPT ![u].roles = @ \ {r}]
              /\ orphaned' = IF r = "admin" THEN orphaned \cup {person[u].home} ELSE orphaned
           \/ /\ u \in Known => r \notin person[u].roles
              /\ UNCHANGED <<person, orphaned>>
    /\ Serves(c, AtRest)
    /\ UNCHANGED <<clerks, roles>>

Transfer(c, u, h) ==
    /\ Ready(c) /\ u \in Known /\ person[u].home # h
    /\ person' = [person EXCEPT ![u].home = h]
    /\ orphaned' = orphaned \cup {person[u].home, h}
    /\ UNCHANGED <<clerks, roles, desk>>

\* The account is erased (Accounts).
Erase(c, u) ==
    /\ Ready(c) /\ u \in Known
    /\ person' = [person EXCEPT ![u] = NoOne]
    /\ orphaned' = orphaned \cup {person[u].home}
    /\ UNCHANGED <<clerks, roles, desk>>

-----------------------------------------------------------------------------
(***************************************************************************)
(* Roles                                                                   *)
(***************************************************************************)

CreateRole(c, r) ==
    /\ Ready(c) /\ r \in OwnRoles \ roles
    /\ roles' = roles \cup {r}
    /\ UNCHANGED <<clerks, person, desk, orphaned>>

BeginDeleteRole(c, r) ==
    /\ Ready(c) /\ r \in roles \cap OwnRoles
    /\ \A u \in Known : r \notin person[u].roles
    /\ Serves(c, [what |-> "drop", role |-> r])
    /\ UNCHANGED <<clerks, person, roles, orphaned>>

\* ON DELETE CASCADE takes the role from whoever got it in between.
DeleteRole(c) ==
    /\ Does(c, "drop")
    /\ roles' = roles \ {desk[c].role}
    /\ person' = [u \in People |->
                     IF person[u] = NoOne THEN NoOne
                     ELSE [person[u] EXCEPT !.roles = @ \ {desk[c].role}]]
    /\ Serves(c, AtRest)
    /\ UNCHANGED <<clerks, orphaned>>

-----------------------------------------------------------------------------
AdminNext == \E c \in Clerks :
    \/ \E u \in People :
          \/ \E h \in Homes : BeginRegister(c, u, h) \/ BeginOAuth(c, u, h) \/ Transfer(c, u, h)
          \/ \E status \in {"active", "suspended"} : UpdateUserStatus(c, u, status)
          \/ \E r \in SystemRoles \cup OwnRoles : AssignRole(c, u, r) \/ BeginRemoveRole(c, u, r)
          \/ Erase(c, u)
    \/ \E r \in OwnRoles : CreateRole(c, r) \/ BeginDeleteRole(c, r)
    \/ AddUser(c) \/ RemoveRole(c) \/ DeleteRole(c)

AdminSpec == AdminInit /\ [][AdminNext]_adminVars

-----------------------------------------------------------------------------
\* An institution with members has an admin, whoever registers at the same time
\* (TF-410), until an admin is taken away; a role somebody has exists; and with
\* one server process everybody keeps a role.
RolesHeld ==
    /\ \A h \in Homes \ (Shared \cup orphaned) : Members(h) # {} => Admins(h) # {}
    /\ \A u \in Known : person[u].roles \subseteq roles
    /\ Cardinality(clerks) = 1 => \A u \in Known : person[u].roles # {}

\* "every institution always has >=1 admin" (backend/api/auth.py, register) and
\* max_users.  TLC refutes both (README, section 4).
AlwaysAnAdmin == \A h \in Homes \ Shared : Members(h) # {} => Admins(h) # {}
SeatsKept == \A h \in Homes : Cardinality(Seated(h)) <= Seats[h]

=============================================================================
