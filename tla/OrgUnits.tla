------------------------------ MODULE OrgUnits ------------------------------
(***************************************************************************)
(* The departments and teams of the institutions                           *)
(* (backend/services/org_unit_service.py, backend/api/org_units.py,        *)
(* backend/models/org_unit.py), the documents shared with a team           *)
(* (backend/api/documents.py) and the transfer of a user to another        *)
(* institution (backend/services/user_institution_transfer_service.py).    *)
(*                                                                         *)
(* The handlers do not await, so one server process runs them one after the*)
(* other; several processes interleave.  Begin* loads and checks, Commit   *)
(* writes the columns that changed, and PostgreSQL refuses what breaks a   *)
(* unique index or a foreign key.  Types of units and the roles they grant *)
(* are left out; each user has one document.                               *)
(***************************************************************************)
EXTENDS FiniteSets

CONSTANTS
    Servers,      \* server processes that may be deployed
    Units,        \* primary keys, never used twice
    UnitNames,
    Institutions,
    Members,      \* users
    NoUnit,       \* NULL in parent_org_unit_id and org_unit_id
    Keep,         \* a column that an update leaves alone
    Idle

ASSUME OrgUnitsAssumption ==
    /\ NoUnit \notin Units
    /\ Keep \notin Units \cup {NoUnit} \cup UnitNames

VARIABLES
    servers,      \* the processes deployed, fixed
    unborn,       \* keys not yet taken
    unit,         \* the rows of org_units, a function on their keys
    membership,   \* user_org_units: pairs of a user and a unit
    home,         \* users.institution_id
    shared,       \* documents.org_unit_id of each user's document
    request       \* what a process will commit

orgVars == <<servers, unborn, unit, membership, home, shared, request>>

Rows == [institution : Institutions, parent : Units \cup {NoUnit}, name : UnitNames]

Requests ==
    [op : {"create"}, row : Rows]
    \cup [op : {"update"}, unit : Units, parent : Units \cup {NoUnit, Keep},
          name : UnitNames \cup {Keep}]
    \cup [op : {"delete"}, unit : Units]
    \cup [op : {"assign", "remove"}, member : Members, unit : Units]
    \cup [op : {"share"}, member : Members, unit : Units \cup {NoUnit}]
    \cup [op : {"transfer"}, member : Members, institution : Institutions]

OrgInit ==
    /\ servers \in SUBSET Servers
    /\ unborn = Units
    /\ unit = [u \in {} |-> NoUnit]
    /\ membership = {}
    /\ home \in [Members -> Institutions]
    /\ shared = [m \in Members |-> NoUnit]
    /\ request = [w \in Servers |-> Idle]

-----------------------------------------------------------------------------
(***************************************************************************)
(* What the handlers read                                                  *)
(***************************************************************************)

Live == DOMAIN unit

\* get_descendant_ids: the unit itself and everything below it, the least set
\* that holds the unit and the children of its members.
ClosedBelow(S) == \A v \in Live : unit[v].parent \in S => v \in S
Descendants(u) ==
    {v \in Live : \A S \in SUBSET Live : u \in S /\ ClosedBelow(S) => v \in S}

WouldCreateCycleMutant(u, p) == p = u
WouldCreateCycle(u, p) == p \in Descendants(u)

\* get_user_accessible_org_unit_ids
Accessible(m) ==
    {v \in Live : /\ unit[v].institution = home[m]
                  /\ \E u \in Live : <<m, u>> \in membership /\ v \in Descendants(u)}

\* validate_sibling_name_unique
NameFree(institution, p, name, except) ==
    \A v \in Live \ except :
        <<unit[v].institution, unit[v].parent, unit[v].name>> # <<institution, p, name>>

ParentAllowed(p, institution) ==
    p = NoUnit \/ (p \in Live /\ unit[p].institution = institution)

-----------------------------------------------------------------------------
(***************************************************************************)
(* The first half of a request, on behalf of an administrator of the       *)
(* unit's institution                                                      *)
(***************************************************************************)

Ask(w, r) ==
    /\ w \in servers /\ request[w] = Idle
    /\ request' = [request EXCEPT ![w] = r]
    /\ UNCHANGED <<servers, unborn, unit, membership, home, shared>>

BeginCreate(w, row) ==
    /\ ParentAllowed(row.parent, row.institution)
    /\ NameFree(row.institution, row.parent, row.name, {})
    /\ Ask(w, [op |-> "create", row |-> row])

\* update_org_unit_endpoint, with or without move_org_unit; name and p may be
\* Keep.  Only a column whose value changes is written.
BeginUpdate(w, u, p, name) ==
    LET row == unit[u]
        newParent == IF p = Keep THEN row.parent ELSE p
        newName == IF name = Keep THEN row.name ELSE name
    IN  /\ u \in Live
        /\ p # Keep => /\ ParentAllowed(p, row.institution)
                       /\ ~WouldCreateCycle(u, p)
        /\ <<p, name>> # <<Keep, Keep>> =>
              NameFree(row.institution, newParent, newName, {u})
        /\ Ask(w, [op |-> "update", unit |-> u,
                   parent |-> IF p = row.parent THEN Keep ELSE p,
                   name |-> IF name = row.name THEN Keep ELSE name])

BeginDelete(w, u) == u \in Live /\ Ask(w, [op |-> "delete", unit |-> u])

BeginAssign(w, m, u) ==
    /\ u \in Live /\ home[m] = unit[u].institution
    /\ <<m, u>> \notin membership
    /\ Ask(w, [op |-> "assign", member |-> m, unit |-> u])

BeginRemove(w, m, u) ==
    /\ <<m, u>> \in membership
    /\ Ask(w, [op |-> "remove", member |-> m, unit |-> u])

\* A document becomes visible to a team of its owner, at its upload or later,
\* or leaves it.  What superusers may set is left out.
BeginShare(w, m, u) ==
    /\ u \in Accessible(m) \cup {NoUnit} /\ u # shared[m]
    /\ Ask(w, [op |-> "share", member |-> m, unit |-> u])

\* transfer_user
BeginTransfer(w, m, i) ==
    /\ home[m] # i
    /\ Ask(w, [op |-> "transfer", member |-> m, institution |-> i])

-----------------------------------------------------------------------------
(***************************************************************************)
(* The second half                                                         *)
(***************************************************************************)

\* ix_org_units_unique_sibling_name, ix_org_units_unique_root_name, and the
\* foreign key of the parent.
Stored(rows) ==
    /\ \A u \in DOMAIN rows : rows[u].parent \in DOMAIN rows \cup {NoUnit}
    /\ \A u, v \in DOMAIN rows : rows[u] = rows[v] => u = v
    /\ unit' = rows

Create(r) ==
    \E u \in unborn :
        /\ Stored([v \in Live \cup {u} |-> IF v = u THEN r.row ELSE unit[v]])
        /\ unborn' = unborn \ {u}
        /\ UNCHANGED <<membership, home, shared>>

Update(r) ==
    /\ r.unit \in Live
    /\ Stored([v \in Live |->
          IF v # r.unit THEN unit[v]
          ELSE [institution |-> unit[v].institution,
                parent |-> IF r.parent = Keep THEN unit[v].parent ELSE r.parent,
                name |-> IF r.name = Keep THEN unit[v].name ELSE r.name]])
    /\ UNCHANGED <<unborn, membership, home, shared>>

\* The whole subtree goes, with its memberships; a document shared with any of
\* it refuses (documents.org_unit_id does not cascade).
Delete(r) ==
    LET gone == Descendants(r.unit)
    IN  /\ \A m \in Members : shared[m] \notin gone
        /\ unit' = [v \in Live \ gone |-> unit[v]]
        /\ membership' = {x \in membership : x[2] \notin gone}
        /\ UNCHANGED <<unborn, home, shared>>

Assign(r) ==
    /\ r.unit \in Live /\ <<r.member, r.unit>> \notin membership
    /\ membership' = membership \cup {<<r.member, r.unit>>}
    /\ UNCHANGED <<unborn, unit, home, shared>>

Dismiss(r) ==
    /\ membership' = membership \ {<<r.member, r.unit>>}
    /\ UNCHANGED <<unborn, unit, home, shared>>

ShareDocument(r) ==
    /\ r.unit \in Live \cup {NoUnit}
    /\ shared' = [shared EXCEPT ![r.member] = r.unit]
    /\ UNCHANGED <<unborn, unit, membership, home>>

\* The memberships are cleared, whatever was asked; the document keeps its unit.
Transfer(r) ==
    /\ home' = [home EXCEPT ![r.member] = r.institution]
    /\ membership' = {x \in membership : x[1] # r.member}
    /\ UNCHANGED <<unborn, unit, shared>>

Commit(w) ==
    LET r == request[w]
    IN  /\ r # Idle
        /\ \/ r.op = "create" /\ Create(r)
           \/ r.op = "update" /\ Update(r)
           \/ r.op = "delete" /\ Delete(r)
           \/ r.op = "assign" /\ Assign(r)
           \/ r.op = "remove" /\ Dismiss(r)
           \/ r.op = "share" /\ ShareDocument(r)
           \/ r.op = "transfer" /\ Transfer(r)
        /\ request' = [request EXCEPT ![w] = Idle]
        /\ UNCHANGED servers

\* A refused write, a row that vanished, or any other error.
Rollback(w) ==
    /\ request[w] # Idle
    /\ request' = [request EXCEPT ![w] = Idle]
    /\ UNCHANGED <<servers, unborn, unit, membership, home, shared>>

Begin(w) ==
    \/ \E row \in Rows : BeginCreate(w, row)
    \/ \E u \in Units :
          \/ \E p \in Units \cup {NoUnit, Keep}, name \in UnitNames \cup {Keep} :
                BeginUpdate(w, u, p, name)
          \/ BeginDelete(w, u)
          \/ \E m \in Members :
                BeginAssign(w, m, u) \/ BeginRemove(w, m, u)
    \/ \E m \in Members :
          \/ \E u \in Units \cup {NoUnit} : BeginShare(w, m, u)
          \/ \E i \in Institutions : BeginTransfer(w, m, i)

OrgNext == \E w \in Servers : Begin(w) \/ Commit(w) \/ Rollback(w)

OrgSpec == OrgInit /\ [][OrgNext]_orgVars

-----------------------------------------------------------------------------
(***************************************************************************)
(* Properties                                                              *)
(***************************************************************************)

TypesOfOrg ==
    /\ servers \subseteq Servers
    /\ unborn \subseteq Units
    /\ Live \subseteq Units \ unborn /\ unit \in [Live -> Rows]
    /\ membership \subseteq Members \X Units
    /\ home \in [Members -> Institutions]
    /\ shared \in [Members -> Units \cup {NoUnit}]
    /\ request \in [Servers -> Requests \cup {Idle}]

\* No reference dangles, whatever the number of processes.
References ==
    /\ \A u \in Live : unit[u].parent \in Live \cup {NoUnit}
    /\ \A x \in membership : x[2] \in Live
    /\ \A m \in Members : shared[m] \in Live \cup {NoUnit}

\* A unit's parent belongs to its institution.
OneInstitution ==
    \A u \in Live : unit[u].parent \in Live =>
        unit[unit[u].parent].institution = unit[u].institution

\* No unit is below itself: every set of units has one that hangs elsewhere.
Acyclic ==
    \A S \in SUBSET Live : S # {} => \E u \in S : unit[u].parent \notin S

\* Nobody is a member in an institution that is not his.
MembersAtHome == \A x \in membership : unit[x[2]].institution = home[x[1]]

OneServer == \A v, w \in servers : v = w

\* The tables stay a forest per institution with live references for any number
\* of server processes as far as the database checks it, and with one process
\* also as far as only the handlers do: no cycle, no member from elsewhere
\* (would_create_cycle in move_org_unit, assign_member_endpoint and the
\* clearing of memberships in transfer_user).
HierarchySound ==
    /\ References
    /\ OneInstitution
    /\ OneServer => Acyclic /\ MembersAtHome

\* A document's team belongs to its owner's institution.  TLC refutes it
\* (README, section 4): a transfer takes the document along and leaves
\* org_unit_id.
TeamAtHome ==
    \A m \in Members : shared[m] # NoUnit => unit[shared[m]].institution = home[m]

=============================================================================
