-------------------------- MODULE InstitutionProofs --------------------------
(***************************************************************************)
(* What an institution keeps, for any units, members, tags, plans, work    *)
(* and server processes: a sound hierarchy (OrgUnits), the labels of its   *)
(* questions (Tags), the plan it pays for (Subscriptions), the limits the  *)
(* plan sets (Quotas), the classes of its students (Roster) and documents  *)
(* that can be found (DocumentProcessing).                                 *)
(***************************************************************************)
EXTENDS OrgUnits, Tags, Subscriptions, Quotas, Roster, DocumentProcessing, Sums,
        SequenceTheorems, TLAPS

(***************************************************************************)
(* The hierarchy.  HierarchySound is not inductive: a request is checked   *)
(* when it is loaded and obeyed later.  What its checks found must still   *)
(* hold at its commit: institutions of units never change and keys are     *)
(* never used twice (SoundRequest, any number of processes); with one      *)
(* process nothing at all happens in between (CheckedRequest).             *)
(***************************************************************************)


\* What the checks of a request found, as far as no other process can undo it.
SoundRequest(r) ==
    /\ r.op = "create" =>
          /\ r.row.parent \notin unborn
          /\ r.row.parent \in Live => unit[r.row.parent].institution = r.row.institution
    /\ r.op = "update" =>
          /\ r.unit \notin unborn /\ r.parent \notin unborn
          /\ r.unit \in Live /\ r.parent \in Live =>
                unit[r.parent].institution = unit[r.unit].institution

\* What else they found.
CheckedRequest(r) ==
    /\ r.op = "update" /\ r.parent \in Units =>
          r.unit \in Live /\ r.parent \notin Descendants(r.unit)
    /\ r.op = "assign" => r.unit \in Live /\ home[r.member] = unit[r.unit].institution

RowTypes ==
    /\ unborn \subseteq Units
    /\ Live \subseteq Units \ unborn /\ unit \in [Live -> Rows]
    /\ membership \subseteq Members \X Units
    /\ home \in [Members -> Institutions]
    /\ shared \in [Members -> Units \cup {NoUnit}]

RequestTypes ==
    /\ servers \subseteq Servers
    /\ request \in [Servers -> Requests \cup {Idle}]

\* The rows, whatever is being asked.
Forest ==
    /\ RowTypes /\ References /\ OneInstitution
    /\ OneServer => Acyclic /\ MembersAtHome

OrgInv ==
    /\ Forest /\ RequestTypes
    /\ \A w \in Servers : request[w] # Idle => w \in servers /\ SoundRequest(request[w])
    /\ OneServer => \A w \in servers : request[w] # Idle => CheckedRequest(request[w])

\* No key is used twice, and no unit changes its institution.
InstitutionsStay ==
    /\ unborn' \subseteq unborn
    /\ \A x \in Live' : \/ x \in Live /\ unit'[x].institution = unit[x].institution
                        \/ x \in unborn

-----------------------------------------------------------------------------
(***************************************************************************)
(* Descendants                                                             *)
(***************************************************************************)

\* A live unit is among its own descendants, and so is who hangs below one.
LEMMA DescendantsClosed ==
    ASSUME NEW u
    PROVE  /\ Descendants(u) \subseteq Live
           /\ u \in Live => u \in Descendants(u)
           /\ \A v \in Live : unit[v].parent \in Descendants(u) => v \in Descendants(u)
<1>1. Descendants(u) \subseteq Live /\ (u \in Live => u \in Descendants(u))
  BY DEF Descendants
<1>2. ASSUME NEW v \in Live, unit[v].parent \in Descendants(u)
      PROVE  v \in Descendants(u)
  <2>1. \A S \in SUBSET Live : u \in S /\ ClosedBelow(S) => unit[v].parent \in S
    BY <1>2 DEF Descendants
  <2>2. \A S \in SUBSET Live : u \in S /\ ClosedBelow(S) => v \in S
    BY <1>2, <2>1 DEF ClosedBelow
  <2> QED BY <1>2, <2>2 DEF Descendants
<1> QED BY <1>1, <1>2

\* A request has the fields of its kind.
LEMMA RequestShape ==
    ASSUME NEW r \in Requests
    PROVE  /\ r.op = "create" => r.row \in Rows
           /\ r.op = "update" => /\ r.unit \in Units /\ r.parent \in Units \cup {NoUnit, Keep}
                                 /\ r.name \in UnitNames \cup {Keep}
           /\ r.op = "delete" => r.unit \in Units
           /\ r.op \in {"assign", "remove"} => r.member \in Members /\ r.unit \in Units
           /\ r.op = "share" => r.member \in Members /\ r.unit \in Units \cup {NoUnit}
           /\ r.op = "transfer" => r.member \in Members /\ r.institution \in Institutions
BY DEF Requests

-----------------------------------------------------------------------------
(***************************************************************************)
(* Each commit keeps the forest                                            *)
(***************************************************************************)

\* A new unit hangs below an old one, and nothing hangs below it.
LEMMA CreateKeeps ==
    ASSUME Forest, NEW r, r.row \in Rows,
           r.row.parent \notin unborn,
           r.row.parent \in Live => unit[r.row.parent].institution = r.row.institution,
           Create(r), servers' = servers
    PROVE  Forest' /\ InstitutionsStay
<1>1. PICK u \in unborn :
         /\ Stored([v \in Live \cup {u} |-> IF v = u THEN r.row ELSE unit[v]])
         /\ unborn' = unborn \ {u}
         /\ UNCHANGED <<membership, home, shared>>
  BY DEF Create
<1>2. /\ unit' = [v \in Live \cup {u} |-> IF v = u THEN r.row ELSE unit[v]]
      /\ r.row.parent \in Live \cup {u, NoUnit}
  BY <1>1 DEF Stored
<1>3. /\ Live' = Live \cup {u} /\ u \notin Live /\ u \in Units
      /\ unit'[u] = r.row /\ \A v \in Live : unit'[v] = unit[v]
  BY <1>1, <1>2 DEF Live, Forest, RowTypes
<1>4. r.row.parent \in Live \cup {NoUnit} /\ r.row.parent # u
  BY <1>1, <1>2
<1>5. \A v \in Live : unit[v] \in Rows /\ unit[v].parent \in Live \cup {NoUnit}
  BY DEF Forest, RowTypes, References
<1>6. u # NoUnit
  BY <1>3, OrgUnitsAssumption
<1>7. RowTypes'
  <2>1. unit' \in [Live' -> Rows]
    BY <1>2, <1>3, <1>5
  <2> QED BY <1>1, <1>3, <2>1 DEF Forest, RowTypes
<1>8. References'
  BY <1>1, <1>3, <1>4, <1>5 DEF Forest, References
<1>9. OneInstitution'
  <2>1. NoUnit \notin Live'
    BY <1>3, OrgUnitsAssumption DEF Forest, RowTypes
  <2> QED BY <1>3, <1>4, <1>5, <1>6, <2>1 DEF Forest, OneInstitution
<1>10. InstitutionsStay
  BY <1>1, <1>3 DEF InstitutionsStay
<1>11. ASSUME OneServer PROVE Acyclic'
  <2> SUFFICES ASSUME NEW S \in SUBSET Live', \A v \in S : unit'[v].parent \in S, S # {}
               PROVE  FALSE
    BY DEF Acyclic
  <2>1. S \ {u} \in SUBSET Live
    BY <1>3
  <2>2. \A v \in S \ {u} : unit[v].parent \in S \ {u}
    BY <1>3, <1>5, <1>6, <2>1
  <2>3. S \ {u} = {}
    BY <1>11, <2>1, <2>2 DEF Forest, Acyclic
  <2> QED BY <1>3, <1>4, <2>3
<1>12. ASSUME OneServer PROVE MembersAtHome'
  BY <1>1, <1>3, <1>12 DEF Forest, MembersAtHome, References
<1>13. OneServer' <=> OneServer
  BY DEF OneServer
<1> QED BY <1>7, <1>8, <1>9, <1>10, <1>11, <1>12, <1>13 DEF Forest

\* Whoever is moved below a unit that is no descendant closes no cycle: a set
\* of units that hang within it would, less the descendants of the moved unit,
\* have been one before.
LEMMA MoveKeepsAcyclic ==
    ASSUME Acyclic, NEW u \in Live, NEW p, p \notin Descendants(u),
           Live' = Live, unit'[u].parent \in {unit[u].parent, p},
           \A v \in Live \ {u} : unit'[v].parent = unit[v].parent
    PROVE  Acyclic'
<1> SUFFICES ASSUME NEW S \in SUBSET Live, \A v \in S : unit'[v].parent \in S, S # {}
             PROVE  FALSE
  BY DEF Acyclic
<1>1. CASE \A v \in S : unit'[v].parent = unit[v].parent
  BY <1>1 DEF Acyclic
<1>2. CASE \E v \in S : unit'[v].parent # unit[v].parent
  <2>1. u \in S /\ p \in S
    BY <1>2
  <2>2. S \ Descendants(u) # {}
    BY <2>1
  <2>3. \A v \in S \ Descendants(u) : unit[v].parent \in S \ Descendants(u)
    BY DescendantsClosed
  <2> QED BY <2>2, <2>3 DEF Acyclic
<1> QED BY <1>1, <1>2

\* A change of parent or name.
LEMMA UpdateKeeps ==
    ASSUME Forest, NEW r, r.unit \in Units,
           r.parent \in Units \cup {NoUnit, Keep}, r.name \in UnitNames \cup {Keep},
           r.unit \in Live /\ r.parent \in Live =>
               unit[r.parent].institution = unit[r.unit].institution,
           OneServer /\ r.parent \in Units => r.parent \notin Descendants(r.unit),
           Update(r), servers' = servers
    PROVE  Forest' /\ InstitutionsStay
<1>1. /\ unit' = [v \in Live |->
                     IF v # r.unit THEN unit[v]
                     ELSE [institution |-> unit[v].institution,
                           parent |-> IF r.parent = Keep THEN unit[v].parent ELSE r.parent,
                           name |-> IF r.name = Keep THEN unit[v].name ELSE r.name]]
      /\ \A v \in DOMAIN unit' : unit'[v].parent \in DOMAIN unit' \cup {NoUnit}
      /\ r.unit \in Live
      /\ UNCHANGED <<unborn, membership, home, shared>>
  BY DEF Update, Stored
<1>2. /\ Live' = Live
      /\ \A v \in Live \ {r.unit} : unit'[v] = unit[v]
      /\ unit'[r.unit].institution = unit[r.unit].institution
      /\ unit'[r.unit].parent = IF r.parent = Keep THEN unit[r.unit].parent ELSE r.parent
  BY <1>1 DEF Live
<1>3. \A v \in Live : unit[v] \in Rows
  BY DEF Forest, RowTypes
<1>4. RowTypes'
  <2>1. \A v \in Live : unit'[v] \in Rows
    BY <1>1, <1>3, OrgUnitsAssumption DEF Rows
  <2>2. unit' \in [Live' -> Rows]
    BY <1>1, <1>2, <2>1
  <2> QED BY <1>1, <1>2, <2>2 DEF Forest, RowTypes
<1>5. References'
  BY <1>1, <1>2 DEF Forest, References, Live
<1>6. OneInstitution'
  <2>1. \A v \in Live : unit'[v].institution = unit[v].institution
    BY <1>2
  <2>2. unit'[r.unit].parent \in Live =>
          unit[unit'[r.unit].parent].institution = unit[r.unit].institution
    BY <1>1, <1>2 DEF Forest, OneInstitution
  <2> QED BY <1>2, <2>1, <2>2 DEF Forest, OneInstitution
<1>7. InstitutionsStay
  BY <1>1, <1>2 DEF InstitutionsStay
<1>8. ASSUME OneServer PROVE Acyclic'
  <2>1. CASE r.parent \in Units
    BY <1>1, <1>2, <1>8, <2>1, MoveKeepsAcyclic DEF Forest
  <2>2. CASE r.parent = Keep
    <3>1. \A v \in Live : unit'[v].parent = unit[v].parent
      BY <1>2, <2>2
    <3> QED BY <1>2, <1>8, <3>1 DEF Forest, Acyclic
  <2>3. CASE r.parent = NoUnit
    <3>1. /\ NoUnit \notin Live
          /\ unit'[r.unit].parent = NoUnit
      BY <1>2, <2>3, OrgUnitsAssumption DEF Forest, RowTypes
    <3>2. NoUnit \notin Descendants(r.unit)
      BY <3>1, DescendantsClosed
    <3> QED BY <1>1, <1>2, <1>8, <3>1, <3>2, MoveKeepsAcyclic DEF Forest
  <2> QED BY <2>1, <2>2, <2>3
<1>9. ASSUME OneServer PROVE MembersAtHome'
  <2>1. \A v \in Live : unit'[v].institution = unit[v].institution
    BY <1>2
  <2> QED BY <1>1, <1>9, <2>1 DEF Forest, MembersAtHome, References
<1>10. OneServer' <=> OneServer
  BY DEF OneServer
<1> QED BY <1>4, <1>5, <1>6, <1>7, <1>8, <1>9, <1>10 DEF Forest

\* A subtree goes as a whole.
LEMMA DeleteKeeps ==
    ASSUME Forest, NEW r, Delete(r), servers' = servers
    PROVE  Forest' /\ InstitutionsStay
<1> DEFINE gone == Descendants(r.unit)
<1>1. /\ \A m \in Members : shared[m] \notin gone
      /\ unit' = [v \in Live \ gone |-> unit[v]]
      /\ membership' = {x \in membership : x[2] \notin gone}
      /\ UNCHANGED <<unborn, home, shared>>
  BY DEF Delete
<1>2. Live' = Live \ gone /\ \A v \in Live' : unit'[v] = unit[v]
  BY <1>1 DEF Live
<1>3. \A v \in Live' : unit[v].parent \in Live' \cup {NoUnit}
  BY <1>2, DescendantsClosed DEF Forest, References
<1>4. RowTypes'
  <2>1. unit' \in [Live' -> Rows]
    BY <1>1, <1>2 DEF Forest, RowTypes
  <2> QED BY <1>1, <1>2, <2>1 DEF Forest, RowTypes
<1>5. References'
  BY <1>1, <1>2, <1>3 DEF Forest, References
<1>6. OneInstitution'
  BY <1>2 DEF Forest, OneInstitution
<1>7. InstitutionsStay
  BY <1>1, <1>2 DEF InstitutionsStay
<1>8. ASSUME OneServer PROVE Acyclic'
  <2>1. \A S \in SUBSET Live' : S # {} => \E u \in S : unit'[u].parent \notin S
    BY <1>2, <1>8 DEF Forest, Acyclic
  <2> QED BY <2>1 DEF Acyclic
<1>9. ASSUME OneServer PROVE MembersAtHome'
  <2>1. \A x \in membership' : x[2] \in Live' /\ unit'[x[2]] = unit[x[2]]
    BY <1>1, <1>2, <1>5 DEF References
  <2> QED BY <1>1, <1>9, <2>1 DEF Forest, MembersAtHome
<1>10. OneServer' <=> OneServer
  BY DEF OneServer
<1> QED BY <1>4, <1>5, <1>6, <1>7, <1>8, <1>9, <1>10 DEF Forest

\* Memberships, documents and transfers leave the units as they are.
LEMMA OthersKeep ==
    ASSUME Forest, NEW r \in Requests, servers' = servers,
           OneServer /\ r.op = "assign" =>
               r.unit \in Live /\ home[r.member] = unit[r.unit].institution,
           \/ r.op = "assign" /\ Assign(r)
           \/ r.op = "remove" /\ Dismiss(r)
           \/ r.op = "share" /\ ShareDocument(r)
           \/ r.op = "transfer" /\ Transfer(r)
    PROVE  Forest' /\ InstitutionsStay
<1>1. UNCHANGED <<unit, unborn>> /\ Live' = Live
  BY DEF Assign, Dismiss, ShareDocument, Transfer, Live
<1>2. InstitutionsStay
  BY <1>1 DEF InstitutionsStay
<1>3. OneInstitution' /\ (OneServer' <=> OneServer) /\ (OneServer => Acyclic')
  BY <1>1 DEF Forest, OneInstitution, Acyclic, OneServer
<1>4. CASE r.op = "assign" /\ Assign(r)
  <2>1. /\ r.member \in Members /\ r.unit \in Live
        /\ membership' = membership \cup {<<r.member, r.unit>>}
        /\ UNCHANGED <<home, shared>>
    BY <1>4, RequestShape DEF Assign
  <2>2. RowTypes' /\ References'
    BY <1>1, <2>1 DEF Forest, RowTypes, References
  <2>3. OneServer => MembersAtHome'
    BY <1>1, <1>4, <2>1 DEF Forest, MembersAtHome
  <2> QED BY <1>2, <1>3, <2>2, <2>3 DEF Forest
<1>5. CASE r.op = "remove" /\ Dismiss(r)
  <2>1. membership' \subseteq membership /\ UNCHANGED <<home, shared>>
    BY <1>5 DEF Dismiss
  <2>2. RowTypes' /\ References' /\ (OneServer => MembersAtHome')
    BY <1>1, <2>1 DEF Forest, RowTypes, References, MembersAtHome
  <2> QED BY <1>2, <1>3, <2>2 DEF Forest
<1>6. CASE r.op = "share" /\ ShareDocument(r)
  <2>1. /\ r.unit \in Live \cup {NoUnit} /\ r.unit \in Units \cup {NoUnit}
        /\ shared' = [shared EXCEPT ![r.member] = r.unit]
        /\ UNCHANGED <<home, membership>>
    BY <1>6, RequestShape DEF ShareDocument
  <2>2. RowTypes' /\ References' /\ (OneServer => MembersAtHome')
    BY <1>1, <2>1 DEF Forest, RowTypes, References, MembersAtHome
  <2> QED BY <1>2, <1>3, <2>2 DEF Forest
<1>7. CASE r.op = "transfer" /\ Transfer(r)
  <2>1. /\ home' = [home EXCEPT ![r.member] = r.institution]
        /\ membership' = {x \in membership : x[1] # r.member}
        /\ r.institution \in Institutions /\ shared' = shared
    BY <1>7, RequestShape DEF Transfer
  <2>2. RowTypes' /\ References'
    BY <1>1, <2>1 DEF Forest, RowTypes, References
  <2>3. OneServer => MembersAtHome'
    BY <1>1, <2>1 DEF Forest, RowTypes, MembersAtHome
  <2> QED BY <1>2, <1>3, <2>2, <2>3 DEF Forest
<1> QED BY <1>4, <1>5, <1>6, <1>7

-----------------------------------------------------------------------------
(***************************************************************************)
(* The requests                                                            *)
(***************************************************************************)

\* What one process finds stays true while another one commits.
LEMMA SoundStays ==
    ASSUME Forest, InstitutionsStay, NEW r, SoundRequest(r)
    PROVE  SoundRequest(r)'
BY DEF SoundRequest, InstitutionsStay, Forest, RowTypes

\* A step that only touches the requests.
LEMMA RowsStay ==
    ASSUME Forest, UNCHANGED <<servers, unborn, unit, membership, home, shared>>
    PROVE  /\ Forest' /\ (OneServer' <=> OneServer)
           /\ \A r : SoundRequest(r) => SoundRequest(r)'
           /\ \A r : CheckedRequest(r) => CheckedRequest(r)'
<1>1. Live' = Live
  BY DEF Live
<1>2. RowTypes' /\ References' /\ OneInstitution'
  BY <1>1 DEF Forest, RowTypes, References, OneInstitution
<1>3. /\ OneServer' <=> OneServer
      /\ OneServer => Acyclic' /\ MembersAtHome'
  BY <1>1 DEF Forest, OneServer, Acyclic, MembersAtHome
<1>4. ASSUME NEW r, SoundRequest(r) PROVE SoundRequest(r)'
  BY <1>1, <1>4 DEF SoundRequest
<1>5. ASSUME NEW r, CheckedRequest(r) PROVE CheckedRequest(r)'
  <2>1. Descendants(r.unit)' = Descendants(r.unit)
    BY <1>1 DEF Descendants, ClosedBelow
  <2> QED BY <1>1, <1>5, <2>1 DEF CheckedRequest
<1> QED BY <1>2, <1>3, <1>4, <1>5 DEF Forest

\* A new request is of a known shape, and its checks hold.
LEMMA AskKeeps ==
    ASSUME OrgInv, NEW w \in Servers, NEW r \in Requests, Ask(w, r),
           SoundRequest(r), CheckedRequest(r)
    PROVE  OrgInv'
<1>1. /\ request' = [request EXCEPT ![w] = r] /\ w \in servers
      /\ UNCHANGED <<servers, unborn, unit, membership, home, shared>>
  BY DEF Ask
<1>2. /\ Forest' /\ (OneServer' <=> OneServer)
      /\ \A q : SoundRequest(q) => SoundRequest(q)'
      /\ \A q : CheckedRequest(q) => CheckedRequest(q)'
  BY <1>1, RowsStay DEF OrgInv
<1>3. /\ RequestTypes'
      /\ \A v \in Servers : request'[v] = IF v = w THEN r ELSE request[v]
  BY <1>1 DEF OrgInv, RequestTypes
<1>4. ASSUME NEW v \in Servers, request'[v] # Idle
      PROVE  v \in servers' /\ SoundRequest(request[v])'
  <2>1. PICK q : q = request'[v] /\ SoundRequest(q) /\ v \in servers
    BY <1>1, <1>3, <1>4 DEF OrgInv
  <2>2. SoundRequest(q)'
    BY <1>2, <2>1
  <2> QED BY <1>1, <2>1, <2>2 DEF SoundRequest
<1>5. ASSUME OneServer, NEW v \in servers, request'[v] # Idle
      PROVE  CheckedRequest(request[v])'
  <2>1. v = w /\ request'[v] = r
    BY <1>1, <1>3, <1>5 DEF OneServer
  <2>2. CheckedRequest(r)'
    BY <1>2
  <2> QED BY <2>1, <2>2 DEF CheckedRequest
<1> QED BY <1>1, <1>2, <1>3, <1>4, <1>5 DEF OrgInv

\* What the first half of every request checks.
LEMMA BeginKeeps ==
    ASSUME OrgInv, NEW w \in Servers, Begin(w)
    PROVE  OrgInv'
<1>1. /\ Live \subseteq Units \ unborn /\ NoUnit \notin Units
      /\ Keep \notin Units \cup {NoUnit} /\ unborn \subseteq Units
      /\ \A u \in Live : unit[u] \in Rows
  BY OrgUnitsAssumption DEF OrgInv, Forest, RowTypes
<1>2. ASSUME NEW row \in Rows, BeginCreate(w, row) PROVE OrgInv'
  <2> DEFINE r == [op |-> "create", row |-> row]
  <2>1. r \in Requests /\ r.op = "create" /\ r.row = row
    BY DEF Requests
  <2>2. SoundRequest(r) /\ CheckedRequest(r)
    BY <1>1, <1>2, <2>1 DEF SoundRequest, CheckedRequest, BeginCreate, ParentAllowed
  <2> QED BY <1>2, <2>1, <2>2, AskKeeps DEF BeginCreate
<1>3. ASSUME NEW u \in Units, NEW p \in Units \cup {NoUnit, Keep},
             NEW name \in UnitNames \cup {Keep}, BeginUpdate(w, u, p, name)
      PROVE  OrgInv'
  <2> DEFINE r == [op |-> "update", unit |-> u,
                   parent |-> IF p = unit[u].parent THEN Keep ELSE p,
                   name |-> IF name = unit[u].name THEN Keep ELSE name]
  <2>1. r \in Requests /\ r.op = "update" /\ r.unit = u /\ r.parent \in {Keep, p}
    BY DEF Requests
  <2>2. /\ u \in Live
        /\ p # Keep => ParentAllowed(p, unit[u].institution) /\ ~WouldCreateCycle(u, p)
    BY <1>3 DEF BeginUpdate
  <2>3. SoundRequest(r)
    BY <1>1, <2>1, <2>2 DEF SoundRequest, ParentAllowed
  <2>4. CheckedRequest(r)
    BY <1>1, <2>1, <2>2 DEF CheckedRequest, WouldCreateCycle
  <2>5. Ask(w, r)
    BY <1>3 DEF BeginUpdate
  <2> QED BY <2>1, <2>3, <2>4, <2>5, AskKeeps
<1>4. ASSUME NEW u \in Units, BeginDelete(w, u) PROVE OrgInv'
  <2> DEFINE r == [op |-> "delete", unit |-> u]
  <2>1. r \in Requests /\ SoundRequest(r) /\ CheckedRequest(r)
    BY DEF Requests, SoundRequest, CheckedRequest
  <2> QED BY <1>4, <2>1, AskKeeps DEF BeginDelete
<1>5. ASSUME NEW u \in Units, NEW m \in Members, BeginAssign(w, m, u) PROVE OrgInv'
  <2> DEFINE r == [op |-> "assign", member |-> m, unit |-> u]
  <2>1. r \in Requests /\ SoundRequest(r)
    BY DEF Requests, SoundRequest
  <2>2. CheckedRequest(r)
    BY <1>5 DEF CheckedRequest, BeginAssign
  <2> QED BY <1>5, <2>1, <2>2, AskKeeps DEF BeginAssign
<1>6. ASSUME NEW u \in Units, NEW m \in Members, BeginRemove(w, m, u) PROVE OrgInv'
  <2> DEFINE r == [op |-> "remove", member |-> m, unit |-> u]
  <2>1. r \in Requests /\ SoundRequest(r) /\ CheckedRequest(r)
    BY DEF Requests, SoundRequest, CheckedRequest
  <2> QED BY <1>6, <2>1, AskKeeps DEF BeginRemove
<1>7. ASSUME NEW m \in Members, NEW u \in Units \cup {NoUnit}, BeginShare(w, m, u)
      PROVE  OrgInv'
  <2> DEFINE r == [op |-> "share", member |-> m, unit |-> u]
  <2>1. r \in Requests /\ SoundRequest(r) /\ CheckedRequest(r)
    BY DEF Requests, SoundRequest, CheckedRequest
  <2> QED BY <1>7, <2>1, AskKeeps DEF BeginShare
<1>8. ASSUME NEW m \in Members, NEW i \in Institutions, BeginTransfer(w, m, i)
      PROVE  OrgInv'
  <2> DEFINE r == [op |-> "transfer", member |-> m, institution |-> i]
  <2>1. r \in Requests /\ SoundRequest(r) /\ CheckedRequest(r)
    BY DEF Requests, SoundRequest, CheckedRequest
  <2> QED BY <1>8, <2>1, AskKeeps DEF BeginTransfer
<1> QED BY <1>2, <1>3, <1>4, <1>5, <1>6, <1>7, <1>8 DEF Begin

\* The second half.
LEMMA CommitKeeps ==
    ASSUME OrgInv, NEW w \in Servers, Commit(w)
    PROVE  OrgInv'
<1> DEFINE r == request[w]
<1>1. /\ r \in Requests /\ w \in servers /\ SoundRequest(r)
      /\ OneServer => CheckedRequest(r)
      /\ request' = [request EXCEPT ![w] = Idle] /\ servers' = servers
      /\ Forest
  BY DEF Commit, OrgInv, RequestTypes
<1>2. Forest' /\ InstitutionsStay
  <2>1. CASE r.op = "create" /\ Create(r)
    BY <1>1, <2>1, RequestShape, CreateKeeps DEF SoundRequest
  <2>2. CASE r.op = "update" /\ Update(r)
    BY <1>1, <2>2, RequestShape, UpdateKeeps DEF SoundRequest, CheckedRequest
  <2>3. CASE r.op = "delete" /\ Delete(r)
    BY <1>1, <2>3, DeleteKeeps
  <2>4. CASE \/ r.op = "assign" /\ Assign(r)
             \/ r.op = "remove" /\ Dismiss(r)
             \/ r.op = "share" /\ ShareDocument(r)
             \/ r.op = "transfer" /\ Transfer(r)
    BY <1>1, <2>4, OthersKeep DEF CheckedRequest
  <2> QED BY <2>1, <2>2, <2>3, <2>4 DEF Commit
<1>3. /\ RequestTypes'
      /\ \A v \in Servers : request'[v] = IF v = w THEN Idle ELSE request[v]
      /\ OneServer' <=> OneServer
  BY <1>1 DEF OrgInv, RequestTypes, OneServer
<1>4. ASSUME NEW v \in Servers, request'[v] # Idle
      PROVE  v \in servers' /\ SoundRequest(request[v])'
  <2>1. PICK q : q = request'[v] /\ SoundRequest(q) /\ v \in servers
    BY <1>3, <1>4 DEF OrgInv
  <2>2. SoundRequest(q)'
    BY <1>1, <1>2, <2>1, SoundStays
  <2> QED BY <1>1, <2>1, <2>2 DEF SoundRequest
<1>5. ASSUME OneServer, NEW v \in servers PROVE request'[v] = Idle
  BY <1>1, <1>3, <1>5 DEF OneServer, OrgInv, RequestTypes
<1> QED BY <1>1, <1>2, <1>3, <1>4, <1>5 DEF OrgInv

\* A refused request leaves no trace.
LEMMA RollbackKeeps ==
    ASSUME OrgInv, NEW w \in Servers, Rollback(w)
    PROVE  OrgInv'
<1>1. /\ request' = [request EXCEPT ![w] = Idle]
      /\ UNCHANGED <<servers, unborn, unit, membership, home, shared>>
  BY DEF Rollback
<1>2. /\ Forest' /\ (OneServer' <=> OneServer)
      /\ \A q : SoundRequest(q) => SoundRequest(q)'
      /\ \A q : CheckedRequest(q) => CheckedRequest(q)'
  BY <1>1, RowsStay DEF OrgInv
<1>3. /\ RequestTypes'
      /\ \A v \in Servers : request'[v] # Idle => request'[v] = request[v]
  BY <1>1 DEF OrgInv, RequestTypes
<1>4. ASSUME NEW v \in Servers, request'[v] # Idle
      PROVE  v \in servers' /\ SoundRequest(request[v])'
  <2>1. PICK q : q = request'[v] /\ SoundRequest(q) /\ v \in servers
    BY <1>3, <1>4 DEF OrgInv
  <2>2. SoundRequest(q)'
    BY <1>2, <2>1
  <2> QED BY <1>1, <2>1, <2>2 DEF SoundRequest
<1>5. ASSUME OneServer, NEW v \in servers, request'[v] # Idle
      PROVE  CheckedRequest(request[v])'
  <2>1. PICK q : q = request'[v] /\ CheckedRequest(q)
    BY <1>3, <1>5 DEF OrgInv, RequestTypes
  <2>2. CheckedRequest(q)'
    BY <1>2, <2>1
  <2> QED BY <2>1, <2>2 DEF CheckedRequest
<1> QED BY <1>1, <1>2, <1>3, <1>4, <1>5 DEF OrgInv

-----------------------------------------------------------------------------
(***************************************************************************)
(* The theorem                                                             *)
(***************************************************************************)

\* At first there are no units and nothing is asked.
LEMMA InitOrg == OrgInit => OrgInv
<1> SUFFICES ASSUME OrgInit PROVE OrgInv
  OBVIOUS
<1>1. Live = {} /\ membership = {} /\ \A w \in Servers : request[w] = Idle
  BY DEF OrgInit, Live
<1>2. Forest
  BY <1>1 DEF OrgInit, Forest, RowTypes, References, OneInstitution, Acyclic, MembersAtHome
<1>3. RequestTypes
  BY DEF OrgInit, RequestTypes
<1> QED BY <1>1, <1>2, <1>3 DEF OrgInv, RequestTypes

\* Every step keeps the invariant.
LEMMA StepOrg == OrgInv /\ [OrgNext]_orgVars => OrgInv'
<1> SUFFICES ASSUME OrgInv, [OrgNext]_orgVars PROVE OrgInv'
  OBVIOUS
<1>1. CASE OrgNext
  BY <1>1, BeginKeeps, CommitKeeps, RollbackKeeps DEF OrgNext
<1>2. CASE UNCHANGED orgVars
  <2>1. UNCHANGED <<servers, unborn, unit, membership, home, shared>> /\ request' = request
    BY <1>2 DEF orgVars
  <2>2. /\ Forest' /\ (OneServer' <=> OneServer) /\ RequestTypes'
        /\ \A q : SoundRequest(q) => SoundRequest(q)'
        /\ \A q : CheckedRequest(q) => CheckedRequest(q)'
    BY <2>1, RowsStay DEF OrgInv, RequestTypes
  <2>3. ASSUME NEW v \in Servers, request[v] # Idle
        PROVE  v \in servers /\ SoundRequest(request[v])'
    <3>1. PICK q : q = request[v] /\ SoundRequest(q) /\ v \in servers
      BY <2>3 DEF OrgInv
    <3>2. SoundRequest(q)'
      BY <2>2, <3>1
    <3> QED BY <2>1, <3>1, <3>2 DEF SoundRequest
  <2>4. ASSUME OneServer, NEW v \in servers, request[v] # Idle
        PROVE  CheckedRequest(request[v])'
    <3>1. PICK q : q = request[v] /\ CheckedRequest(q)
      BY <2>4 DEF OrgInv
    <3>2. CheckedRequest(q)'
      BY <2>2, <3>1
    <3> QED BY <2>1, <3>1, <3>2 DEF CheckedRequest
  <2> QED BY <2>1, <2>2, <2>3, <2>4 DEF OrgInv
<1> QED BY <1>1, <1>2

\* No reference dangles and no unit hangs in another institution, for any
\* number of server processes; with one process there is also no cycle, and
\* nobody is a member away from home (org_unit_service.py, transfer_user).
THEOREM HierarchyStaysSound == OrgSpec => []HierarchySound
<1>1. OrgInv => HierarchySound
  BY DEF OrgInv, Forest, HierarchySound
<1> QED BY <1>1, InitOrg, StepOrg, PTL DEF OrgSpec

\* The types hold.
THEOREM OrgTypesKept == OrgSpec => []TypesOfOrg
<1>1. OrgInv => TypesOfOrg
  BY DEF OrgInv, Forest, RowTypes, RequestTypes, TypesOfOrg
<1> QED BY <1>1, InitOrg, StepOrg, PTL DEF OrgSpec

-----------------------------------------------------------------------------

(***************************************************************************)
(* Tags                                                                    *)
(***************************************************************************)

TagTypes ==
    /\ DOMAIN tags \subseteq Tags /\ tags \in [DOMAIN tags -> TagRows]
    /\ links \subseteq Items \X Tags

LabelStep ==
    /\ UniqueNames(tags) => UniqueNames(tags')
    /\ (\/ \E t \in Tags : DeleteTag(t)
        \/ \E to \in Campuses, moved \in SUBSET (Questions \cup Documents) :
              TransferMover(to, moved))
          => \A q \in Questions : Labels(q)' = Labels(q)

\* Each row has its fields, whatever merges and moves it.
LEMMA TagTypesStep ==
    ASSUME TagTypes, [TagsNext]_tagVars
    PROVE  TagTypes'
<1> USE DEF TagTypes, TagRows
<1>1. CASE UNCHANGED tagVars
  BY <1>1 DEF tagVars
<1>2. ASSUME NEW c \in Campuses, NEW name \in TagNames, NEW kind \in Kinds,
             NEW mine \in BOOLEAN, CreateTag(c, name, kind, mine)
      PROVE  TagTypes'
  BY <1>2 DEF CreateTag
<1>3. ASSUME NEW t \in Tags, NEW name \in TagNames, RenameTag(t, name)
      PROVE  TagTypes'
  BY <1>3 DEF RenameTag, Stays
<1>4. ASSUME NEW t \in Tags, NEW archived \in BOOLEAN, ArchiveTag(t, archived)
      PROVE  TagTypes'
  BY <1>4 DEF ArchiveTag, Stays
<1>5. ASSUME NEW t \in Tags, DeleteTag(t)
      PROVE  TagTypes'
  BY <1>5 DEF DeleteTag
<1>6. ASSUME NEW t \in Tags, NEW S \in SUBSET Tags, MergeTags(S, t)
      PROVE  TagTypes'
  <2>1. tags' \in [DOMAIN tags' -> TagRows] /\ DOMAIN tags' = DOMAIN tags
    BY <1>6 DEF MergeTags
  <2>2. links' \subseteq Items \X Tags
    BY <1>6 DEF MergeTags, Items
  <2> QED
    BY <2>1, <2>2
<1>7. ASSUME NEW to \in Campuses, NEW moved \in SUBSET (Questions \cup Documents),
             TransferMover(to, moved)
      PROVE  TagTypes'
  <2>1. CASE UNCHANGED <<tags, links>>
    BY <2>1
  <2>2. ASSUME NEW into \in Merges(moverCampus, to), links' = Repointed(into),
               tags' = [t \in {t \in DOMAIN tags : t \in DOMAIN into => into[t] = t} |->
                   IF t \in DOMAIN into THEN [tags[t] EXCEPT !.campus = to] ELSE tags[t]]
        PROVE  TagTypes'
    <3>1. \A t \in DOMAIN into : into[t] \in Tags
      BY DEF Merges
    <3>2. links' \subseteq Items \X Tags
      BY <2>2, <3>1 DEF Repointed
    <3>3. DOMAIN tags' \subseteq Tags /\ tags' \in [DOMAIN tags' -> TagRows]
      BY <2>2
    <3> QED
      BY <3>2, <3>3
  <2> QED
    BY <1>7, <2>1, <2>2 DEF TransferMover
<1>8. ASSUME NEW q \in Questions, NEW T \in SUBSET Tags, TagQuestion(q, T)
      PROVE  TagTypes'
  BY <1>8 DEF TagQuestion, Items
<1>9. ASSUME NEW t \in Tags, NEW i \in Items, UNCHANGED tags,
             links' \in {links \cup {<<i, t>>}, links \ {<<i, t>>}}
      PROVE  TagTypes'
  BY <1>9
<1>10. ASSUME NEW t \in Tags, NEW d \in Documents, TagDocument(d, t)
       PROVE  TagTypes'
  BY <1>9, <1>10 DEF TagDocument, Items
<1>11. ASSUME NEW t \in Tags, NEW p \in Prompts, TagPrompt(p, t)
       PROVE  TagTypes'
  BY <1>9, <1>11 DEF TagPrompt, Items
<1>12. ASSUME NEW t \in Tags, NEW i \in Items, Untag(i, t)
       PROVE  TagTypes'
  BY <1>9, <1>12 DEF Untag
<1> HIDE DEF TagTypes, TagRows
<1> QED
  BY <1>1, <1>2, <1>3, <1>4, <1>5, <1>6, <1>7, <1>8, <1>10, <1>11, <1>12 DEF TagsNext

\* Nobody but a merge asks whether a name is taken twice, so each step must.
LEMMA NamesStayUnique ==
    ASSUME TagTypes, [TagsNext]_tagVars, UniqueNames(tags)
    PROVE  UniqueNames(tags')
<1> USE DEF TagTypes, TagRows, UniqueNames
<1>1. CASE UNCHANGED tagVars
  BY <1>1 DEF tagVars
<1>2. ASSUME NEW c \in Campuses, NEW name \in TagNames, NEW kind \in Kinds,
             NEW mine \in BOOLEAN, CreateTag(c, name, kind, mine)
      PROVE  UniqueNames(tags')
  BY <1>2 DEF CreateTag, Same
<1>3. ASSUME NEW t \in Tags, NEW name \in TagNames, RenameTag(t, name)
      PROVE  UniqueNames(tags')
  BY <1>3 DEF RenameTag, Stays, Same
<1>4. ASSUME NEW t \in Tags, NEW archived \in BOOLEAN, ArchiveTag(t, archived)
      PROVE  UniqueNames(tags')
  BY <1>4 DEF ArchiveTag, Stays
<1>5. ASSUME NEW t \in Tags, DeleteTag(t)
      PROVE  UniqueNames(tags')
  BY <1>5 DEF DeleteTag
<1>6. ASSUME NEW t \in Tags, NEW S \in SUBSET Tags, MergeTags(S, t)
      PROVE  UniqueNames(tags')
  BY <1>6 DEF MergeTags
<1>7. ASSUME NEW to \in Campuses, NEW moved \in SUBSET (Questions \cup Documents),
             TransferMover(to, moved)
      PROVE  UniqueNames(tags')
  BY <1>7, Zenon DEF TransferMover
<1>8. ASSUME UNCHANGED tags
      PROVE  UniqueNames(tags')
  BY <1>8
<1>9. \A q, T : TagQuestion(q, T) => UNCHANGED tags
  BY DEF TagQuestion
<1>10. \A i, t : TagDocument(i, t) \/ TagPrompt(i, t) \/ Untag(i, t) => UNCHANGED tags
  BY DEF TagDocument, TagPrompt, Untag
<1> HIDE DEF TagTypes, TagRows, UniqueNames
<1> QED
  BY <1>1, <1>2, <1>3, <1>4, <1>5, <1>6, <1>7, <1>8, <1>9, <1>10, Zenon DEF TagsNext

\* A merged tag hands its links of questions to one of its own name that stays.
LEMMA MovingKeepsLabels ==
    ASSUME TagTypes, NEW to \in Campuses, to # moverCampus,
           NEW into \in Merges(moverCampus, to), links' = Repointed(into),
           tags' = [t \in {t \in DOMAIN tags : t \in DOMAIN into => into[t] = t} |->
                       IF t \in DOMAIN into THEN [tags[t] EXCEPT !.campus = to] ELSE tags[t]],
           NEW q \in Questions
    PROVE  Labels(q)' = Labels(q)
<1> DEFINE heir(t) == IF t \in DOMAIN into THEN into[t] ELSE t
<1>1. DOMAIN into = Moving(moverCampus) /\ Moving(moverCampus) \subseteq DOMAIN tags
  BY DEF Merges, Moving
<1>2. \A t \in DOMAIN tags :
         /\ heir(t) \in DOMAIN tags /\ tags[heir(t)].name = tags[t].name
         /\ heir(t) \in DOMAIN into => into[heir(t)] = heir(t)
  BY <1>1 DEF Merges, Existing, Moving
<1>3. \A t \in DOMAIN tags' : t \in DOMAIN tags /\ tags'[t].name = tags[t].name
  BY DEF TagTypes, TagRows
<1>4. \A t \in DOMAIN tags : heir(t) \in DOMAIN tags'
  BY <1>2
<1>5. \A t : <<q, t>> \in links => <<q, heir(t)>> \in links'
  BY DEF Repointed
<1>6. ASSUME NEW u, <<q, u>> \in links', u \in DOMAIN tags'
      PROVE  \E t \in DOMAIN tags : <<q, t>> \in links /\ tags[t].name = tags'[u].name
  <2>1. PICK x \in links : <<q, u>> = <<x[1], heir(x[2])>> /\ x = <<x[1], x[2]>>
    BY <1>6 DEF Repointed, TagTypes
  <2>2. <<q, x[2]>> \in links /\ u = heir(x[2])
    BY <2>1
  <2>3. x[2] \in DOMAIN tags
    BY <1>1, <1>3, <1>6, <2>2
  <2> QED
    BY <1>2, <1>3, <1>6, <2>2, <2>3
<1> HIDE DEF heir
<1>7. ASSUME NEW t \in DOMAIN tags, <<q, t>> \in links
      PROVE  \E u \in DOMAIN tags' : <<q, u>> \in links' /\ tags'[u].name = tags[t].name
  <2>1. heir(t) \in DOMAIN tags' /\ <<q, heir(t)>> \in links'
    BY <1>4, <1>5, <1>7
  <2>2. tags'[heir(t)].name = tags[t].name
    BY <1>2, <1>3, <2>1
  <2> QED
    BY <2>1, <2>2
<1>8. Labels(q) = {tags[t].name : t \in {s \in DOMAIN tags : <<q, s>> \in links}}
  BY DEF Labels
<1>9. Labels(q)' = {tags'[t].name : t \in {s \in DOMAIN tags' : <<q, s>> \in links'}}
  BY DEF Labels
<1>10. Labels(q) \subseteq Labels(q)'
  <2> SUFFICES ASSUME NEW t \in DOMAIN tags, <<q, t>> \in links
               PROVE  tags[t].name \in Labels(q)'
    BY <1>8
  <2>1. PICK u \in DOMAIN tags' : <<q, u>> \in links' /\ tags'[u].name = tags[t].name
    BY <1>7
  <2> QED
    BY <1>9, <2>1
<1>11. Labels(q)' \subseteq Labels(q)
  BY <1>6, <1>8, <1>9
<1> QED
  BY <1>10, <1>11

LEMMA TagsStep ==
    ASSUME TagTypes, [TagsNext]_tagVars
    PROVE  LabelStep
<1>1. ASSUME NEW t \in Tags, DeleteTag(t), NEW q \in Questions
      PROVE  Labels(q)' = Labels(q)
  <2>1. <<q, t>> \notin links
    BY <1>1 DEF DeleteTag, Deletable, LinkedTo
  <2>2. /\ DOMAIN tags' = DOMAIN tags \ {t}
        /\ \A s \in DOMAIN tags' : tags'[s] = tags[s]
        /\ \A s : <<q, s>> \in links' <=> <<q, s>> \in links /\ s # t
    BY <1>1, <2>1 DEF DeleteTag
  <2> QED
    BY <2>1, <2>2 DEF Labels
<1>2. ASSUME NEW to \in Campuses, NEW moved \in SUBSET (Questions \cup Documents),
             TransferMover(to, moved), NEW q \in Questions
      PROVE  Labels(q)' = Labels(q)
  <2>1. CASE UNCHANGED <<tags, links>>
    BY <2>1 DEF Labels
  <2>2. CASE ~UNCHANGED <<tags, links>>
    BY <1>2, <2>2, MovingKeepsLabels DEF TransferMover
  <2> QED
    BY <2>1, <2>2
<1> QED
  BY <1>1, <1>2, NamesStayUnique, Zenon DEF LabelStep

\* Labels survive a transfer of their creator and the deletion of a tag, and no
\* institution gets a name twice, for any tags, items and institutions.
THEOREM LabelsStay == TagsSpec => LabelsKept
<1>1. TagsInit => TagTypes
  BY DEF TagsInit, TagTypes, TagRows
<1>2. TagTypes /\ [TagsNext]_tagVars => TagTypes'
  BY TagTypesStep
<1>3. TagTypes /\ [TagsNext]_tagVars => [LabelStep]_tagVars
  BY TagsStep
<1> QED
  BY <1>1, <1>2, <1>3, PTL DEF TagsSpec, LabelsKept, LabelStep

-----------------------------------------------------------------------------

(***************************************************************************)
(* The plan.  PlanMatchesProvider speaks of an empty queue only.  While    *)
(* events wait, what holds is that the last of them will put right what the*)
(* rows, the tier and the role do not yet say: the last event of a plan    *)
(* tells its status (RowFollows), the last one that sets the tier or the   *)
(* role sets the right one (TierFollows, RoleFollows), and no event comes  *)
(* before the checkout that makes its row (RowComes).                      *)
(***************************************************************************)

EventKinds == {"checkout", "created", "updated", "deleted"}
EventRecords == [kind : EventKinds, plan : Plans, status : LiveStatuses \cup {"canceled"},
                 price : PlanPrices]

Paid(s) == provider[s].status \notin {"none", "open"}

\* What an event says can have been true when it was sent.
SoundEvent(e) ==
    /\ Paid(e.plan)
    /\ e.kind = "created" => e.status = "active"
    /\ e.kind = "updated" => e.status \in LiveStatuses
    /\ e.kind = "deleted" => provider[e.plan].status = "canceled"

ProviderTypes ==
    /\ provider \in [Plans -> [status : {"none", "open", "canceled", "active", "past_due"},
                               price : PlanPrices \cup {"none"}]]
    /\ \A s \in Plans : provider[s].status # "none" => provider[s].price \in PlanPrices

BillingTypes ==
    /\ ProviderTypes
    /\ events \in Seq(EventRecords)
    /\ emitted \in Nat /\ lostAcks \in Nat
    /\ sub \in [Plans -> {"none", "canceled"} \cup LiveStatuses]
    /\ tier \in Tiers /\ limits = tier /\ lecturer \in BOOLEAN
    /\ excuses \subseteq Excuses
    /\ \A i \in 1..Len(events) : SoundEvent(events[i])

OneLive == \A s, t \in LivePlans : s = t

\* A plan without a row still has its checkout to come, and before that
\* nothing that needs the row.
RowComes(s) ==
    Paid(s) /\ sub[s] = "none" =>
        \E j \in 1..Len(events) :
            /\ events[j].kind = "checkout" /\ events[j].plan = s
            /\ \A i \in 1..Len(events) :
                  events[i].plan = s /\ events[i].kind \in {"updated", "deleted"} => j < i

\* The last event of a plan tells its present status.
RowFollows(s) ==
    Paid(s) =>
        \/ /\ \A i \in 1..Len(events) : events[i].plan # s
           /\ sub[s] = provider[s].status
        \/ \E m \in 1..Len(events) :
              /\ events[m].plan = s /\ events[m].status = provider[s].status
              /\ \A k \in 1..Len(events) : k > m => events[k].plan # s

SetsTier == {"checkout", "updated", "deleted"}
SetsRole == {"checkout", "deleted"}

Ordered == IF LivePlans = {} THEN "free"
           ELSE TierOf[provider[CHOOSE s \in LivePlans : TRUE].price]

\* The last event that sets the tier sets what is paid for now.
Confirms(e) ==
    /\ e.kind = "deleted" => LivePlans = {}
    /\ e.kind # "deleted" => LivePlans = {e.plan}
    /\ e.kind = "updated" => e.price = provider[e.plan].price

TierFollows ==
    \/ /\ \A i \in 1..Len(events) : events[i].kind \notin SetsTier
       /\ tier = Ordered
    \/ \E m \in 1..Len(events) :
          /\ events[m].kind \in SetsTier /\ Confirms(events[m])
          /\ \A k \in 1..Len(events) : k > m => events[k].kind \notin SetsTier

RightRole ==
    /\ LivePlans # {} => lecturer
    /\ LivePlans = {} /\ (\E s \in Plans : sub[s] = "canceled") => (lecturer => OwnerIsAdmin)

RoleFollows ==
    \/ /\ \A i \in 1..Len(events) : events[i].kind \notin SetsRole
       /\ RightRole
    \/ \E m \in 1..Len(events) :
          /\ events[m].kind \in SetsRole
          /\ events[m].kind = "deleted" <=> LivePlans = {}
          /\ \A k \in 1..Len(events) : k > m => events[k].kind \notin SetsRole

Follows ==
    /\ OneLive /\ TierFollows /\ RoleFollows
    /\ \A s \in Plans : RowComes(s) /\ RowFollows(s)

BillingInv ==
    /\ BillingTypes
    /\ excuses = {} => Follows

-----------------------------------------------------------------------------
\* The queue of the provider, and what a delivery takes from it.

\* New events stand behind those that wait.
LEMMA EventsAppended ==
    ASSUME NEW S, NEW q \in Seq(S), NEW new \in Seq(S)
    PROVE  /\ q \o new \in Seq(S)
           /\ Len(q \o new) = Len(q) + Len(new)
           /\ \A i \in 1..Len(q) : (q \o new)[i] = q[i]
           /\ \A i \in 1..Len(new) : (q \o new)[Len(q) + i] = new[i]
  BY ConcatProperties, LenProperties, SMT

\* The event n is taken and those behind it move up.
LEMMA OneTaken ==
    ASSUME NEW S, NEW q \in Seq(S), NEW n \in 1..Len(q)
    PROVE  /\ RemoveAt(q, n) \in Seq(S)
           /\ Len(RemoveAt(q, n)) + 1 = Len(q)
           /\ \A i \in 1..Len(RemoveAt(q, n)) :
                 RemoveAt(q, n)[i] = q[IF i < n THEN i ELSE i + 1]
  <1>. DEFINE a == SubSeq(q, 1, n - 1)  b == SubSeq(q, n + 1, Len(q))
  <1>1. Len(q) \in Nat /\ n \in Nat
    BY LenProperties
  <1>2. a \in Seq(S) /\ Len(a) = n - 1 /\ \A i \in 1..Len(a) : a[i] = q[i]
    BY <1>1, SMT
  <1>3. b \in Seq(S) /\ Len(b) = Len(q) - n /\ \A i \in 1..Len(b) : b[i] = q[i + n]
    BY <1>1, SMT
  <1>4. RemoveAt(q, n) = a \o b
    BY <1>1, SMT DEF RemoveAt
  <1>. HIDE DEF a, b
  <1>5. /\ a \o b \in Seq(S)
        /\ Len(a \o b) = Len(a) + Len(b)
        /\ \A i \in 1..Len(a) : (a \o b)[i] = a[i]
        /\ \A i \in 1..Len(b) : (a \o b)[Len(a) + i] = b[i]
    <2>1. a \in Seq(S) /\ b \in Seq(S)
      BY <1>2, <1>3
    <2>. QED
      BY <2>1, EventsAppended
  <1>6. /\ Len(a) = n - 1 /\ Len(b) = Len(q) - n /\ Len(a \o b) = Len(a) + Len(b)
        /\ Len(a) \in Nat /\ Len(b) \in Nat
    BY <1>1, <1>2, <1>3, <1>5, LenProperties
  <1>7. ASSUME NEW i \in 1..Len(a \o b)
        PROVE  (a \o b)[i] = q[IF i < n THEN i ELSE i + 1]
    <2>1. CASE i < n
      BY <2>1, <1>1, <1>2, <1>5, SMT
    <2>2. CASE ~(i < n)
      <3>1. i - Len(a) \in 1..Len(b) /\ i = Len(a) + (i - Len(a))
        BY <2>2, <1>1, <1>6, SMT
      <3>2. (a \o b)[i] = b[i - Len(a)]
        BY <3>1, <1>5
      <3>3. b[i - Len(a)] = q[i - Len(a) + n]
        BY <3>1, <1>3, SMTT(30)
      <3>4. i - Len(a) + n = i + 1
        BY <3>1, <1>1, <1>6, SMT
      <3>. QED
        BY <2>2, <3>2, <3>3, <3>4
    <2>. QED
      BY <2>1, <2>2
  <1>8. Len(a \o b) + 1 = Len(q)
    BY <1>1, <1>6, SMT
  <1>. QED
    BY <1>4, <1>5, <1>7, <1>8

-----------------------------------------------------------------------------
\* What a snapshot of a paid plan tells is an event of the queue.
LEMMA SnapshotTyped ==
    ASSUME NEW s \in Plans, NEW k \in EventKinds,
           provider'[s].status \in LiveStatuses \cup {"canceled"},
           provider'[s].price \in PlanPrices
    PROVE  /\ Snapshot(k, s) \in EventRecords
           /\ Snapshot(k, s).kind = k /\ Snapshot(k, s).plan = s
           /\ Snapshot(k, s).status = provider'[s].status
           /\ Snapshot(k, s).price = provider'[s].price
  BY SMT DEF Snapshot, EventRecords, LiveStatuses

\* What stands in the queue is an event of some plan.
LEMMA EventTyped ==
    ASSUME NEW q \in Seq(EventRecords), NEW i \in 1..Len(q)
    PROVE  /\ q[i] \in EventRecords
           /\ q[i].plan \in Plans /\ q[i].kind \in EventKinds
           /\ q[i].status \in LiveStatuses \cup {"canceled"} /\ q[i].price \in PlanPrices
  <1>1. q[i] \in EventRecords
    BY ElementOfSeq
  <1>. QED
    BY <1>1, SMT DEF EventRecords

\* Types and the truth of the waiting events, action by action.
LEMMA TypesOpen ==
    ASSUME BillingTypes, NEW s \in Plans, NEW p \in PlanPrices, OpenCheckout(s, p)
    PROVE  BillingTypes'
  <1>0. events \in Seq(EventRecords) /\ Len(events) \in Nat
    BY LenProperties DEF BillingTypes
  <1>1. provider' = [provider EXCEPT ![s] = [status |-> "open", price |-> p]]
    BY DEF OpenCheckout
  <1>2. /\ ProviderTypes'
        /\ \A t \in Plans : t # s => provider'[t] = provider[t]
    BY <1>1, SMT DEF BillingTypes, ProviderTypes
  <1>3. provider[s].status = "none"
    BY DEF OpenCheckout
  <1>4. UNCHANGED <<events, emitted, lostAcks, sub, tier, limits, lecturer, excuses>>
    BY DEF OpenCheckout
  <1>5. ASSUME NEW i \in 1..Len(events)
        PROVE  SoundEvent(events[i])'
    <2>1. SoundEvent(events[i])
      BY DEF BillingTypes
    <2>2. events[i].plan # s
      BY <2>1, <1>3 DEF SoundEvent, Paid
    <2>3. events[i].plan \in Plans
      BY <1>0, EventTyped
    <2>. QED
      BY <2>1, <2>2, <2>3, <1>2, <1>4, SMT DEF SoundEvent, Paid
  <1>. QED
    BY <1>2, <1>4, <1>5, SMT DEF BillingTypes

\* What one call of Emit does to the queue.
LEMMA EmitStep ==
    ASSUME BillingTypes, NEW new \in Seq(EventRecords), Emit(new)
    PROVE  /\ events' \in Seq(EventRecords)
           /\ Len(events) \in Nat /\ Len(new) \in Nat
           /\ Len(events') = Len(events) + Len(new)
           /\ \A i \in 1..Len(events) : events'[i] = events[i]
           /\ \A i \in 1..Len(new) : events'[Len(events) + i] = new[i]
           /\ UNCHANGED <<lostAcks, sub, tier, limits, lecturer>>
           /\ emitted' \in Nat
  <1>1. events \in Seq(EventRecords) /\ emitted \in Nat
    BY DEF BillingTypes
  <1>2. /\ events' = events \o new /\ emitted' = emitted + Len(new)
        /\ UNCHANGED <<lostAcks, sub, tier, limits, lecturer>>
    BY DEF Emit
  <1>3. Len(events) \in Nat /\ Len(new) \in Nat
    BY <1>1, LenProperties
  <1>4. /\ events \o new \in Seq(EventRecords)
        /\ Len(events \o new) = Len(events) + Len(new)
        /\ \A i \in 1..Len(events) : (events \o new)[i] = events[i]
        /\ \A i \in 1..Len(new) : (events \o new)[Len(events) + i] = new[i]
    BY <1>1, EventsAppended
  <1>5. emitted' \in Nat
    BY <1>1, <1>2, <1>3, SMT
  <1>. QED
    BY <1>2, <1>3, <1>4, <1>5

LEMMA SequenceOfTwo ==
    ASSUME NEW S, NEW a \in S, NEW b \in S
    PROVE  /\ <<a, b>> \in Seq(S) /\ Len(<<a, b>>) = 2
           /\ <<a, b>>[1] = a /\ <<a, b>>[2] = b
  BY SMT

LEMMA SequenceOfOne ==
    ASSUME NEW S, NEW a \in S
    PROVE  <<a>> \in Seq(S) /\ Len(<<a>>) = 1 /\ <<a>>[1] = a
  BY SMT

\* A payment posts a checkout and a creation of its plan.
LEMMA PayStep ==
    ASSUME BillingTypes, NEW s \in Plans, Pay(s)
    PROVE  /\ provider[s].status = "open"
           /\ \A t \in Plans : t # s => provider'[t] = provider[t]
           /\ provider'[s].status = "active" /\ provider'[s].price = provider[s].price
           /\ ProviderTypes'
           /\ \E new \in Seq(EventRecords) :
                 /\ Emit(new) /\ Len(new) = 2
                 /\ \A i \in 1..2 : new[i].plan = s /\ new[i].kind \in {"checkout", "created"}
                                    /\ new[i].status = "active"
                 /\ \E i \in 1..2 : /\ new[i].kind = "checkout"
                                   /\ \A k \in 1..2 : k # i => new[k].kind = "created"
           /\ excuses' = excuses \cup (IF LivePlans # {} THEN {"two plans"} ELSE {})
  <1>1. provider[s].status = "open" /\ provider' = [provider EXCEPT ![s].status = "active"]
    BY DEF Pay
  <1>0. excuses' = excuses \cup (IF LivePlans # {} THEN {"two plans"} ELSE {})
    BY DEF Pay
  <1>2. /\ ProviderTypes'
        /\ \A t \in Plans : t # s => provider'[t] = provider[t]
        /\ provider'[s].status = "active" /\ provider'[s].price \in PlanPrices
        /\ provider'[s].price = provider[s].price
    <2>1. ProviderTypes
      BY DEF BillingTypes
    <2>2. provider \in [Plans -> [status : {"none", "open", "canceled", "active", "past_due"},
                                  price : PlanPrices \cup {"none"}]]
      BY <2>1 DEF ProviderTypes
    <2>3. /\ provider' \in [Plans -> [status : {"none", "open", "canceled", "active", "past_due"},
                                      price : PlanPrices \cup {"none"}]]
          /\ \A t \in Plans : t # s => provider'[t] = provider[t]
          /\ provider'[s] = [provider[s] EXCEPT !.status = "active"]
      BY <1>1, <2>2, SMT
    <2>4. provider'[s].status = "active" /\ provider'[s].price = provider[s].price
      BY <2>2, <2>3, SMT
    <2>5. provider[s].status # "none"
      BY <1>1, SMT
    <2>6. provider[s].price \in PlanPrices
      BY <2>1, <2>5, Zenon DEF ProviderTypes
    <2>7. ASSUME NEW t \in Plans, provider'[t].status # "none"
          PROVE  provider'[t].price \in PlanPrices
      BY <2>1, <2>3, <2>4, <2>6, <2>7, Zenon DEF ProviderTypes
    <2>. QED
      BY <2>3, <2>4, <2>6, <2>7, Zenon DEF ProviderTypes
  <1>. DEFINE c == Snapshot("checkout", s)  d == Snapshot("created", s)
  <1>3. PICK new \in {<<c, d>>, <<d, c>>} : Emit(new)
    BY Zenon DEF Pay
  <1>4. /\ c \in EventRecords /\ d \in EventRecords
        /\ c.kind = "checkout" /\ c.plan = s /\ c.status = "active"
        /\ d.kind = "created" /\ d.plan = s /\ d.status = "active"
    BY <1>2, SnapshotTyped, SMT DEF EventKinds, LiveStatuses
  <1>. HIDE DEF c, d
  <1>5. /\ new \in Seq(EventRecords) /\ Len(new) = 2
        /\ \/ new[1] = c /\ new[2] = d
           \/ new[1] = d /\ new[2] = c
    <2>1. CASE new = <<c, d>>
      BY <2>1, <1>4, SequenceOfTwo
    <2>2. CASE new = <<d, c>>
      BY <2>2, <1>4, SequenceOfTwo
    <2>. QED
      BY <1>3, <2>1, <2>2
  <1>6. /\ \A i \in 1..2 : new[i].plan = s /\ new[i].kind \in {"checkout", "created"}
                           /\ new[i].status = "active"
        /\ \E i \in 1..2 : /\ new[i].kind = "checkout"
                          /\ \A k \in 1..2 : k # i => new[k].kind = "created"
    BY <1>4, <1>5, SMT
  <1>. QED
    BY <1>0, <1>1, <1>2, <1>3, <1>5, <1>6

LEMMA TypesPay ==
    ASSUME BillingTypes, NEW s \in Plans, Pay(s)
    PROVE  BillingTypes'
  <1>0. events \in Seq(EventRecords) /\ Len(events) \in Nat
    BY LenProperties DEF BillingTypes
  <1>1. provider[s].status = "open"
    BY PayStep
  <1>2. /\ ProviderTypes'
        /\ \A t \in Plans : t # s => provider'[t] = provider[t]
        /\ provider'[s].status = "active"
    BY PayStep
  <1>3. PICK new \in Seq(EventRecords) :
                 /\ Emit(new) /\ Len(new) = 2
                 /\ \A i \in 1..2 : new[i].plan = s /\ new[i].kind \in {"checkout", "created"}
                                    /\ new[i].status = "active"
                 /\ \E i \in 1..2 : /\ new[i].kind = "checkout"
                                   /\ \A k \in 1..2 : k # i => new[k].kind = "created"
    BY PayStep
  <1>5. /\ events' \in Seq(EventRecords)
        /\ Len(events') = Len(events) + 2
        /\ \A i \in 1..Len(events) : events'[i] = events[i]
        /\ \A i \in 1..2 : events'[Len(events) + i] = new[i]
        /\ UNCHANGED <<lostAcks, sub, tier, limits, lecturer>>
        /\ emitted' \in Nat
    BY <1>3, EmitStep
  <1>6. ASSUME NEW i \in 1..Len(events')
        PROVE  SoundEvent(events[i])'
    <2>1. CASE i \in 1..Len(events)
      <3>1. SoundEvent(events[i]) /\ events'[i] = events[i]
        BY <2>1, <1>5 DEF BillingTypes
      <3>2. events[i].plan # s
        BY <3>1, <1>1 DEF SoundEvent, Paid
      <3>3. events[i].plan \in Plans
        BY <2>1, <1>0, EventTyped
      <3>. QED
        BY <3>1, <3>2, <3>3, <1>2, SMT DEF SoundEvent, Paid
    <2>2. CASE i \notin 1..Len(events)
      <3>1. i - Len(events) \in 1..2 /\ i = Len(events) + (i - Len(events))
        BY <2>2, <1>0, <1>5, SMT
      <3>2. events'[i] = new[i - Len(events)]
        BY <3>1, <1>5
      <3>3. events'[i].plan = s /\ events'[i].kind \in {"checkout", "created"}
            /\ events'[i].status = "active"
        BY <3>1, <3>2, <1>3
      <3>. QED
        BY <3>3, <1>2, SMT DEF SoundEvent, Paid
    <2>. QED
      BY <2>1, <2>2
  <1>7. excuses' \subseteq Excuses
    <2>1. excuses' = excuses \cup (IF LivePlans # {} THEN {"two plans"} ELSE {})
      BY PayStep
    <2>2. excuses \subseteq Excuses
      BY DEF BillingTypes
    <2>. QED
      BY <2>1, <2>2, Zenon DEF Excuses
  <1>. QED
    BY <1>2, <1>5, <1>6, <1>7, SMT DEF BillingTypes

\* A plan that is paid for changes, or ends, and one event tells it.
Moves(s, k) ==
    /\ k \in {"updated", "deleted"}
    /\ provider[s].status \in LiveStatuses
    /\ ProviderTypes'
    /\ \A t \in Plans : t # s => provider'[t] = provider[t]
    /\ provider'[s].status \in LiveStatuses \cup {"canceled"}
    /\ k = "updated" <=> provider'[s].status \in LiveStatuses
    /\ provider'[s].price \in PlanPrices
    /\ Emit(<<Snapshot(k, s)>>)
    /\ UNCHANGED excuses

LEMMA ChangeMoves ==
    ASSUME BillingTypes, NEW s \in Plans, NEW st \in LiveStatuses, NEW p \in PlanPrices,
           Change(s, st, p)
    PROVE  Moves(s, "updated")
  <1>1. /\ provider[s].status \in LiveStatuses
        /\ provider' = [provider EXCEPT ![s] = [status |-> st, price |-> p]]
    BY DEF Change
  <1>2. Emit(<<Snapshot("updated", s)>>) /\ UNCHANGED excuses
    BY DEF Change
  <1>3. provider \in [Plans -> [status : {"none", "open", "canceled", "active", "past_due"},
                                price : PlanPrices \cup {"none"}]]
    BY DEF BillingTypes, ProviderTypes
  <1>4. /\ provider' \in [Plans -> [status : {"none", "open", "canceled", "active", "past_due"},
                                    price : PlanPrices \cup {"none"}]]
        /\ \A t \in Plans : t # s => provider'[t] = provider[t]
        /\ provider'[s] = [status |-> st, price |-> p]
    BY <1>1, <1>3, SMT DEF LiveStatuses
  <1>5. provider'[s].status = st /\ provider'[s].price = p
    BY <1>4, SMT
  <1>6. \A t \in Plans : provider[t].status # "none" => provider[t].price \in PlanPrices
    BY DEF BillingTypes, ProviderTypes
  <1>7. \A t \in Plans : provider'[t].status # "none" => provider'[t].price \in PlanPrices
    BY <1>4, <1>5, <1>6, Zenon
  <1>. QED
    BY <1>1, <1>2, <1>4, <1>5, <1>7, Zenon DEF Moves, ProviderTypes

LEMMA EndMoves ==
    ASSUME BillingTypes, NEW s \in Plans, End(s)
    PROVE  Moves(s, "deleted")
  <1>1. /\ provider[s].status \in LiveStatuses
        /\ provider' = [provider EXCEPT ![s].status = "canceled"]
    BY DEF End
  <1>2. Emit(<<Snapshot("deleted", s)>>) /\ UNCHANGED excuses
    BY DEF End
  <1>3. provider \in [Plans -> [status : {"none", "open", "canceled", "active", "past_due"},
                                price : PlanPrices \cup {"none"}]]
    BY DEF BillingTypes, ProviderTypes
  <1>4. /\ provider' \in [Plans -> [status : {"none", "open", "canceled", "active", "past_due"},
                                    price : PlanPrices \cup {"none"}]]
        /\ \A t \in Plans : t # s => provider'[t] = provider[t]
        /\ provider'[s] = [provider[s] EXCEPT !.status = "canceled"]
    BY <1>1, <1>3, SMT
  <1>5. provider'[s].status = "canceled" /\ provider'[s].price = provider[s].price
    BY <1>3, <1>4, SMT
  <1>6. \A t \in Plans : provider[t].status # "none" => provider[t].price \in PlanPrices
    BY DEF BillingTypes, ProviderTypes
  <1>7. provider[s].status # "none"
    BY <1>1, SMT DEF LiveStatuses
  <1>8. provider'[s].price \in PlanPrices
    BY <1>5, <1>6, <1>7, Zenon
  <1>9. \A t \in Plans : provider'[t].status # "none" => provider'[t].price \in PlanPrices
    BY <1>4, <1>6, <1>8, Zenon
  <1>10. "canceled" \notin LiveStatuses
    BY SMT DEF LiveStatuses
  <1>. QED
    BY <1>1, <1>2, <1>4, <1>5, <1>8, <1>9, <1>10, SMT DEF Moves, ProviderTypes

\* What such a step posts.
LEMMA MovePosts ==
    ASSUME BillingTypes, NEW s \in Plans, NEW k, Moves(s, k)
    PROVE  /\ events' \in Seq(EventRecords)
           /\ Len(events) \in Nat /\ Len(events') = Len(events) + 1
           /\ \A i \in 1..Len(events) : events'[i] = events[i]
           /\ events'[Len(events')].kind = k
           /\ events'[Len(events')].plan = s
           /\ events'[Len(events')].status = provider'[s].status
           /\ events'[Len(events')].price = provider'[s].price
           /\ UNCHANGED <<lostAcks, sub, tier, limits, lecturer>>
           /\ emitted' \in Nat
  <1>. DEFINE e == Snapshot(k, s)
  <1>1. /\ k \in EventKinds
        /\ provider'[s].status \in LiveStatuses \cup {"canceled"}
        /\ provider'[s].price \in PlanPrices
        /\ Emit(<<e>>)
    BY Zenon DEF Moves, EventKinds
  <1>2. /\ e \in EventRecords /\ e.kind = k /\ e.plan = s
        /\ e.status = provider'[s].status /\ e.price = provider'[s].price
    BY <1>1, SnapshotTyped
  <1>. HIDE DEF e
  <1>3. <<e>> \in Seq(EventRecords) /\ Len(<<e>>) = 1 /\ <<e>>[1] = e
    BY <1>2, SequenceOfOne
  <1>4. /\ events' \in Seq(EventRecords)
        /\ Len(events) \in Nat /\ Len(events') = Len(events) + Len(<<e>>)
        /\ \A i \in 1..Len(events) : events'[i] = events[i]
        /\ \A i \in 1..Len(<<e>>) : events'[Len(events) + i] = <<e>>[i]
        /\ UNCHANGED <<lostAcks, sub, tier, limits, lecturer>>
        /\ emitted' \in Nat
    BY <1>1, <1>3, EmitStep
  <1>5. events'[Len(events')] = e
    BY <1>3, <1>4, SMT
  <1>. QED
    BY <1>2, <1>3, <1>4, <1>5

LEMMA TypesMove ==
    ASSUME BillingTypes, NEW s \in Plans, NEW k, Moves(s, k)
    PROVE  BillingTypes'
  <1>1. /\ provider[s].status \in LiveStatuses /\ ProviderTypes'
        /\ \A t \in Plans : t # s => provider'[t] = provider[t]
        /\ k = "updated" <=> provider'[s].status \in LiveStatuses
        /\ provider'[s].status \in LiveStatuses \cup {"canceled"}
        /\ k \in {"updated", "deleted"} /\ UNCHANGED excuses
    BY DEF Moves
  <1>2. /\ events' \in Seq(EventRecords)
        /\ Len(events) \in Nat /\ Len(events') = Len(events) + 1
        /\ \A i \in 1..Len(events) : events'[i] = events[i]
        /\ events'[Len(events')].kind = k /\ events'[Len(events')].plan = s
        /\ events'[Len(events')].status = provider'[s].status
        /\ UNCHANGED <<lostAcks, sub, tier, limits, lecturer>>
        /\ emitted' \in Nat
    BY MovePosts
  <1>3. ASSUME NEW i \in 1..Len(events')
        PROVE  SoundEvent(events[i])'
    <2>1. CASE i \in 1..Len(events)
      <3>1. SoundEvent(events[i]) /\ events'[i] = events[i]
        BY <2>1, <1>2 DEF BillingTypes
      <3>2. events[i].kind = "deleted" => events[i].plan # s
        BY <3>1, <1>1, SMT DEF SoundEvent, LiveStatuses
      <3>3. events[i].plan \in Plans
        BY <2>1, EventTyped DEF BillingTypes
      <3>4. Paid(s)'
        BY <1>1, SMT DEF Paid, LiveStatuses
      <3>. QED
        BY <3>1, <3>2, <3>3, <3>4, <1>1, SMT DEF SoundEvent, Paid
    <2>2. CASE i \notin 1..Len(events)
      <3>1. i = Len(events')
        BY <2>2, <1>2, SMT
      <3>. QED
        BY <3>1, <1>1, <1>2, SMT DEF SoundEvent, Paid, LiveStatuses
    <2>. QED
      BY <2>1, <2>2
  <1>. QED
    BY <1>1, <1>2, <1>3, SMT DEF BillingTypes

\* The tier of a configured price is a tier.
LEMMA TierOfPrice ==
    ASSUME NEW p \in DOMAIN TierOf
    PROVE  TierOf[p] \in Tiers
  BY DEF Tiers

\* A delivered event is handled, and it leaves the queue or stays.
LEMMA DeliverStep ==
    ASSUME BillingTypes, NEW i \in DOMAIN events, Deliver(i)
    PROVE  /\ i \in 1..Len(events)
           /\ events[i].plan \in Plans /\ events[i].kind \in EventKinds
           /\ events[i].status \in LiveStatuses \cup {"canceled"}
           /\ events[i].price \in PlanPrices
           /\ SoundEvent(events[i]) /\ Handle(events[i])
           /\ UNCHANGED provider /\ emitted' \in Nat /\ lostAcks' \in Nat
           /\ excuses' \subseteq Excuses
           /\ excuses' = {} => excuses = {} /\ i = 1 /\ ~UnknownPrice(events[i])
           /\ \/ events' = RemoveAt(events, i)
              \/ UNCHANGED events
  <1>1. i \in 1..Len(events) /\ events \in Seq(EventRecords)
    BY SMT DEF BillingTypes
  <1>2. /\ events[i].plan \in Plans /\ events[i].kind \in EventKinds
        /\ events[i].status \in LiveStatuses \cup {"canceled"}
        /\ events[i].price \in PlanPrices
    BY <1>1, EventTyped
  <1>3. SoundEvent(events[i])
    BY <1>1 DEF BillingTypes
  <1>4. /\ Handle(events[i]) /\ UNCHANGED provider /\ UNCHANGED emitted
        /\ \/ events' = RemoveAt(events, i) /\ UNCHANGED lostAcks
           \/ lostAcks' = lostAcks + 1 /\ UNCHANGED events
    BY Zenon DEF Deliver
  <1>5. emitted \in Nat /\ lostAcks \in Nat /\ excuses \subseteq Excuses
    BY DEF BillingTypes
  <1>6. emitted' \in Nat /\ lostAcks' \in Nat
    BY <1>4, <1>5, SMT
  <1>7. excuses' = excuses
           \cup (IF i # 1 THEN {"out of order"} ELSE {})
           \cup (IF UnknownPrice(events[i]) THEN {"unknown price"} ELSE {})
    BY DEF Deliver
  <1>8. excuses' \subseteq Excuses
    BY <1>5, <1>7, Zenon DEF Excuses
  <1>9. excuses' = {} => excuses = {} /\ i = 1 /\ ~UnknownPrice(events[i])
    BY <1>7, Zenon
  <1>. QED
    BY <1>1, <1>2, <1>3, <1>4, <1>6, <1>8, <1>9

\* What a handler leaves, whatever the event.
LEMMA HandlerTyped ==
    ASSUME BillingTypes, NEW e, Handle(e), SoundEvent(e),
           e.plan \in Plans, e.kind \in EventKinds, e.status \in LiveStatuses \cup {"canceled"}
    PROVE  /\ sub' \in [Plans -> {"none", "canceled"} \cup LiveStatuses]
           /\ \A t \in Plans : t # e.plan => sub'[t] = sub[t]
           /\ tier' \in Tiers /\ limits' = tier' /\ lecturer' \in BOOLEAN
  <1>0. /\ sub \in [Plans -> {"none", "canceled"} \cup LiveStatuses]
        /\ tier \in Tiers /\ limits = tier /\ lecturer \in BOOLEAN
    BY DEF BillingTypes
  <1>1. CASE Nothing
    BY <1>0, <1>1 DEF Nothing
  <1>2. CASE CheckoutCompleted(e) /\ ~Nothing
    <2>1. /\ provider[e.plan].price \in DOMAIN TierOf
          /\ sub' = [sub EXCEPT ![e.plan] = provider[e.plan].status]
          /\ tier' = TierOf[provider[e.plan].price] /\ limits' = TierOf[provider[e.plan].price]
          /\ lecturer' = TRUE
      BY <1>2, Zenon DEF CheckoutCompleted, SetTier
    <2>2. provider[e.plan].status \in LiveStatuses \cup {"canceled"}
      <3>1. provider[e.plan].status \in {"none", "open", "canceled", "active", "past_due"}
        BY SMT DEF BillingTypes, ProviderTypes
      <3>2. provider[e.plan].status \notin {"none", "open"}
        BY DEF SoundEvent, Paid
      <3>. QED
        BY <3>1, <3>2, SMT DEF LiveStatuses
    <2>3. tier' \in Tiers
      BY <2>1, TierOfPrice
    <2>4. lecturer' \in BOOLEAN
      BY <2>1
    <2>5. limits' = tier'
      BY <2>1
    <2>6. /\ sub' \in [Plans -> {"none", "canceled"} \cup LiveStatuses]
          /\ \A t \in Plans : t # e.plan => sub'[t] = sub[t]
      BY <1>0, <2>1, <2>2, Zenon
    <2>. QED
      BY <2>3, <2>4, <2>5, <2>6
  <1>3. CASE SubscriptionCreated(e)
    <2>1. /\ sub' = [sub EXCEPT ![e.plan] = e.status]
          /\ UNCHANGED <<tier, limits, lecturer>>
      BY <1>3 DEF SubscriptionCreated
    <2>. QED
      BY <1>0, <2>1, Zenon
  <1>4. CASE SubscriptionUpdated(e) /\ ~Nothing
    <2>1. /\ e.price \in DOMAIN TierOf
          /\ sub' = [sub EXCEPT ![e.plan] = e.status]
          /\ tier' = TierOf[e.price] /\ limits' = TierOf[e.price]
          /\ UNCHANGED lecturer
      BY <1>4, Zenon DEF SubscriptionUpdated, SetTier
    <2>2. tier' \in Tiers
      BY <2>1, TierOfPrice
    <2>3. limits' = tier' /\ lecturer' \in BOOLEAN
      BY <2>1, <1>0
    <2>. QED
      BY <1>0, <2>1, <2>2, <2>3, Zenon
  <1>5. CASE SubscriptionDeleted(e)
    <2>1. /\ sub' = [sub EXCEPT ![e.plan] = "canceled"]
          /\ tier' = "free" /\ limits' = "free"
          /\ lecturer' = (OwnerIsAdmin /\ lecturer)
      BY <1>5, Zenon DEF SubscriptionDeleted, SetTier
    <2>2. "free" \in Tiers
      BY DEF Tiers
    <2>3. tier' \in Tiers /\ limits' = tier'
      BY <2>1, <2>2
    <2>4. lecturer' \in BOOLEAN
      BY <2>1
    <2>. QED
      BY <1>0, <2>1, <2>3, <2>4, Zenon
  <1>. QED
    BY <1>1, <1>2, <1>3, <1>4, <1>5, Zenon DEF Handle

LEMMA TypesDeliver ==
    ASSUME BillingTypes, NEW i \in DOMAIN events, Deliver(i)
    PROVE  BillingTypes'
  <1>1. /\ i \in 1..Len(events)
        /\ events[i].plan \in Plans /\ events[i].kind \in EventKinds
        /\ events[i].status \in LiveStatuses \cup {"canceled"}
        /\ SoundEvent(events[i]) /\ Handle(events[i])
        /\ UNCHANGED provider /\ emitted' \in Nat /\ lostAcks' \in Nat
        /\ excuses' \subseteq Excuses
        /\ \/ events' = RemoveAt(events, i)
           \/ UNCHANGED events
    BY DeliverStep
  <1>2. /\ sub' \in [Plans -> {"none", "canceled"} \cup LiveStatuses]
        /\ tier' \in Tiers /\ limits' = tier' /\ lecturer' \in BOOLEAN
    BY <1>1, HandlerTyped
  <1>3. ProviderTypes'
    BY <1>1 DEF BillingTypes, ProviderTypes
  <1>4. /\ events \in Seq(EventRecords) /\ Len(events) \in Nat
        /\ \A j \in 1..Len(events) : SoundEvent(events[j])
    BY LenProperties DEF BillingTypes
  <1>5. events' \in Seq(EventRecords) /\ \A j \in 1..Len(events') : SoundEvent(events'[j])
    <2>1. CASE UNCHANGED events
      BY <2>1, <1>4
    <2>2. CASE events' = RemoveAt(events, i)
      <3>1. /\ events' \in Seq(EventRecords) /\ Len(events') + 1 = Len(events)
            /\ \A j \in 1..Len(events') : events'[j] = events[IF j < i THEN j ELSE j + 1]
        BY <2>2, <1>1, <1>4, OneTaken, SMTT(30)
      <3>2. ASSUME NEW j \in 1..Len(events')
            PROVE  SoundEvent(events'[j])
        <4>1. (IF j < i THEN j ELSE j + 1) \in 1..Len(events)
          <5>1. Len(events') \in Nat
            BY <3>1, LenProperties
          <5>. QED
            BY <1>1, <1>4, <3>1, <5>1, SMT
        <4>. QED
          BY <4>1, <3>1, <1>4
      <3>. QED
        BY <3>1, <3>2
    <2>. QED
      BY <1>1, <2>1, <2>2
  <1>6. \A j \in 1..Len(events') : SoundEvent(events[j])'
    BY <1>1, <1>5 DEF SoundEvent, Paid
  <1>. QED
    BY <1>1, <1>2, <1>3, <1>5, <1>6, Zenon DEF BillingTypes

LEMMA TypesOfTheRest ==
    ASSUME BillingTypes,
           \/ \E s \in Plans : SyncFromProvider(s)
           \/ \E t \in Tiers : SetTierByHand(t)
           \/ UNCHANGED billingVars
    PROVE  BillingTypes'
  <1>1. /\ sub \in [Plans -> {"none", "canceled"} \cup LiveStatuses]
        /\ excuses \subseteq Excuses /\ tier \in Tiers /\ limits = tier
    BY DEF BillingTypes
  <1>2. ASSUME UNCHANGED <<provider, events, emitted, lostAcks, lecturer>>,
               sub' \in [Plans -> {"none", "canceled"} \cup LiveStatuses],
               tier' \in Tiers, limits' = tier', excuses' \subseteq Excuses
        PROVE  BillingTypes'
    <2>1. ProviderTypes'
      BY <1>2 DEF BillingTypes, ProviderTypes
    <2>2. \A j \in 1..Len(events) : SoundEvent(events[j])
      BY DEF BillingTypes
    <2>3. \A j \in 1..Len(events') : SoundEvent(events[j])'
      BY <2>2, <1>2 DEF SoundEvent, Paid
    <2>. QED
      BY <1>2, <2>1, <2>3 DEF BillingTypes
  <1>3. ASSUME NEW s \in Plans, SyncFromProvider(s)
        PROVE  BillingTypes'
    <2>1. /\ provider[s].price \in DOMAIN TierOf
          /\ sub' = [sub EXCEPT ![s] = "active"]
          /\ tier' = TierOf[provider[s].price] /\ limits' = TierOf[provider[s].price]
          /\ UNCHANGED <<provider, events, emitted, lostAcks, lecturer, excuses>>
      BY <1>3 DEF SyncFromProvider, SetTier
    <2>2. sub' \in [Plans -> {"none", "canceled"} \cup LiveStatuses]
      BY <1>1, <2>1, SMT DEF LiveStatuses
    <2>3. tier' \in Tiers /\ limits' = tier'
      BY <2>1, TierOfPrice
    <2>. QED
      BY <1>1, <1>2, <2>1, <2>2, <2>3
  <1>4. ASSUME NEW t \in Tiers, SetTierByHand(t)
        PROVE  BillingTypes'
    <2>1. /\ tier' = t /\ limits' = t /\ excuses' = excuses \cup {"set by hand"}
          /\ UNCHANGED <<provider, events, emitted, lostAcks, sub, lecturer>>
      BY <1>4 DEF SetTierByHand, SetTier
    <2>2. excuses' \subseteq Excuses
      BY <1>1, <2>1 DEF Excuses
    <2>. QED
      BY <1>1, <1>2, <2>1, <2>2
  <1>5. CASE UNCHANGED billingVars
    BY <1>1, <1>2, <1>5 DEF billingVars
  <1>. QED
    BY <1>3, <1>4, <1>5

LEMMA BillingTypesStep ==
    BillingTypes /\ [BillingNext]_billingVars => BillingTypes'
  <1>. SUFFICES ASSUME BillingTypes, [BillingNext]_billingVars
                PROVE  BillingTypes'
    OBVIOUS
  <1>1. ASSUME NEW s \in Plans, NEW st \in LiveStatuses, NEW p \in PlanPrices,
               Change(s, st, p)
        PROVE  BillingTypes'
    BY <1>1, ChangeMoves, TypesMove
  <1>2. ASSUME NEW s \in Plans, End(s)
        PROVE  BillingTypes'
    BY <1>2, EndMoves, TypesMove
  <1>. QED
    BY <1>1, <1>2, TypesOpen, TypesPay, TypesDeliver, TypesOfTheRest DEF BillingNext

-----------------------------------------------------------------------------
(***************************************************************************)
(* The rows, the tier and the role follow the provider.                    *)
(***************************************************************************)

\* With one live plan, that plan is the one that is ordered.
LEMMA TheLivePlan ==
    ASSUME OneLive, NEW s \in LivePlans
    PROVE  LivePlans = {s} /\ Ordered = TierOf[provider[s].price]
  <1>1. LivePlans = {s}
    BY DEF OneLive
  <1>2. (CHOOSE t \in LivePlans : TRUE) = s
    BY <1>1
  <1>. QED
    BY <1>1, <1>2 DEF Ordered

\* An event of the queue belongs to a paid plan.
LEMMA WaitingIsPaid ==
    ASSUME BillingTypes, NEW i \in 1..Len(events)
    PROVE  /\ events[i].plan \in Plans /\ Paid(events[i].plan) /\ SoundEvent(events[i])
           /\ events[i].kind \in EventKinds
           /\ events[i].status \in LiveStatuses \cup {"canceled"}
  <1>1. events \in Seq(EventRecords) /\ SoundEvent(events[i])
    BY DEF BillingTypes
  <1>. QED
    BY <1>1, EventTyped DEF SoundEvent

\* Opening a checkout touches nothing of a paid plan.
LEMMA OpenFollows ==
    ASSUME BillingTypes, Follows, NEW s \in Plans, NEW p \in PlanPrices, OpenCheckout(s, p)
    PROVE  Follows'
  <1>1. /\ provider' = [provider EXCEPT ![s] = [status |-> "open", price |-> p]]
        /\ provider[s].status = "none"
        /\ UNCHANGED <<events, sub, tier, lecturer>>
    BY DEF OpenCheckout
  <1>2. provider \in [Plans -> [status : {"none", "open", "canceled", "active", "past_due"},
                                price : PlanPrices \cup {"none"}]]
    BY DEF BillingTypes, ProviderTypes
  <1>3. /\ \A t \in Plans : t # s => provider'[t] = provider[t]
        /\ provider'[s].status = "open"
    BY <1>1, <1>2, SMT
  <1>4. /\ \A t \in Plans : Paid(t)' <=> Paid(t)
        /\ \A t \in Plans : Paid(t) => provider'[t] = provider[t]
    BY <1>1, <1>3, SMT DEF Paid
  <1>5. LivePlans' = LivePlans
    BY <1>1, <1>3, SMT DEF LivePlans, LiveStatuses
  <1>6. Ordered' = Ordered
    <2>1. CASE LivePlans = {}
      BY <2>1, <1>5 DEF Ordered
    <2>2. ASSUME NEW t \in LivePlans
          PROVE  Ordered' = Ordered
      <3>1. t \in Plans /\ t # s
        BY <1>1, SMT DEF LivePlans, LiveStatuses
      <3>2. OneLive /\ OneLive' /\ t \in LivePlans'
        BY <1>5 DEF Follows, OneLive
      <3>3. Ordered = TierOf[provider[t].price]
        BY <3>2, TheLivePlan
      <3>4. (CHOOSE u \in LivePlans' : TRUE) = t
        BY <3>2 DEF OneLive
      <3>5. Ordered' = TierOf[provider'[t].price]
        BY <3>2, <3>4 DEF Ordered
      <3>. QED
        BY <1>3, <3>1, <3>3, <3>5
    <2>. QED
      BY <2>1, <2>2
  <1>7. \A i \in 1..Len(events) : events[i].plan \in Plans /\ Paid(events[i].plan)
    BY WaitingIsPaid
  <1>8. OneLive'
    BY <1>5 DEF Follows, OneLive
  <1>9. TierFollows'
    <2>1. CASE /\ \A i \in 1..Len(events) : events[i].kind \notin SetsTier
               /\ tier = Ordered
      BY <2>1, <1>1, <1>6 DEF TierFollows
    <2>2. ASSUME NEW m \in 1..Len(events), events[m].kind \in SetsTier, Confirms(events[m]),
                 \A k \in 1..Len(events) : k > m => events[k].kind \notin SetsTier
          PROVE  TierFollows'
      <3>1. Confirms(events[m])'
        BY <2>2, <1>1, <1>4, <1>5, <1>7 DEF Confirms
      <3>2. /\ m \in 1..Len(events') /\ events'[m].kind \in SetsTier
            /\ \A k \in 1..Len(events') : k > m => events'[k].kind \notin SetsTier
        BY <2>2, <1>1
      <3>. QED
        BY <3>1, <3>2 DEF TierFollows
    <2>. QED
      BY <2>1, <2>2 DEF Follows, TierFollows
  <1>10. RoleFollows'
    <2>1. RoleFollows /\ UNCHANGED <<events, sub, lecturer, LivePlans>>
      BY <1>1, <1>5 DEF Follows
    <2>. QED
      BY <2>1 DEF RoleFollows, RightRole
  <1>11. ASSUME NEW t \in Plans
         PROVE  RowComes(t)' /\ RowFollows(t)'
    <2>1. RowComes(t) /\ RowFollows(t)
      BY DEF Follows
    <2>2. RowComes(t)'
      BY <2>1, <1>1, <1>4 DEF RowComes
    <2>3. RowFollows(t)'
      BY <2>1, <1>1, <1>4 DEF RowFollows
    <2>. QED
      BY <2>2, <2>3
  <1>. QED
    BY <1>8, <1>9, <1>10, <1>11 DEF Follows

\* A payment while nothing else is live: both its events are still to come.
LEMMA PayFollows ==
    ASSUME BillingTypes, Follows, NEW s \in Plans, Pay(s), excuses' = {}
    PROVE  Follows'
  <1>1. /\ provider[s].status = "open"
        /\ \A t \in Plans : t # s => provider'[t] = provider[t]
        /\ provider'[s].status = "active"
    BY PayStep
  <1>2. LivePlans = {}
    <2>1. excuses' = excuses \cup (IF LivePlans # {} THEN {"two plans"} ELSE {})
      BY PayStep
    <2>. QED
      BY <2>1
  <1>3. LivePlans' = {s}
    BY <1>1, <1>2, SMT DEF LivePlans, LiveStatuses
  <1>4. PICK new \in Seq(EventRecords) :
                 /\ Emit(new) /\ Len(new) = 2
                 /\ \A i \in 1..2 : new[i].plan = s /\ new[i].kind \in {"checkout", "created"}
                                    /\ new[i].status = "active"
                 /\ \E i \in 1..2 : /\ new[i].kind = "checkout"
                                   /\ \A k \in 1..2 : k # i => new[k].kind = "created"
    BY PayStep
  <1>5. /\ Len(events) \in Nat /\ Len(events') = Len(events) + 2
        /\ \A i \in 1..Len(events) : events'[i] = events[i]
        /\ \A i \in 1..2 : events'[Len(events) + i] = new[i]
        /\ UNCHANGED <<sub, tier, lecturer>>
    <2>1. /\ Len(events) \in Nat /\ Len(events') = Len(events) + Len(new)
          /\ \A i \in 1..Len(events) : events'[i] = events[i]
          /\ \A i \in 1..Len(new) : events'[Len(events) + i] = new[i]
          /\ UNCHANGED <<lostAcks, sub, tier, limits, lecturer>>
      BY <1>4, EmitStep, Zenon
    <2>2. Len(new) = 2
      BY <1>4
    <2>. QED
      BY <2>1, <2>2, Zenon
  <1>6. \A i \in 1..Len(events) : events[i].plan \in Plans /\ events[i].plan # s
    BY <1>1, WaitingIsPaid, Zenon DEF Paid
  <1>7. PICK c \in 1..2 : /\ new[c].kind = "checkout"
                          /\ \A k \in 1..2 : k # c => new[k].kind = "created"
    BY <1>4
  <1>. PICK L \in Nat : L = Len(events)
    BY <1>5
  <1>8. /\ L + 1 \in 1..Len(events') /\ L + 2 \in 1..Len(events') /\ L + c \in 1..Len(events')
        /\ \A i \in 1..Len(events') : i \in 1..L \/ i = L + 1 \/ i = L + 2
        /\ \A i \in 1..L : i \in 1..Len(events') /\ i < L + 1
    BY <1>5, SMT
  <1>9. /\ events'[L + 1] = new[1] /\ events'[L + 2] = new[2] /\ events'[L + c] = new[c]
        /\ new[1].plan = s /\ new[2].plan = s /\ new[2].status = "active"
    BY <1>4, <1>5, SMT
  <1>10. OneLive'
    BY <1>3 DEF OneLive
  <1>11. \A k \in 1..Len(events') : k > L + c => events'[k].kind = "created"
    <2>1. ASSUME NEW k \in 1..Len(events'), k > L + c
          PROVE  events'[k].kind = "created"
      <3>1. k - L \in 1..2 /\ k - L # c /\ k = L + (k - L)
        BY <2>1, <1>5, SMT
      <3>2. events'[k] = new[k - L]
        BY <3>1, <1>5
      <3>. QED
        BY <3>1, <3>2, <1>7
    <2>. QED
      BY <2>1
  <1>12. TierFollows'
    <2>1. events'[L + c].kind = "checkout" /\ events'[L + c].plan = s
      BY <1>4, <1>7, <1>9
    <2>2. PICK n \in 1..Len(events') : n = L + c
      BY <1>8
    <2>3. /\ events'[n].kind \in SetsTier
          /\ events'[n].kind # "deleted" /\ events'[n].kind # "updated"
          /\ LivePlans' = {events'[n].plan}
      BY <2>1, <2>2, <1>3 DEF SetsTier
    <2>4. \A k \in 1..Len(events') : k > n => events'[k].kind \notin SetsTier
      BY <2>2, <1>11 DEF SetsTier
    <2>. SUFFICES \E m \in 1..Len(events') :
                     /\ events'[m].kind \in SetsTier /\ Confirms(events[m])'
                     /\ \A k \in 1..Len(events') : k > m => events'[k].kind \notin SetsTier
      BY DEF TierFollows
    <2>5. Confirms(events[n])'
      BY <2>3 DEF Confirms
    <2>. QED
      BY <2>3, <2>4, <2>5
  <1>13. RoleFollows'
    BY <1>3, <1>7, <1>8, <1>9, <1>11, Zenon DEF RoleFollows, SetsRole
  <1>14. RowComes(s)' /\ RowFollows(s)'
    <2>1. RowFollows(s)'
      <3>1. PICK n \in 1..Len(events') : n = L + 2
        BY <1>8
      <3>2. events'[n].plan = s /\ events'[n].status = provider'[s].status
        BY <3>1, <1>1, <1>9
      <3>3. \A k \in 1..Len(events') : ~(k > n)
        BY <3>1, <1>5, SMT
      <3>. QED
        BY <3>2, <3>3 DEF RowFollows
    <2>2. \A i \in 1..Len(events') :
             events'[i].plan = s => events'[i].kind \notin {"updated", "deleted"}
      BY <1>4, <1>5, <1>6, <1>8, <1>9, SMT
    <2>3. events'[L + c].kind = "checkout" /\ events'[L + c].plan = s
      BY <1>4, <1>7, <1>9
    <2>4. RowComes(s)'
      BY <2>2, <2>3, <1>8 DEF RowComes
    <2>. QED
      BY <2>1, <2>4
  <1>15. ASSUME NEW t \in Plans, t # s
         PROVE  RowComes(t)' /\ RowFollows(t)'
    <2>1. RowComes(t) /\ RowFollows(t)
      BY DEF Follows
    <2>2. Paid(t)' => Paid(t)
      BY <1>1, <1>15 DEF Paid
    <2>3. \A i \in 1..Len(events') : events'[i].plan = t =>
             i \in 1..L /\ events'[i] = events[i]
      BY <1>5, <1>8, <1>9, <1>15
    <2>4. RowComes(t)'
      <3>1. SUFFICES ASSUME Paid(t)', sub'[t] = "none"
                     PROVE  \E j \in 1..Len(events') :
                               /\ events'[j].kind = "checkout" /\ events'[j].plan = t
                               /\ \A i \in 1..Len(events') :
                                     events'[i].plan = t /\ events'[i].kind \in {"updated", "deleted"}
                                        => j < i
        BY DEF RowComes
      <3>2. PICK j \in 1..L :
               /\ events[j].kind = "checkout" /\ events[j].plan = t
               /\ \A i \in 1..L :
                     events[i].plan = t /\ events[i].kind \in {"updated", "deleted"} => j < i
        BY <2>1, <2>2, <3>1, <1>5 DEF RowComes
      <3>. QED
        BY <3>2, <2>3, <1>5, <1>8
    <2>5. RowFollows(t)'
      <3>1. SUFFICES ASSUME Paid(t)'
                     PROVE  \/ /\ \A i \in 1..Len(events') : events'[i].plan # t
                               /\ sub'[t] = provider'[t].status
                            \/ \E m \in 1..Len(events') :
                                  /\ events'[m].plan = t /\ events'[m].status = provider'[t].status
                                  /\ \A k \in 1..Len(events') : k > m => events'[k].plan # t
        BY DEF RowFollows
      <3>2. CASE /\ \A i \in 1..L : events[i].plan # t
                 /\ sub[t] = provider[t].status
        BY <3>2, <2>3, <1>1, <1>5, <1>15
      <3>3. ASSUME NEW m \in 1..L, events[m].plan = t, events[m].status = provider[t].status,
                   \A k \in 1..L : k > m => events[k].plan # t
            PROVE  /\ m \in 1..Len(events')
                   /\ events'[m].plan = t /\ events'[m].status = provider'[t].status
                   /\ \A k \in 1..Len(events') : k > m => events'[k].plan # t
        BY <3>3, <2>3, <1>1, <1>5, <1>8, <1>15
      <3>. QED
        BY <2>1, <2>2, <3>1, <3>2, <3>3 DEF RowFollows
    <2>. QED
      BY <2>4, <2>5
  <1>. QED
    BY <1>10, <1>12, <1>13, <1>14, <1>15 DEF Follows

\* A change or an end of the one live plan: its event is the last of all.
LEMMA MoveFollows ==
    ASSUME BillingTypes, Follows, NEW s \in Plans, NEW k, Moves(s, k)
    PROVE  Follows'
  <1>1. /\ provider[s].status \in LiveStatuses
        /\ \A t \in Plans : t # s => provider'[t] = provider[t]
        /\ k = "updated" <=> provider'[s].status \in LiveStatuses
        /\ provider'[s].status \in LiveStatuses \cup {"canceled"}
        /\ k \in {"updated", "deleted"}
    BY DEF Moves
  <1>2. LivePlans = {s}
    <2>1. s \in LivePlans /\ OneLive
      BY <1>1 DEF LivePlans, Follows
    <2>. QED
      BY <2>1, TheLivePlan
  <1>3. LivePlans' = IF k = "updated" THEN {s} ELSE {}
    BY <1>1, <1>2, SMT DEF LivePlans
  <1>4. PICK n \in Nat : n = Len(events')
    BY MovePosts, SMT
  <1>5. /\ Len(events) \in Nat /\ n = Len(events) + 1
        /\ \A i \in 1..Len(events) : events'[i] = events[i]
        /\ events'[n].kind = k /\ events'[n].plan = s
        /\ events'[n].status = provider'[s].status
        /\ events'[n].price = provider'[s].price
        /\ UNCHANGED <<sub, tier, lecturer>>
    BY <1>4, MovePosts
  <1>6. /\ n \in 1..Len(events') /\ \A i \in 1..Len(events') : ~(i > n)
        /\ \A i \in 1..Len(events') : i # n => i \in 1..Len(events) /\ events'[i] = events[i]
        /\ \A i \in 1..Len(events) : i \in 1..Len(events') /\ i < n
    BY <1>4, <1>5, SMT
  <1>7. OneLive'
    BY <1>3 DEF OneLive
  <1>8. TierFollows'
    <2>1. events'[n].kind \in SetsTier
      BY <1>1, <1>5, SMT DEF SetsTier
    <2>2. Confirms(events[n])'
      BY <1>1, <1>3, <1>5, SMT DEF Confirms
    <2>. QED
      BY <2>1, <2>2, <1>6 DEF TierFollows
  <1>9. ASSUME k = "deleted"
        PROVE  RoleFollows'
    <2>1. LivePlans' = {} /\ events'[n].kind = "deleted" /\ events'[n].kind \in SetsRole
      BY <1>3, <1>5, <1>9, SMT DEF SetsRole
    <2>. QED
      BY <2>1, <1>6, Zenon DEF RoleFollows
  <1>10. ASSUME k = "updated"
         PROVE  RoleFollows'
    <2>1. LivePlans' # {} /\ LivePlans # {} /\ events'[n].kind \notin SetsRole
      BY <1>2, <1>3, <1>5, <1>10, SMT DEF SetsRole
    <2>2. CASE /\ \A i \in 1..Len(events) : events[i].kind \notin SetsRole
               /\ RightRole
      <3>1. RightRole'
        BY <2>1, <2>2, <1>5 DEF RightRole
      <3>2. \A i \in 1..Len(events') : events'[i].kind \notin SetsRole
        BY <2>1, <2>2, <1>6
      <3>. QED
        BY <3>1, <3>2 DEF RoleFollows
    <2>3. ASSUME NEW m \in 1..Len(events), events[m].kind \in SetsRole,
                 events[m].kind = "deleted" <=> LivePlans = {},
                 \A i \in 1..Len(events) : i > m => events[i].kind \notin SetsRole
          PROVE  RoleFollows'
      <3>1. /\ m \in 1..Len(events') /\ events'[m].kind \in SetsRole
            /\ events'[m].kind = "deleted" <=> LivePlans' = {}
        BY <2>1, <2>3, <1>5, <1>6, Zenon
      <3>2. \A i \in 1..Len(events') : i > m => events'[i].kind \notin SetsRole
        BY <2>1, <2>3, <1>6
      <3>. QED
        BY <3>1, <3>2, Zenon DEF RoleFollows
    <2>4. RoleFollows
      BY DEF Follows
    <2>. QED
      BY <2>2, <2>3, <2>4, Zenon DEF RoleFollows
  <1>11. RoleFollows'
    <2>1. k = "updated" \/ k = "deleted"
      BY <1>1
    <2>. QED
      BY <2>1, <1>9, <1>10, Zenon
  <1>12. Paid(s) /\ Paid(s)'
    BY <1>1, SMT DEF Paid, LiveStatuses
  <1>13. ASSUME NEW t \in Plans
         PROVE  RowComes(t)'
    <2>1. Paid(t)' => Paid(t)
      BY <1>1, <1>12 DEF Paid
    <2>2. SUFFICES ASSUME Paid(t)', sub'[t] = "none"
                   PROVE  \E j \in 1..Len(events') :
                             /\ events'[j].kind = "checkout" /\ events'[j].plan = t
                             /\ \A i \in 1..Len(events') :
                                   events'[i].plan = t /\ events'[i].kind \in {"updated", "deleted"}
                                      => j < i
      BY DEF RowComes
    <2>3. PICK j \in 1..Len(events) :
             /\ events[j].kind = "checkout" /\ events[j].plan = t
             /\ \A i \in 1..Len(events) :
                   events[i].plan = t /\ events[i].kind \in {"updated", "deleted"} => j < i
      BY <2>1, <2>2, <1>5 DEF Follows, RowComes
    <2>. QED
      BY <2>3, <1>5, <1>6
  <1>14. RowFollows(s)'
    BY <1>5, <1>6 DEF RowFollows
  <1>15. ASSUME NEW t \in Plans, t # s
         PROVE  RowFollows(t)'
    <2>1. Paid(t)' => Paid(t)
      BY <1>1, <1>15 DEF Paid
    <2>2. SUFFICES ASSUME Paid(t)'
                   PROVE  \/ /\ \A i \in 1..Len(events') : events'[i].plan # t
                             /\ sub'[t] = provider'[t].status
                          \/ \E m \in 1..Len(events') :
                                /\ events'[m].plan = t /\ events'[m].status = provider'[t].status
                                /\ \A i \in 1..Len(events') : i > m => events'[i].plan # t
      BY DEF RowFollows
    <2>3. CASE /\ \A i \in 1..Len(events) : events[i].plan # t
               /\ sub[t] = provider[t].status
      BY <2>3, <1>1, <1>5, <1>6, <1>15
    <2>4. ASSUME NEW m \in 1..Len(events), events[m].plan = t,
                 events[m].status = provider[t].status,
                 \A i \in 1..Len(events) : i > m => events[i].plan # t
          PROVE  /\ m \in 1..Len(events')
                 /\ events'[m].plan = t /\ events'[m].status = provider'[t].status
                 /\ \A i \in 1..Len(events') : i > m => events'[i].plan # t
      BY <2>4, <1>1, <1>5, <1>6, <1>15
    <2>. QED
      BY <2>1, <2>2, <2>3, <2>4 DEF Follows, RowFollows
  <1>. QED
    BY <1>7, <1>8, <1>11, <1>13, <1>14, <1>15 DEF Follows

\* Asking the provider gives the row and the tier what they are to have.
LEMMA SyncFollows ==
    ASSUME BillingTypes, Follows, NEW s \in Plans, SyncFromProvider(s)
    PROVE  Follows'
  <1>1. /\ provider[s].status = "active"
        /\ sub' = [sub EXCEPT ![s] = "active"] /\ tier' = TierOf[provider[s].price]
        /\ UNCHANGED <<provider, events, lecturer>>
    BY DEF SyncFromProvider, SetTier
  <1>2. LivePlans' = LivePlans /\ Ordered' = Ordered
    BY <1>1 DEF LivePlans, Ordered
  <1>3. s \in LivePlans
    BY <1>1 DEF LivePlans, LiveStatuses
  <1>4. tier' = Ordered
    BY <1>1, <1>3, TheLivePlan DEF Follows
  <1>5. /\ \A t \in Plans : t # s => sub'[t] = sub[t]
        /\ sub'[s] = "active"
    BY <1>1, SMT DEF BillingTypes
  <1>6. OneLive'
    BY <1>2 DEF Follows, OneLive
  <1>7. TierFollows'
    <2>1. CASE \A i \in 1..Len(events) : events[i].kind \notin SetsTier
      BY <2>1, <1>1, <1>2, <1>4 DEF TierFollows
    <2>2. ASSUME NEW m \in 1..Len(events), events[m].kind \in SetsTier, Confirms(events[m]),
                 \A k \in 1..Len(events) : k > m => events[k].kind \notin SetsTier
          PROVE  TierFollows'
      <3>1. Confirms(events[m])'
        BY <2>2, <1>1, <1>2 DEF Confirms
      <3>. QED
        BY <2>2, <3>1, <1>1 DEF TierFollows
    <2>. QED
      BY <2>1, <2>2 DEF Follows, TierFollows
  <1>8. RoleFollows'
    <2>1. RightRole => RightRole'
      BY <1>1, <1>2, <1>3 DEF RightRole
    <2>. QED
      BY <2>1, <1>1, <1>2 DEF Follows, RoleFollows
  <1>9. ASSUME NEW t \in Plans
        PROVE  RowComes(t)' /\ RowFollows(t)'
    <2>1. RowComes(t) /\ RowFollows(t)
      BY DEF Follows
    <2>2. RowComes(t)'
      <3>1. Paid(t)' <=> Paid(t)
        BY <1>1 DEF Paid
      <3>2. sub'[t] = "none" => sub[t] = "none"
        BY <1>5, SMT
      <3>. QED
        BY <2>1, <3>1, <3>2, <1>1 DEF RowComes
    <2>3. RowFollows(t)'
      <3>1. Paid(t)' <=> Paid(t)
        BY <1>1 DEF Paid
      <3>2. sub[t] = provider[t].status => sub'[t] = provider'[t].status
        BY <1>1, <1>5
      <3>. QED
        BY <2>1, <3>1, <3>2, <1>1 DEF RowFollows
    <2>. QED
      BY <2>2, <2>3
  <1>. QED
    BY <1>6, <1>7, <1>8, <1>9 DEF Follows

\* An event that changes or ends a plan finds the row of that plan.
LEMMA RowIsThere ==
    ASSUME BillingTypes, Follows, 1 \in 1..Len(events),
           events[1].kind \in {"updated", "deleted"}
    PROVE  sub[events[1].plan] # "none"
  <1>. DEFINE s == events[1].plan
  <1>1. s \in Plans /\ Paid(s)
    BY WaitingIsPaid
  <1>2. RowComes(s)
    BY <1>1 DEF Follows
  <1>3. ASSUME sub[s] = "none"
        PROVE  FALSE
    <2>1. PICK j \in 1..Len(events) :
             \A i \in 1..Len(events) :
                events[i].plan = s /\ events[i].kind \in {"updated", "deleted"} => j < i
      BY <1>1, <1>2, <1>3, SMTT(30) DEF RowComes
    <2>2. j < 1
      BY <2>1
    <2>. QED
      BY <2>2, SMT
  <1>. QED
    BY <1>3

\* What the oldest event does to the row, the tier and the role.
LEMMA HandledInTurn ==
    ASSUME BillingTypes, Follows, 1 \in 1..Len(events),
           NEW e, e = events[1], Handle(e), ~UnknownPrice(e)
    PROVE  /\ \A t \in Plans : t # e.plan => sub'[t] = sub[t]
           /\ e.kind \notin SetsTier => tier' = tier
           /\ e.kind \in SetsTier /\ Confirms(e) => tier' = Ordered
           /\ e.kind \notin SetsRole => lecturer' = lecturer
           /\ e.kind = "checkout" => lecturer'
           /\ e.kind = "deleted" => (lecturer' => OwnerIsAdmin)
           /\ sub'[e.plan] = "none" => sub[e.plan] = "none" /\ e.kind = "created"
           /\ e.status = provider[e.plan].status /\ (sub[e.plan] # "none" \/ e.kind = "checkout")
                => sub'[e.plan] = provider[e.plan].status
           /\ e.kind \notin SetsRole =>
                \A t \in Plans : sub'[t] = "canceled" => sub[t] = "canceled"
  <1>. DEFINE s == e.plan
  <1>0. /\ sub \in [Plans -> {"none", "canceled"} \cup LiveStatuses]
        /\ s \in Plans /\ SoundEvent(e)
    BY WaitingIsPaid DEF BillingTypes
  <1>1. ASSUME e.kind = "created", sub[s] = "none"
        PROVE  UNCHANGED <<sub, tier, lecturer>>
    BY <1>1, SMT DEF Handle, Nothing
  <1>2. ASSUME e.kind = "created", sub[s] # "none"
        PROVE  sub' = [sub EXCEPT ![s] = "active"] /\ UNCHANGED <<tier, lecturer>>
               /\ e.status = "active"
    <2>1. SubscriptionCreated(e)
      BY <1>2, SMT DEF Handle
    <2>2. e.status = "active"
      BY <1>0, <1>2 DEF SoundEvent
    <2>. QED
      BY <2>1, <2>2 DEF SubscriptionCreated
  <1>3. ASSUME e.kind = "checkout"
        PROVE  /\ sub' = [sub EXCEPT ![s] = provider[s].status]
               /\ tier' = TierOf[provider[s].price] /\ lecturer' = TRUE
    <2>1. CheckoutCompleted(e)
      BY <1>3, SMT DEF Handle
    <2>2. provider[s].price \in DOMAIN TierOf
      BY <1>3 DEF UnknownPrice
    <2>. QED
      BY <2>1, <2>2 DEF CheckoutCompleted, SetTier
  <1>4. ASSUME e.kind = "updated"
        PROVE  /\ sub' = [sub EXCEPT ![s] = e.status] /\ e.status \in LiveStatuses
               /\ tier' = TierOf[e.price] /\ lecturer' = lecturer
               /\ sub[s] # "none"
    <2>1. sub[s] # "none"
      BY <1>4, RowIsThere
    <2>2. SubscriptionUpdated(e)
      BY <1>4, <2>1, SMT DEF Handle
    <2>3. e.price \in DOMAIN TierOf
      BY <1>4, <2>1 DEF UnknownPrice
    <2>4. e.status \in LiveStatuses
      BY <1>0, <1>4 DEF SoundEvent
    <2>. QED
      BY <2>1, <2>2, <2>3, <2>4 DEF SubscriptionUpdated, SetTier
  <1>5. ASSUME e.kind = "deleted"
        PROVE  /\ sub' = [sub EXCEPT ![s] = "canceled"] /\ provider[s].status = "canceled"
               /\ tier' = "free" /\ lecturer' = (OwnerIsAdmin /\ lecturer)
               /\ sub[s] # "none"
    <2>1. sub[s] # "none"
      BY <1>5, RowIsThere
    <2>2. SubscriptionDeleted(e)
      BY <1>5, <2>1, SMT DEF Handle
    <2>3. provider[s].status = "canceled"
      BY <1>0, <1>5 DEF SoundEvent
    <2>. QED
      BY <2>1, <2>2, <2>3 DEF SubscriptionDeleted, SetTier
  <1>6. e.kind \in EventKinds
    BY WaitingIsPaid
  <1>7. Paid(s)
    BY WaitingIsPaid
  <1>8. \A t \in Plans : t # s => sub'[t] = sub[t]
    BY <1>0, <1>1, <1>2, <1>3, <1>4, <1>5, <1>6, Zenon DEF EventKinds
  <1>9. /\ e.kind = "created" /\ sub[s] # "none" => sub'[s] = "active"
        /\ e.kind = "checkout" => sub'[s] = provider[s].status
        /\ e.kind = "updated" => sub'[s] = e.status
        /\ e.kind = "deleted" => sub'[s] = "canceled"
    BY <1>0, <1>2, <1>3, <1>4, <1>5, Zenon
  <1>10. e.kind \notin SetsTier => e.kind = "created"
    BY <1>6 DEF SetsTier, EventKinds
  <1>11. e.kind \notin SetsRole => e.kind = "created" \/ e.kind = "updated"
    BY <1>6 DEF SetsRole, EventKinds
  <1>12. e.kind \notin SetsTier => tier' = tier
    BY <1>1, <1>2, <1>10
  <1>13. ASSUME e.kind \in SetsTier, Confirms(e)
         PROVE  tier' = Ordered
    <2>1. CASE e.kind = "checkout"
      <3>1. LivePlans = {s}
        BY <1>13, <2>1, SMT DEF Confirms
      <3>2. s \in LivePlans /\ OneLive
        BY <3>1 DEF Follows
      <3>. QED
        BY <3>2, <2>1, <1>3, TheLivePlan
    <2>2. CASE e.kind = "updated"
      <3>1. LivePlans = {s} /\ e.price = provider[s].price
        BY <1>13, <2>2, SMT DEF Confirms
      <3>2. s \in LivePlans /\ OneLive
        BY <3>1 DEF Follows
      <3>3. Ordered = TierOf[provider[s].price]
        BY <3>2, TheLivePlan
      <3>. QED
        BY <3>1, <3>3, <2>2, <1>4
    <2>3. CASE e.kind = "deleted"
      <3>1. LivePlans = {}
        BY <1>13, <2>3 DEF Confirms
      <3>. QED
        BY <3>1, <2>3, <1>5 DEF Ordered
    <2>. QED
      BY <1>13, <2>1, <2>2, <2>3 DEF SetsTier
  <1>14. e.kind \notin SetsRole => lecturer' = lecturer
    BY <1>1, <1>2, <1>4, <1>11
  <1>15. /\ e.kind = "checkout" => lecturer'
         /\ e.kind = "deleted" => (lecturer' => OwnerIsAdmin)
    BY <1>3, <1>5, Zenon
  <1>16. sub'[s] = "none" => sub[s] = "none" /\ e.kind = "created"
    <2>1. e.kind = "checkout" => sub'[s] # "none"
      BY <1>9, <1>7, SMT DEF Paid
    <2>2. e.kind = "updated" => sub'[s] # "none"
      BY <1>9, <1>4, SMT DEF LiveStatuses
    <2>3. e.kind = "deleted" => sub'[s] # "none"
      BY <1>9, SMT
    <2>4. e.kind = "created" /\ sub[s] # "none" => sub'[s] # "none"
      BY <1>9, SMT
    <2>. QED
      BY <2>1, <2>2, <2>3, <2>4, <1>6, Zenon DEF EventKinds
  <1>17. e.status = provider[s].status /\ (sub[s] # "none" \/ e.kind = "checkout")
           => sub'[s] = provider[s].status
    BY <1>2, <1>5, <1>6, <1>9, Zenon DEF EventKinds
  <1>18. e.kind \notin SetsRole =>
           \A t \in Plans : sub'[t] = "canceled" => sub[t] = "canceled"
    <2>1. CASE e.kind = "created" /\ sub[s] = "none"
      BY <2>1, <1>1
    <2>2. CASE e.kind = "created" /\ sub[s] # "none"
      <3>1. sub'[s] # "canceled"
        BY <2>2, <1>9, SMT
      <3>. QED
        BY <3>1, <1>8
    <2>3. CASE e.kind = "updated"
      <3>1. sub'[s] # "canceled"
        BY <2>3, <1>9, <1>4, SMT DEF LiveStatuses
      <3>. QED
        BY <3>1, <1>8
    <2>. QED
      BY <2>1, <2>2, <2>3, <1>11
  <1>. QED
    BY <1>8, <1>12, <1>13, <1>14, <1>15, <1>16, <1>17, <1>18, Zenon

\* The oldest event handled while its acknowledgement is lost: it will be
\* handled again, and still nothing newer has been overtaken.
LEMMA RepeatedFollows ==
    ASSUME BillingTypes, Follows, 1 \in 1..Len(events), Handle(events[1]),
           ~UnknownPrice(events[1]), UNCHANGED <<provider, events>>
    PROVE  Follows'
  <1>. PICK e : e = events[1]
    OBVIOUS
  <1>1. /\ \A t \in Plans : t # e.plan => sub'[t] = sub[t]
        /\ e.kind \notin SetsTier => tier' = tier
        /\ e.kind \notin SetsRole => lecturer' = lecturer
        /\ sub'[e.plan] = "none" => sub[e.plan] = "none" /\ e.kind = "created"
        /\ e.kind \notin SetsRole =>
              \A t \in Plans : sub'[t] = "canceled" => sub[t] = "canceled"
    BY HandledInTurn
  <1>2. LivePlans' = LivePlans /\ Ordered' = Ordered
    BY DEF LivePlans, Ordered
  <1>3. OneLive'
    BY <1>2 DEF Follows, OneLive
  <1>4. TierFollows'
    <2>1. CASE (\A i \in 1..Len(events) : events[i].kind \notin SetsTier) /\ tier = Ordered
      BY <2>1, <1>1, <1>2, Zenon DEF TierFollows
    <2>2. ASSUME NEW m \in 1..Len(events), events[m].kind \in SetsTier, Confirms(events[m]),
                 \A k \in 1..Len(events) : k > m => events[k].kind \notin SetsTier
          PROVE  TierFollows'
      <3>1. Confirms(events[m])'
        BY <2>2, <1>2 DEF Confirms
      <3>. QED
        BY <2>2, <3>1 DEF TierFollows
    <2>. QED
      BY <2>1, <2>2 DEF Follows, TierFollows
  <1>5. RoleFollows'
    <2>1. CASE (\A i \in 1..Len(events) : events[i].kind \notin SetsRole) /\ RightRole
      <3>1. e.kind \notin SetsRole
        BY <2>1
      <3>2. RightRole'
        <4>1. /\ lecturer' = lecturer
              /\ \A t \in Plans : sub'[t] = "canceled" => sub[t] = "canceled"
          BY <3>1, <1>1, Zenon
        <4>. QED
          BY <2>1, <4>1, <1>2, Zenon DEF RightRole
      <3>. QED
        BY <2>1, <3>2 DEF RoleFollows
    <2>2. ASSUME NEW m \in 1..Len(events), events[m].kind \in SetsRole,
                 events[m].kind = "deleted" <=> LivePlans = {},
                 \A k \in 1..Len(events) : k > m => events[k].kind \notin SetsRole
          PROVE  RoleFollows'
      BY <2>2, <1>2, Zenon DEF RoleFollows
    <2>3. RoleFollows
      BY DEF Follows
    <2>. QED
      BY <2>1, <2>2, <2>3, Zenon DEF RoleFollows
  <1>6. ASSUME NEW t \in Plans
        PROVE  RowComes(t)' /\ RowFollows(t)'
    <2>1. RowComes(t) /\ RowFollows(t)
      BY DEF Follows
    <2>2. Paid(t)' <=> Paid(t)
      BY DEF Paid
    <2>3. sub'[t] = "none" => sub[t] = "none"
      BY <1>1, Zenon
    <2>4. RowComes(t)'
      BY <2>1, <2>2, <2>3 DEF RowComes
    <2>5. RowFollows(t)'
      <3>1. (\A i \in 1..Len(events) : events[i].plan # t) => sub'[t] = sub[t]
        BY <1>1, Zenon
      <3>. QED
        BY <2>1, <2>2, <3>1, Zenon DEF RowFollows
    <2>. QED
      BY <2>4, <2>5
  <1>. QED
    BY <1>3, <1>4, <1>5, <1>6 DEF Follows

\* The oldest event handled and acknowledged.
LEMMA TakenFollows ==
    ASSUME BillingTypes, Follows, 1 \in 1..Len(events), Handle(events[1]),
           ~UnknownPrice(events[1]), UNCHANGED provider, events' = RemoveAt(events, 1)
    PROVE  Follows'
  <1>. PICK e : e = events[1]
    OBVIOUS
  <1>1. /\ \A t \in Plans : t # e.plan => sub'[t] = sub[t]
        /\ e.kind \notin SetsTier => tier' = tier
        /\ e.kind \in SetsTier /\ Confirms(e) => tier' = Ordered
        /\ e.kind \notin SetsRole => lecturer' = lecturer
        /\ e.kind = "checkout" => lecturer'
        /\ e.kind = "deleted" => (lecturer' => OwnerIsAdmin)
        /\ sub'[e.plan] = "none" => sub[e.plan] = "none" /\ e.kind = "created"
        /\ e.status = provider[e.plan].status /\ (sub[e.plan] # "none" \/ e.kind = "checkout")
             => sub'[e.plan] = provider[e.plan].status
        /\ e.kind \notin SetsRole =>
              \A t \in Plans : sub'[t] = "canceled" => sub[t] = "canceled"
    BY HandledInTurn
  <1>2. LivePlans' = LivePlans /\ Ordered' = Ordered
    BY DEF LivePlans, Ordered
  <1>3. /\ Len(events) \in Nat /\ Len(events') \in Nat /\ Len(events') + 1 = Len(events)
        /\ \A j \in 1..Len(events') : events'[j] = events[j + 1]
    <2>1. events \in Seq(EventRecords)
      BY DEF BillingTypes
    <2>2. /\ RemoveAt(events, 1) \in Seq(EventRecords)
          /\ Len(RemoveAt(events, 1)) + 1 = Len(events)
          /\ \A j \in 1..Len(RemoveAt(events, 1)) :
                RemoveAt(events, 1)[j] = events[IF j < 1 THEN j ELSE j + 1]
      BY <2>1, OneTaken
    <2>3. Len(events) \in Nat /\ Len(events') \in Nat
      BY <2>1, <2>2, LenProperties
    <2>4. ASSUME NEW j \in 1..Len(events')
          PROVE  events'[j] = events[j + 1]
      <3>1. ~(j < 1)
        BY <2>3, SMT
      <3>. QED
        BY <3>1, <2>2
    <2>. QED
      BY <2>2, <2>3, <2>4
  <1>4. /\ \A j \in 1..Len(events') : j + 1 \in 1..Len(events) /\ events'[j] = events[j + 1]
        /\ \A m \in 1..Len(events) : m # 1 => m - 1 \in 1..Len(events')
        /\ \A m \in 1..Len(events) : m # 1 => events'[m - 1] = events[m] /\ m > 1
    BY <1>3, SMT
  <1>5. OneLive'
    BY <1>2 DEF Follows, OneLive
  <1>6. TierFollows'
    <2>1. ASSUME \A j \in 1..Len(events) : j # 1 => events[j].kind \notin SetsTier
          PROVE  \A j \in 1..Len(events') : events'[j].kind \notin SetsTier
      BY <2>1, <1>3, <1>4, SMT
    <2>2. CASE (\A i \in 1..Len(events) : events[i].kind \notin SetsTier) /\ tier = Ordered
      <3>1. tier' = Ordered
        BY <2>2, <1>1
      <3>. QED
        BY <2>1, <2>2, <3>1, <1>2 DEF TierFollows
    <2>3. ASSUME NEW m \in 1..Len(events), events[m].kind \in SetsTier, Confirms(events[m]),
                 \A k \in 1..Len(events) : k > m => events[k].kind \notin SetsTier
          PROVE  TierFollows'
      <3>1. CASE m = 1
        <4>1. tier' = Ordered
          BY <2>3, <3>1, <1>1
        <4>2. \A j \in 1..Len(events') : events'[j].kind \notin SetsTier
          BY <2>1, <2>3, <3>1, <1>4
        <4>. QED
          BY <4>1, <4>2, <1>2 DEF TierFollows
      <3>2. CASE m # 1
        <4>1. PICK n \in 1..Len(events') : n = m - 1 /\ n + 1 = m
          BY <3>2, <1>3, <1>4, SMT
        <4>2. events'[n] = events[m]
          BY <4>1, <1>4
        <4>3. ASSUME NEW k \in 1..Len(events'), k > n
              PROVE  events'[k].kind \notin SetsTier
          <5>1. k + 1 \in 1..Len(events) /\ k + 1 > m /\ events'[k] = events[k + 1]
            BY <4>1, <4>3, <1>3, <1>4, SMT
          <5>. QED
            BY <5>1, <2>3
        <4>4. Confirms(events[n])'
          BY <2>3, <4>2, <1>2 DEF Confirms
        <4>. QED
          BY <2>3, <4>2, <4>3, <4>4 DEF TierFollows
      <3>. QED
        BY <3>1, <3>2
    <2>. QED
      BY <2>2, <2>3 DEF Follows, TierFollows
  <1>7. RoleFollows'
    <2>1. ASSUME \A j \in 1..Len(events) : j # 1 => events[j].kind \notin SetsRole
          PROVE  \A j \in 1..Len(events') : events'[j].kind \notin SetsRole
      BY <2>1, <1>3, <1>4, SMT
    <2>2. CASE (\A i \in 1..Len(events) : events[i].kind \notin SetsRole) /\ RightRole
      <3>1. e.kind \notin SetsRole
        BY <2>2
      <3>2. RightRole'
        <4>1. /\ lecturer' = lecturer
              /\ \A t \in Plans : sub'[t] = "canceled" => sub[t] = "canceled"
          BY <3>1, <1>1, Zenon
        <4>. QED
          BY <2>2, <4>1, <1>2, Zenon DEF RightRole
      <3>3. \A j \in 1..Len(events') : events'[j].kind \notin SetsRole
        BY <2>1, <2>2
      <3>. QED
        BY <3>2, <3>3 DEF RoleFollows
    <2>3. ASSUME NEW m \in 1..Len(events), events[m].kind \in SetsRole,
                 events[m].kind = "deleted" <=> LivePlans = {},
                 \A k \in 1..Len(events) : k > m => events[k].kind \notin SetsRole
          PROVE  RoleFollows'
      <3>1. CASE m = 1
        <4>1. e.kind = "checkout" \/ e.kind = "deleted"
          BY <2>3, <3>1 DEF SetsRole
        <4>2. e.kind = "deleted" <=> LivePlans = {}
          BY <2>3, <3>1, Zenon
        <4>3. RightRole'
          <5>1. CASE e.kind = "checkout"
            BY <5>1, <4>2, <1>1, <1>2, Zenon DEF RightRole
          <5>2. CASE e.kind = "deleted"
            BY <5>2, <4>2, <1>1, <1>2, Zenon DEF RightRole
          <5>. QED
            BY <4>1, <5>1, <5>2
        <4>4. \A j \in 1..Len(events') : events'[j].kind \notin SetsRole
          BY <2>1, <2>3, <3>1, <1>4
        <4>. QED
          BY <4>3, <4>4 DEF RoleFollows
      <3>2. CASE m # 1
        <4>1. PICK n \in 1..Len(events') : n = m - 1 /\ n + 1 = m
          BY <3>2, <1>3, <1>4, SMT
        <4>2. events'[n] = events[m]
          BY <4>1, <1>4
        <4>3. ASSUME NEW k \in 1..Len(events'), k > n
              PROVE  events'[k].kind \notin SetsRole
          <5>1. k + 1 \in 1..Len(events) /\ k + 1 > m /\ events'[k] = events[k + 1]
            BY <4>1, <4>3, <1>3, <1>4, SMT
          <5>. QED
            BY <5>1, <2>3
        <4>. QED
          BY <2>3, <4>2, <4>3, <1>2, Zenon DEF RoleFollows
      <3>. QED
        BY <3>1, <3>2
    <2>4. RoleFollows
      BY DEF Follows
    <2>. QED
      BY <2>2, <2>3, <2>4, Zenon DEF RoleFollows
  <1>8. ASSUME NEW t \in Plans
        PROVE  RowComes(t)'
    <2>1. SUFFICES ASSUME Paid(t)', sub'[t] = "none"
                   PROVE  \E j \in 1..Len(events') :
                             /\ events'[j].kind = "checkout" /\ events'[j].plan = t
                             /\ \A i \in 1..Len(events') :
                                   events'[i].plan = t /\ events'[i].kind \in {"updated", "deleted"}
                                      => j < i
      BY DEF RowComes
    <2>2. Paid(t) /\ sub[t] = "none" /\ RowComes(t)
      BY <2>1, <1>1 DEF Paid, Follows
    <2>3. PICK j \in 1..Len(events) :
             /\ events[j].kind = "checkout" /\ events[j].plan = t
             /\ \A i \in 1..Len(events) :
                   events[i].plan = t /\ events[i].kind \in {"updated", "deleted"} => j < i
      BY <2>2 DEF RowComes
    <2>4. j # 1
      <3>1. t = e.plan => e.kind = "created"
        BY <2>1, <1>1
      <3>. QED
        BY <2>3, <3>1
    <2>5. PICK n \in 1..Len(events') : n = j - 1 /\ n + 1 = j
      BY <2>4, <1>3, <1>4, SMT
    <2>6. events'[n] = events[j]
      BY <2>4, <2>5, <1>4
    <2>7. ASSUME NEW i \in 1..Len(events'), events'[i].plan = t,
                 events'[i].kind \in {"updated", "deleted"}
          PROVE  n < i
      <3>1. i + 1 \in 1..Len(events) /\ events'[i] = events[i + 1]
        BY <1>4
      <3>2. j < i + 1
        BY <2>3, <2>7, <3>1
      <3>. QED
        BY <2>5, <3>2, <1>3, SMT
    <2>. QED
      BY <2>3, <2>5, <2>6, <2>7
  <1>9. ASSUME NEW t \in Plans
        PROVE  RowFollows(t)'
    <2>1. SUFFICES ASSUME Paid(t)'
                   PROVE  \/ /\ \A i \in 1..Len(events') : events'[i].plan # t
                             /\ sub'[t] = provider'[t].status
                          \/ \E m \in 1..Len(events') :
                                /\ events'[m].plan = t /\ events'[m].status = provider'[t].status
                                /\ \A i \in 1..Len(events') : i > m => events'[i].plan # t
      BY DEF RowFollows
    <2>2. Paid(t) /\ RowComes(t) /\ RowFollows(t)
      BY <2>1 DEF Paid, Follows
    <2>3. CASE (\A i \in 1..Len(events) : events[i].plan # t) /\ sub[t] = provider[t].status
      <3>1. sub'[t] = provider'[t].status
        BY <2>3, <1>1
      <3>2. \A i \in 1..Len(events') : events'[i].plan # t
        BY <2>3, <1>4
      <3>. QED
        BY <3>1, <3>2
    <2>4. ASSUME NEW m \in 1..Len(events), events[m].plan = t,
                 events[m].status = provider[t].status,
                 \A i \in 1..Len(events) : i > m => events[i].plan # t
          PROVE  \/ /\ \A i \in 1..Len(events') : events'[i].plan # t
                    /\ sub'[t] = provider'[t].status
                 \/ \E k \in 1..Len(events') :
                       /\ events'[k].plan = t /\ events'[k].status = provider'[t].status
                       /\ \A i \in 1..Len(events') : i > k => events'[i].plan # t
      <3>1. CASE m = 1
        <4>1. e.plan = t /\ e.status = provider[t].status
          BY <2>4, <3>1
        <4>2. sub[t] # "none" \/ e.kind = "checkout"
          <5>1. ASSUME sub[t] = "none"
                PROVE  e.kind = "checkout"
            <6>1. PICK j \in 1..Len(events) : events[j].kind = "checkout" /\ events[j].plan = t
              BY <5>1, <2>2 DEF RowComes
            <6>2. ~(j > 1)
              BY <6>1, <2>4, <3>1
            <6>3. j = 1
              BY <6>2, <1>4
            <6>. QED
              BY <6>1, <6>3
          <5>. QED
            BY <5>1
        <4>3. sub'[t] = provider'[t].status
          BY <4>1, <4>2, <1>1
        <4>4. \A i \in 1..Len(events') : events'[i].plan # t
          <5>1. ASSUME NEW i \in 1..Len(events')
                PROVE  events'[i].plan # t
            <6>1. i + 1 \in 1..Len(events) /\ i + 1 > 1 /\ events'[i] = events[i + 1]
              BY <1>3, <1>4, SMT
            <6>. QED
              BY <6>1, <2>4, <3>1
          <5>. QED
            BY <5>1
        <4>. QED
          BY <4>3, <4>4
      <3>2. CASE m # 1
        <4>1. PICK n \in 1..Len(events') : n = m - 1 /\ n + 1 = m
          BY <3>2, <1>3, <1>4, SMT
        <4>2. events'[n] = events[m]
          BY <4>1, <1>4
        <4>3. ASSUME NEW k \in 1..Len(events'), k > n
              PROVE  events'[k].plan # t
          <5>1. k + 1 \in 1..Len(events) /\ k + 1 > m /\ events'[k] = events[k + 1]
            BY <4>1, <4>3, <1>3, <1>4, SMT
          <5>. QED
            BY <5>1, <2>4
        <4>. QED
          BY <2>4, <4>2, <4>3
      <3>. QED
        BY <3>1, <3>2
    <2>. QED
      BY <2>1, <2>2, <2>3, <2>4, Zenon DEF RowFollows
  <1>. QED
    BY <1>5, <1>6, <1>7, <1>8, <1>9 DEF Follows

\* Every step keeps the strengthening.
LEMMA BillingStep ==
    BillingInv /\ [BillingNext]_billingVars => BillingInv'
  <1>. SUFFICES ASSUME BillingInv, [BillingNext]_billingVars
                PROVE  BillingInv'
    OBVIOUS
  <1>1. BillingTypes /\ BillingTypes'
    BY BillingTypesStep DEF BillingInv
  <1>2. SUFFICES ASSUME excuses' = {}
                 PROVE  Follows'
    BY <1>1 DEF BillingInv
  <1>3. ASSUME excuses = {}
        PROVE  Follows
    BY <1>3 DEF BillingInv
  <1>4. ASSUME NEW s \in Plans, NEW p \in PlanPrices, OpenCheckout(s, p)
        PROVE  Follows'
    <2>1. excuses = {}
      BY <1>2, <1>4 DEF OpenCheckout
    <2>. QED
      BY <1>1, <1>3, <1>4, <2>1, OpenFollows
  <1>5. ASSUME NEW s \in Plans, Pay(s)
        PROVE  Follows'
    <2>1. excuses = {}
      BY <1>1, <1>2, <1>5, PayStep
    <2>. QED
      BY <1>1, <1>2, <1>3, <1>5, <2>1, PayFollows
  <1>6. ASSUME NEW s \in Plans, NEW k, Moves(s, k)
        PROVE  Follows'
    <2>1. excuses = {}
      BY <1>2, <1>6 DEF Moves
    <2>. QED
      BY <1>1, <1>3, <1>6, <2>1, MoveFollows
  <1>7. ASSUME NEW s \in Plans, NEW st \in LiveStatuses, NEW p \in PlanPrices,
               Change(s, st, p)
        PROVE  Follows'
    BY <1>1, <1>6, <1>7, ChangeMoves
  <1>8. ASSUME NEW s \in Plans, End(s)
        PROVE  Follows'
    BY <1>1, <1>6, <1>8, EndMoves
  <1>9. ASSUME NEW s \in Plans, SyncFromProvider(s)
        PROVE  Follows'
    <2>1. excuses = {}
      BY <1>2, <1>9 DEF SyncFromProvider
    <2>. QED
      BY <1>1, <1>3, <1>9, <2>1, SyncFollows
  <1>10. ASSUME NEW i \in DOMAIN events, Deliver(i)
         PROVE  Follows'
    <2>1. /\ i \in 1..Len(events) /\ Handle(events[i]) /\ UNCHANGED provider
          /\ excuses = {} /\ i = 1 /\ ~UnknownPrice(events[i])
          /\ \/ events' = RemoveAt(events, i)
             \/ UNCHANGED events
      BY <1>1, <1>2, <1>10, DeliverStep
    <2>2. Follows
      BY <1>3, <2>1
    <2>. QED
      BY <1>1, <2>1, <2>2, RepeatedFollows, TakenFollows
  <1>11. ASSUME NEW t \in Tiers, SetTierByHand(t)
         PROVE  Follows'
    BY <1>2, <1>11 DEF SetTierByHand
  <1>12. CASE UNCHANGED billingVars
    <2>1. Follows /\ UNCHANGED <<provider, events, sub, tier, lecturer>>
      BY <1>2, <1>3, <1>12 DEF billingVars
    <2>. QED
      BY <2>1 DEF Follows, OneLive, LivePlans, TierFollows, Ordered, Confirms, RoleFollows,
                  RightRole, RowComes, RowFollows, Paid
  <1>. QED
    BY <1>4, <1>5, <1>7, <1>8, <1>9, <1>10, <1>11, <1>12, Zenon DEF BillingNext

LEMMA BillingStarts ==
    BillingInit => BillingInv
  <1>. SUFFICES ASSUME BillingInit
                PROVE  BillingInv
    OBVIOUS
  <1>1. /\ provider = [s \in Plans |-> [status |-> "none", price |-> "none"]]
        /\ events = <<>> /\ emitted = 0 /\ lostAcks = 0
        /\ sub = [s \in Plans |-> "none"]
        /\ tier = "free" /\ limits = "free" /\ lecturer \in BOOLEAN /\ excuses = {}
    BY DEF BillingInit
  <1>2. /\ \A s \in Plans : provider[s].status = "none"
        /\ \A i \in 1..Len(events) : FALSE
    BY <1>1, SMT
  <1>3. LivePlans = {}
    BY <1>2 DEF LivePlans, LiveStatuses
  <1>4. \A s \in Plans : ~Paid(s)
    BY <1>2 DEF Paid
  <1>5. ProviderTypes
    <2>1. provider \in [Plans -> [status : {"none", "open", "canceled", "active", "past_due"},
                                  price : PlanPrices \cup {"none"}]]
      BY <1>1, SMT
    <2>. QED
      BY <2>1, <1>2 DEF ProviderTypes
  <1>6. BillingTypes
    <2>1. events \in Seq(EventRecords)
      BY <1>1
    <2>2. emitted \in Nat /\ lostAcks \in Nat
      BY <1>1, SMT
    <2>3. sub \in [Plans -> {"none", "canceled"} \cup LiveStatuses]
      BY <1>1
    <2>4. tier \in Tiers /\ limits = tier /\ lecturer \in BOOLEAN /\ excuses \subseteq Excuses
      BY <1>1, Zenon DEF Tiers
    <2>. QED
      BY <1>2, <1>5, <2>1, <2>2, <2>3, <2>4 DEF BillingTypes
  <1>7. TierFollows
    BY <1>1, <1>2, <1>3 DEF TierFollows, Ordered
  <1>8. RoleFollows
    <2>1. \A s \in Plans : sub[s] # "canceled"
      BY <1>1, SMT
    <2>. QED
      BY <2>1, <1>2, <1>3 DEF RoleFollows, RightRole
  <1>9. Follows
    BY <1>3, <1>4, <1>7, <1>8 DEF Follows, OneLive, RowComes, RowFollows
  <1>. QED
    BY <1>6, <1>9 DEF BillingInv

LEMMA BillingInvSuffices ==
    BillingInv => PlanMatchesProvider
  <1>. SUFFICES ASSUME BillingInv
                PROVE  PlanMatchesProvider
    OBVIOUS
  <1>1. BillingTypes
    BY DEF BillingInv
  <1>2. TypesOfBilling /\ limits = tier
    <2>1. /\ DOMAIN provider = Plans /\ DOMAIN sub = Plans
          /\ \A s \in Plans : sub[s] \in {"none", "canceled"} \cup LiveStatuses
      BY <1>1, SMT DEF BillingTypes, ProviderTypes
    <2>2. tier \in Tiers /\ limits = tier /\ lecturer \in BOOLEAN /\ excuses \subseteq Excuses
      BY <1>1 DEF BillingTypes
    <2>. QED
      BY <2>1, <2>2 DEF TypesOfBilling
  <1>3. ASSUME Settled
        PROVE  /\ \A s \in Plans : provider[s].status \notin {"none", "open"} =>
                     sub[s] = provider[s].status
               /\ tier = Ordered /\ RightRole
    <2>1. Follows
      BY <1>3 DEF Settled, BillingInv
    <2>2. \A i \in 1..Len(events) : FALSE
      BY <1>3, SMT DEF Settled
    <2>3. tier = Ordered
      BY <2>1, <2>2 DEF Follows, TierFollows
    <2>4. RightRole
      BY <2>1, <2>2 DEF Follows, RoleFollows
    <2>5. \A s \in Plans : Paid(s) => sub[s] = provider[s].status
      BY <2>1, <2>2 DEF Follows, RowFollows
    <2>. QED
      BY <2>3, <2>4, <2>5 DEF Paid
  <1>. QED
    BY <1>2, <1>3, Zenon DEF PlanMatchesProvider, Ordered, RightRole

\* The quotas are always those of the tier; and once every event has been
\* handled, each in its turn, rows, tier and role are what the provider's plans
\* say (webhooks.py, the four handlers; billing.py, the synchronisation).
THEOREM PlanFollowsProvider ==
    BillingSpec => []PlanMatchesProvider
  <1>1. BillingInit => BillingInv
    BY BillingStarts
  <1>2. BillingInv /\ [BillingNext]_billingVars => BillingInv'
    BY BillingStep
  <1>3. BillingInv => PlanMatchesProvider
    BY BillingInvSuffices
  <1>. QED
    BY <1>1, <1>2, <1>3, PTL DEF BillingSpec

-----------------------------------------------------------------------------
(***************************************************************************)
(* The quotas.  A limit is compared with what is stored, and what was      *)
(* accepted is stored later.  The totals count both: an action lets a      *)
(* total be, or passed a check that bounds it, or starts the history anew. *)
(***************************************************************************)

AmountsOf(f, S) == [w \in S |-> f[w].amount]

AmountsAddUp(g, f, S) ==
    g = [s \in SUBSET S |->
            IF s = {} THEN 0 ELSE f[Taken(s)].amount + g[s \ {Taken(s)}]]

LEMMA AmountsUnfold ==
    ASSUME NEW f, NEW S
    PROVE  AmountSum(f, S) = (CHOOSE g : AmountsAddUp(g, f, S))[S]
  BY DEF AmountSum, MapThenSumSet, MapThenFoldSet, AmountsAddUp, Taken

LEMMA AmountsAreSum ==
    ASSUME NEW f, NEW S, IsFiniteSet(S)
    PROVE  AmountSum(f, S) = SumOver(AmountsOf(f, S), S)
<1> DEFINE w == AmountsOf(f, S)
<1>1. ASSUME NEW s \in SUBSET S, s # {}
      PROVE  w[Taken(s)] = f[Taken(s)].amount
  BY <1>1, TakenIsIn DEF AmountsOf
<1>2. ASSUME NEW g PROVE AmountsAddUp(g, f, S) <=> AddsUp(g, w, S)
  <2> HIDE DEF w
  <2>1. [s \in SUBSET S |->
            IF s = {} THEN 0 ELSE f[Taken(s)].amount + g[s \ {Taken(s)}]]
        = [s \in SUBSET S |->
            IF s = {} THEN 0 ELSE w[Taken(s)] + g[s \ {Taken(s)}]]
    BY <1>1
  <2> QED
    BY <2>1 DEF AmountsAddUp, AddsUp
<1>3. \E g : AmountsAddUp(g, f, S)
  BY <1>2, AddsUpExists
<1> DEFINE h == CHOOSE g : AmountsAddUp(g, f, S)
<1>4. AmountsAddUp(h, f, S)
  BY <1>3, Zenon
<1>5. AmountSum(f, S) = h[S]
  BY AmountsUnfold
<1> HIDE DEF h, w
<1>6. AddsUp(h, w, S)
  BY <1>2, <1>4
<1>7. SumOver(w, S) = h[S]
  BY <1>6, SumIs
<1> QED
  BY <1>5, <1>7 DEF w

LEMMA AmountIsNumber ==
    ASSUME NEW f, NEW S, IsFiniteSet(S), \A x \in S : f[x].amount \in Nat
    PROVE  AmountSum(f, S) \in Nat
<1>1. \A x \in S : AmountsOf(f, S)[x] \in Nat
  BY DEF AmountsOf
<1> QED
  BY <1>1, AmountsAreSum, SumIsNatural

\* Where the records are the same, so is the sum.
LEMMA SameAmounts ==
    ASSUME NEW f, NEW g, NEW S, IsFiniteSet(S), \A x \in S : f[x] = g[x]
    PROVE  AmountSum(f, S) = AmountSum(g, S)
<1>1. \A x \in S : AmountsOf(f, S)[x] = AmountsOf(g, S)[x]
  BY DEF AmountsOf
<1> QED
  BY <1>1, AmountsAreSum, SumSame

\* One more piece of work adds its amount.
LEMMA AmountAdds ==
    ASSUME NEW f, NEW S, IsFiniteSet(S), \A x \in S : f[x].amount \in Nat, NEW y \in S
    PROVE  AmountSum(f, S) = f[y].amount + AmountSum(f, S \ {y})
<1> DEFINE w == AmountsOf(f, S)
           v == AmountsOf(f, S \ {y})
<1>1. \A x \in S : w[x] \in Nat
  BY DEF AmountsOf
<1>2. w[y] = f[y].amount
  BY DEF AmountsOf
<1>3. \A x \in S \ {y} : w[x] = v[x]
  BY DEF AmountsOf
<1>4. IsFiniteSet(S \ {y})
  BY FS_RemoveElement
<1> HIDE DEF w, v
<1>5. SumOver(w, S) = w[y] + SumOver(w, S \ {y})
  BY <1>1, SumAdds
<1>6. SumOver(w, S \ {y}) = SumOver(v, S \ {y})
  BY <1>3, <1>4, SumSame
<1> QED
  BY <1>2, <1>4, <1>5, <1>6, AmountsAreSum DEF w, v

-----------------------------------------------------------------------------
QuotaTypes ==
    /\ plan \in PlanNames
    /\ columns \in [Columns -> Nat \cup {Unlimited}]
    /\ documents \in Nat
    /\ questions \in Nat
    /\ evaluated \in SUBSET EvalExams
    /\ submitted \in [EvalExams -> SUBSET Examinees]
    /\ work \in [Works -> WorkRecords \cup {NoWork}]

\* Exams and submissions there will be when all work is done.
Counted == evaluated \cup {work[w].exam : w \in {v \in Accepted("import") : work[v].current}}
Handed(e) == submitted[e] \cup Pending(e)

AllSets ==
    /\ \A k : Accepted(k) \subseteq Works /\ IsFiniteSet(Accepted(k))
    /\ \A w \in Accepted("generate") : work[w].amount \in 1..MaxAmount
    /\ \A w \in Accepted("import") :
          /\ work[w].exam \in EvalExams /\ work[w].pupils \in SUBSET Examinees
          /\ work[w].current \in BOOLEAN
    /\ Counted \subseteq EvalExams /\ IsFiniteSet(Counted) /\ IsFiniteSet(evaluated)
    /\ \A e \in EvalExams :
          Handed(e) \subseteq Examinees /\ IsFiniteSet(Handed(e)) /\ IsFiniteSet(submitted[e])

Numbers ==
    \A r \in Resources :
        /\ Limit(r) \in Nat \cup {Unlimited}
        /\ Excess(r) \in Nat
        /\ \A e \in EvalExams :
              /\ RowsOf(r, e) \in Nat /\ Total(r, e) \in Nat
              /\ Limit(r) # Unlimited => Total(r, e) - Limit(r) <= Excess(r)

LEMMA SetsAreFinite == QuotaTypes => AllSets
<1> SUFFICES ASSUME QuotaTypes PROVE AllSets
  OBVIOUS
<1>1. \A k : Accepted(k) \subseteq Works /\ IsFiniteSet(Accepted(k))
  BY QuotasAssumption, FS_Subset DEF Accepted
<1>2. \A w \in Accepted("generate") : work[w].amount \in 1..MaxAmount
  BY DEF QuotaTypes, Accepted, WorkRecords
<1>3. \A w \in Accepted("import") :
          /\ work[w].exam \in EvalExams /\ work[w].pupils \in SUBSET Examinees
          /\ work[w].current \in BOOLEAN
  BY DEF QuotaTypes, Accepted, WorkRecords
<1>4. Counted \subseteq EvalExams
  BY <1>3 DEF Counted, QuotaTypes
<1>5. \A e \in EvalExams : Handed(e) \subseteq Examinees /\ submitted[e] \subseteq Examinees
  BY <1>3 DEF Handed, Pending, ImportsOf, QuotaTypes
<1>6. IsFiniteSet(Counted) /\ IsFiniteSet(evaluated)
  BY <1>4, QuotasAssumption, FS_Subset DEF QuotaTypes
<1>7. \A e \in EvalExams : IsFiniteSet(Handed(e)) /\ IsFiniteSet(submitted[e])
  BY <1>5, QuotasAssumption, FS_Subset
<1> QED
  BY <1>1, <1>2, <1>3, <1>4, <1>5, <1>6, <1>7 DEF AllSets

LEMMA Totals ==
    ASSUME NEW e
    PROVE  /\ Total("documents", e) = documents + Cardinality(Accepted("upload"))
           /\ Total("questions", e) = questions + AmountSum(work, Accepted("generate"))
           /\ Total("exams", e) = Cardinality(Counted)
           /\ Total("submissions", e) = Cardinality(Handed(e))
           /\ RowsOf("documents", e) = documents
           /\ RowsOf("questions", e) = questions
           /\ RowsOf("exams", e) = Cardinality(evaluated)
           /\ RowsOf("submissions", e) = Cardinality(submitted[e])
  BY DEF Total, RowsOf, Counted, Handed

LEMMA AllNumbers == QuotaTypes /\ AllSets => Numbers
<1> SUFFICES ASSUME QuotaTypes, AllSets, NEW r \in Resources
             PROVE  /\ Limit(r) \in Nat \cup {Unlimited}
                    /\ Excess(r) \in Nat
                    /\ \A e \in EvalExams :
                          /\ RowsOf(r, e) \in Nat /\ Total(r, e) \in Nat
                          /\ Limit(r) # Unlimited => Total(r, e) - Limit(r) <= Excess(r)
  BY DEF Numbers
<1>1. Limit(r) \in Nat \cup {Unlimited}
  BY QuotasAssumption DEF Limit, QuotaTypes
<1>2. ASSUME NEW e \in EvalExams PROVE RowsOf(r, e) \in Nat /\ Total(r, e) \in Nat
  <2>1. /\ documents \in Nat /\ questions \in Nat
        /\ Cardinality(Accepted("upload")) \in Nat
        /\ Cardinality(Counted) \in Nat /\ Cardinality(evaluated) \in Nat
        /\ Cardinality(Handed(e)) \in Nat /\ Cardinality(submitted[e]) \in Nat
    BY FS_CardinalityType DEF AllSets, QuotaTypes
  <2>2. AmountSum(work, Accepted("generate")) \in Nat
    <3>1. \A w \in Accepted("generate") : work[w].amount \in Nat
      BY QuotasAssumption DEF AllSets
    <3> QED
      BY <3>1, AmountIsNumber DEF AllSets
  <2> QED
    BY <2>1, <2>2, Totals DEF Resources
<1>3. CASE Limit(r) = Unlimited
  BY <1>1, <1>2, <1>3 DEF Excess
<1>4. CASE Limit(r) # Unlimited
  <2> DEFINE over == [e \in EvalExams |-> Total(r, e) - Limit(r)]
             S == {0} \cup {Total(r, e) - Limit(r) : e \in EvalExams}
  <2>1. S = {0} \cup {over[e] : e \in EvalExams}
    OBVIOUS
  <2>2. IsFiniteSet(S)
    <3>1. IsFiniteSet({over[e] : e \in EvalExams})
      <4> HIDE DEF over
      <4> QED
        BY QuotasAssumption, FiniteImage
    <3> HIDE DEF S, over
    <3> QED
      BY <2>1, <3>1, FS_Singleton, FS_Union
  <2>3. S \subseteq Int
    BY <1>1, <1>2, <1>4
  <2>4. Max(S) \in S /\ \A y \in S : Max(S) >= y
    <3>1. S # {}
      OBVIOUS
    <3> HIDE DEF S
    <3> QED
      BY <2>2, <2>3, <3>1, LargestOfFinite
  <2>5. Excess(r) = Max(S)
    BY <1>4 DEF Excess
  <2>6. 0 \in S /\ \A e \in EvalExams : Total(r, e) - Limit(r) \in S
    OBVIOUS
  <2> HIDE DEF S
  <2>7. Max(S) \in Int /\ Max(S) >= 0
    BY <2>3, <2>4, <2>6
  <2>8. \A e \in EvalExams : Max(S) >= Total(r, e) - Limit(r)
    BY <2>4, <2>6
  <2>9. \A e \in EvalExams : Total(r, e) - Limit(r) \in Int
    BY <2>3, <2>6
  <2> QED
    BY <1>1, <1>2, <2>5, <2>7, <2>8, <2>9
<1> QED
  BY <1>3, <1>4

-----------------------------------------------------------------------------
LEMMA TypesStep ==
    ASSUME QuotaTypes, AllSets, [QuotaNext]_quotaVars
    PROVE  QuotaTypes'
<1>1. ASSUME NEW w \in Works, NEW job \in WorkRecords, QueueWork(w, job)
      PROVE  QuotaTypes'
  BY <1>1 DEF QueueWork, QuotaTypes
<1>2. ASSUME NEW w \in Works, NEW e \in EvalExams, Upload(w, e) PROVE QuotaTypes'
  <2>1. [kind |-> "upload"] \in WorkRecords
    BY DEF WorkRecords
  <2> QED
    BY <1>1, <1>2, <2>1 DEF Upload
<1>3. ASSUME NEW w \in Works, NEW e \in EvalExams, NEW n \in 1..MaxAmount, Generate(w, e, n)
      PROVE  QuotaTypes'
  <2>1. [kind |-> "generate", amount |-> n] \in WorkRecords
    BY DEF WorkRecords
  <2> QED
    BY <1>1, <1>3, <2>1 DEF Generate
<1>4. ASSUME NEW w \in Works, NEW e \in EvalExams, NEW S \in SUBSET Examinees,
             ImportResults(w, e, S)
      PROVE  QuotaTypes'
  <2>1. [kind |-> "import", exam |-> e, pupils |-> S, current |-> TRUE] \in WorkRecords
    BY DEF WorkRecords
  <2> QED
    BY <1>1, <1>4, <2>1 DEF ImportResults
<1>5. ASSUME NEW w \in Works, StoreDocument(w) \/ WorkFails(w) PROVE QuotaTypes'
  BY <1>5 DEF StoreDocument, WorkFails, Ends, QuotaTypes
<1>6. ASSUME NEW w \in Works, StoreQuestions(w) PROVE QuotaTypes'
  BY <1>6, QuotasAssumption DEF StoreQuestions, Ends, QuotaTypes, AllSets
<1>7. ASSUME NEW w \in Works, StoreResults(w) PROVE QuotaTypes'
  <2>1. work[w].exam \in EvalExams /\ work[w].pupils \in SUBSET Examinees
    BY <1>7 DEF StoreResults, AllSets
  <2> QED
    BY <1>7, <2>1 DEF StoreResults, Ends, QuotaTypes
<1>8. ASSUME NEW e \in EvalExams, WriteQuestion(e) \/ DeleteResults(e) PROVE QuotaTypes'
  BY <1>8 DEF WriteQuestion, DeleteResults, QuotaTypes
<1>9. ASSUME NEW p \in PlanNames, SyncInstitutionQuotas(p) PROVE QuotaTypes'
  BY <1>9, QuotasAssumption DEF SyncInstitutionQuotas, QuotaTypes, Columns, Resources
<1>10. CASE RemoveDocument \/ DeleteQuestion
  BY <1>10 DEF RemoveDocument, DeleteQuestion, QuotaTypes
<1>11. CASE NewMonth
  <2>1. ASSUME NEW w \in Accepted("import") PROVE [work[w] EXCEPT !.current = FALSE] \in WorkRecords
    BY DEF Accepted, QuotaTypes, WorkRecords
  <2>2. work' \in [Works -> WorkRecords \cup {NoWork}]
    BY <1>11, <2>1 DEF NewMonth, QuotaTypes
  <2> QED
    BY <1>11, <2>2 DEF NewMonth, QuotaTypes
<1>12. CASE UNCHANGED quotaVars
  BY <1>12 DEF quotaVars, QuotaTypes
<1> QED
  BY <1>2, <1>3, <1>4, <1>5, <1>6, <1>7, <1>8, <1>9, <1>10, <1>11, <1>12 DEF QuotaNext

-----------------------------------------------------------------------------
LEMMA Noted ==
    ASSUME beyond \in [Resources -> Int], NEW r \in Resources, NEW n \in Int, Note(r, n)
    PROVE  /\ beyond' \in [Resources -> Int]
           /\ \A s \in Resources : beyond'[s] >= beyond[s]
           /\ beyond'[r] >= n
<1>1. PICK m : m = Max({beyond[r], n})
  OBVIOUS
<1>2. m \in Int /\ m >= beyond[r] /\ m >= n
  BY <1>1, MaxOfTwo
<1>3. beyond' = [beyond EXCEPT ![r] = m]
  BY <1>1 DEF Note
<1> QED
  BY <1>2, <1>3

\* It is enough that a total stays where it was, or within its bound.
Bounded == OvershootBounded /\ beyond \in [Resources -> Int]

LEMMA StaysBounded ==
    ASSUME Bounded, Numbers, Numbers', UNCHANGED <<plan, columns>>,
           beyond' \in [Resources -> Int], \A s \in Resources : beyond'[s] >= beyond[s],
           \A s \in Resources, x \in EvalExams :
               \/ Total(s, x)' <= Total(s, x)
               \/ Limit(s) # Unlimited => Total(s, x)' <= Limit(s) + beyond'[s]
    PROVE  Bounded'
<1>1. ASSUME NEW s \in Resources, NEW x \in EvalExams, Limit(s)' # Unlimited
      PROVE  Total(s, x)' <= Limit(s)' + beyond'[s]
  <2>1. Limit(s)' = Limit(s) /\ Limit(s) \in Nat
    BY <1>1 DEF Limit, Numbers
  <2>2. CASE Total(s, x)' <= Total(s, x)
    <3>1. Total(s, x) <= Limit(s) + beyond[s]
      BY <1>1, <2>1 DEF Bounded, OvershootBounded
    <3>2. /\ Total(s, x) \in Nat /\ Total(s, x)' \in Nat
          /\ beyond[s] \in Int /\ beyond'[s] \in Int /\ beyond'[s] >= beyond[s]
      BY DEF Bounded, Numbers
    <3> HIDE DEF Total, Limit
    <3> QED
      BY <2>1, <2>2, <3>1, <3>2
  <2>3. CASE Limit(s) # Unlimited => Total(s, x)' <= Limit(s) + beyond'[s]
    BY <1>1, <2>1, <2>3
  <2> QED
    BY <2>2, <2>3
<1>2. OvershootBounded'
  BY <1>1 DEF OvershootBounded
<1> QED
  BY <1>2 DEF Bounded

-----------------------------------------------------------------------------
\* What the totals are when work was accepted.
After(job, k, w) == IF job.kind = k THEN Accepted(k) \cup {w} ELSE Accepted(k)

LEMMA Queued ==
    ASSUME QuotaTypes, AllSets, NEW w \in Works, NEW job \in WorkRecords, QueueWork(w, job)
    PROVE  /\ Accepted("upload")' = After(job, "upload", w)
           /\ Accepted("generate")' = After(job, "generate", w)
           /\ Accepted("import")' = After(job, "import", w)
           /\ \A k : w \notin Accepted(k)
           /\ work'[w] = job /\ \A v \in Works \ {w} : work'[v] = work[v]
<1>1. work' = [work EXCEPT ![w] = job] /\ work[w] = NoWork /\ job # NoWork
  BY QuotasAssumption DEF QueueWork
<1>2. work'[w] = job /\ \A v \in Works \ {w} : work'[v] = work[v]
  BY <1>1 DEF QuotaTypes
<1> QED
  BY <1>1, <1>2 DEF Accepted, After

LEMMA QueuedTotals ==
    ASSUME QuotaTypes, AllSets, NEW w \in Works, NEW job \in WorkRecords, QueueWork(w, job),
           NEW x \in EvalExams
    PROVE  /\ Total("documents", x)' =
                  Total("documents", x) + (IF job.kind = "upload" THEN 1 ELSE 0)
           /\ Total("questions", x)' =
                  Total("questions", x) + (IF job.kind = "generate" THEN job.amount ELSE 0)
           /\ job.kind # "import" \/ job.exam \in evaluated =>
                  Total("exams", x)' = Total("exams", x)
           /\ Total("exams", x)' <= Total("exams", x) + 1
           /\ job.kind # "import" \/ job.exam # x =>
                  Total("submissions", x)' = Total("submissions", x)
           /\ job.kind = "import" =>
                  Total("submissions", x)' <= Total("submissions", x) + Cardinality(job.pupils)
<1>1. /\ Accepted("upload")' = After(job, "upload", w)
      /\ Accepted("generate")' = After(job, "generate", w)
      /\ Accepted("import")' = After(job, "import", w)
      /\ \A k : w \notin Accepted(k)
      /\ work'[w] = job /\ \A v \in Works \ {w} : work'[v] = work[v]
  BY Queued
<1>2. /\ documents' = documents /\ questions' = questions /\ evaluated' = evaluated
      /\ submitted' = submitted
  BY DEF QueueWork
<1>3. \A k : \A v \in Accepted(k) : work'[v] = work[v]
  BY <1>1 DEF AllSets
<1>4. /\ Total("documents", x)' = documents' + Cardinality(Accepted("upload")')
      /\ Total("questions", x)' = questions' + AmountSum(work', Accepted("generate")')
      /\ Total("exams", x)' = Cardinality(Counted')
      /\ Total("submissions", x)' = Cardinality(Handed(x)')
  BY DEF Total, Counted, Handed
<1>5. Total("documents", x)' = Total("documents", x) + (IF job.kind = "upload" THEN 1 ELSE 0)
  <2>1. Cardinality(Accepted("upload")') =
            Cardinality(Accepted("upload")) + (IF job.kind = "upload" THEN 1 ELSE 0)
    <3>1. Cardinality(Accepted("upload")) \in Nat
      BY FS_CardinalityType DEF AllSets
    <3>2. Cardinality(Accepted("upload") \cup {w}) = Cardinality(Accepted("upload")) + 1
      BY <1>1, FS_AddElement DEF AllSets
    <3>3. CASE job.kind = "upload"
      BY <1>1, <3>2, <3>3 DEF After
    <3>4. CASE job.kind # "upload"
      BY <1>1, <3>1, <3>4 DEF After
    <3> QED
      BY <3>3, <3>4
  <2>2. Cardinality(Accepted("upload")) \in Nat
    BY FS_CardinalityType DEF AllSets
  <2> QED
    BY <1>2, <1>4, <2>1, <2>2, Totals DEF QuotaTypes
<1>6. Total("questions", x)' =
          Total("questions", x) + (IF job.kind = "generate" THEN job.amount ELSE 0)
  <2> DEFINE S == Accepted("generate")
  <2>1. IsFiniteSet(S) /\ \A v \in S : work[v].amount \in Nat /\ work'[v] = work[v]
    BY <1>3, QuotasAssumption DEF AllSets
  <2>2. AmountSum(work', S) = AmountSum(work, S) /\ AmountSum(work, S) \in Nat
    <3> HIDE DEF S
    <3> QED
      BY <2>1, SameAmounts, AmountIsNumber
  <2>3. ASSUME job.kind = "generate" PROVE AmountSum(work', S') = AmountSum(work, S) + job.amount
    <3>1. S' = S \cup {w} /\ w \notin S
      BY <1>1, <2>3 DEF After
    <3>2. job.amount \in Nat
      BY <2>3, QuotasAssumption DEF WorkRecords
    <3>3. PICK T : T = S \cup {w}
      OBVIOUS
    <3> HIDE DEF S
    <3>4. IsFiniteSet(T) /\ w \in T /\ T \ {w} = S
      BY <2>1, <3>1, <3>3, FS_AddElement
    <3>5. \A v \in T : work'[v].amount \in Nat
      BY <1>1, <2>1, <3>2, <3>3
    <3>6. AmountSum(work', T) = work'[w].amount + AmountSum(work', T \ {w})
      BY <3>4, <3>5, AmountAdds
    <3> QED
      BY <1>1, <2>2, <3>1, <3>2, <3>3, <3>4, <3>6
  <2>4. CASE job.kind # "generate"
    <3>1. S' = S
      BY <1>1, <2>4 DEF After
    <3> HIDE DEF S
    <3> QED
      BY <1>2, <1>4, <2>2, <2>4, <3>1, Totals DEF S, QuotaTypes
  <2>5. CASE job.kind = "generate"
    <3>1. job.amount \in Nat
      BY <2>5, QuotasAssumption DEF WorkRecords
    <3> HIDE DEF S
    <3>2. Total("questions", x)' = questions + (AmountSum(work, S) + job.amount)
      BY <1>2, <1>4, <2>3, <2>5 DEF S
    <3>3. Total("questions", x) = questions + AmountSum(work, S) /\ questions \in Nat
      BY Totals DEF S, QuotaTypes
    <3> QED
      BY <2>2, <2>5, <3>1, <3>2, <3>3
  <2> QED
    BY <2>4, <2>5
<1>7. /\ job.kind # "import" \/ job.exam \in evaluated => Counted' = Counted
      /\ \E e : Counted' \subseteq Counted \cup {e}
  <2>1. CASE job.kind # "import"
    <3>1. Accepted("import")' = Accepted("import")
      BY <1>1, <2>1 DEF After
    <3>2. Counted' = Counted
      BY <1>2, <1>3, <3>1 DEF Counted
    <3> QED
      BY <2>1, <3>2
  <2>2. CASE job.kind = "import"
    <3>1. Accepted("import")' = Accepted("import") \cup {w}
      BY <1>1, <2>2 DEF After
    <3>2. \A e : e \in Counted' <=> e \in Counted \/ (job.current /\ e = job.exam)
      BY <1>1, <1>2, <1>3, <3>1 DEF Counted
    <3>3. evaluated \subseteq Counted
      BY DEF Counted
    <3> QED
      BY <2>2, <3>2, <3>3
  <2> QED
    BY <2>1, <2>2
<1>8. Total("exams", x)' <= Total("exams", x) + 1
  <2>1. PICK e : Counted' \subseteq Counted \cup {e}
    BY <1>7
  <2>a. IsFiniteSet(Counted) /\ Cardinality(Counted) \in Nat
    BY FS_CardinalityType DEF AllSets
  <2>b. Cardinality(Counted \cup {e}) =
            IF e \in Counted THEN Cardinality(Counted) ELSE Cardinality(Counted) + 1
    BY <2>a, FS_AddElement
  <2>2. /\ IsFiniteSet(Counted \cup {e})
        /\ Cardinality(Counted \cup {e}) <= Cardinality(Counted) + 1
        /\ Cardinality(Counted) \in Nat
    BY <2>a, <2>b, FS_AddElement
  <2>3. PICK T : T = Counted'
    OBVIOUS
  <2>4. /\ Cardinality(T) <= Cardinality(Counted \cup {e})
        /\ Cardinality(T) \in Nat /\ Cardinality(Counted \cup {e}) \in Nat
    BY <2>1, <2>2, <2>3, FS_Subset, FS_CardinalityType
  <2> QED
    BY <1>4, <2>2, <2>3, <2>4, Totals
<1>9. /\ job.kind # "import" \/ job.exam # x => Handed(x)' = Handed(x)
      /\ job.kind = "import" => Handed(x)' \subseteq Handed(x) \cup job.pupils
  <2>1. \A v \in Accepted("import") : v # w
    BY <1>1
  <2>2. CASE job.kind # "import"
    <3>1. ImportsOf(x)' = ImportsOf(x)
      BY <1>1, <1>3, <2>2 DEF ImportsOf, After
    <3>2. \A v \in ImportsOf(x) : work'[v] = work[v]
      BY <1>3 DEF ImportsOf
    <3> QED
      BY <1>2, <2>2, <3>1, <3>2 DEF Handed, Pending
  <2>3. CASE job.kind = "import" /\ job.exam # x
    <3>1. ImportsOf(x)' = ImportsOf(x)
      BY <1>1, <1>3, <2>3 DEF ImportsOf, After
    <3>2. \A v \in ImportsOf(x) : work'[v] = work[v]
      BY <1>3 DEF ImportsOf
    <3>3. Handed(x)' = Handed(x)
      BY <1>2, <3>1, <3>2 DEF Handed, Pending
    <3> QED
      BY <2>3, <3>3
  <2>4. CASE job.kind = "import" /\ job.exam = x
    <3>1. ImportsOf(x)' = ImportsOf(x) \cup {w}
      BY <1>1, <1>3, <2>4 DEF ImportsOf, After
    <3>2. \A v \in ImportsOf(x) : work'[v] = work[v]
      BY <1>3 DEF ImportsOf
    <3>3. Pending(x)' = Pending(x) \cup job.pupils
      BY <1>1, <3>1, <3>2 DEF Pending
    <3> QED
      BY <1>2, <2>4, <3>3 DEF Handed
  <2> QED
    BY <2>2, <2>3, <2>4
<1>10. ASSUME job.kind = "import"
       PROVE  Total("submissions", x)' <= Total("submissions", x) + Cardinality(job.pupils)
  <2>1. IsFiniteSet(job.pupils)
    BY <1>10, QuotasAssumption, FS_Subset DEF WorkRecords
  <2>2. PICK T : T = Handed(x)'
    OBVIOUS
  <2>3. PICK U : U = Handed(x) \cup job.pupils
    OBVIOUS
  <2>4. /\ IsFiniteSet(U)
        /\ Cardinality(U) = Cardinality(Handed(x)) + Cardinality(job.pupils)
                            - Cardinality(Handed(x) \cap job.pupils)
        /\ Cardinality(Handed(x)) \in Nat /\ Cardinality(job.pupils) \in Nat
        /\ Cardinality(Handed(x) \cap job.pupils) \in Nat
    BY <2>1, <2>3, FS_Union, FS_Intersection, FS_CardinalityType DEF AllSets
  <2>5. T \in SUBSET U
    BY <1>9, <1>10, <2>2, <2>3
  <2>6. Cardinality(T) <= Cardinality(U) /\ Cardinality(T) \in Nat /\ Cardinality(U) \in Nat
    BY <2>4, <2>5, FS_Subset, FS_CardinalityType
  <2> QED
    BY <1>4, <2>2, <2>4, <2>6, Totals
<1> QED
  BY <1>4, <1>5, <1>6, <1>7, <1>8, <1>9, <1>10, Totals

-----------------------------------------------------------------------------
\* What they are when work is over.
LEMMA Ended ==
    ASSUME QuotaTypes, AllSets, NEW w \in Works, Ends(w)
    PROVE  /\ Accepted("upload")' = Accepted("upload") \ {w}
           /\ Accepted("generate")' = Accepted("generate") \ {w}
           /\ Accepted("import")' = Accepted("import") \ {w}
           /\ \A v \in Works \ {w} : work'[v] = work[v]
<1>1. work' = [work EXCEPT ![w] = NoWork]
  BY DEF Ends
<1>2. work'[w] = NoWork /\ \A v \in Works \ {w} : work'[v] = work[v]
  BY <1>1 DEF QuotaTypes
<1> QED
  BY <1>2 DEF Accepted

LEMMA EndedCounts ==
    ASSUME QuotaTypes, AllSets, NEW w \in Works, Ends(w)
    PROVE  /\ Cardinality(Accepted("upload")') =
                  Cardinality(Accepted("upload")) - (IF w \in Accepted("upload") THEN 1 ELSE 0)
           /\ AmountSum(work', Accepted("generate")') =
                  AmountSum(work, Accepted("generate"))
                  - (IF w \in Accepted("generate") THEN work[w].amount ELSE 0)
           /\ Cardinality(Accepted("upload")) \in Nat
           /\ AmountSum(work, Accepted("generate")) \in Nat
<1>1. Cardinality(Accepted("upload")) \in Nat
  BY FS_CardinalityType DEF AllSets
<1>2. Cardinality(Accepted("upload") \ {w}) =
          IF w \in Accepted("upload") THEN Cardinality(Accepted("upload")) - 1
          ELSE Cardinality(Accepted("upload"))
  BY FS_RemoveElement DEF AllSets
<1>3. Cardinality(Accepted("upload")') = Cardinality(Accepted("upload") \ {w})
  BY Ended
<1> DEFINE S == Accepted("generate")
<1>4. IsFiniteSet(S) /\ \A v \in S : work[v].amount \in Nat
  BY QuotasAssumption DEF AllSets
<1>5. AmountSum(work, S) \in Nat
  <2> HIDE DEF S
  <2> QED
    BY <1>4, AmountIsNumber
<1>6. PICK T : T = S \ {w}
  OBVIOUS
<1>7. /\ IsFiniteSet(T)
      /\ \A v \in T : work'[v] = work[v] /\ work[v].amount \in Nat
  <2>1. \A v \in T : work'[v] = work[v] /\ work[v].amount \in Nat
    BY <1>4, <1>6, Ended DEF AllSets
  <2> HIDE DEF S
  <2> QED
    BY <1>4, <1>6, <2>1, FS_RemoveElement
<1>8. AmountSum(work', T) = AmountSum(work, T) /\ AmountSum(work, T) \in Nat
  BY <1>7, SameAmounts, AmountIsNumber
<1>9. AmountSum(work', S') = AmountSum(work', T)
  BY <1>6, Ended
<1>10. CASE w \in S
  <2>1. work[w].amount \in Nat
    BY <1>4, <1>10
  <2>2. AmountSum(work, S) = work[w].amount + AmountSum(work, T)
    <3> HIDE DEF S
    <3> QED
      BY <1>4, <1>6, <1>10, AmountAdds
  <2>3. AmountSum(work', S') = AmountSum(work, S) - work[w].amount
    <3> HIDE DEF S
    <3> QED
      BY <1>5, <1>8, <1>9, <2>1, <2>2
  <2> QED
    BY <1>1, <1>2, <1>3, <1>5, <1>10, <2>3
<1>11. CASE w \notin S
  <2>1. T = S
    BY <1>6, <1>11
  <2>2. AmountSum(work', S') = AmountSum(work, S)
    BY <1>8, <1>9, <2>1
  <2>3. AmountSum(work', S') = AmountSum(work, S) - 0
    <3> HIDE DEF S
    <3> QED
      BY <1>5, <2>2
  <2> QED
    BY <1>1, <1>2, <1>3, <1>5, <1>11, <2>3
<1> QED
  BY <1>10, <1>11

LEMMA Shrinks ==
    ASSUME AllSets, NEW x \in EvalExams, Counted' \subseteq Counted, Handed(x)' \subseteq Handed(x)
    PROVE  /\ Total("exams", x)' <= Total("exams", x)
           /\ Total("submissions", x)' <= Total("submissions", x)
<1>1. Total("exams", x)' = Cardinality(Counted') /\ Total("submissions", x)' = Cardinality(Handed(x)')
  BY DEF Total, Counted, Handed
<1>2. PICK T : T = Counted'
  OBVIOUS
<1>3. PICK U : U = Handed(x)'
  OBVIOUS
<1>4. T \in SUBSET Counted /\ U \in SUBSET Handed(x)
  BY <1>2, <1>3
<1>5. Cardinality(T) <= Cardinality(Counted) /\ Cardinality(U) <= Cardinality(Handed(x))
  BY <1>4, FS_Subset DEF AllSets
<1> QED
  BY <1>1, <1>2, <1>3, <1>5, Totals

\* Work that ends, with or without its results, raises no total.
LEMMA EndedTotals ==
    ASSUME QuotaTypes, AllSets, NEW w \in Works, NEW x \in EvalExams,
           StoreDocument(w) \/ StoreQuestions(w) \/ StoreResults(w) \/ WorkFails(w)
    PROVE  \A r \in Resources : Total(r, x)' <= Total(r, x)
<1>1. Ends(w) /\ work[w] # NoWork
  BY DEF StoreDocument, StoreQuestions, StoreResults, WorkFails, Accepted
<1>2. /\ Accepted("upload")' = Accepted("upload") \ {w}
      /\ Accepted("generate")' = Accepted("generate") \ {w}
      /\ Accepted("import")' = Accepted("import") \ {w}
      /\ \A v \in Works \ {w} : work'[v] = work[v]
  BY <1>1, Ended
<1>3. /\ Cardinality(Accepted("upload")') =
             Cardinality(Accepted("upload")) - (IF w \in Accepted("upload") THEN 1 ELSE 0)
      /\ AmountSum(work', Accepted("generate")') =
             AmountSum(work, Accepted("generate"))
             - (IF w \in Accepted("generate") THEN work[w].amount ELSE 0)
      /\ Cardinality(Accepted("upload")) \in Nat
      /\ AmountSum(work, Accepted("generate")) \in Nat
  BY <1>1, EndedCounts
<1>4. Total("documents", x)' <= Total("documents", x)
  <2>1. Total("documents", x)' = documents' + Cardinality(Accepted("upload")')
    BY DEF Total
  <2>2. documents' <= documents + (IF w \in Accepted("upload") THEN 1 ELSE 0)
        /\ documents' \in Nat /\ documents \in Nat
    BY DEF StoreDocument, StoreQuestions, StoreResults, WorkFails, QuotaTypes
  <2>3. Total("documents", x) = documents + Cardinality(Accepted("upload"))
    BY Totals
  <2> QED
    BY <1>3, <2>1, <2>2, <2>3
<1>5. Total("questions", x)' <= Total("questions", x)
  <2>1. Total("questions", x)' = questions' + AmountSum(work', Accepted("generate")')
    BY DEF Total
  <2>2. w \in Accepted("generate") => work[w].amount \in Nat
    BY QuotasAssumption DEF AllSets
  <2>3. questions' <= questions + (IF w \in Accepted("generate") THEN work[w].amount ELSE 0)
        /\ questions' \in Nat /\ questions \in Nat
    BY <2>2 DEF StoreDocument, StoreQuestions, StoreResults, WorkFails, QuotaTypes
  <2>4. Total("questions", x) = questions + AmountSum(work, Accepted("generate"))
    BY Totals
  <2>5. CASE w \in Accepted("generate")
    BY <1>3, <2>1, <2>2, <2>3, <2>4, <2>5
  <2>6. CASE w \notin Accepted("generate")
    BY <1>3, <2>1, <2>3, <2>4, <2>6
  <2> QED
    BY <2>5, <2>6
<1>6. \A v \in Accepted("import")' : v \in Accepted("import") /\ work'[v] = work[v]
  BY <1>2 DEF AllSets
<1>7. Counted' \subseteq Counted
  <2>1. evaluated' \subseteq Counted
    BY DEF StoreDocument, StoreQuestions, StoreResults, WorkFails, Counted
  <2> QED
    BY <1>6, <2>1 DEF Counted
<1>8. Handed(x)' \subseteq Handed(x)
  <2>1. \A v \in ImportsOf(x)' : v \in ImportsOf(x) /\ work'[v] = work[v]
    BY <1>6 DEF ImportsOf
  <2>2. Pending(x)' \subseteq Pending(x)
    BY <2>1 DEF Pending
  <2>3. submitted'[x] \subseteq Handed(x)
    <3>1. CASE submitted' = submitted
      BY <3>1 DEF Handed
    <3>2. CASE StoreResults(w)
      <4>1. /\ w \in Accepted("import")
            /\ submitted' = [submitted EXCEPT ![work[w].exam] = @ \cup work[w].pupils]
        BY <3>2 DEF StoreResults
      <4>2. CASE work[w].exam = x
        <5>1. w \in ImportsOf(x)
          BY <4>1, <4>2 DEF ImportsOf
        <5>2. submitted'[x] = submitted[x] \cup work[w].pupils
          BY <4>1, <4>2 DEF QuotaTypes
        <5> QED
          BY <5>1, <5>2 DEF Handed, Pending
      <4>3. CASE work[w].exam # x
        BY <4>1, <4>3 DEF Handed, QuotaTypes
      <4> QED
        BY <4>2, <4>3
    <3> QED
      BY <3>1, <3>2 DEF StoreDocument, StoreQuestions, WorkFails
  <2> QED
    BY <2>2, <2>3 DEF Handed
<1> QED
  BY <1>4, <1>5, <1>7, <1>8, Shrinks DEF Resources

-----------------------------------------------------------------------------
\* Work is accepted by a check of one resource, or without one.
LEMMA Accepting ==
    ASSUME Bounded, Numbers, Numbers', UNCHANGED <<plan, columns>>,
           NEW r \in Resources, NEW u \in Int, Note(r, u),
           \A x \in EvalExams : Limit(r) # Unlimited => Total(r, x)' <= Limit(r) + u,
           \A s \in Resources \ {r}, x \in EvalExams : Total(s, x)' <= Total(s, x)
    PROVE  Bounded'
<1>1. /\ beyond' \in [Resources -> Int]
      /\ \A s \in Resources : beyond'[s] >= beyond[s]
      /\ beyond'[r] >= u
  BY Noted DEF Bounded
<1>2. ASSUME NEW x \in EvalExams, Limit(r) # Unlimited
      PROVE  Total(r, x)' <= Limit(r) + beyond'[r]
  <2>1. Limit(r) \in Nat /\ Total(r, x)' \in Nat /\ beyond'[r] \in Int
    BY <1>1, <1>2 DEF Numbers
  <2>2. Total(r, x)' <= Limit(r) + u
    BY <1>2
  <2> QED
    BY <1>1, <2>1, <2>2
<1>3. \A s \in Resources, x \in EvalExams :
          \/ Total(s, x)' <= Total(s, x)
          \/ Limit(s) # Unlimited => Total(s, x)' <= Limit(s) + beyond'[s]
  BY <1>2
<1> QED
  BY <1>1, <1>3, StaysBounded

\* What the check of n more, or the exemption for them, says of the total.
LEMMA Fitting ==
    ASSUME Numbers, NEW r \in Resources, NEW e \in EvalExams, NEW n \in Nat,
           Limit(r) # Unlimited
    PROVE  /\ FitsLimit(r, e, n) => Total(r, e) + n <= Limit(r) + Unseen(r, e)
           /\ Total(r, e) + n <= Limit(r) + (Excess(r) + n)
           /\ Unseen(r, e) \in Int /\ Excess(r) \in Int
<1>1. /\ Limit(r) \in Nat /\ Excess(r) \in Nat
      /\ RowsOf(r, e) \in Nat /\ Total(r, e) \in Nat
      /\ Total(r, e) - Limit(r) <= Excess(r)
  BY DEF Numbers
<1>2. Unseen(r, e) = Total(r, e) - RowsOf(r, e)
  BY DEF Unseen
<1>3. FitsLimit(r, e, n) => RowsOf(r, e) + n <= Limit(r)
  BY DEF FitsLimit
<1> QED
  BY <1>1, <1>2, <1>3

LEMMA UnseenIsNumber ==
    ASSUME Numbers, NEW r \in Resources, NEW e \in EvalExams
    PROVE  Unseen(r, e) \in Int /\ Excess(r) \in Int
<1>1. Excess(r) \in Nat /\ RowsOf(r, e) \in Nat /\ Total(r, e) \in Nat
  BY DEF Numbers
<1> QED
  BY <1>1 DEF Unseen

\* Documents and questions are counted for the institution, not by exam.
LEMMA OneTotal ==
    ASSUME NEW e, NEW x, NEW r \in Columns
    PROVE  Total(r, e) = Total(r, x)
  BY Totals DEF Columns

LEMMA UploadBounded ==
    ASSUME QuotaTypes, AllSets, Numbers, Numbers', Bounded,
           NEW w \in Works, NEW e \in EvalExams, Upload(w, e)
    PROVE  Bounded'
<1> DEFINE job == [kind |-> "upload"]
<1>1. job \in WorkRecords /\ QueueWork(w, job) /\ job.kind = "upload"
  BY DEF Upload, WorkRecords
<1> HIDE DEF job
<1>2. UNCHANGED <<plan, columns>> /\ "documents" \in Resources /\ "documents" \in Columns
  BY <1>1 DEF QueueWork, Resources, Columns
<1>3. \A x \in EvalExams : Total("documents", x)' = Total("documents", x) + 1
  BY <1>1, QueuedTotals
<1>4. \A s \in Resources \ {"documents"}, x \in EvalExams : Total(s, x)' <= Total(s, x)
  <2>1. \A x \in EvalExams :
            /\ Total("questions", x)' = Total("questions", x) + 0
            /\ Total("exams", x)' = Total("exams", x)
            /\ Total("submissions", x)' = Total("submissions", x)
    BY <1>1, QueuedTotals
  <2>2. \A s \in Resources, x \in EvalExams : Total(s, x) \in Nat
    BY DEF Numbers
  <2> QED
    BY <2>1, <2>2 DEF Resources
<1>5. ASSUME NEW u \in Int, Note("documents", u),
             Limit("documents") # Unlimited =>
                 Total("documents", e) + 1 <= Limit("documents") + u
      PROVE  Bounded'
  <2>1. \A x \in EvalExams : Limit("documents") # Unlimited =>
            Total("documents", x)' <= Limit("documents") + u
    BY <1>2, <1>3, <1>5, OneTotal
  <2> QED
    BY <1>2, <1>4, <1>5, <2>1, Accepting
<1>6. CASE FitsLimit("documents", e, 1) /\ Note("documents", Unseen("documents", e))
  BY <1>2, <1>5, <1>6, Fitting, UnseenIsNumber
<1>7. CASE Exempt("documents", 1)
  <2>1. Excess("documents") + 1 \in Int
    BY <1>2, UnseenIsNumber
  <2> QED
    BY <1>2, <1>5, <1>7, <2>1, Fitting DEF Exempt
<1> QED
  BY <1>6, <1>7 DEF Upload

LEMMA GenerateBounded ==
    ASSUME QuotaTypes, AllSets, Numbers, Numbers', Bounded,
           NEW w \in Works, NEW e \in EvalExams, NEW n \in 1..MaxAmount, Generate(w, e, n)
    PROVE  Bounded'
<1> DEFINE job == [kind |-> "generate", amount |-> n]
<1>1. job \in WorkRecords /\ QueueWork(w, job) /\ job.kind = "generate" /\ job.amount = n
  BY DEF Generate, WorkRecords
<1> HIDE DEF job
<1>2. /\ UNCHANGED <<plan, columns>> /\ "questions" \in Resources /\ "questions" \in Columns
      /\ n \in Nat
  BY <1>1, QuotasAssumption DEF QueueWork, Resources, Columns
<1>3. \A x \in EvalExams : Total("questions", x)' = Total("questions", x) + n
  BY <1>1, QueuedTotals
<1>4. \A s \in Resources \ {"questions"}, x \in EvalExams : Total(s, x)' <= Total(s, x)
  <2>1. \A x \in EvalExams :
            /\ Total("documents", x)' = Total("documents", x) + 0
            /\ Total("exams", x)' = Total("exams", x)
            /\ Total("submissions", x)' = Total("submissions", x)
    BY <1>1, QueuedTotals
  <2>2. \A s \in Resources, x \in EvalExams : Total(s, x) \in Nat
    BY DEF Numbers
  <2> QED
    BY <2>1, <2>2 DEF Resources
<1>5. ASSUME NEW u \in Int, Note("questions", u),
             Limit("questions") # Unlimited =>
                 Total("questions", e) + n <= Limit("questions") + u
      PROVE  Bounded'
  <2>1. \A x \in EvalExams : Limit("questions") # Unlimited =>
            Total("questions", x)' <= Limit("questions") + u
    BY <1>2, <1>3, <1>5, OneTotal
  <2> QED
    BY <1>2, <1>4, <1>5, <2>1, Accepting
<1>6. CASE FitsLimit("questions", e, n) /\ Note("questions", Unseen("questions", e))
  BY <1>2, <1>5, <1>6, Fitting, UnseenIsNumber
<1>7. CASE Exempt("questions", n)
  <2>1. Excess("questions") + n \in Int
    BY <1>2, UnseenIsNumber
  <2> QED
    BY <1>2, <1>5, <1>7, <2>1, Fitting DEF Exempt
<1> QED
  BY <1>6, <1>7 DEF Generate

\* A question that is written by hand is stored at once.
LEMMA WriteBounded ==
    ASSUME QuotaTypes, AllSets, Numbers, Numbers', Bounded,
           NEW e \in EvalExams, WriteQuestion(e)
    PROVE  Bounded'
<1>1. /\ UNCHANGED <<plan, columns, documents, evaluated, submitted, work>>
      /\ questions' = questions + 1
      /\ "questions" \in Resources /\ "questions" \in Columns
  BY DEF WriteQuestion, Resources, Columns
<1>2. \A x \in EvalExams :
          /\ Total("questions", x)' = Total("questions", x) + 1
          /\ Total("documents", x)' = Total("documents", x)
          /\ Total("exams", x)' = Total("exams", x)
          /\ Total("submissions", x)' = Total("submissions", x)
  <2>1. \A k : Accepted(k)' = Accepted(k)
    BY <1>1 DEF Accepted
  <2>2. Accepted("generate")' = Accepted("generate") /\ Accepted("upload")' = Accepted("upload")
        /\ Accepted("import")' = Accepted("import")
    BY <1>1 DEF Accepted
  <2>3. \A x : Pending(x)' = Pending(x)
    BY <1>1 DEF Pending, ImportsOf, Accepted
  <2>4. questions \in Nat /\ AmountSum(work, Accepted("generate")) \in Nat
    <3>1. IsFiniteSet(Accepted("generate")) /\ \A v \in Accepted("generate") : work[v].amount \in Nat
      BY QuotasAssumption DEF AllSets
    <3> QED
      BY <3>1, AmountIsNumber DEF QuotaTypes
  <2>5. ASSUME NEW x \in EvalExams
        PROVE  Total("questions", x)' = questions + 1 + AmountSum(work, Accepted("generate"))
    BY <1>1, <2>2 DEF Total
  <2>6. \A x \in EvalExams : Total("questions", x)' = Total("questions", x) + 1
    BY <2>4, <2>5, Totals
  <2>7. \A x \in EvalExams :
          /\ Total("documents", x)' = Total("documents", x)
          /\ Total("exams", x)' = Total("exams", x)
          /\ Total("submissions", x)' = Total("submissions", x)
    BY <1>1, <2>2, <2>3 DEF Total
  <2> QED
    BY <2>6, <2>7
<1>3. \A s \in Resources \ {"questions"}, x \in EvalExams : Total(s, x)' <= Total(s, x)
  <2>1. \A s \in Resources, x \in EvalExams : Total(s, x) \in Nat
    BY DEF Numbers
  <2> QED
    BY <1>2, <2>1 DEF Resources
<1>4. ASSUME NEW u \in Int, Note("questions", u),
             Limit("questions") # Unlimited =>
                 Total("questions", e) + 1 <= Limit("questions") + u
      PROVE  Bounded'
  <2>1. \A x \in EvalExams : Limit("questions") # Unlimited =>
            Total("questions", x)' <= Limit("questions") + u
    BY <1>1, <1>2, <1>4, OneTotal
  <2> QED
    BY <1>1, <1>3, <1>4, <2>1, Accepting
<1>5. CASE FitsLimit("questions", e, 0) /\ Note("questions", Unseen("questions", e) + 1)
  <2>1. Unseen("questions", e) \in Int
    BY <1>1, UnseenIsNumber
  <2>2. ASSUME Limit("questions") # Unlimited
        PROVE  Total("questions", e) + 1 <= Limit("questions") + (Unseen("questions", e) + 1)
    <3>1. Total("questions", e) + 0 <= Limit("questions") + Unseen("questions", e)
      BY <1>1, <1>5, <2>2, Fitting
    <3>2. Limit("questions") \in Nat /\ Total("questions", e) \in Nat
      BY <1>1, <2>2 DEF Numbers
    <3> QED
      BY <2>1, <3>1, <3>2
  <2> QED
    BY <1>4, <1>5, <2>1, <2>2
<1>6. CASE Exempt("questions", 1)
  <2>1. Excess("questions") + 1 \in Int
    BY <1>1, UnseenIsNumber
  <2> QED
    BY <1>1, <1>4, <1>6, <2>1, Fitting DEF Exempt
<1> QED
  BY <1>5, <1>6 DEF WriteQuestion

LEMMA ImportBounded ==
    ASSUME QuotaTypes, AllSets, Numbers, Numbers', Bounded,
           NEW w \in Works, NEW e \in EvalExams, NEW S \in SUBSET Examinees,
           ImportResults(w, e, S)
    PROVE  Bounded'
<1> DEFINE job == [kind |-> "import", exam |-> e, pupils |-> S, current |-> TRUE]
<1>1. /\ job \in WorkRecords /\ QueueWork(w, job)
      /\ job.kind = "import" /\ job.exam = e /\ job.pupils = S
  BY DEF ImportResults, WorkRecords
<1> HIDE DEF job
<1>2. UNCHANGED <<plan, columns>> /\ {"exams", "submissions"} \subseteq Resources
  BY <1>1 DEF QueueWork, Resources
<1>3. /\ Unseen("exams", e) \in Int /\ Unseen("submissions", e) \in Int
      /\ beyond \in [Resources -> Int]
  BY <1>2, UnseenIsNumber DEF Bounded
<1> DEFINE seen == {"submissions"} \cup (IF e \in evaluated THEN {} ELSE {"exams"})
<1>4. beyond' = [r \in Resources |->
                    IF r \in seen THEN Max({beyond[r], Unseen(r, e)}) ELSE beyond[r]]
  BY DEF ImportResults
<1>5. \A r \in Resources :
          /\ beyond'[r] \in Int /\ beyond'[r] >= beyond[r]
          /\ r \in seen => beyond'[r] >= Unseen(r, e)
  <2> SUFFICES ASSUME NEW r \in Resources
               PROVE  /\ beyond'[r] \in Int /\ beyond'[r] >= beyond[r]
                      /\ r \in seen => beyond'[r] >= Unseen(r, e)
    OBVIOUS
  <2>1. beyond[r] \in Int /\ Unseen(r, e) \in Int
    BY <1>3, UnseenIsNumber
  <2>2. PICK m : m = Max({beyond[r], Unseen(r, e)})
    OBVIOUS
  <2>3. m \in Int /\ m >= beyond[r] /\ m >= Unseen(r, e)
    BY <2>1, <2>2, MaxOfTwo
  <2>4. beyond'[r] = IF r \in seen THEN m ELSE beyond[r]
    BY <1>4, <2>2
  <2> HIDE DEF seen
  <2> QED
    BY <2>1, <2>3, <2>4
<1>6. beyond' \in [Resources -> Int]
  <2> HIDE DEF seen
  <2> QED
    BY <1>4, <1>5
<1>7. Cardinality(S) \in Nat
  BY QuotasAssumption, FS_Subset, FS_CardinalityType
<1>8. \A x \in EvalExams :
          /\ Total("documents", x)' = Total("documents", x) + 0
          /\ Total("questions", x)' = Total("questions", x) + 0
          /\ e \in evaluated => Total("exams", x)' = Total("exams", x)
          /\ Total("exams", x)' <= Total("exams", x) + 1
          /\ e # x => Total("submissions", x)' = Total("submissions", x)
          /\ Total("submissions", x)' <= Total("submissions", x) + Cardinality(S)
  BY <1>1, QueuedTotals
<1>9. \A r \in Resources, x \in EvalExams : Total(r, x) \in Nat /\ Total(r, x)' \in Nat
  BY DEF Numbers
<1>10. ASSUME NEW x \in EvalExams, e \notin evaluated, Limit("exams") # Unlimited
       PROVE  Total("exams", x)' <= Limit("exams") + beyond'["exams"]
  <2>1. FitsLimit("exams", e, 1)
    BY <1>10 DEF ImportResults, ImportFits
  <2>2. Total("exams", e) + 1 <= Limit("exams") + Unseen("exams", e)
    BY <1>2, <1>10, <2>1, Fitting
  <2>3. Total("exams", x) = Total("exams", e)
    BY Totals
  <2>4. beyond'["exams"] \in Int /\ beyond'["exams"] >= Unseen("exams", e)
    BY <1>2, <1>5, <1>10
  <2>5. /\ Total("exams", x)' \in Nat /\ Total("exams", e) \in Nat /\ Limit("exams") \in Nat
        /\ Total("exams", x)' <= Total("exams", e) + 1
    BY <1>2, <1>8, <1>9, <1>10, <2>3 DEF Numbers
  <2> QED
    BY <1>3, <2>2, <2>4, <2>5
<1>11. ASSUME Limit("submissions") # Unlimited
       PROVE  Total("submissions", e)' <= Limit("submissions") + beyond'["submissions"]
  <2>1. FitsLimit("submissions", e, Cardinality(S))
    BY DEF ImportResults, ImportFits
  <2>2. Total("submissions", e) + Cardinality(S) <= Limit("submissions") + Unseen("submissions", e)
    BY <1>2, <1>7, <1>11, <2>1, Fitting
  <2>3. beyond'["submissions"] \in Int /\ beyond'["submissions"] >= Unseen("submissions", e)
    BY <1>2, <1>5
  <2>4. /\ Total("submissions", e)' \in Nat /\ Total("submissions", e) \in Nat
        /\ Limit("submissions") \in Nat
        /\ Total("submissions", e)' <= Total("submissions", e) + Cardinality(S)
    BY <1>2, <1>8, <1>9, <1>11 DEF Numbers
  <2> QED
    BY <1>3, <1>7, <2>2, <2>3, <2>4
<1>12. ASSUME NEW s \in Resources, NEW x \in EvalExams
       PROVE  \/ Total(s, x)' <= Total(s, x)
              \/ Limit(s) # Unlimited => Total(s, x)' <= Limit(s) + beyond'[s]
  <2>1. CASE s \in {"documents", "questions"}
    <3>1. Total(s, x)' = Total(s, x) + 0
      BY <1>8, <2>1
    <3> QED
      BY <1>9, <3>1
  <2>2. CASE s = "exams"
    BY <1>8, <1>9, <1>10, <2>2
  <2>3. CASE s = "submissions"
    BY <1>8, <1>9, <1>11, <2>3
  <2> QED
    BY <2>1, <2>2, <2>3 DEF Resources
<1> QED
  BY <1>2, <1>5, <1>6, <1>12, StaysBounded

\* After a change of plan or of the month the history starts anew.
LEMMA StartsAnew ==
    ASSUME Numbers', Anew
    PROVE  Bounded'
<1>1. beyond' = [r \in Resources |-> Excess(r)']
  BY DEF Anew
<1>2. ASSUME NEW r \in Resources, NEW x \in EvalExams, Limit(r)' # Unlimited
      PROVE  Total(r, x)' <= Limit(r)' + beyond'[r]
  <2>1. /\ Limit(r)' \in Nat /\ Total(r, x)' \in Nat /\ Excess(r)' \in Nat
        /\ Total(r, x)' - Limit(r)' <= Excess(r)'
    BY <1>2 DEF Numbers
  <2>2. beyond'[r] = Excess(r)'
    BY <1>1
  <2> QED
    BY <2>1, <2>2
<1>3. OvershootBounded'
  BY <1>2 DEF OvershootBounded
<1>4. beyond' \in [Resources -> Int]
  <2>1. \A r \in Resources : Excess(r)' \in Int
    BY DEF Numbers
  <2> QED
    BY <1>1, <2>1
<1> QED
  BY <1>3, <1>4 DEF Bounded

LEMMA BoundedStep ==
    ASSUME QuotaTypes, AllSets, Numbers, Numbers', Bounded, [QuotaNext]_quotaVars
    PROVE  Bounded'
<1>1. \A r \in Resources, x \in EvalExams : Total(r, x) \in Nat
  BY DEF Numbers
<1>2. ASSUME UNCHANGED <<plan, columns, beyond>>,
             \A r \in Resources, x \in EvalExams : Total(r, x)' <= Total(r, x)
      PROVE  Bounded'
  <2>1. beyond' = beyond /\ beyond \in [Resources -> Int]
    BY <1>2 DEF Bounded
  <2>2. beyond' \in [Resources -> Int] /\ \A r \in Resources : beyond'[r] >= beyond[r]
    BY <2>1
  <2> QED
    BY <1>2, <2>2, StaysBounded
<1>3. ASSUME NEW w \in Works, StoreDocument(w) \/ StoreQuestions(w) \/ StoreResults(w) \/ WorkFails(w)
      PROVE  Bounded'
  <2>1. UNCHANGED <<plan, columns, beyond>>
    BY <1>3 DEF StoreDocument, StoreQuestions, StoreResults, WorkFails, Ends
  <2>2. \A r \in Resources, x \in EvalExams : Total(r, x)' <= Total(r, x)
    BY <1>3, EndedTotals
  <2> QED
    BY <1>2, <2>1, <2>2
<1>4. ASSUME work' = work, evaluated' = evaluated, NEW x \in EvalExams,
             Handed(x)' \subseteq Handed(x)
      PROVE  /\ Total("documents", x)' = documents' + Cardinality(Accepted("upload"))
             /\ Total("questions", x)' = questions' + AmountSum(work, Accepted("generate"))
             /\ Total("exams", x)' <= Total("exams", x)
             /\ Total("submissions", x)' <= Total("submissions", x)
  <2>1. Accepted("generate")' = Accepted("generate") /\ Accepted("upload")' = Accepted("upload")
        /\ Counted' = Counted
    BY <1>4 DEF Accepted, Counted
  <2>2. /\ Total("exams", x)' <= Total("exams", x)
        /\ Total("submissions", x)' <= Total("submissions", x)
    BY <1>4, <2>1, Shrinks
  <2> QED
    BY <1>4, <2>1, <2>2 DEF Total
<1>5. /\ documents \in Nat /\ questions \in Nat
      /\ Cardinality(Accepted("upload")) \in Nat
      /\ AmountSum(work, Accepted("generate")) \in Nat
  <2>1. IsFiniteSet(Accepted("generate")) /\ \A v \in Accepted("generate") : work[v].amount \in Nat
    BY QuotasAssumption DEF AllSets
  <2>2. AmountSum(work, Accepted("generate")) \in Nat
    BY <2>1, AmountIsNumber
  <2> QED
    BY <2>2, FS_CardinalityType DEF AllSets, QuotaTypes
<1>6. ASSUME UNCHANGED <<plan, columns, evaluated, work, beyond>>,
             documents' \in Nat, documents' <= documents,
             questions' \in Nat, questions' <= questions,
             \A x \in EvalExams : submitted'[x] \subseteq submitted[x]
      PROVE  Bounded'
  <2>1. ASSUME NEW x \in EvalExams
        PROVE  /\ Total("documents", x)' <= Total("documents", x)
               /\ Total("questions", x)' <= Total("questions", x)
               /\ Total("exams", x)' <= Total("exams", x)
               /\ Total("submissions", x)' <= Total("submissions", x)
    <3>1. Handed(x)' \subseteq Handed(x)
      BY <1>6 DEF Handed, Pending, ImportsOf, Accepted
    <3>2. /\ Total("documents", x)' = documents' + Cardinality(Accepted("upload"))
          /\ Total("questions", x)' = questions' + AmountSum(work, Accepted("generate"))
          /\ Total("exams", x)' <= Total("exams", x)
          /\ Total("submissions", x)' <= Total("submissions", x)
      BY <1>4, <1>6, <3>1
    <3>3. /\ Total("documents", x) = documents + Cardinality(Accepted("upload"))
          /\ Total("questions", x) = questions + AmountSum(work, Accepted("generate"))
      BY Totals
    <3> QED
      BY <1>5, <1>6, <3>2, <3>3
  <2>2. \A r \in Resources, x \in EvalExams : Total(r, x)' <= Total(r, x)
    BY <2>1 DEF Resources
  <2> QED
    BY <1>2, <1>6, <2>2
<1>7. ASSUME NEW e \in EvalExams, DeleteResults(e) PROVE Bounded'
  <2>1. \A x \in EvalExams : submitted'[x] \subseteq submitted[x]
    BY <1>7 DEF DeleteResults, QuotaTypes
  <2> QED
    BY <1>5, <1>6, <1>7, <2>1 DEF DeleteResults
<1>8. CASE RemoveDocument \/ DeleteQuestion
  BY <1>5, <1>6, <1>8 DEF RemoveDocument, DeleteQuestion
<1>9. CASE UNCHANGED quotaVars
  BY <1>5, <1>6, <1>9 DEF quotaVars
<1>10. CASE NewMonth \/ \E p \in PlanNames : SyncInstitutionQuotas(p)
  BY <1>10, StartsAnew DEF NewMonth, SyncInstitutionQuotas
<1> QED
  BY <1>3, <1>7, <1>8, <1>9, <1>10, UploadBounded, GenerateBounded, ImportBounded,
     WriteBounded DEF QuotaNext

LEMMA QuotaStarts == QuotaInit => QuotaTypes /\ (Numbers => Bounded)
<1> SUFFICES ASSUME QuotaInit PROVE QuotaTypes /\ (Numbers => Bounded)
  OBVIOUS
<1>1. QuotaTypes
  <2>1. columns \in [Columns -> Nat \cup {Unlimited}]
    BY QuotasAssumption DEF QuotaInit, Columns, Resources
  <2> QED
    BY <2>1 DEF QuotaInit, QuotaTypes
<1>2. ASSUME Numbers PROVE Bounded
  <2>1. \A k : Accepted(k) = {}
    BY DEF QuotaInit, Accepted
  <2>2. Counted = {} /\ \A x \in EvalExams : Handed(x) = {}
    BY <2>1 DEF QuotaInit, Counted, Handed, Pending, ImportsOf
  <2>3. \A r \in Resources, x \in EvalExams : Total(r, x) = 0
    <3>1. AmountSum(work, {}) = 0
      BY AmountsAreSum, SumOfNone, FS_EmptySet
    <3>2. documents = 0 /\ questions = 0 /\ Cardinality({}) = 0
      BY FS_EmptySet DEF QuotaInit
    <3>3. Accepted("upload") = {} /\ Accepted("generate") = {}
      BY <2>1
    <3>4. ASSUME NEW x \in EvalExams
          PROVE  /\ Total("documents", x) = 0 /\ Total("questions", x) = 0
                 /\ Total("exams", x) = 0 /\ Total("submissions", x) = 0
      <4>1. Handed(x) = {}
        BY <2>2
      <4>2. /\ Total("documents", x) = 0 + Cardinality({})
            /\ Total("questions", x) = 0 + AmountSum(work, {})
            /\ Total("exams", x) = Cardinality({})
            /\ Total("submissions", x) = Cardinality({})
        BY <2>2, <3>2, <3>3, <4>1, Totals
      <4> QED
        BY <3>1, <3>2, <4>2
    <3> QED
      BY <3>4 DEF Resources
  <2>4. beyond = [r \in Resources |-> 0]
    BY DEF QuotaInit
  <2>5. \A r \in Resources : Limit(r) # Unlimited => Limit(r) \in Nat
    BY <1>2 DEF Numbers
  <2> QED
    BY <2>3, <2>4, <2>5 DEF Bounded, OvershootBounded
<1> QED
  BY <1>1, <1>2

\* Whatever is accepted, stored, removed or fails in whatever order, no limit is
\* exceeded by more than what its check could not see yet, an exemption or a
\* change of plan allows.
THEOREM OvershootStaysBounded == QuotaSpec => []OvershootBounded
<1>1. QuotaInit => QuotaTypes
  BY QuotaStarts
<1>2. QuotaTypes /\ [QuotaNext]_quotaVars => QuotaTypes'
  BY SetsAreFinite, TypesStep
<1>3. QuotaTypes => AllSets /\ Numbers
  BY SetsAreFinite, AllNumbers
<1>4. QuotaInit /\ Numbers => Bounded
  BY QuotaStarts
<1>5. QuotaTypes /\ AllSets /\ Numbers /\ Numbers' /\ Bounded /\ [QuotaNext]_quotaVars => Bounded'
  BY BoundedStep
<1>6. Bounded => OvershootBounded
  BY DEF Bounded
<1> QED
  BY <1>1, <1>2, <1>3, <1>4, <1>5, <1>6, PTL DEF QuotaSpec

(***************************************************************************)
(* Students and classes.  HintsFollowed is about imports that are done; it *)
(* needs to know of the others what they have inserted but not committed   *)
(* (CreatedFresh, KeysHold, Apart) and that one nobody disturbed has put   *)
(* everybody so far into the right class (OnTrack).                        *)
(***************************************************************************)
\* A payload, as far as the proof needs one.
Payload(p) ==
    /\ DOMAIN p \subseteq Nat \ {0} /\ IsFiniteSet(DOMAIN p)
    /\ \A n \in DOMAIN p : p[n].student \in ExternalIds /\ p[n].hint \in ClassNames \cup {NoClass}

Stages == {"queued", "students", "classes", "members", "done", "failed"}

\* The record of an import.
ImportRecord(m) ==
    /\ m = [stage |-> m.stage, payload |-> m.payload, known |-> m.known,
            inserted |-> m.inserted, class |-> m.class, created |-> m.created,
            had |-> m.had, joined |-> m.joined, next |-> m.next, touched |-> m.touched,
            followed |-> m.followed]
    /\ m.stage \in Stages /\ Payload(m.payload)
    /\ m.class \in [ClassNames -> ClassRows \cup {NoClass}]
    /\ m.created \subseteq ClassRows \X ClassNames
    /\ m.next \in Nat

\* The classes an import has inserted are nobody else's, nor are their names.
CreatedFresh(m, names) ==
    \A d \in m.created :
        /\ names[d[1]] = NoClass
        /\ \A c \in ClassRows : names[c] # d[2]
        /\ m.class[d[2]] = d[1]
        /\ \A e \in m.created : e[1] = d[1] => e = d

\* The students it has found or inserted are there, and so are the rows its
\* memberships refer to.
KeysHold(m, names, ids) ==
    /\ m.known \subseteq ids \cup m.inserted
    /\ \A p \in m.joined :
          /\ p[1] \in ids \cup m.inserted
          /\ p[2] \in ClassRows
          /\ names[p[2]] # NoClass \/ \E d \in m.created : d[1] = p[2]
    /\ m.stage \in {"classes", "members"} =>
          \A n \in DOMAIN m.payload : m.payload[n].student \in m.known

\* What it has not begun, it has not done.
NothingYet(m) ==
    m.stage # "members" => m.created = {} /\ m.joined = {} /\ m.next = 1

\* The class for a name, in an import that nobody disturbed.
Knows(m, names, n) ==
    m.class[n] # NoClass => names[m.class[n]] = n \/ <<m.class[n], n>> \in m.created

\* It has put everybody so far into the right class.
OnTrack(m, names, pairs) ==
    m.stage = "members" /\ ~m.touched =>
        /\ m.had \subseteq pairs
        /\ \A n \in ClassNames : Knows(m, names, n)
        /\ \A k \in DOMAIN m.payload : m.payload[k].hint # NoClass /\ k < m.next =>
              /\ m.class[m.payload[k].hint] # NoClass
              /\ <<m.payload[k].student, m.class[m.payload[k].hint]>> \in pairs \cup m.joined

Told(m) == m.stage = "done" => m.followed \/ m.touched

ImportOk(m, names, pairs, ids) ==
    /\ ImportRecord(m) /\ CreatedFresh(m, names) /\ KeysHold(m, names, ids)
    /\ NothingYet(m) /\ OnTrack(m, names, pairs) /\ Told(m)

Apart(m, k) ==
    \A d \in m.created, e \in k.created : d[1] # e[1] /\ d[2] # e[2]

ClassesOk(names, pairs, ids) ==
    /\ names \in [ClassRows -> ClassNames \cup {NoClass}]
    /\ \A c, d \in ClassRows : names[c] = names[d] /\ names[c] # NoClass => c = d
    /\ \A p \in pairs : p[1] \in ids /\ p[2] \in ClassRows /\ names[p[2]] # NoClass

RosterInv ==
    /\ import = [i \in Imports |-> import[i]]
    /\ ClassesOk(className, classMember, enrolled)
    /\ \A i \in Imports : ImportOk(import[i], className, classMember, enrolled)
    /\ \A i, j \in Imports : i # j => Apart(import[i], import[j])

-----------------------------------------------------------------------------
\* The record of an import that has not begun.
LEMMA FreshIsOk ==
    ASSUME NEW p, Payload(p), NEW names, NEW pairs, NEW ids, NEW stage, NEW m,
           m = [Fresh(p) EXCEPT !.stage = stage] \/ (m = Fresh(p) /\ stage = "queued"),
           stage \in Stages \ {"classes", "members", "done"}
    PROVE  ImportOk(m, names, pairs, ids) /\ m.created = {}
<1>1. m = [stage |-> stage, payload |-> p, known |-> {}, inserted |-> {},
           class |-> [n \in ClassNames |-> NoClass], created |-> {}, had |-> {},
           joined |-> {}, next |-> 1, touched |-> FALSE, followed |-> FALSE]
    <2>1. CASE m = [Fresh(p) EXCEPT !.stage = stage]
        BY <2>1 DEF Fresh
    <2>2. CASE m = Fresh(p) /\ stage = "queued"
        BY <2>2 DEF Fresh
    <2> QED
        BY <2>1, <2>2
<1>2. ImportRecord(m)
    <2>1. /\ m.stage = stage /\ m.payload = p /\ m.class = [n \in ClassNames |-> NoClass]
          /\ m.created = {} /\ m.next = 1
        BY <1>1
    <2>2. m = [stage |-> m.stage, payload |-> m.payload, known |-> m.known,
            inserted |-> m.inserted, class |-> m.class, created |-> m.created,
            had |-> m.had, joined |-> m.joined, next |-> m.next, touched |-> m.touched,
            followed |-> m.followed]
        BY <1>1
    <2>3. m.class \in [ClassNames -> ClassRows \cup {NoClass}]
        BY <2>1
    <2> QED
        BY <2>1, <2>2, <2>3 DEF ImportRecord
<1>3. CreatedFresh(m, names) /\ KeysHold(m, names, ids) /\ NothingYet(m)
      /\ OnTrack(m, names, pairs) /\ Told(m) /\ m.created = {}
    BY <1>1 DEF CreatedFresh, KeysHold, NothingYet, OnTrack, Told, Stages
<1> QED
    BY <1>2, <1>3 DEF ImportOk

\* A step of one import that changes nothing else.
LEMMA ImportStep ==
    ASSUME RosterInv, NEW i \in Imports, NEW m, Step(i, m),
           UNCHANGED <<enrolled, className, classMember>>,
           ImportOk(m, className, classMember, enrolled),
           \A j \in Others(i) : Apart(m, import[j])
    PROVE  RosterInv'
<1>1. import' = [j \in Imports |-> IF j = i THEN m ELSE import[j]]
    BY DEF RosterInv, Step
<1>2. import'[i] = m /\ \A j \in Others(i) : import'[j] = import[j]
    BY <1>1 DEF Others
<1>3. import' = [j \in Imports |-> import'[j]]
    BY <1>1
<1>4. ClassesOk(className', classMember', enrolled')
    BY DEF RosterInv
<1>5. ASSUME NEW j \in Imports
      PROVE  ImportOk(import'[j], className', classMember', enrolled')
    <2>1. CASE j = i
        BY <1>2, <2>1
    <2>2. CASE j # i
        BY <1>2, <2>2 DEF RosterInv, Others
    <2> QED
        BY <2>1, <2>2
<1>6. \A j \in Others(i) : Apart(import[j], m)
    BY DEF Apart
<1>7. ASSUME NEW j \in Imports, NEW k \in Imports, j # k
      PROVE  Apart(import'[j], import'[k])
    <2>1. CASE j = i
        BY <1>2, <1>7, <2>1 DEF Others
    <2>2. CASE k = i
        BY <1>2, <1>6, <1>7, <2>2 DEF Others
    <2>3. CASE j # i /\ k # i
        BY <1>2, <1>7, <2>3 DEF RosterInv, Others
    <2> QED
        BY <2>1, <2>2, <2>3
<1> QED
    BY <1>3, <1>4, <1>5, <1>7 DEF RosterInv

\* A step of a handler that disturbs no import.
LEMMA QuietHandler ==
    ASSUME RosterInv, UNCHANGED import,
           ClassesOk(className', classMember', enrolled'),
           \A i \in Imports : /\ CreatedFresh(import[i], className')
                              /\ KeysHold(import[i], className', enrolled')
                              /\ OnTrack(import[i], className', classMember')
    PROVE  RosterInv'
<1>1. ASSUME NEW i \in Imports
      PROVE  ImportOk(import[i], className', classMember', enrolled')
    <2>1. ImportRecord(import[i]) /\ NothingYet(import[i]) /\ Told(import[i])
        BY DEF RosterInv, ImportOk
    <2> QED
        BY <2>1 DEF ImportOk
<1> QED
    BY <1>1 DEF RosterInv

\* What Touch makes of one record.
LEMMA TouchedRecord ==
    ASSUME NEW x, ImportRecord(x), NEW b, NEW y, y = [x EXCEPT !.touched = b]
    PROVE  /\ ImportRecord(y)
           /\ y.stage = x.stage /\ y.payload = x.payload /\ y.known = x.known
           /\ y.inserted = x.inserted /\ y.class = x.class /\ y.created = x.created
           /\ y.joined = x.joined /\ y.followed = x.followed /\ y.touched = b /\ y.next = x.next
<1>1. y = [stage |-> y.stage, payload |-> y.payload, known |-> y.known,
            inserted |-> y.inserted, class |-> y.class, created |-> y.created,
            had |-> y.had, joined |-> y.joined, next |-> y.next, touched |-> y.touched,
            followed |-> y.followed]
    BY DEF ImportRecord
<1>2. /\ y.stage = x.stage /\ y.payload = x.payload /\ y.known = x.known
      /\ y.inserted = x.inserted /\ y.class = x.class /\ y.created = x.created
      /\ y.joined = x.joined /\ y.followed = x.followed /\ y.touched = b /\ y.next = x.next
    BY DEF ImportRecord
<1>3. ImportRecord(y)
    BY <1>1, <1>2 DEF ImportRecord
<1> QED
    BY <1>2, <1>3

\* A step of a handler that tells every import at work.
LEMMA LoudHandler ==
    ASSUME RosterInv, Touch,
           ClassesOk(className', classMember', enrolled'),
           \A i \in Imports : /\ CreatedFresh(import[i], className')
                              /\ KeysHold(import[i], className', enrolled')
    PROVE  RosterInv'
<1>1. import' = [i \in Imports |-> import'[i]]
    BY DEF Touch
<1>2. ASSUME NEW i \in Imports
      PROVE  /\ ImportOk(import'[i], className', classMember', enrolled')
             /\ import'[i].created = import[i].created
    <2>1. PICK x : x = import[i]
        OBVIOUS
    <2>2. PICK b : b = (x.touched \/ AtWork(i))
        OBVIOUS
    <2>3. PICK y : y = [x EXCEPT !.touched = b]
        OBVIOUS
    <2>4. import'[i] = y
        BY <2>1, <2>2, <2>3 DEF Touch
    <2>5. /\ ImportRecord(x) /\ NothingYet(x) /\ Told(x)
          /\ CreatedFresh(x, className') /\ KeysHold(x, className', enrolled')
        BY <2>1 DEF RosterInv, ImportOk
    <2>6. /\ ImportRecord(y)
          /\ y.stage = x.stage /\ y.payload = x.payload /\ y.known = x.known
          /\ y.inserted = x.inserted /\ y.class = x.class /\ y.created = x.created
          /\ y.joined = x.joined /\ y.followed = x.followed /\ y.touched = b /\ y.next = x.next
        BY <2>3, <2>5, TouchedRecord
    <2>7. CreatedFresh(y, className')
        BY <2>5, <2>6 DEF CreatedFresh
    <2>8. KeysHold(y, className', enrolled')
        BY <2>5, <2>6 DEF KeysHold
    <2>9. NothingYet(y)
        BY <2>5, <2>6 DEF NothingYet
    <2>10. x.stage = "members" => b
        BY <2>1, <2>2 DEF AtWork
    <2>11. OnTrack(y, className', classMember')
        BY <2>6, <2>10, Zenon DEF OnTrack
    <2>12. x.touched => b
        BY <2>2
    <2>13. Told(y)
        BY <2>5, <2>6, <2>12, Zenon DEF Told
    <2> QED
        BY <2>1, <2>4, <2>6, <2>7, <2>8, <2>9, <2>11, <2>13 DEF ImportOk
<1>3. ASSUME NEW i \in Imports, NEW j \in Imports, i # j
      PROVE  Apart(import'[i], import'[j])
    BY <1>2, <1>3 DEF RosterInv, Apart
<1> QED
    BY <1>1, <1>2, <1>3 DEF RosterInv

-----------------------------------------------------------------------------
\* What the invariant says of one import.
LEMMA ImportParts ==
    ASSUME RosterInv, NEW i \in Imports
    PROVE  /\ ImportRecord(import[i]) /\ CreatedFresh(import[i], className)
           /\ KeysHold(import[i], className, enrolled)
           /\ NothingYet(import[i]) /\ OnTrack(import[i], className, classMember)
           /\ Told(import[i])
BY DEF RosterInv, ImportOk

\* A new class has a name that nobody uses or is about to use.
LEMMA CreateClassKeeps ==
    ASSUME RosterInv, NEW c \in ClassRows, NEW n \in ClassNames, CreateStudentClass(c, n)
    PROVE  RosterInv'
<1>1. className' = [d \in ClassRows |-> IF d = c THEN n ELSE className[d]]
    BY DEF RosterInv, ClassesOk, CreateStudentClass
<1>2. \A d \in ClassRows : className[d] # n
    BY RosterAssumption DEF CreateStudentClass, NamesInUse
<1>3. ClassesOk(className', classMember', enrolled')
    BY <1>1, <1>2, RosterAssumption DEF ClassesOk, RosterInv, CreateStudentClass
<1>4. ASSUME NEW i \in Imports
      PROVE  /\ CreatedFresh(import[i], className')
             /\ KeysHold(import[i], className', enrolled')
             /\ OnTrack(import[i], className', classMember')
    <2>1. ImportRecord(import[i]) /\ CreatedFresh(import[i], className)
          /\ KeysHold(import[i], className, enrolled) /\ OnTrack(import[i], className, classMember)
        BY ImportParts
    <2>2. PICK m : m = import[i]
        OBVIOUS
    <2>3. \A d \in m.created : d[1] # c /\ d[2] # n
        BY <2>2 DEF CreateStudentClass, Made, Reserved
    <2>4. m.created \subseteq ClassRows \X ClassNames /\ m.class \in [ClassNames -> ClassRows \cup {NoClass}]
          /\ Payload(m.payload)
        BY <2>1, <2>2 DEF ImportRecord
    <2>5. CreatedFresh(m, className')
        BY <1>1, <2>1, <2>2, <2>3, <2>4 DEF CreatedFresh
    <2>6. KeysHold(m, className', enrolled')
        BY <1>1, <2>1, <2>2, RosterAssumption DEF KeysHold, CreateStudentClass
    <2>7. ASSUME NEW k \in ClassNames, Knows(m, className, k)
          PROVE  Knows(m, className', k)
        BY <1>1, <2>4, <2>7, RosterAssumption DEF Knows, CreateStudentClass
    <2>8. OnTrack(m, className', classMember')
        BY <2>1, <2>2, <2>7 DEF OnTrack, CreateStudentClass
    <2> QED
        BY <2>2, <2>5, <2>6, <2>8
<1> QED
    BY <1>3, <1>4, QuietHandler DEF CreateStudentClass

\* A class gets another name; who is at work is told.
LEMMA UpdateClassKeeps ==
    ASSUME RosterInv, NEW c \in ClassRows, NEW n \in ClassNames, UpdateStudentClass(c, n)
    PROVE  RosterInv'
<1>1. className' = [d \in ClassRows |-> IF d = c THEN n ELSE className[d]]
    BY DEF RosterInv, ClassesOk, UpdateStudentClass
<1>2. \A d \in ClassRows : className[d] # n
    BY RosterAssumption DEF UpdateStudentClass, NamesInUse
<1>3. ClassesOk(className', classMember', enrolled')
    BY <1>1, <1>2, RosterAssumption DEF ClassesOk, RosterInv, UpdateStudentClass
<1>4. ASSUME NEW i \in Imports
      PROVE  /\ CreatedFresh(import[i], className')
             /\ KeysHold(import[i], className', enrolled')
    <2>1. ImportRecord(import[i]) /\ CreatedFresh(import[i], className)
          /\ KeysHold(import[i], className, enrolled)
        BY ImportParts
    <2>2. PICK m : m = import[i]
        OBVIOUS
    <2>3. m.created \subseteq ClassRows \X ClassNames
        BY <2>1, <2>2 DEF ImportRecord
    <2>4. \A d \in m.created : d[1] # c /\ d[2] # n
        BY <2>1, <2>2, <2>3 DEF CreatedFresh, UpdateStudentClass, Reserved
    <2>5. CreatedFresh(m, className')
        BY <1>1, <2>1, <2>2, <2>3, <2>4 DEF CreatedFresh
    <2>6. KeysHold(m, className', enrolled')
        BY <1>1, <2>1, <2>2, RosterAssumption DEF KeysHold, UpdateStudentClass
    <2> QED
        BY <2>2, <2>5, <2>6
<1> QED
    BY <1>3, <1>4, LoudHandler DEF UpdateStudentClass

\* A class goes with its memberships, unless an import refers to it.
LEMMA DeleteClassKeeps ==
    ASSUME RosterInv, NEW c \in ClassRows, DeleteStudentClass(c)
    PROVE  RosterInv'
<1>1. className' = [d \in ClassRows |-> IF d = c THEN NoClass ELSE className[d]]
    BY DEF RosterInv, ClassesOk, DeleteStudentClass
<1>3. ClassesOk(className', classMember', enrolled')
    BY <1>1, RosterAssumption DEF ClassesOk, RosterInv, DeleteStudentClass
<1>4. ASSUME NEW i \in Imports
      PROVE  /\ CreatedFresh(import[i], className')
             /\ KeysHold(import[i], className', enrolled')
    <2>1. ImportRecord(import[i]) /\ CreatedFresh(import[i], className)
          /\ KeysHold(import[i], className, enrolled)
        BY ImportParts
    <2>2. PICK m : m = import[i]
        OBVIOUS
    <2>3. m.created \subseteq ClassRows \X ClassNames
        BY <2>1, <2>2 DEF ImportRecord
    <2>4. \A p \in m.joined : p[2] # c
        BY <2>2 DEF DeleteStudentClass, Referred
    <2>5. CreatedFresh(m, className')
        BY <1>1, <2>1, <2>2, <2>3, RosterAssumption DEF CreatedFresh
    <2>6. KeysHold(m, className', enrolled')
        BY <1>1, <2>1, <2>2, <2>4 DEF KeysHold, DeleteStudentClass
    <2> QED
        BY <2>2, <2>5, <2>6
<1> QED
    BY <1>3, <1>4, LoudHandler DEF DeleteStudentClass

\* One more member disturbs nobody.
LEMMA AddMemberKeeps ==
    ASSUME RosterInv, NEW c \in ClassRows, NEW s \in ExternalIds, AddMember(s, c)
    PROVE  RosterInv'
<1>1. ClassesOk(className', classMember', enrolled')
    BY DEF ClassesOk, RosterInv, AddMember
<1>2. ASSUME NEW i \in Imports
      PROVE  /\ CreatedFresh(import[i], className')
             /\ KeysHold(import[i], className', enrolled')
             /\ OnTrack(import[i], className', classMember')
    <2>1. CreatedFresh(import[i], className)
          /\ KeysHold(import[i], className, enrolled) /\ OnTrack(import[i], className, classMember)
        BY ImportParts
    <2>2. className' = className /\ enrolled' = enrolled /\ classMember \subseteq classMember'
        BY DEF AddMember
    <2>3. OnTrack(import[i], className, classMember')
        BY <2>1, <2>2 DEF OnTrack
    <2> QED
        BY <2>1, <2>2, <2>3
<1> QED
    BY <1>1, <1>2, QuietHandler DEF AddMember

\* A member is taken out; who is at work is told.
LEMMA RemoveMemberKeeps ==
    ASSUME RosterInv, NEW c \in ClassRows, NEW s \in ExternalIds, RemoveMember(s, c)
    PROVE  RosterInv'
<1>1. ClassesOk(className', classMember', enrolled')
    BY DEF ClassesOk, RosterInv, RemoveMember
<1>2. \A i \in Imports : /\ CreatedFresh(import[i], className')
                         /\ KeysHold(import[i], className', enrolled')
    BY ImportParts DEF RemoveMember
<1> QED
    BY <1>1, <1>2, LoudHandler DEF RemoveMember

-----------------------------------------------------------------------------
\* An import that begins, and one that is rolled back.
LEMMA BeginImportKeeps ==
    ASSUME RosterInv, NEW i \in Imports, BeginImport(i) PROVE RosterInv'
<1>1. PICK p : p = import[i].payload /\ Payload(p)
    BY ImportParts DEF ImportRecord
<1>2. PICK k : k = {r.student : r \in Range(import[i].payload)} \cap enrolled
    OBVIOUS
<1>3. PICK m : m = [Fresh(p) EXCEPT !.stage = "students", !.known = k]
    OBVIOUS
<1>4. m = [stage |-> "students", payload |-> p, known |-> k, inserted |-> {},
           class |-> [n \in ClassNames |-> NoClass], created |-> {}, had |-> {},
           joined |-> {}, next |-> 1, touched |-> FALSE, followed |-> FALSE]
    BY <1>3 DEF Fresh
<1>5. ImportRecord(m)
    <2>1. /\ m.stage = "students" /\ m.payload = p /\ m.class = [n \in ClassNames |-> NoClass]
          /\ m.created = {} /\ m.next = 1
        BY <1>4
    <2>2. m = [stage |-> m.stage, payload |-> m.payload, known |-> m.known,
            inserted |-> m.inserted, class |-> m.class, created |-> m.created,
            had |-> m.had, joined |-> m.joined, next |-> m.next, touched |-> m.touched,
            followed |-> m.followed]
        BY <1>4
    <2>3. m.class \in [ClassNames -> ClassRows \cup {NoClass}]
        BY <2>1
    <2> QED
        BY <1>1, <2>1, <2>2, <2>3 DEF ImportRecord, Stages
<1>6. m.created = {} /\ m.joined = {} /\ m.next = 1 /\ m.stage = "students" /\ m.known \subseteq enrolled
    BY <1>2, <1>4
<1>7. ImportOk(m, className, classMember, enrolled)
    BY <1>5, <1>6 DEF ImportOk, CreatedFresh, KeysHold, NothingYet, OnTrack, Told
<1>8. \A j \in Others(i) : Apart(m, import[j])
    BY <1>6 DEF Apart
<1>9. Step(i, m) /\ UNCHANGED <<enrolled, className, classMember>>
    BY <1>1, <1>2, <1>3 DEF BeginImport
<1> QED
    BY <1>7, <1>8, <1>9, ImportStep

\* An import that is rolled back leaves nothing.
LEMMA RollBackKeeps ==
    ASSUME RosterInv, NEW i \in Imports, RollBack(i) PROVE RosterInv'
<1>1. PICK p : p = import[i].payload /\ Payload(p)
    BY ImportParts DEF ImportRecord
<1>2. PICK stage \in {"queued", "failed"} :
         Step(i, [Fresh(import[i].payload) EXCEPT !.stage = stage])
    BY DEF RollBack
<1>3. PICK m : m = [Fresh(p) EXCEPT !.stage = stage]
    OBVIOUS
<1>4. ImportOk(m, className, classMember, enrolled) /\ m.created = {}
    BY <1>1, <1>3, FreshIsOk DEF Stages
<1>5. \A j \in Others(i) : Apart(m, import[j])
    BY <1>4 DEF Apart
<1>6. Step(i, m) /\ UNCHANGED <<enrolled, className, classMember>>
    BY <1>1, <1>2, <1>3 DEF RollBack
<1> QED
    BY <1>4, <1>5, <1>6, ImportStep

-----------------------------------------------------------------------------
\* A record of which a step changes these fields.
LEMMA ChangedRecord ==
    ASSUME NEW x, ImportRecord(x), NEW a, NEW b, NEW y,
           \/ y = [x EXCEPT !.stage = a]
           \/ y = [x EXCEPT !.known = a, !.inserted = b]
           \/ y = [x EXCEPT !.class = a]
           \/ y = [x EXCEPT !.class = a, !.created = b]
           \/ y = [x EXCEPT !.next = a, !.joined = b]
    PROVE  y = [stage |-> y.stage, payload |-> y.payload, known |-> y.known,
                inserted |-> y.inserted, class |-> y.class, created |-> y.created,
                had |-> y.had, joined |-> y.joined, next |-> y.next, touched |-> y.touched,
                followed |-> y.followed]
<1>1. CASE y = [x EXCEPT !.stage = a]
    BY <1>1 DEF ImportRecord
<1>2. CASE y = [x EXCEPT !.known = a, !.inserted = b]
    BY <1>2 DEF ImportRecord
<1>3. CASE y = [x EXCEPT !.class = a]
    BY <1>3 DEF ImportRecord
<1>4. CASE y = [x EXCEPT !.class = a, !.created = b]
    BY <1>4 DEF ImportRecord
<1>5. CASE y = [x EXCEPT !.next = a, !.joined = b]
    BY <1>5 DEF ImportRecord
<1> QED
    BY <1>1, <1>2, <1>3, <1>4, <1>5

\* One student after the other is found or inserted.
LEMMA UpsertStudentKeeps ==
    ASSUME RosterInv, NEW i \in Imports, UpsertStudent(i) PROVE RosterInv'
<1>1. PICK x : x = import[i]
    OBVIOUS
<1>2. /\ ImportRecord(x) /\ CreatedFresh(x, className) /\ KeysHold(x, className, enrolled)
      /\ NothingYet(x) /\ x.stage = "students"
    BY <1>1, ImportParts DEF UpsertStudent
<1>3. x.created = {} /\ x.joined = {} /\ x.next = 1
    BY <1>2 DEF NothingYet
<1>4. PICK s : s = NextStudent(i)
    OBVIOUS
<1>5. UNCHANGED <<enrolled, className, classMember>>
    BY DEF UpsertStudent
<1>6. CASE s = NoClass
    <2>1. PICK m : m = [x EXCEPT !.stage = "classes"]
        OBVIOUS
    <2>2. Step(i, m)
        BY <1>1, <1>4, <1>6, <2>1 DEF UpsertStudent
    <2>3. /\ m.stage = "classes" /\ m.payload = x.payload /\ m.known = x.known
          /\ m.inserted = x.inserted /\ m.class = x.class /\ m.created = x.created
          /\ m.joined = x.joined /\ m.next = x.next
        BY <1>2, <2>1 DEF ImportRecord
    <2>4. ImportRecord(m)
        BY <1>2, <2>1, <2>3, ChangedRecord DEF ImportRecord, Stages
    <2>5. \A n \in DOMAIN x.payload : x.payload[n].student \in x.known
        <3> DEFINE missing == {n \in DOMAIN x.payload : x.payload[n].student \notin x.known}
        <3>1. SUFFICES ASSUME missing # {} PROVE FALSE
            OBVIOUS
        <3>2. missing \subseteq Int /\ IsFiniteSet(missing)
            BY <1>2, FS_Subset DEF ImportRecord, Payload
        <3>3. Min(missing) \in missing
            BY <3>1, <3>2, SmallestOfFinite
        <3>4. s = x.payload[Min(missing)].student
            BY <1>1, <1>4, <3>1 DEF NextStudent
        <3>5. s \in ExternalIds
            BY <1>2, <3>3, <3>4 DEF ImportRecord, Payload
        <3> QED
            BY <1>6, <3>5, RosterAssumption
    <2>6. KeysHold(m, className, enrolled)
        BY <1>2, <1>3, <2>3, <2>5 DEF KeysHold
    <2>7. ImportOk(m, className, classMember, enrolled)
        BY <1>3, <2>3, <2>4, <2>6 DEF ImportOk, CreatedFresh, NothingYet, OnTrack, Told
    <2>8. \A j \in Others(i) : Apart(m, import[j])
        BY <1>3, <2>3 DEF Apart
    <2> QED
        BY <1>5, <2>2, <2>7, <2>8, ImportStep
<1>7. CASE s # NoClass
    <2>1. PICK new : new = (IF s \in enrolled THEN x.inserted ELSE x.inserted \cup {s})
        OBVIOUS
    <2>2. PICK m : m = [x EXCEPT !.known = x.known \cup {s}, !.inserted = new]
        OBVIOUS
    <2>3. Step(i, m)
        BY <1>1, <1>4, <1>7, <2>1, <2>2 DEF UpsertStudent
    <2>4. /\ m.stage = "students" /\ m.payload = x.payload /\ m.known = x.known \cup {s}
          /\ m.inserted = new /\ m.class = x.class /\ m.created = x.created
          /\ m.joined = x.joined /\ m.next = x.next
        BY <1>2, <2>2 DEF ImportRecord
    <2>5. ImportRecord(m)
        BY <1>2, <2>2, <2>4, ChangedRecord DEF ImportRecord, Stages
    <2>6. KeysHold(m, className, enrolled)
        BY <1>2, <1>3, <2>1, <2>4 DEF KeysHold
    <2>7. ImportOk(m, className, classMember, enrolled)
        BY <1>3, <2>4, <2>5, <2>6 DEF ImportOk, CreatedFresh, NothingYet, OnTrack, Told
    <2>8. \A j \in Others(i) : Apart(m, import[j])
        BY <1>3, <2>4 DEF Apart
    <2> QED
        BY <1>5, <2>3, <2>7, <2>8, ImportStep
<1> QED
    BY <1>6, <1>7

\* The row of a name that is in use.
LEMMA NamedIs ==
    ASSUME ClassesOk(className, classMember, enrolled), NEW n \in NamesInUse
    PROVE  Named(n) \in ClassRows /\ className[Named(n)] = n
BY DEF NamesInUse, Named

\* The classes that are there when an import looks.
LEMMA ReadClassesKeeps ==
    ASSUME RosterInv, NEW i \in Imports, ReadClasses(i) PROVE RosterInv'
<1>1. PICK x : x = import[i]
    OBVIOUS
<1>2. /\ ImportRecord(x) /\ CreatedFresh(x, className) /\ KeysHold(x, className, enrolled)
      /\ NothingYet(x) /\ x.stage = "classes"
    BY <1>1, ImportParts DEF ReadClasses
<1>3. x.created = {} /\ x.joined = {} /\ x.next = 1
    BY <1>2 DEF NothingYet
<1>4. PICK f : f = [n \in ClassNames |->
                       IF n \in Hints(i) \cap NamesInUse THEN Named(n) ELSE NoClass]
    OBVIOUS
<1>5. PICK m : m = [x EXCEPT !.stage = "members", !.class = f, !.had = classMember]
    OBVIOUS
<1>6. Step(i, m) /\ UNCHANGED <<enrolled, className, classMember>>
    BY <1>1, <1>4, <1>5 DEF ReadClasses
<1>7. /\ m.stage = "members" /\ m.payload = x.payload /\ m.known = x.known
      /\ m.inserted = x.inserted /\ m.class = f /\ m.created = x.created
      /\ m.joined = x.joined /\ m.next = x.next /\ m.had = classMember
    BY <1>2, <1>5 DEF ImportRecord
<1>8. \A n \in ClassNames : f[n] # NoClass => f[n] \in ClassRows /\ className[f[n]] = n
    BY <1>4, NamedIs DEF RosterInv
<1>9. f \in [ClassNames -> ClassRows \cup {NoClass}]
    BY <1>4, <1>8
<1>10. ImportRecord(m)
    <2>1. m = [stage |-> m.stage, payload |-> m.payload, known |-> m.known,
            inserted |-> m.inserted, class |-> m.class, created |-> m.created,
            had |-> m.had, joined |-> m.joined, next |-> m.next, touched |-> m.touched,
            followed |-> m.followed]
        BY <1>2, <1>5 DEF ImportRecord
    <2> QED
        BY <1>2, <1>7, <1>9, <2>1 DEF ImportRecord, Stages
<1>11. KeysHold(m, className, enrolled)
    BY <1>2, <1>3, <1>7 DEF KeysHold
<1>12. OnTrack(m, className, classMember)
    <2>1. \A k \in DOMAIN m.payload : ~(k < m.next)
        BY <1>2, <1>3, <1>7 DEF ImportRecord, Payload
    <2> QED
        BY <1>7, <1>8, <2>1 DEF OnTrack, Knows
<1>13. CreatedFresh(m, className)
    BY <1>3, <1>7 DEF CreatedFresh
<1>14. NothingYet(m) /\ Told(m)
    BY <1>7 DEF NothingYet, Told
<1>15. ImportOk(m, className, classMember, enrolled)
    BY <1>10, <1>11, <1>12, <1>13, <1>14 DEF ImportOk
<1>16. \A j \in Others(i) : Apart(m, import[j])
    BY <1>3, <1>7 DEF Apart
<1> QED
    BY <1>6, <1>15, <1>16, ImportStep

\* The student that is next, and what the class for him is called.
LEMMA CurrentIs ==
    ASSUME RosterInv, NEW i \in Imports, HasCurrent(i), NEW k, k = Min(Waiting(i))
    PROVE  /\ k \in DOMAIN import[i].payload /\ k \in Nat /\ import[i].next <= k
           /\ Current(i) = import[i].payload[k]
           /\ Current(i).hint \in ClassNames /\ Current(i).hint # NoClass
           /\ Current(i).student \in ExternalIds
           /\ \A n \in DOMAIN import[i].payload :
                 import[i].payload[n].hint # NoClass /\ n < k + 1 => n < import[i].next \/ n = k
<1>1. PICK x : x = import[i] /\ ImportRecord(x)
    BY ImportParts
<1>2. PICK W : W = Waiting(i)
    OBVIOUS
<1>3. W = {n \in DOMAIN x.payload : x.payload[n].hint # NoClass /\ x.next <= n}
    BY <1>1, <1>2 DEF Waiting, Hinted
<1>4. W \subseteq Int /\ W # {} /\ IsFiniteSet(W)
    <2>1. W \subseteq DOMAIN x.payload
        BY <1>3
    <2>2. DOMAIN x.payload \subseteq Int /\ IsFiniteSet(DOMAIN x.payload)
        BY <1>1 DEF ImportRecord, Payload
    <2>3. IsFiniteSet(W)
        BY <2>1, <2>2, FS_Subset
    <2> QED
        BY <1>2, <2>1, <2>2, <2>3 DEF HasCurrent
<1>5. k \in W /\ \A n \in W : k <= n
    BY <1>2, <1>4, SmallestOfFinite
<1>6. k \in DOMAIN x.payload /\ k \in Nat /\ x.next <= k /\ x.payload[k].hint # NoClass
    BY <1>1, <1>3, <1>5 DEF ImportRecord, Payload
<1>7. x.payload[k].hint \in ClassNames /\ x.payload[k].student \in ExternalIds
    BY <1>1, <1>6 DEF ImportRecord, Payload
<1>8. ASSUME NEW n \in DOMAIN x.payload, x.payload[n].hint # NoClass, n < k + 1
      PROVE  n < x.next \/ n = k
    <2>1. n \in Nat /\ x.next \in Nat
        BY <1>1, <1>8 DEF ImportRecord, Payload
    <2>2. CASE x.next <= n
        BY <1>3, <1>5, <1>6, <1>8, <2>1, <2>2
    <2> QED
        BY <2>1, <2>2
<1>9. Current(i) = x.payload[k]
    BY <1>1 DEF Current
<1> QED
    BY <1>1, <1>6, <1>7, <1>8, <1>9

\* An import that learns which class a name stands for.
LEMMA ClassLearnt ==
    ASSUME NEW x, NEW names, NEW pairs, NEW ids, ImportRecord(x), CreatedFresh(x, names),
           KeysHold(x, names, ids), OnTrack(x, names, pairs), Told(x), x.stage = "members",
           NEW n \in ClassNames, x.class[n] = NoClass, NEW c \in ClassRows,
           NEW new, NEW m, ImportRecord(m), CreatedFresh(m, names),
           new = x.created \/ new = x.created \cup {<<c, n>>},
           names[c] = n \/ <<c, n>> \in new,
           /\ m.stage = x.stage /\ m.payload = x.payload /\ m.known = x.known
           /\ m.inserted = x.inserted /\ m.had = x.had
           /\ m.class = [x.class EXCEPT ![n] = c] /\ m.created = new
           /\ m.joined = x.joined /\ m.next = x.next,
           x.touched => m.touched, m.touched => x.touched
    PROVE  ImportOk(m, names, pairs, ids)
<1>1. \A d : d \in x.created => d \in new
    OBVIOUS
<1>2. KeysHold(m, names, ids)
    BY <1>1 DEF KeysHold
<1>3. x.class \in [ClassNames -> ClassRows \cup {NoClass}]
    BY DEF ImportRecord
<1>4. m.class[n] = c /\ \A a \in ClassNames \ {n} : m.class[a] = x.class[a]
    BY <1>3
<1>5. ASSUME ~m.touched PROVE OnTrack(m, names, pairs)
    <2>1. ~x.touched
        BY <1>5
    <2>2. /\ x.had \subseteq pairs
          /\ \A a \in ClassNames : Knows(x, names, a)
          /\ \A k \in DOMAIN x.payload : x.payload[k].hint # NoClass /\ k < x.next =>
                /\ x.class[x.payload[k].hint] # NoClass
                /\ <<x.payload[k].student, x.class[x.payload[k].hint]>> \in pairs \cup x.joined
        BY <2>1, Zenon DEF OnTrack
    <2>3. ASSUME NEW a \in ClassNames PROVE Knows(m, names, a)
        <3>1. CASE a = n
            BY <1>4, <3>1 DEF Knows
        <3>2. CASE a # n
            BY <1>1, <1>4, <2>2, <3>2 DEF Knows
        <3> QED
            BY <3>1, <3>2
    <2>4. ASSUME NEW k \in DOMAIN m.payload, m.payload[k].hint # NoClass, k < m.next
          PROVE  /\ m.class[m.payload[k].hint] # NoClass
                 /\ <<m.payload[k].student, m.class[m.payload[k].hint]>> \in pairs \cup m.joined
        <3>1. m.payload[k].hint \in ClassNames
            BY <2>4 DEF ImportRecord, Payload
        <3>2. x.class[m.payload[k].hint] # NoClass
            BY <2>2, <2>4
        <3>3. m.payload[k].hint # n
            BY <3>2
        <3>4. m.class[m.payload[k].hint] = x.class[m.payload[k].hint]
            BY <1>4, <3>1, <3>3
        <3> QED
            BY <2>2, <2>4, <3>4
    <2> QED
        BY <2>2, <2>3, <2>4 DEF OnTrack
<1>6. OnTrack(m, names, pairs)
    <2>1. CASE m.touched
        BY <2>1, Zenon DEF OnTrack
    <2> QED
        BY <1>5, <2>1
<1>7. NothingYet(m) /\ Told(m)
    BY DEF NothingYet, Told
<1> QED
    BY <1>2, <1>6, <1>7 DEF ImportOk

\* A missing class is inserted, or found after all.
LEMMA UpsertClassKeeps ==
    ASSUME RosterInv, NEW i \in Imports, UpsertClass(i) PROVE RosterInv'
<1>1. PICK x : x = import[i]
    OBVIOUS
<1>2. /\ ImportRecord(x) /\ CreatedFresh(x, className) /\ KeysHold(x, className, enrolled)
      /\ NothingYet(x) /\ OnTrack(x, className, classMember) /\ Told(x)
    BY <1>1, ImportParts
<1>3. HasCurrent(i) /\ x.stage = "members"
    BY <1>1 DEF UpsertClass, Creates, HasCurrent
<1>4. PICK n \in ClassNames : n = Current(i).hint
    <2>1. PICK k : k = Min(Waiting(i))
        OBVIOUS
    <2> QED
        BY <1>3, <2>1, CurrentIs
<1>5. x.class[n] = NoClass
    BY <1>1, <1>4 DEF UpsertClass, Creates
<1>6. x.class \in [ClassNames -> ClassRows \cup {NoClass}] /\ x.created \subseteq ClassRows \X ClassNames
    BY <1>2 DEF ImportRecord
<1>7. \A d \in x.created : d[2] # n
    BY <1>2, <1>5, <1>6, RosterAssumption DEF CreatedFresh
<1>8. UNCHANGED <<enrolled, className, classMember>>
    BY DEF UpsertClass
<1>9. ASSUME n \in NamesInUse, Step(i, [import[i] EXCEPT !.class = With(i, n, Named(n))])
      PROVE  RosterInv'
    <2>1. PICK c : c = Named(n) /\ c \in ClassRows /\ className[c] = n
        BY <1>9, NamedIs DEF RosterInv
    <2>2. PICK f : f = [x.class EXCEPT ![n] = c]
        OBVIOUS
    <2>3. f \in [ClassNames -> ClassRows \cup {NoClass}] /\ \A a \in ClassNames \ {n} : f[a] = x.class[a]
        BY <1>6, <2>1, <2>2
    <2>4. PICK m : m = [x EXCEPT !.class = f]
        OBVIOUS
    <2>5. Step(i, m)
        BY <1>1, <1>9, <2>1, <2>2, <2>4 DEF With
    <2>6. /\ m.stage = x.stage /\ m.payload = x.payload /\ m.known = x.known
          /\ m.inserted = x.inserted /\ m.had = x.had /\ m.class = f
          /\ m.created = x.created /\ m.joined = x.joined /\ m.next = x.next
        BY <1>2, <2>4 DEF ImportRecord
    <2>14. PICK new : new = x.created
        OBVIOUS
    <2>7. m.touched = x.touched
        BY <1>2, <2>4 DEF ImportRecord
    <2>8. ImportRecord(m)
        BY <1>2, <2>3, <2>4, <2>6, ChangedRecord DEF ImportRecord
    <2>9. CreatedFresh(m, className)
        BY <1>2, <1>6, <1>7, <2>3, <2>6 DEF CreatedFresh
    <2>10. x.touched => m.touched
        BY <2>7
    <2>11. m.touched => x.touched
        BY <2>7
    <2>12. ImportOk(m, className, classMember, enrolled)
        <3>1. /\ m.stage = x.stage /\ m.payload = x.payload /\ m.known = x.known
              /\ m.inserted = x.inserted /\ m.had = x.had
              /\ m.class = [x.class EXCEPT ![n] = c] /\ m.created = new
              /\ m.joined = x.joined /\ m.next = x.next
            BY <2>2, <2>6, <2>14
        <3>2. /\ new = x.created \/ new = x.created \cup {<<c, n>>}
              /\ className[c] = n \/ <<c, n>> \in new
              /\ c \in ClassRows
            BY <2>1, <2>14
        <3> QED
            BY <1>2, <1>3, <1>5, <2>8, <2>9, <2>10, <2>11, <3>1, <3>2, ClassLearnt, Zenon
    <2>13. \A j \in Others(i) : Apart(m, import[j])
        BY <1>1, <2>6 DEF RosterInv, Others, Apart
    <2> QED
        BY <1>8, <2>5, <2>12, <2>13, ImportStep
<1>10. ASSUME n \notin NamesInUse, NEW c \in ClassRows, className[c] = NoClass,
              \A j \in Imports : c \notin {d[1] : d \in import[j].created},
              Step(i, [import[i] EXCEPT !.class = With(i, n, c),
                                        !.created = import[i].created \cup {<<c, n>>}])
       PROVE  RosterInv'
    <2>1. PICK new : new = x.created \cup {<<c, n>>}
        OBVIOUS
    <2>2. PICK f : f = [x.class EXCEPT ![n] = c]
        OBVIOUS
    <2>3. /\ f \in [ClassNames -> ClassRows \cup {NoClass}] /\ f[n] = c
          /\ \A a \in ClassNames \ {n} : f[a] = x.class[a]
        BY <1>6, <2>2
    <2>4. PICK m : m = [x EXCEPT !.class = f, !.created = new]
        OBVIOUS
    <2>5. Step(i, m)
        BY <1>1, <1>10, <2>1, <2>2, <2>4 DEF With
    <2>6. /\ m.stage = x.stage /\ m.payload = x.payload /\ m.known = x.known
          /\ m.inserted = x.inserted /\ m.had = x.had /\ m.class = f
          /\ m.created = new /\ m.joined = x.joined /\ m.next = x.next
        BY <1>2, <2>4 DEF ImportRecord
    <2>7. m.touched = x.touched
        BY <1>2, <2>4 DEF ImportRecord
    <2>8. ImportRecord(m)
        <3>1. m = [stage |-> m.stage, payload |-> m.payload, known |-> m.known,
                inserted |-> m.inserted, class |-> m.class, created |-> m.created,
                had |-> m.had, joined |-> m.joined, next |-> m.next, touched |-> m.touched,
                followed |-> m.followed]
            BY <1>2, <2>4 DEF ImportRecord
        <3>2. new \subseteq ClassRows \X ClassNames
            BY <1>6, <2>1
        <3> QED
            BY <1>2, <2>3, <2>6, <3>1, <3>2 DEF ImportRecord
    <2>9. /\ \A a \in ClassRows : className[a] # n
          /\ \A d \in x.created : d[1] # c
        BY <1>1, <1>10, RosterAssumption DEF NamesInUse
    <2>14. ASSUME NEW d \in new
           PROVE  /\ className[d[1]] = NoClass
                  /\ \A a \in ClassRows : className[a] # d[2]
                  /\ f[d[2]] = d[1]
                  /\ \A e \in new : e[1] = d[1] => e = d
        <3>1. CASE d = <<c, n>>
            BY <1>10, <2>1, <2>3, <2>9, <3>1
        <3>2. CASE d \in x.created
            BY <1>2, <1>6, <1>7, <2>1, <2>3, <2>9, <3>2 DEF CreatedFresh
        <3> QED
            BY <2>1, <3>1, <3>2
    <2>15. CreatedFresh(m, className)
        BY <2>6, <2>14 DEF CreatedFresh
    <2>10. x.touched => m.touched
        BY <2>7
    <2>11. m.touched => x.touched
        BY <2>7
    <2>12. ImportOk(m, className, classMember, enrolled)
        BY <1>2, <1>3, <1>5, <2>1, <2>2, <2>6, <2>8, <2>15, <2>10, <2>11, ClassLearnt
    <2>13. ASSUME NEW j \in Others(i) PROVE Apart(m, import[j])
        <3>1. Apart(x, import[j])
            BY <1>1 DEF RosterInv, Others
        <3>2. \A e \in import[j].created : e[1] # c
            BY <1>10 DEF Others
        <3>3. \A e \in import[j].created : e[2] # n
            BY <1>4 DEF UpsertClass, WaitsForClass
        <3> QED
            BY <2>1, <2>6, <3>1, <3>2, <3>3 DEF Apart
    <2> QED
        BY <1>8, <2>5, <2>12, <2>13, ImportStep
<1> QED
    BY <1>4, <1>9, <1>10 DEF UpsertClass

-----------------------------------------------------------------------------
\* A student joins the class, or is in it.
LEMMA JoinClassKeeps ==
    ASSUME RosterInv, NEW i \in Imports, JoinClass(i) PROVE RosterInv'
<1>1. PICK x : x = import[i]
    OBVIOUS
<1>2. /\ ImportRecord(x) /\ CreatedFresh(x, className) /\ KeysHold(x, className, enrolled)
      /\ NothingYet(x) /\ OnTrack(x, className, classMember) /\ Told(x)
    BY <1>1, ImportParts
<1>3. HasCurrent(i) /\ x.stage = "members" /\ ~Creates(i)
    BY <1>1 DEF JoinClass, Joins, HasCurrent
<1>4. PICK k : k = Min(Waiting(i))
    OBVIOUS
<1>5. PICK r : r = Current(i)
    OBVIOUS
<1>6. /\ k \in DOMAIN x.payload /\ k \in Nat /\ x.next <= k
      /\ r = x.payload[k] /\ r.hint \in ClassNames /\ r.hint # NoClass
      /\ \A n \in DOMAIN x.payload :
            x.payload[n].hint # NoClass /\ n < k + 1 => n < x.next \/ n = k
    BY <1>1, <1>3, <1>4, <1>5, CurrentIs
<1>7. PICK c : c = x.class[r.hint]
    OBVIOUS
<1>8. c \in ClassRows /\ c # NoClass
    <2>1. c # NoClass
        BY <1>1, <1>3, <1>5, <1>7 DEF Creates
    <2> QED
        BY <1>2, <1>6, <1>7, <2>1 DEF ImportRecord
<1>9. PICK p : p = <<r.student, c>>
    OBVIOUS
<1>10. p = Pair(i)
    BY <1>1, <1>5, <1>7, <1>9 DEF Pair
<1>11. PICK new : new = (IF Insertable(i) THEN x.joined \cup {p} ELSE x.joined)
    OBVIOUS
<1>12. PICK m : m = [x EXCEPT !.next = k + 1, !.joined = new]
    OBVIOUS
<1>13. Step(i, m) /\ UNCHANGED <<enrolled, className, classMember>>
    BY <1>1, <1>4, <1>10, <1>11, <1>12 DEF JoinClass
<1>14. /\ m.stage = x.stage /\ m.payload = x.payload /\ m.known = x.known
       /\ m.inserted = x.inserted /\ m.had = x.had /\ m.class = x.class
       /\ m.created = x.created /\ m.joined = new /\ m.next = k + 1
    BY <1>2, <1>12 DEF ImportRecord
<1>15. m.touched = x.touched
    BY <1>2, <1>12 DEF ImportRecord
<1>16. x.touched => m.touched
    BY <1>15
<1>17. m.touched => x.touched
    BY <1>15
<1>18. ImportRecord(m)
    <2>1. m = [stage |-> m.stage, payload |-> m.payload, known |-> m.known,
               inserted |-> m.inserted, class |-> m.class, created |-> m.created,
               had |-> m.had, joined |-> m.joined, next |-> m.next, touched |-> m.touched,
               followed |-> m.followed]
        BY <1>2, <1>12 DEF ImportRecord
    <2> QED
        BY <1>2, <1>6, <1>14, <2>1 DEF ImportRecord
<1>19. CreatedFresh(m, className) /\ NothingYet(m) /\ Told(m)
    BY <1>2, <1>3, <1>14 DEF CreatedFresh, NothingYet, Told
<1>20. p[1] = r.student /\ p[2] = c
    BY <1>9
<1>21. KeysHold(m, className, enrolled)
    <2>1. r.student \in x.known
        BY <1>2, <1>3, <1>6 DEF KeysHold
    <2>2. r.student \in enrolled \cup x.inserted
        BY <1>2, <2>1 DEF KeysHold
    <2>3. Insertable(i) => className[c] # NoClass \/ \E d \in x.created : d[1] = c
        BY <1>1, <1>10, <1>20 DEF Insertable
    <2>4. ASSUME NEW q \in new
          PROVE  /\ q[1] \in enrolled \cup x.inserted
                 /\ q[2] \in ClassRows
                 /\ className[q[2]] # NoClass \/ \E d \in x.created : d[1] = q[2]
        <3>1. CASE q \in x.joined
            BY <1>2, <3>1 DEF KeysHold
        <3>2. CASE q \notin x.joined
            BY <1>8, <1>11, <1>20, <2>2, <2>3, <3>2
        <3> QED
            BY <3>1, <3>2
    <2> QED
        BY <1>2, <1>14, <2>4 DEF KeysHold
<1>22. ASSUME ~m.touched PROVE OnTrack(m, className, classMember)
    <2>1. ~x.touched
        BY <1>16, <1>22
    <2>2. /\ x.had \subseteq classMember
          /\ \A a \in ClassNames : Knows(x, className, a)
          /\ \A n \in DOMAIN x.payload : x.payload[n].hint # NoClass /\ n < x.next =>
                /\ x.class[x.payload[n].hint] # NoClass
                /\ <<x.payload[n].student, x.class[x.payload[n].hint]>> \in classMember \cup x.joined
        BY <1>2, <1>3, <2>1, Zenon DEF OnTrack
    <2>3. className[c] = r.hint \/ <<c, r.hint>> \in x.created
        BY <1>6, <1>7, <1>8, <2>2 DEF Knows
    <2>4. className[c] # NoClass \/ c \in {d[1] : d \in x.created}
        BY <1>6, <2>3
    <2>5. p \in classMember \cup new
        <3>1. CASE Insertable(i)
            BY <1>11, <3>1
        <3>2. CASE ~Insertable(i)
            BY <1>1, <1>10, <1>20, <2>2, <2>4, <3>2 DEF Insertable
        <3> QED
            BY <3>1, <3>2
    <2>6. x.joined \subseteq new
        BY <1>11
    <2>7. ASSUME NEW n \in DOMAIN x.payload, x.payload[n].hint # NoClass, n < k + 1
          PROVE  /\ x.class[x.payload[n].hint] # NoClass
                 /\ <<x.payload[n].student, x.class[x.payload[n].hint]>> \in classMember \cup new
        <3>1. CASE n = k
            BY <1>6, <1>7, <1>8, <1>9, <2>5, <3>1
        <3>2. CASE n < x.next
            BY <2>2, <2>6, <2>7, <3>2
        <3> QED
            BY <1>6, <2>7, <3>1, <3>2
    <2>8. \A a \in ClassNames : Knows(m, className, a)
        BY <1>14, <2>2 DEF Knows
    <2> QED
        BY <1>14, <2>2, <2>7, <2>8 DEF OnTrack
<1>23. OnTrack(m, className, classMember)
    <2>1. CASE m.touched
        BY <2>1, Zenon DEF OnTrack
    <2> QED
        BY <1>22, <2>1
<1>24. ImportOk(m, className, classMember, enrolled)
    BY <1>18, <1>19, <1>21, <1>23 DEF ImportOk
<1>25. \A j \in Others(i) : Apart(m, import[j])
    BY <1>1, <1>14 DEF RosterInv, Others, Apart
<1> QED
    BY <1>13, <1>24, <1>25, ImportStep

-----------------------------------------------------------------------------
\* The classes after the commit of import i: those it has inserted, and the others.
LEMMA AfterCommitIs ==
    ASSUME RosterInv, NEW i \in Imports
    PROVE  /\ \A d \in import[i].created : AfterCommit(i)[d[1]] = d[2]
           /\ \A c \in ClassRows : (\A d \in import[i].created : d[1] # c) =>
                 AfterCommit(i)[c] = className[c]
           /\ \A c \in ClassRows : className[c] # NoClass => AfterCommit(i)[c] = className[c]
           /\ AfterCommit(i) \in [ClassRows -> ClassNames \cup {NoClass}]
<1>1. PICK x : x = import[i]
    OBVIOUS
<1>2. ImportRecord(x) /\ CreatedFresh(x, className)
    BY <1>1, ImportParts
<1>3. x.created \subseteq ClassRows \X ClassNames
    BY <1>2 DEF ImportRecord
<1>4. className \in [ClassRows -> ClassNames \cup {NoClass}]
    BY DEF RosterInv, ClassesOk
<1>5. PICK f : f = AfterCommit(i)
    OBVIOUS
<1>6. f = [c \in ClassRows |-> IF \E d \in x.created : d[1] = c
                               THEN (CHOOSE d \in x.created : d[1] = c)[2]
                               ELSE className[c]]
    BY <1>1, <1>5 DEF AfterCommit
<1>7. ASSUME NEW d \in x.created PROVE f[d[1]] = d[2] /\ d[2] \in ClassNames
    <2>1. d[1] \in ClassRows /\ d[2] \in ClassNames
        BY <1>3
    <2>2. PICK e : e = CHOOSE a \in x.created : a[1] = d[1]
        OBVIOUS
    <2>3. e \in x.created /\ e[1] = d[1]
        BY <2>2
    <2>4. e = d
        BY <1>2, <2>3 DEF CreatedFresh
    <2>5. f[d[1]] = e[2]
        BY <1>6, <2>1, <2>2
    <2> QED
        BY <2>1, <2>4, <2>5
<1>8. ASSUME NEW c \in ClassRows, \A d \in x.created : d[1] # c
      PROVE  f[c] = className[c]
    BY <1>6, <1>8
<1>9. ASSUME NEW c \in ClassRows, className[c] # NoClass
      PROVE  f[c] = className[c]
    BY <1>2, <1>8, <1>9 DEF CreatedFresh
<1>10. f \in [ClassRows -> ClassNames \cup {NoClass}]
    <2>1. \A c \in ClassRows : f[c] \in ClassNames \cup {NoClass}
        BY <1>4, <1>7, <1>8
    <2> QED
        BY <1>6, <2>1
<1> QED
    BY <1>1, <1>5, <1>7, <1>8, <1>9, <1>10

\* What an import has inserted is there for everybody.
LEMMA CommitImportKeeps ==
    ASSUME RosterInv, NEW i \in Imports, CommitImport(i) PROVE RosterInv'
<1>1. PICK x : x = import[i]
    OBVIOUS
<1>2. /\ ImportRecord(x) /\ CreatedFresh(x, className) /\ KeysHold(x, className, enrolled)
      /\ OnTrack(x, className, classMember) /\ x.stage = "members"
    BY <1>1, ImportParts DEF CommitImport
<1>3. x.created \subseteq ClassRows \X ClassNames /\ Payload(x.payload)
    BY <1>2 DEF ImportRecord
<1>4. /\ className' = AfterCommit(i) /\ enrolled' = enrolled \cup x.inserted
      /\ classMember' = classMember \cup x.joined
    BY <1>1 DEF CommitImport
<1>5. /\ \A d \in x.created : className'[d[1]] = d[2]
      /\ \A c \in ClassRows : (\A d \in x.created : d[1] # c) => className'[c] = className[c]
      /\ \A c \in ClassRows : className[c] # NoClass => className'[c] = className[c]
      /\ className' \in [ClassRows -> ClassNames \cup {NoClass}]
    BY <1>1, <1>4, AfterCommitIs
<1>6. ClassesOk(className', classMember', enrolled')
    <2>1. ASSUME NEW c \in ClassRows, NEW d \in ClassRows, className'[c] = className'[d],
                 className'[c] # NoClass
          PROVE  c = d
        <3>1. CASE \E a \in x.created : a[1] = c
            <4>1. PICK a \in x.created : a[1] = c
                BY <3>1
            <4>2. className'[c] = a[2]
                BY <1>5, <4>1
            <4>3. CASE \E b \in x.created : b[1] = d
                <5>1. PICK b \in x.created : b[1] = d
                    BY <4>3
                <5>2. className'[d] = b[2]
                    BY <1>5, <5>1
                <5> QED
                    BY <1>2, <2>1, <4>1, <4>2, <5>1, <5>2 DEF CreatedFresh
            <4>4. CASE ~\E b \in x.created : b[1] = d
                <5>1. className[d] = a[2]
                    BY <1>5, <2>1, <4>2, <4>4
                <5> QED
                    BY <1>2, <4>1, <5>1 DEF CreatedFresh
            <4> QED
                BY <4>3, <4>4
        <3>2. CASE ~\E a \in x.created : a[1] = c
            <4>1. className'[c] = className[c]
                BY <1>5, <3>2
            <4>2. CASE \E b \in x.created : b[1] = d
                <5>1. PICK b \in x.created : b[1] = d
                    BY <4>2
                <5>2. className[c] = b[2]
                    BY <1>5, <2>1, <4>1, <5>1
                <5> QED
                    BY <1>2, <5>1, <5>2 DEF CreatedFresh
            <4>3. CASE ~\E b \in x.created : b[1] = d
                <5>1. className'[d] = className[d]
                    BY <1>5, <4>3
                <5> QED
                    BY <2>1, <4>1, <5>1 DEF RosterInv, ClassesOk
            <4> QED
                BY <4>2, <4>3
        <3> QED
            BY <3>1, <3>2
    <2>2. ASSUME NEW p \in classMember'
          PROVE  p[1] \in enrolled' /\ p[2] \in ClassRows /\ className'[p[2]] # NoClass
        <3>1. CASE p \in classMember
            BY <1>4, <1>5, <3>1 DEF RosterInv, ClassesOk
        <3>2. CASE p \in x.joined
            <4>1. /\ p[1] \in enrolled' /\ p[2] \in ClassRows
                  /\ className[p[2]] # NoClass \/ \E d \in x.created : d[1] = p[2]
                BY <1>2, <1>4, <3>2 DEF KeysHold
            <4>2. CASE className[p[2]] # NoClass
                BY <1>5, <4>1, <4>2
            <4>3. CASE \E d \in x.created : d[1] = p[2]
                <5>1. PICK d \in x.created : d[1] = p[2]
                    BY <4>3
                <5>2. className'[p[2]] = d[2] /\ d[2] \in ClassNames
                    BY <1>3, <1>5, <5>1
                <5> QED
                    BY <4>1, <5>2, RosterAssumption
            <4> QED
                BY <4>1, <4>2, <4>3
        <3> QED
            BY <1>4, <3>1, <3>2
    <2> QED
        BY <1>5, <2>1, <2>2 DEF ClassesOk
<1>7. PICK t : t = x.touched
    OBVIOUS
<1>8. PICK b : b = Followed(i, className', classMember')
    OBVIOUS
<1>9. ASSUME ~t PROVE b
    <2>1. /\ \A a \in ClassNames : Knows(x, className, a)
          /\ \A n \in DOMAIN x.payload : x.payload[n].hint # NoClass /\ n < x.next =>
                /\ x.class[x.payload[n].hint] # NoClass
                /\ <<x.payload[n].student, x.class[x.payload[n].hint]>> \in classMember \cup x.joined
        BY <1>2, <1>7, <1>9, Zenon DEF OnTrack
    <2>2. ASSUME NEW n \in DOMAIN x.payload, x.payload[n].hint # NoClass
          PROVE  \E c \in ClassRows : className'[c] = x.payload[n].hint
                                      /\ <<x.payload[n].student, c>> \in classMember'
        <3>1. n < x.next
            <4>1. n \in Nat /\ x.next \in Nat
                BY <1>2, <1>3 DEF ImportRecord, Payload
            <4>2. ~(x.next <= n)
                BY <1>1, <2>2 DEF CommitImport, Waiting, Hinted
            <4> QED
                BY <4>1, <4>2
        <3>2. x.payload[n].hint \in ClassNames
            BY <1>3, <2>2 DEF Payload
        <3>3. PICK c : c = x.class[x.payload[n].hint]
            OBVIOUS
        <3>4. /\ c # NoClass /\ <<x.payload[n].student, c>> \in classMember'
              /\ className[c] = x.payload[n].hint \/ <<c, x.payload[n].hint>> \in x.created
            BY <1>4, <2>1, <2>2, <3>1, <3>2, <3>3 DEF Knows
        <3>5. c \in ClassRows
            BY <1>2, <3>2, <3>3, <3>4 DEF ImportRecord
        <3>6. className'[c] = x.payload[n].hint
            <4>1. CASE className[c] = x.payload[n].hint
                BY <1>5, <2>2, <3>5, <4>1
            <4>2. CASE <<c, x.payload[n].hint>> \in x.created
                BY <1>5, <4>2
            <4> QED
                BY <3>4, <4>1, <4>2
        <3> QED
            BY <3>4, <3>5, <3>6
    <2>3. Followed(i, className', classMember')
        BY <1>1, <2>2 DEF Followed, Hinted
    <2> QED
        BY <1>8, <2>3
<1>10. PICK p : p = x.payload
    OBVIOUS
<1>11. PICK m : m = [Fresh(p) EXCEPT !.stage = "done", !.touched = t, !.followed = b]
    OBVIOUS
<1>12. Step(i, m)
    BY <1>1, <1>7, <1>8, <1>10, <1>11 DEF CommitImport
<1>13. /\ m.stage = "done" /\ m.payload = p /\ m.class = [n \in ClassNames |-> NoClass]
       /\ m.created = {} /\ m.joined = {} /\ m.known = {} /\ m.next = 1
    BY <1>11 DEF Fresh
<1>14. m.touched = t
    BY <1>11 DEF Fresh
<1>15. m.followed = b
    BY <1>11 DEF Fresh
<1>16. ImportRecord(m)
    <2>1. m = [stage |-> m.stage, payload |-> m.payload, known |-> m.known,
               inserted |-> m.inserted, class |-> m.class, created |-> m.created,
               had |-> m.had, joined |-> m.joined, next |-> m.next, touched |-> m.touched,
               followed |-> m.followed]
        BY <1>11 DEF Fresh
    <2>2. m.class \in [ClassNames -> ClassRows \cup {NoClass}]
        BY <1>13
    <2> QED
        BY <1>3, <1>10, <1>13, <2>1, <2>2 DEF ImportRecord, Stages
<1>17. Told(m)
    BY <1>9, <1>14, <1>15, Zenon DEF Told
<1>18. ImportOk(m, className', classMember', enrolled')
    BY <1>13, <1>16, <1>17 DEF ImportOk, CreatedFresh, KeysHold, NothingYet, OnTrack
<1>19. ASSUME NEW j \in Others(i)
       PROVE  ImportOk(import[j], className', classMember', enrolled')
    <2>1. PICK y : y = import[j]
        OBVIOUS
    <2>2. /\ ImportRecord(y) /\ CreatedFresh(y, className) /\ KeysHold(y, className, enrolled)
          /\ NothingYet(y) /\ OnTrack(y, className, classMember) /\ Told(y)
        BY <2>1, ImportParts DEF Others
    <2>3. Apart(x, y)
        BY <1>1, <2>1 DEF RosterInv, Others
    <2>4. y.created \subseteq ClassRows \X ClassNames
        BY <2>2 DEF ImportRecord
    <2>5. CreatedFresh(y, className')
        <3>1. ASSUME NEW d \in y.created
              PROVE  className'[d[1]] = NoClass /\ \A c \in ClassRows : className'[c] # d[2]
            <4>1. d[1] \in ClassRows /\ \A a \in x.created : a[1] # d[1] /\ a[2] # d[2]
                BY <2>3, <2>4 DEF Apart
            <4>2. className'[d[1]] = NoClass
                BY <1>5, <2>2, <4>1 DEF CreatedFresh
            <4>3. ASSUME NEW c \in ClassRows PROVE className'[c] # d[2]
                <5>1. CASE \E a \in x.created : a[1] = c
                    BY <1>5, <4>1, <5>1
                <5>2. CASE ~\E a \in x.created : a[1] = c
                    BY <1>5, <2>2, <5>2 DEF CreatedFresh
                <5> QED
                    BY <5>1, <5>2
            <4> QED
                BY <4>2, <4>3
        <3> QED
            BY <2>2, <3>1 DEF CreatedFresh
    <2>6. KeysHold(y, className', enrolled')
        BY <1>4, <1>5, <2>2 DEF KeysHold
    <2>7. ASSUME NEW a \in ClassNames, Knows(y, className, a)
          PROVE  Knows(y, className', a)
        <3>1. y.class[a] \in ClassRows \cup {NoClass}
            BY <2>2 DEF ImportRecord
        <3> QED
            BY <1>5, <2>7, <3>1, RosterAssumption DEF Knows
    <2>8. OnTrack(y, className', classMember')
        BY <1>4, <2>2, <2>7 DEF OnTrack
    <2> QED
        BY <2>1, <2>2, <2>5, <2>6, <2>8 DEF ImportOk
<1>20. /\ import' = [j \in Imports |-> import'[j]]
       /\ import'[i] = m /\ \A j \in Others(i) : import'[j] = import[j]
    <2>1. import' = [j \in Imports |-> IF j = i THEN m ELSE import[j]]
        BY <1>12 DEF RosterInv, Step
    <2> QED
        BY <2>1 DEF Others
<1>21. ASSUME NEW j \in Imports
       PROVE  ImportOk(import'[j], className', classMember', enrolled')
    <2>1. CASE j = i
        BY <1>18, <1>20, <2>1
    <2>2. CASE j # i
        BY <1>19, <1>20, <2>2 DEF Others
    <2> QED
        BY <2>1, <2>2
<1>22. ASSUME NEW j \in Imports, NEW k \in Imports, j # k
       PROVE  Apart(import'[j], import'[k])
    <2>1. CASE j = i \/ k = i
        BY <1>13, <1>20, <2>1 DEF Apart
    <2>2. CASE j # i /\ k # i
        BY <1>20, <1>22, <2>2 DEF RosterInv, Others
    <2> QED
        BY <2>1, <2>2
<1> QED
    BY <1>6, <1>20, <1>21, <1>22 DEF RosterInv

-----------------------------------------------------------------------------
\* Every step keeps the invariant.
LEMMA RosterStep == ASSUME RosterInv, [RosterNext]_rosterVars PROVE RosterInv'
<1>1. ASSUME NEW i \in Imports,
             \/ BeginImport(i) \/ UpsertStudent(i) \/ ReadClasses(i) \/ UpsertClass(i)
             \/ JoinClass(i) \/ CommitImport(i) \/ RollBack(i)
      PROVE  RosterInv'
    BY <1>1, BeginImportKeeps, UpsertStudentKeeps, ReadClassesKeeps, UpsertClassKeeps,
       JoinClassKeeps, CommitImportKeeps, RollBackKeeps
<1>2. ASSUME NEW c \in ClassRows,
             \/ \E n \in ClassNames : CreateStudentClass(c, n) \/ UpdateStudentClass(c, n)
             \/ DeleteStudentClass(c)
             \/ \E s \in ExternalIds : AddMember(s, c) \/ RemoveMember(s, c)
      PROVE  RosterInv'
    BY <1>2, CreateClassKeeps, UpdateClassKeeps, DeleteClassKeeps, AddMemberKeeps,
       RemoveMemberKeeps
<1>3. CASE UNCHANGED rosterVars
    BY <1>3 DEF rosterVars, RosterInv
<1> QED
    BY <1>1, <1>2, <1>3 DEF RosterNext

\* Payloads of the model are payloads.
LEMMA PayloadsArePayloads == ASSUME NEW p \in Payloads PROVE Payload(p)
<1>1. PICK n \in 1..MaxStudents : p \in [1..n -> Refs]
    BY DEF Payloads
<1>2. DOMAIN p = 1..n /\ n \in Nat /\ IsFiniteSet(1..n)
    BY <1>1, FS_Interval, RosterAssumption
<1> QED
    BY <1>1, <1>2 DEF Payload, Refs

\* It holds at the beginning.
LEMMA RosterBegins == RosterInit => RosterInv
<1> SUFFICES ASSUME RosterInit PROVE RosterInv
    OBVIOUS
<1>1. ClassesOk(className, classMember, enrolled)
    BY RosterAssumption DEF RosterInit, ClassesOk
<1>2. ASSUME NEW i \in Imports
      PROVE  ImportOk(import[i], className, classMember, enrolled) /\ import[i].created = {}
    <2>1. PICK p \in Payloads : import[i] = Fresh(p)
        BY DEF RosterInit
    <2>2. PICK m : m = Fresh(p)
        OBVIOUS
    <2>3. Payload(p) /\ "queued" \in Stages \ {"classes", "members", "done"}
        BY PayloadsArePayloads DEF Stages
    <2>4. ImportOk(m, className, classMember, enrolled) /\ m.created = {}
        BY <2>2, <2>3, FreshIsOk
    <2> QED
        BY <2>1, <2>2, <2>4
<1>3. \A i, j \in Imports : Apart(import[i], import[j])
    BY <1>2 DEF Apart
<1>4. import = [i \in Imports |-> import[i]]
    BY DEF RosterInit
<1> QED
    BY <1>1, <1>2, <1>3, <1>4 DEF RosterInv

\* An import that is done has put everybody into the class named in the file,
\* unless a handler changed a class or took a member out meanwhile; memberships
\* refer to students and classes that exist, and no two classes share a name: for
\* any number of imports, students and classes (import_service.py,
\* _upsert_students and _attach_class_memberships).
THEOREM HintsAreFollowed == RosterSpec => []HintsFollowed
<1>1. RosterInv /\ [RosterNext]_rosterVars => RosterInv'
    BY RosterStep
<1>2. RosterInv => HintsFollowed
    <2> SUFFICES ASSUME RosterInv PROVE HintsFollowed
        OBVIOUS
    <2>1. DOMAIN import = Imports /\ DOMAIN className = ClassRows
        BY DEF RosterInv, ClassesOk
    <2>2. \A i \in Imports : import[i].stage = "done" => import[i].followed \/ import[i].touched
        BY DEF RosterInv, ImportOk, Told
    <2> QED
        BY <2>1, <2>2 DEF RosterInv, ClassesOk, HintsFollowed
<1> QED
    BY <1>1, <1>2, RosterBegins, PTL DEF RosterSpec

(***************************************************************************)
(* Documents.  ProcessedIsSearchable holds when nothing works on the       *)
(* document.  At any other time its chunks may be missing, but then a run  *)
(* is on its way that makes them, or else writes ERROR (Searchable).       *)
(***************************************************************************)
\* A run that will make the chunks again, or else writes ERROR or is lost.
Repairs(r) ==
    \/ run[r].pc = "embed"
    \/ /\ run[r].kind = "ocr"
       /\ run[r].pc \in {"message", "clear", "start", "extract", "error"}

\* A processed document has its chunks or a run that makes them.
Searchable ==
    status = "processed" /\ ~chunks /\ ~lost /\ ~bare => \E r \in Runs : Repairs(r)

\* A record with the fields of a slot.
Formed(m) == m = [pc |-> m.pc, kind |-> m.kind, retries |-> m.retries,
                  info |-> m.info, verdict |-> m.verdict, again |-> m.again]

SlotsInv ==
    /\ run = [r \in Runs |-> run[r]]
    /\ \A r \in Runs :
          /\ run[r].kind \in RunKinds
          /\ Formed(run[r])

DocumentInv == SlotsInv /\ Searchable

-----------------------------------------------------------------------------

\* A step of the run in slot r leaves a processed document searchable when r
\* still repairs it, or never did and has not touched the row.
LEMMA OthersRepair ==
    ASSUME NEW r \in Runs, Searchable,
           \A q \in Runs \ {r} : run'[q] = run[q],
           status' = "processed" /\ ~chunks' /\ ~lost' /\ ~bare' =>
              \/ Repairs(r)'
              \/ ~Repairs(r) /\ status = "processed" /\ ~chunks /\ ~lost /\ ~bare
    PROVE  Searchable'
<1> SUFFICES ASSUME status' = "processed", ~chunks', ~lost',
                    ~bare', ~Repairs(r)'
             PROVE  (\E q \in Runs : Repairs(q))'
    BY DEF Searchable
<1>1. ~Repairs(r) /\ \E q \in Runs : Repairs(q)
    BY DEF Searchable
<1>2. PICK q \in Runs : Repairs(q)
    BY <1>1
<1>3. q \in Runs \ {r} /\ run'[q] = run[q]
    BY <1>1, <1>2
<1>4. Repairs(q)'
    BY <1>2, <1>3 DEF Repairs
<1> QED
    BY <1>4

\* Writing one slot with a record of the right form keeps the slots.
LEMMA SlotWritten ==
    ASSUME SlotsInv, NEW r \in Runs, NEW m,
           run' = [run EXCEPT ![r] = m],
           m.kind \in RunKinds,
           Formed(m)
    PROVE  SlotsInv' /\ run'[r] = m /\ \A q \in Runs \ {r} : run'[q] = run[q]
<1>1. run' = [q \in Runs |-> IF q = r THEN m ELSE run[q]]
    BY DEF SlotsInv
<1>2. run'[r] = m /\ \A q \in Runs \ {r} : run'[q] = run[q]
    BY <1>1
<1>3. run' = [q \in Runs |-> run'[q]]
    BY <1>1
<1>4. ASSUME NEW q \in Runs
      PROVE  /\ run'[q].kind \in RunKinds
             /\ Formed(run'[q])
    <2>1. CASE q = r
        BY <2>1, <1>2
    <2>2. CASE q # r
        BY <2>2, <1>2 DEF SlotsInv
    <2> QED
        BY <2>1, <2>2
<1> QED
    BY <1>2, <1>3, <1>4 DEF SlotsInv

\* A new record of the same kind in a slot.
LEMMA Changed ==
    ASSUME SlotsInv, NEW r \in Runs, NEW m, Formed(m), m.kind = run[r].kind,
           run' = [run EXCEPT ![r] = m]
    PROVE  /\ SlotsInv' /\ \A q \in Runs \ {r} : run'[q] = run[q]
           /\ run'[r] = m /\ run'[r].kind = run[r].kind
<1>1. m.kind \in RunKinds
    BY DEF SlotsInv
<1> QED
    BY <1>1, SlotWritten

\* The fields of the slots, one by one.
LEMMA Fields ==
    ASSUME SlotsInv, NEW r \in Runs
    PROVE  /\ run[r].kind \in RunKinds
           /\ Formed(run[r])
BY DEF SlotsInv

\* The run goes on at another point.
LEMMA Going ==
    ASSUME SlotsInv, NEW r \in Runs, NEW pc, GoTo(r, pc)
    PROVE  /\ SlotsInv' /\ \A q \in Runs \ {r} : run'[q] = run[q]
           /\ run'[r].pc = pc /\ run'[r].kind = run[r].kind
<1>1. PICK x : x = run[r] /\ Formed(x)
    BY Fields
<1>2. PICK m : m = [x EXCEPT !.pc = pc]
    OBVIOUS
<1>3. Formed(m) /\ m.kind = run[r].kind /\ m.pc = pc
    BY <1>1, <1>2 DEF Formed
<1>4. run' = [run EXCEPT ![r] = m]
    BY <1>1, <1>2 DEF GoTo, SlotsInv
<1> QED
    BY <1>3, <1>4, Changed

\* The run goes on with what it has read.
LEMMA Refreshing ==
    ASSUME SlotsInv, NEW r \in Runs, NEW pc, Refreshed(r, pc)
    PROVE  /\ SlotsInv' /\ \A q \in Runs \ {r} : run'[q] = run[q]
           /\ run'[r].pc = pc /\ run'[r].kind = run[r].kind
<1>1. PICK x : x = run[r] /\ Formed(x)
    BY Fields
<1>2. PICK m : m = [x EXCEPT !.pc = pc, !.info = info]
    OBVIOUS
<1>3. Formed(m) /\ m.kind = run[r].kind /\ m.pc = pc
    BY <1>1, <1>2 DEF Formed
<1>4. run' = [run EXCEPT ![r] = m]
    BY <1>1, <1>2 DEF Refreshed, SlotsInv
<1> QED
    BY <1>3, <1>4, Changed

\* The run is about to write.
LEMMA Writing ==
    ASSUME SlotsInv, NEW r \in Runs, NEW i, ToWrite(r, i)
    PROVE  /\ SlotsInv' /\ \A q \in Runs \ {r} : run'[q] = run[q]
           /\ run'[r].pc = "write" /\ run'[r].kind = run[r].kind
<1>1. PICK x : x = run[r] /\ Formed(x)
    BY Fields
<1>2. PICK m : m = [x EXCEPT !.pc = "write", !.info = i]
    OBVIOUS
<1>3. Formed(m) /\ m.kind = run[r].kind /\ m.pc = "write"
    BY <1>1, <1>2 DEF Formed
<1>4. run' = [run EXCEPT ![r] = m]
    BY <1>1, <1>2 DEF ToWrite, SlotsInv
<1> QED
    BY <1>3, <1>4, Changed

\* The run is over.
LEMMA Ending ==
    ASSUME SlotsInv, NEW r \in Runs, Over(r)
    PROVE  /\ SlotsInv' /\ \A q \in Runs \ {r} : run'[q] = run[q]
           /\ run'[r].pc = "idle"
<1>1. /\ Empty.kind \in RunKinds /\ Empty.pc = "idle"
      /\ Formed(Empty)
    BY DEF Empty, Formed, RunKinds
<1>2. run' = [run EXCEPT ![r] = Empty]
    BY DEF Over
<1>3. /\ SlotsInv' /\ \A q \in Runs \ {r} : run'[q] = run[q]
      /\ run'[r] = Empty
    BY <1>1, <1>2, SlotWritten
<1> QED
    BY <1>1, <1>3

\* A message in a slot that was free, and a run that a request starts there.
Request(k) == [Empty EXCEPT !.pc = "start", !.kind = k]

LEMMA Placing ==
    ASSUME SlotsInv, NEW r \in Runs, NEW k \in RunKinds, NEW n, NEW m,
           m = Message(k, n) \/ m = Request(k),
           run' = [run EXCEPT ![r] = m]
    PROVE  /\ SlotsInv' /\ \A q \in Runs \ {r} : run'[q] = run[q]
           /\ m = Message(k, n) => run'[r].pc = "message" /\ run'[r].kind = k
<1>1. /\ m.kind = k /\ Formed(m)
      /\ m = Message(k, n) => m.pc = "message"
    <2>1. CASE m = Message(k, n)
        BY <2>1 DEF Message, Empty, Formed
    <2>2. CASE m = Request(k)
        <3>1. /\ m.kind = k /\ m.pc = "start" /\ Formed(m)
            BY <2>2 DEF Request, Empty, Formed
        <3> QED
            BY <2>1, <3>1
    <2> QED
        BY <2>1, <2>2
<1>2. /\ SlotsInv' /\ \A q \in Runs \ {r} : run'[q] = run[q]
      /\ run'[r] = m
    BY <1>1, SlotWritten
<1> QED
    BY <1>1, <1>2

\* An exception: the run of a task stays, to handle it.
LEMMA Raising ==
    ASSUME SlotsInv, NEW r \in Runs, NEW b, Raise(r, b)
    PROVE  /\ SlotsInv' /\ \A q \in Runs \ {r} : run'[q] = run[q]
           /\ run[r].kind \in Tasks => run'[r].pc = "error" /\ run'[r].kind = run[r].kind
<1>1. CASE run[r].kind \in Tasks
    <2>1. PICK x : x = run[r] /\ Formed(x)
        BY Fields
    <2>2. PICK m : m = [x EXCEPT !.pc = "error", !.again = b]
        OBVIOUS
    <2>3. Formed(m) /\ m.kind = run[r].kind /\ m.pc = "error"
        BY <2>1, <2>2 DEF Formed
    <2>4. run' = [run EXCEPT ![r] = m]
        BY <2>1, <2>2, <1>1 DEF Raise, SlotsInv
    <2> QED
        BY <2>3, <2>4, Changed
<1>2. CASE run[r].kind \notin Tasks
    <2>1. Over(r)
        BY <1>2 DEF Raise, Over, SlotsInv
    <2> QED
        BY <1>2, <2>1, Ending
<1> QED
    BY <1>1, <1>2

\* The service returns.
LEMMA Judging ==
    ASSUME SlotsInv, NEW r \in Runs, NEW v, Judged(r, v)
    PROVE  /\ SlotsInv' /\ \A q \in Runs \ {r} : run'[q] = run[q]
<1>1. CASE run[r].kind \in Tasks
    <2>1. PICK x : x = run[r] /\ Formed(x)
        BY Fields
    <2>2. PICK m : m = [x EXCEPT !.pc = "judge", !.verdict = v]
        OBVIOUS
    <2>3. Formed(m) /\ m.kind = run[r].kind /\ m.pc = "judge"
        BY <2>1, <2>2 DEF Formed
    <2>4. run' = [run EXCEPT ![r] = m]
        BY <2>1, <2>2, <1>1 DEF Judged, SlotsInv
    <2> QED
        BY <2>3, <2>4, Changed
<1>2. CASE run[r].kind \notin Tasks
    <2>1. Over(r)
        BY <1>2 DEF Judged, Over, SlotsInv
    <2> QED
        BY <2>1, Ending
<1> QED
    BY <1>1, <1>2

\* A retry is a message again.
LEMMA Retrying ==
    ASSUME SlotsInv, NEW r \in Runs, RetryOrEnd(r)
    PROVE  /\ SlotsInv' /\ \A q \in Runs \ {r} : run'[q] = run[q]
           /\ Retryable(r) => run'[r].pc = "message" /\ run'[r].kind = run[r].kind
<1>1. CASE Retryable(r)
    <2>1. run' = [run EXCEPT ![r] = Message(run[r].kind, run[r].retries + 1)]
        BY <1>1 DEF RetryOrEnd, SlotsInv
    <2>2. PICK k \in RunKinds : k = run[r].kind
        BY Fields
    <2>5. PICK n : n = run[r].retries + 1
        OBVIOUS
    <2>3. PICK m : m = Message(k, n)
        OBVIOUS
    <2>4. run' = [run EXCEPT ![r] = m]
        BY <2>1, <2>2, <2>3, <2>5
    <2> QED
        BY <2>2, <2>3, <2>4, Placing
<1>2. CASE ~Retryable(r)
    <2>1. Over(r)
        BY <1>2 DEF RetryOrEnd, Over
    <2> QED
        BY <1>2, <2>1, Ending
<1> QED
    BY <1>1, <1>2

-----------------------------------------------------------------------------
(* The steps.                                                                *)

\* What a step needs of the state it starts from.
Before == DocumentInv

\* Steps that no run takes.
LEMMA OtherRequestSteps ==
    ASSUME Before,
           StoreUpload \/ QueueUpload \/ UploadFails \/ DeleteDocument
    PROVE  DocumentInv'
<1>1. run' = run /\ SlotsInv'
    <2>1. run' = run
        BY DEF StoreUpload, QueueUpload, UploadFails, DeleteDocument
    <2> QED
        BY <2>1 DEF Before, DocumentInv, SlotsInv
<1>2. status' = "processed" /\ ~lost' =>
         status = "processed" /\ ~lost /\ chunks' = chunks /\ bare' = bare
    BY DEF StoreUpload, QueueUpload, UploadFails, DeleteDocument, rowVars, Exists
<1>3. ASSUME Searchable PROVE Searchable'
    <2> SUFFICES ASSUME status' = "processed" /\ ~chunks' /\ ~lost' /\ ~bare'
                 PROVE  (\E q \in Runs : Repairs(q))'
        BY DEF Searchable
    <2>1. PICK q \in Runs : Repairs(q)
        BY <1>2, <1>3 DEF Searchable
    <2>2. Repairs(q)'
        BY <1>1, <2>1 DEF Repairs
    <2> QED
        BY <2>2
<1> QED
    BY <1>1, <1>3 DEF Before, DocumentInv

\* A message takes a free slot.
LEMMA PublishUploadKeeps == ASSUME Before, PublishUpload PROVE DocumentInv'
<1>1. PICK r \in Runs : Free(r) /\ run' = [run EXCEPT ![r] = Message("process", 0)]
    BY DEF PublishUpload
<1>2. PICK k \in RunKinds : k = "process"
    BY DEF RunKinds
<1>3. PICK m : m = Message(k, 0)
    OBVIOUS
<1>4. SlotsInv' /\ \A q \in Runs \ {r} : run'[q] = run[q]
    BY <1>1, <1>2, <1>3, Placing DEF Before, DocumentInv
<1>5. ~Repairs(r)
    BY <1>1 DEF Free, Repairs
<1>6. status' = status /\ chunks' = chunks /\ lost' = lost /\ bare' = bare
    BY DEF PublishUpload, rowVars
<1>7. Searchable'
    BY <1>4, <1>5, <1>6, OthersRepair DEF Before, DocumentInv
<1> QED
    BY <1>4, <1>7 DEF DocumentInv

\* A request takes a free slot.
LEMMA Requesting ==
    ASSUME Reprocess
    PROVE  \E r \in Runs, k \in RunKinds : Free(r) /\ run' = [run EXCEPT ![r] = Request(k)]
<1>1. PICK r \in Runs, k \in {"vectors", "content"} :
          Free(r) /\ run' = [run EXCEPT ![r] = [Empty EXCEPT !.pc = "start", !.kind = k]]
    BY Zenon DEF Reprocess
<1>2. k \in RunKinds
    BY DEF RunKinds
<1>3. run' = [run EXCEPT ![r] = Request(k)]
    BY <1>1, Zenon DEF Request
<1> QED
    BY <1>1, <1>2, <1>3

LEMMA ReprocessKeeps == ASSUME Before, Reprocess PROVE DocumentInv'
<1>1. PICK r \in Runs, k \in RunKinds : Free(r) /\ run' = [run EXCEPT ![r] = Request(k)]
    BY Requesting
<1>2. PICK m : m = Request(k)
    OBVIOUS
<1>4. SlotsInv' /\ \A q \in Runs \ {r} : run'[q] = run[q]
    BY <1>1, <1>2, Placing DEF Before, DocumentInv
<1>5. ~Repairs(r)
    BY <1>1 DEF Free, Repairs
<1>6. status' = status /\ chunks' = chunks /\ lost' = lost /\ bare' = bare
    BY DEF Reprocess, rowVars
<1>7. Searchable'
    BY <1>4, <1>5, <1>6, OthersRepair DEF Before, DocumentInv
<1> QED
    BY <1>4, <1>7 DEF DocumentInv

\* The steps of a run.
LEMMA LoadDocumentKeeps == ASSUME Before, NEW r \in Runs, LoadDocument(r) PROVE DocumentInv'
<1>1. SlotsInv' /\ \A q \in Runs \ {r} : run'[q] = run[q]
    BY Refreshing, Ending DEF LoadDocument, Before, DocumentInv
<1>2. status' = "processed" /\ ~chunks' /\ ~lost' /\ ~bare' =>
         \/ Repairs(r)'
         \/ ~Repairs(r) /\ status = "processed" /\ ~chunks /\ ~lost /\ ~bare
    BY Refreshing, Ending DEF LoadDocument, At, Repairs, Exists, rowVars, Tasks, Before, DocumentInv
<1>3. Searchable'
    BY <1>1, <1>2, OthersRepair DEF Before, DocumentInv
<1> QED
    BY <1>1, <1>3 DEF DocumentInv

LEMMA DeleteChunksKeeps == ASSUME Before, NEW r \in Runs, DeleteChunks(r) PROVE DocumentInv'
<1>1. SlotsInv' /\ \A q \in Runs \ {r} : run'[q] = run[q]
    BY Going DEF DeleteChunks, Before, DocumentInv
<1>2. status' = "processed" /\ ~chunks' /\ ~lost' /\ ~bare' =>
         \/ Repairs(r)'
         \/ ~Repairs(r) /\ status = "processed" /\ ~chunks /\ ~lost /\ ~bare
    BY Going DEF DeleteChunks, At, Repairs, Exists, rowVars, Tasks, Before, DocumentInv
<1>3. Searchable'
    BY <1>1, <1>2, OthersRepair DEF Before, DocumentInv
<1> QED
    BY <1>1, <1>3 DEF DocumentInv

LEMMA DeleteChunksFailsKeeps == ASSUME Before, NEW r \in Runs, DeleteChunksFails(r) PROVE DocumentInv'
<1>1. SlotsInv' /\ \A q \in Runs \ {r} : run'[q] = run[q]
    BY Raising DEF DeleteChunksFails, Before, DocumentInv
<1>2. status' = "processed" /\ ~chunks' /\ ~lost' /\ ~bare' =>
         \/ Repairs(r)'
         \/ ~Repairs(r) /\ status = "processed" /\ ~chunks /\ ~lost /\ ~bare
    BY Raising DEF DeleteChunksFails, At, Repairs, Exists, rowVars, Tasks, Before, DocumentInv
<1>3. Searchable'
    BY <1>1, <1>2, OthersRepair DEF Before, DocumentInv
<1> QED
    BY <1>1, <1>3 DEF DocumentInv

LEMMA StartContentKeeps == ASSUME Before, NEW r \in Runs, StartContent(r) PROVE DocumentInv'
<1>1. SlotsInv' /\ \A q \in Runs \ {r} : run'[q] = run[q]
    BY Going, Raising DEF StartContent, Before, DocumentInv
<1>2. status' = "processed" /\ ~chunks' /\ ~lost' /\ ~bare' =>
         \/ Repairs(r)'
         \/ ~Repairs(r) /\ status = "processed" /\ ~chunks /\ ~lost /\ ~bare
    BY Going, Raising DEF StartContent, At, Repairs, Exists, rowVars, Tasks, Before, DocumentInv
<1>3. Searchable'
    BY <1>1, <1>2, OthersRepair DEF Before, DocumentInv
<1> QED
    BY <1>1, <1>3 DEF DocumentInv

LEMMA ContentDoneKeeps == ASSUME Before, NEW r \in Runs, ContentDone(r) PROVE DocumentInv'
<1>1. SlotsInv' /\ \A q \in Runs \ {r} : run'[q] = run[q]
    BY Refreshing, Ending, Fields DEF ContentDone, Before, DocumentInv
<1>2. status' = "processed" /\ ~chunks' /\ ~lost' /\ ~bare' =>
         \/ Repairs(r)'
         \/ ~Repairs(r) /\ status = "processed" /\ ~chunks /\ ~lost /\ ~bare
    BY Refreshing, Ending, Fields DEF ContentDone, At, Repairs, Exists, rowVars, Tasks, Before,
                                      DocumentInv
<1>3. Searchable'
    BY <1>1, <1>2, OthersRepair DEF Before, DocumentInv
<1> QED
    BY <1>1, <1>3 DEF DocumentInv

LEMMA ContentFailsKeeps == ASSUME Before, NEW r \in Runs, ContentFails(r) PROVE DocumentInv'
<1>1. SlotsInv' /\ \A q \in Runs \ {r} : run'[q] = run[q]
    BY Raising DEF ContentFails, Before, DocumentInv
<1>2. status' = "processed" /\ ~chunks' /\ ~lost' /\ ~bare' =>
         \/ Repairs(r)'
         \/ ~Repairs(r) /\ status = "processed" /\ ~chunks /\ ~lost /\ ~bare
    BY Raising DEF ContentFails, At, Repairs, Exists, rowVars, Tasks, Failed, Before, DocumentInv
<1>3. Searchable'
    BY <1>1, <1>2, OthersRepair DEF Before, DocumentInv
<1> QED
    BY <1>1, <1>3 DEF DocumentInv

LEMMA EmbedKeeps == ASSUME Before, NEW r \in Runs, Embed(r) PROVE DocumentInv'
<1>1. SlotsInv' /\ \A q \in Runs \ {r} : run'[q] = run[q]
    BY Going DEF Embed, Before, DocumentInv
<1>2. status' = "processed" /\ ~chunks' /\ ~lost' /\ ~bare' =>
         \/ Repairs(r)'
         \/ ~Repairs(r) /\ status = "processed" /\ ~chunks /\ ~lost /\ ~bare
    BY Going DEF Embed, At, Repairs, Exists, rowVars, Tasks, Before, DocumentInv
<1>3. Searchable'
    BY <1>1, <1>2, OthersRepair DEF Before, DocumentInv
<1> QED
    BY <1>1, <1>3 DEF DocumentInv

LEMMA RecordVectorsKeeps == ASSUME Before, NEW r \in Runs, RecordVectors(r) PROVE DocumentInv'
<1>1. SlotsInv' /\ \A q \in Runs \ {r} : run'[q] = run[q]
    BY Raising, Judging DEF RecordVectors, Before, DocumentInv
<1>2. status' = "processed" /\ ~chunks' /\ ~lost' /\ ~bare' =>
         \/ Repairs(r)'
         \/ ~Repairs(r) /\ status = "processed" /\ ~chunks /\ ~lost /\ ~bare
    BY Raising, Judging DEF RecordVectors, At, Repairs, Exists, rowVars, Tasks, Before, DocumentInv
<1>3. Searchable'
    BY <1>1, <1>2, OthersRepair DEF Before, DocumentInv
<1> QED
    BY <1>1, <1>3 DEF DocumentInv

LEMMA VectorsFailKeeps == ASSUME Before, NEW r \in Runs, VectorsFail(r) PROVE DocumentInv'
<1>1. SlotsInv' /\ \A q \in Runs \ {r} : run'[q] = run[q]
    BY Judging DEF VectorsFail, Before, DocumentInv
<1>2. status' = "processed" /\ ~chunks' /\ ~lost' /\ ~bare' =>
         \/ Repairs(r)'
         \/ ~Repairs(r) /\ status = "processed" /\ ~chunks /\ ~lost /\ ~bare
    BY Judging DEF VectorsFail, At, Repairs, Exists, rowVars, Tasks, ErrorWritten, Failed, Before, DocumentInv
<1>3. Searchable'
    BY <1>1, <1>2, OthersRepair DEF Before, DocumentInv
<1> QED
    BY <1>1, <1>3 DEF DocumentInv

LEMMA JudgeKeeps == ASSUME Before, NEW r \in Runs, Judge(r) PROVE DocumentInv'
<1>1. SlotsInv' /\ \A q \in Runs \ {r} : run'[q] = run[q]
    BY Raising, Ending, Refreshing, Writing DEF Judge, Before, DocumentInv
<1>2. status' = "processed" /\ ~chunks' /\ ~lost' /\ ~bare' =>
         \/ Repairs(r)'
         \/ ~Repairs(r) /\ status = "processed" /\ ~chunks /\ ~lost /\ ~bare
    BY Raising, Ending, Refreshing, Writing DEF Judge, At, Repairs, Exists, rowVars, Tasks, Before, DocumentInv
<1>3. Searchable'
    BY <1>1, <1>2, OthersRepair DEF Before, DocumentInv
<1> QED
    BY <1>1, <1>3 DEF DocumentInv

LEMMA JudgeOcrKeeps == ASSUME Before, NEW r \in Runs, JudgeOcr(r) PROVE DocumentInv'
<1>1. SlotsInv' /\ \A q \in Runs \ {r} : run'[q] = run[q]
    BY Raising, Writing DEF JudgeOcr, Before, DocumentInv
<1>2. status' = "processed" /\ ~chunks' /\ ~lost' /\ ~bare' =>
         \/ Repairs(r)'
         \/ ~Repairs(r) /\ status = "processed" /\ ~chunks /\ ~lost /\ ~bare
    BY Raising, Writing DEF JudgeOcr, At, Repairs, Exists, rowVars, Tasks, Before, DocumentInv
<1>3. Searchable'
    BY <1>1, <1>2, OthersRepair DEF Before, DocumentInv
<1> QED
    BY <1>1, <1>3 DEF DocumentInv

LEMMA WriteInfoKeeps == ASSUME Before, NEW r \in Runs, WriteInfo(r) PROVE DocumentInv'
<1>1. SlotsInv' /\ \A q \in Runs \ {r} : run'[q] = run[q]
    BY Raising, Ending DEF WriteInfo, Before, DocumentInv
<1>2. status' = "processed" /\ ~chunks' /\ ~lost' /\ ~bare' =>
         \/ Repairs(r)'
         \/ ~Repairs(r) /\ status = "processed" /\ ~chunks /\ ~lost /\ ~bare
    BY Raising, Ending DEF WriteInfo, At, Repairs, Exists, rowVars, Tasks, Before, DocumentInv
<1>3. Searchable'
    BY <1>1, <1>2, OthersRepair DEF Before, DocumentInv
<1> QED
    BY <1>1, <1>3 DEF DocumentInv

LEMMA TaskFailsKeeps == ASSUME Before, NEW r \in Runs, TaskFails(r) PROVE DocumentInv'
<1>1. SlotsInv' /\ \A q \in Runs \ {r} : run'[q] = run[q]
    BY Raising DEF TaskFails, Before, DocumentInv
<1>2. status' = "processed" /\ ~chunks' /\ ~lost' /\ ~bare' =>
         \/ Repairs(r)'
         \/ ~Repairs(r) /\ status = "processed" /\ ~chunks /\ ~lost /\ ~bare
    BY Raising DEF TaskFails, At, Repairs, Exists, rowVars, Tasks, Before, DocumentInv
<1>3. Searchable'
    BY <1>1, <1>2, OthersRepair DEF Before, DocumentInv
<1> QED
    BY <1>1, <1>3 DEF DocumentInv

LEMMA HandleErrorKeeps == ASSUME Before, NEW r \in Runs, HandleError(r) PROVE DocumentInv'
<1>1. SlotsInv' /\ \A q \in Runs \ {r} : run'[q] = run[q]
    BY Retrying, Fields DEF HandleError, Before, DocumentInv
<1>2. status' = "processed" /\ ~chunks' /\ ~lost' /\ ~bare' =>
         \/ Repairs(r)'
         \/ ~Repairs(r) /\ status = "processed" /\ ~chunks /\ ~lost /\ ~bare
    BY Retrying, Fields DEF HandleError, At, Repairs, Exists, rowVars, Tasks, Failed, Before, DocumentInv
<1>3. Searchable'
    BY <1>1, <1>2, OthersRepair DEF Before, DocumentInv
<1> QED
    BY <1>1, <1>3 DEF DocumentInv

LEMMA HandleErrorFailsKeeps == ASSUME Before, NEW r \in Runs, HandleErrorFails(r) PROVE DocumentInv'
<1>1. SlotsInv' /\ \A q \in Runs \ {r} : run'[q] = run[q]
    BY Retrying DEF HandleErrorFails, Before, DocumentInv
<1>2. status' = "processed" /\ ~chunks' /\ ~lost' /\ ~bare' =>
         \/ Repairs(r)'
         \/ ~Repairs(r) /\ status = "processed" /\ ~chunks /\ ~lost /\ ~bare
    BY Retrying DEF HandleErrorFails, At, Repairs, Exists, rowVars, Tasks, Before, DocumentInv
<1>3. Searchable'
    BY <1>1, <1>2, OthersRepair DEF Before, DocumentInv
<1> QED
    BY <1>1, <1>3 DEF DocumentInv

LEMMA WorkerLostKeeps == ASSUME Before, NEW r \in Runs, WorkerLost(r) PROVE DocumentInv'
<1>1. SlotsInv' /\ \A q \in Runs \ {r} : run'[q] = run[q]
    BY Ending DEF WorkerLost, Before, DocumentInv
<1>2. status' = "processed" /\ ~chunks' /\ ~lost' /\ ~bare' =>
         \/ Repairs(r)'
         \/ ~Repairs(r) /\ status = "processed" /\ ~chunks /\ ~lost /\ ~bare
    BY Ending DEF WorkerLost, At, Repairs, Exists, rowVars, Tasks, Before, DocumentInv
<1>3. Searchable'
    BY <1>1, <1>2, OthersRepair DEF Before, DocumentInv
<1> QED
    BY <1>1, <1>3 DEF DocumentInv

LEMMA ChannelLostKeeps ==
    ASSUME Before, NEW r \in Runs, NEW s \in Runs, ChannelLost(r, s) PROVE DocumentInv'
<1>1. PICK k \in RunKinds : k = run[r].kind
    BY Fields DEF Before, DocumentInv
<1>2. PICK m : m = Message(k, run[r].retries)
    OBVIOUS
<1>3. run' = [run EXCEPT ![s] = m] /\ Free(s)
    BY <1>1, <1>2 DEF ChannelLost
<1>4. SlotsInv' /\ \A q \in Runs \ {s} : run'[q] = run[q]
    BY <1>2, <1>3, Placing DEF Before, DocumentInv
<1>5. ~Repairs(s)
    BY <1>3 DEF Free, Repairs
<1>6. status' = status /\ chunks' = chunks /\ lost' = lost /\ bare' = bare
    BY DEF ChannelLost, rowVars
<1>7. Searchable'
    BY <1>4, <1>5, <1>6, OthersRepair DEF Before, DocumentInv
<1> QED
    BY <1>4, <1>7 DEF DocumentInv

\* Escalate writes two slots: a free one, and one that judges.
LEMMA Escalating ==
    ASSUME SlotsInv, NEW r \in Runs, Escalate(r)
    PROVE  \E s \in Runs : /\ SlotsInv' /\ Free(s) /\ s # r
                           /\ \A q \in Runs \ {r, s} : run'[q] = run[q]
<1>1. PICK s \in Runs : /\ Free(s)
                        /\ run' = [run EXCEPT ![s] = Message("ocr", 0),
                                              ![r] = EscalationQueued(r)]
    BY DEF Escalate
<1>2. s # r
    BY <1>1 DEF Escalate, Free, At
<1>3. PICK m : m = Message("ocr", 0)
    OBVIOUS
<1>4. m.kind \in RunKinds /\ Formed(m)
    BY <1>3 DEF Message, Empty, Formed, RunKinds
<1>5. PICK x : x = run[r] /\ Formed(x)
    BY Fields
<1>6. PICK i : i = [x.info EXCEPT !.escalation = "queued"]
    OBVIOUS
<1>7. PICK w : w = [x EXCEPT !.pc = "write", !.info = i]
    OBVIOUS
<1>8. w = EscalationQueued(r)
    BY <1>5, <1>6, <1>7 DEF EscalationQueued
<1>9. w.kind = run[r].kind /\ Formed(w)
    BY <1>5, <1>7 DEF Formed
<1>10. run' = [q \in Runs |-> IF q = r THEN w ELSE IF q = s THEN m ELSE run[q]]
    BY <1>1, <1>2, <1>3, <1>8 DEF SlotsInv
<1>11. /\ run'[r] = w /\ run'[s] = m /\ \A q \in Runs \ {r, s} : run'[q] = run[q]
       /\ run' = [q \in Runs |-> run'[q]]
    BY <1>2, <1>10
<1>12. ASSUME NEW q \in Runs
       PROVE  run'[q].kind \in RunKinds /\ Formed(run'[q])
    <2>1. CASE q = r
        BY <2>1, <1>9, <1>11, Fields
    <2>2. CASE q = s
        BY <2>2, <1>4, <1>11
    <2>3. CASE q # r /\ q # s
        BY <2>3, <1>11, Fields
    <2> QED
        BY <2>1, <2>2, <2>3
<1>13. SlotsInv'
    BY <1>11, <1>12 DEF SlotsInv
<1> QED
    BY <1>1, <1>2, <1>11, <1>13

LEMMA EscalateKeeps == ASSUME Before, NEW r \in Runs, Escalate(r) PROVE DocumentInv'
<1>1. PICK s \in Runs : /\ SlotsInv' /\ Free(s) /\ s # r
                        /\ \A q \in Runs \ {r, s} : run'[q] = run[q]
    BY Escalating DEF Before, DocumentInv
<1>2. ~Repairs(r) /\ ~Repairs(s)
    BY <1>1 DEF Escalate, Free, At, Repairs
<1>3. Searchable'
    <2> SUFFICES ASSUME status' = "processed" /\ ~chunks' /\ ~lost' /\ ~bare'
                 PROVE  (\E q \in Runs : Repairs(q))'
        BY DEF Searchable
    <2>1. status = "processed" /\ ~chunks /\ ~lost /\ ~bare
        BY DEF Escalate, rowVars
    <2>2. PICK q \in Runs : Repairs(q)
        BY <2>1 DEF Searchable, Before, DocumentInv
    <2>3. run'[q] = run[q]
        BY <1>1, <1>2, <2>2
    <2>4. Repairs(q)'
        BY <2>2, <2>3 DEF Repairs
    <2> QED
        BY <2>4
<1> QED
    BY <1>1, <1>3 DEF DocumentInv

\* Nothing happens.
LEMMA StutterKeeps == ASSUME Before, UNCHANGED vars PROVE DocumentInv'
<1>1. run' = run /\ status' = status /\ chunks' = chunks /\ lost' = lost /\ bare' = bare
    BY DEF vars
<1>2. SlotsInv'
    BY <1>1 DEF Before, DocumentInv, SlotsInv
<1>3. Searchable'
    BY <1>1 DEF Before, DocumentInv, Searchable, Repairs
<1> QED
    BY <1>2, <1>3 DEF DocumentInv

\* Every step keeps the invariant.
LEMMA DocumentStep == ASSUME Before, [Next]_vars PROVE DocumentInv'
<1>1. ASSUME NEW r \in Runs, RunStep(r) PROVE DocumentInv'
    BY <1>1, LoadDocumentKeeps, DeleteChunksKeeps, StartContentKeeps, ContentDoneKeeps,
       ContentFailsKeeps, EmbedKeeps, RecordVectorsKeeps, JudgeKeeps, EscalateKeeps,
       JudgeOcrKeeps, WriteInfoKeeps, HandleErrorKeeps DEF RunStep
<1>2. ASSUME NEW r \in Runs, RunTrouble(r) PROVE DocumentInv'
    BY <1>2, DeleteChunksFailsKeeps, VectorsFailKeeps, TaskFailsKeeps,
       HandleErrorFailsKeeps, WorkerLostKeeps, ChannelLostKeeps DEF RunTrouble
<1>3. CASE RequestStep \/ UploadFails \/ Reprocess \/ DeleteDocument
    BY <1>3, OtherRequestSteps, PublishUploadKeeps, ReprocessKeeps DEF RequestStep
<1> QED
    BY <1>1, <1>2, <1>3, StutterKeeps DEF Next

\* At first all slots are free.
LEMMA SlotsAtFirst == Init => SlotsInv
<1> SUFFICES ASSUME Init PROVE SlotsInv
    OBVIOUS
<1>1. run = [r \in Runs |-> Empty]
    BY DEF Init
<1> QED
    BY <1>1 DEF SlotsInv, Empty, Formed, RunKinds

\* Once nothing works on a document that is shown as processed with vectors, its
\* chunks are in the vector store, for any number of runs, retries, requests and
\* faults, although the OCR task of document_tasks.py deletes the chunks first.  Two
\* cases are apart: a lost message, worker or status, and a /process without vectors
\* that wrote PROCESSED while the store was empty, until some run makes chunks again.
THEOREM DocumentsStaySearchable == Spec => []ProcessedIsSearchable
<1>1. Init => DocumentInv
    <2> SUFFICES ASSUME Init PROVE DocumentInv
        OBVIOUS
    <2>2. SlotsInv
        BY SlotsAtFirst
    <2>3. Searchable
        BY DEF Init, Searchable
    <2> QED
        BY <2>2, <2>3 DEF DocumentInv
<1>2. DocumentInv /\ [Next]_vars => DocumentInv'
    BY DocumentStep DEF Before
<1>3. DocumentInv => ProcessedIsSearchable
    BY DEF DocumentInv, Searchable, ProcessedIsSearchable, Quiet, Repairs
<1> QED
    BY <1>1, <1>2, <1>3, PTL DEF Spec

-----------------------------------------------------------------------------
(* Nobody looks for documents that wait, so DocumentSettles rests on this:   *)
(* whatever a document says of work to come has somebody who will do it.     *)

\* A message or run that will take a queued document up.
TakesUp(r) == run[r].kind = "process" /\ run[r].pc \in {"message", "start"}

\* A queued document will be sent or is held by a run of process_document, and
\* one being processed is at the point where its run says so.
WaitingIsCarried ==
    ~lost => /\ status = "queued" => upload = "publish" \/ \E r \in Runs : TakesUp(r)
             /\ status = "processing" => \E r \in Runs : run[r].pc = "extract"

CarriedInv == SlotsInv /\ WaitingIsCarried

\* Only slot r changes.
OnlyThis(r) == \A q \in Runs \ {r} : run'[q] = run[q]

\* A step of slot r keeps every document carried whose carrier is not r, or is
\* still r.
LEMMA OthersCarry ==
    ASSUME NEW r \in Runs, WaitingIsCarried, OnlyThis(r),
           ~lost' /\ status' = "queued" =>
              \/ upload' = "publish" \/ TakesUp(r)'
              \/ /\ ~TakesUp(r) /\ ~lost /\ status = "queued"
                 /\ upload # "publish",
           ~lost' /\ status' = "processing" =>
              \/ run'[r].pc = "extract"
              \/ run[r].pc # "extract" /\ ~lost /\ status = "processing"
    PROVE  WaitingIsCarried'
<1>1. ASSUME ~lost', status' = "queued", upload' # "publish", ~TakesUp(r)'
      PROVE  (\E q \in Runs : TakesUp(q))'
    <2>1. ~TakesUp(r) /\ \E q \in Runs : TakesUp(q)
        BY <1>1 DEF WaitingIsCarried
    <2>2. PICK q \in Runs : TakesUp(q)
        BY <2>1
    <2>3. run'[q] = run[q]
        BY <2>1, <2>2 DEF OnlyThis
    <2>4. TakesUp(q)'
        BY <2>2, <2>3 DEF TakesUp
    <2> QED
        BY <2>4
<1>2. ASSUME ~lost', status' = "processing", run'[r].pc # "extract"
      PROVE  \E q \in Runs : run'[q].pc = "extract"
    <2>1. run[r].pc # "extract" /\ \E q \in Runs : run[q].pc = "extract"
        BY <1>2 DEF WaitingIsCarried
    <2>2. PICK q \in Runs : run[q].pc = "extract"
        BY <2>1
    <2>3. run'[q] = run[q]
        BY <2>1, <2>2 DEF OnlyThis
    <2> QED
        BY <2>2, <2>3
<1>3. ~lost' /\ status' = "queued" => upload' = "publish" \/ (\E q \in Runs : TakesUp(q))'
    BY <1>1
<1> QED
    BY <1>2, <1>3 DEF WaitingIsCarried

\* Steps that no run takes: UploadFails is the one that loses a document.
LEMMA CarriedByRequests ==
    ASSUME CarriedInv, StoreUpload \/ QueueUpload \/ UploadFails \/ DeleteDocument
    PROVE  CarriedInv'
<1>1. run' = run
    BY DEF StoreUpload, QueueUpload, UploadFails, DeleteDocument
<1>2. SlotsInv'
    BY <1>1 DEF CarriedInv, SlotsInv
<1>3. /\ ~lost' => ~lost
      /\ ~lost' /\ status' = "queued" =>
            upload' = "publish" \/ (status = "queued" /\ upload' = upload)
      /\ status' = "processing" => status = "processing"
    BY DEF StoreUpload, QueueUpload, UploadFails, DeleteDocument, rowVars, Exists
<1>4. (\E r \in Runs : TakesUp(r)) => (\E r \in Runs : TakesUp(r))'
    BY <1>1 DEF TakesUp
<1>5. (\E r \in Runs : run[r].pc = "extract") => \E r \in Runs : run'[r].pc = "extract"
    BY <1>1
<1>6. WaitingIsCarried'
    BY <1>3, <1>4, <1>5 DEF CarriedInv, WaitingIsCarried
<1> QED
    BY <1>2, <1>6 DEF CarriedInv

\* A free slot holds nothing.
LEMMA FreeCarriesNothing ==
    ASSUME NEW r \in Runs, Free(r)
    PROVE  ~TakesUp(r) /\ run[r].pc # "extract"
BY DEF Free, TakesUp

\* The message that the upload announced.
LEMMA CarriedByPublishing == ASSUME CarriedInv, PublishUpload PROVE CarriedInv'
<1>1. PICK r \in Runs : Free(r) /\ run' = [run EXCEPT ![r] = Message("process", 0)]
    BY DEF PublishUpload
<1>2. PICK k \in RunKinds : k = "process"
    BY DEF RunKinds
<1>3. PICK m : m = Message(k, 0)
    OBVIOUS
<1>4. SlotsInv' /\ OnlyThis(r) /\ run'[r].pc = "message" /\ run'[r].kind = "process"
    BY <1>1, <1>2, <1>3, Placing DEF CarriedInv, OnlyThis
<1>5. TakesUp(r)' /\ status' = status /\ lost' = lost
    BY <1>4 DEF TakesUp, PublishUpload, rowVars
<1>6. WaitingIsCarried'
    BY <1>1, <1>4, <1>5, FreeCarriesNothing, OthersCarry DEF CarriedInv
<1> QED
    BY <1>4, <1>6 DEF CarriedInv

\* A message or a run in a free slot takes nothing from the others.
LEMMA CarriedBesides ==
    ASSUME CarriedInv, NEW r \in Runs, Free(r), NEW k \in RunKinds, NEW n, NEW m,
           m = Message(k, n) \/ m = Request(k),
           run' = [run EXCEPT ![r] = m],
           status' = status, upload' = upload, lost' = lost
    PROVE  CarriedInv'
<1>1. SlotsInv' /\ OnlyThis(r)
    BY Placing DEF CarriedInv, OnlyThis
<1>2. WaitingIsCarried'
    BY <1>1, FreeCarriesNothing, OthersCarry DEF CarriedInv
<1> QED
    BY <1>1, <1>2 DEF CarriedInv

LEMMA CarriedByReprocessing == ASSUME CarriedInv, Reprocess PROVE CarriedInv'
<1>1. PICK r \in Runs, k \in RunKinds : Free(r) /\ run' = [run EXCEPT ![r] = Request(k)]
    BY Requesting
<1>2. status' = status /\ upload' = upload /\ lost' = lost
    BY DEF Reprocess, rowVars
<1> QED
    BY <1>1, <1>2, CarriedBesides

LEMMA CarriedAgain ==
    ASSUME CarriedInv, NEW r \in Runs, NEW s \in Runs, ChannelLost(r, s)
    PROVE  CarriedInv'
<1>1. PICK k \in RunKinds : k = run[r].kind
    BY Fields DEF CarriedInv
<1>2. PICK n : n = run[r].retries
    OBVIOUS
<1>3. run' = [run EXCEPT ![s] = Message(k, n)] /\ Free(s)
    BY <1>1, <1>2 DEF ChannelLost
<1>4. status' = status /\ upload' = upload /\ lost' = lost
    BY DEF ChannelLost, rowVars
<1> QED
    BY <1>3, <1>4, CarriedBesides

\* The way up to the text: who took the document up says that it is processed,
\* and leaves it with a result, an error or a loss.
LEMMA CarriedOn ==
    ASSUME CarriedInv, NEW r \in Runs,
           LoadDocument(r) \/ StartContent(r) \/ ContentDone(r) \/ ContentFails(r)
               \/ WorkerLost(r)
    PROVE  CarriedInv'
<1>1. SlotsInv' /\ OnlyThis(r)
    BY Going, Raising, Refreshing, Ending
    DEF CarriedInv, OnlyThis, LoadDocument, StartContent, ContentDone, ContentFails, WorkerLost
<1>2. CASE LoadDocument(r)
    <2>1. /\ status' = status /\ upload' = upload /\ lost' = lost
          /\ run[r].pc = "message"
          /\ Exists => run'[r].kind = run[r].kind
                       /\ run'[r].pc = IF run[r].kind = "ocr" THEN "clear" ELSE "start"
        BY <1>2, Refreshing DEF CarriedInv, LoadDocument, At, rowVars
    <2>2. status = "queued" => Exists
        BY DEF Exists
    <2>3. status = "queued" /\ TakesUp(r) => TakesUp(r)'
        BY <2>1, <2>2 DEF TakesUp
    <2>4. WaitingIsCarried'
        BY <1>1, <2>1, <2>3, OthersCarry DEF CarriedInv
    <2> QED
        BY <1>1, <2>4 DEF CarriedInv
<1>3. CASE StartContent(r)
    <2>1. /\ run[r].pc = "start"
          /\ lost' = lost /\ status' # "queued"
          /\ status' = "processing" => run'[r].pc = "extract"
        BY <1>3, Going DEF CarriedInv, StartContent, At, Exists
    <2>2. WaitingIsCarried'
        BY <1>1, <2>1, OthersCarry DEF CarriedInv
    <2> QED
        BY <1>1, <2>2 DEF CarriedInv
<1>4. CASE ContentDone(r) \/ ContentFails(r) \/ WorkerLost(r)
    <2>1. lost' \/ status' \notin {"queued", "processing"}
        BY <1>4 DEF ContentDone, ContentFails, WorkerLost, Failed, Exists
    <2>2. WaitingIsCarried'
        BY <2>1 DEF WaitingIsCarried
    <2> QED
        BY <1>1, <2>2 DEF CarriedInv
<1> QED
    BY <1>2, <1>3, <1>4

\* After the text, and in the handlers of errors, a run carries nothing, and
\* writes nothing that calls for work.
LEMMA CarriedPast ==
    ASSUME CarriedInv, NEW r \in Runs,
           \/ DeleteChunks(r) \/ DeleteChunksFails(r)
           \/ Embed(r) \/ RecordVectors(r) \/ VectorsFail(r)
           \/ Judge(r) \/ JudgeOcr(r) \/ WriteInfo(r) \/ TaskFails(r)
           \/ HandleError(r) \/ HandleErrorFails(r)
    PROVE  CarriedInv'
<1>1. SlotsInv' /\ OnlyThis(r)
    <2>1. CASE DeleteChunks(r) \/ Embed(r) \/ RecordVectors(r) \/ VectorsFail(r)
        BY <2>1, Going, Raising, Judging
        DEF CarriedInv, OnlyThis, DeleteChunks, Embed, RecordVectors, VectorsFail
    <2>2. CASE Judge(r) \/ JudgeOcr(r)
        BY <2>2, Raising, Ending, Refreshing, Writing DEF CarriedInv, OnlyThis, Judge, JudgeOcr
    <2>3. CASE DeleteChunksFails(r) \/ WriteInfo(r) \/ TaskFails(r)
        BY <2>3, Raising, Ending
        DEF CarriedInv, OnlyThis, DeleteChunksFails, WriteInfo, TaskFails
    <2>4. CASE HandleError(r) \/ HandleErrorFails(r)
        BY <2>4, Retrying DEF CarriedInv, OnlyThis, HandleError, HandleErrorFails
    <2> QED
        BY <2>1, <2>2, <2>3, <2>4
<1>2. run[r].pc \in {"clear", "embed", "record", "judge", "escalate", "write", "error"}
    BY DEF At, DeleteChunks, DeleteChunksFails, Embed, RecordVectors, VectorsFail, Judge,
           JudgeOcr, WriteInfo, TaskFails, HandleError, HandleErrorFails
<1>3. /\ upload' = upload
      /\ ~lost' => ~lost
      /\ ~lost' => status' = status \/ status' \notin {"queued", "processing"}
    <2>1. Failed = status \/ Failed = "error"
        BY DEF Failed
    <2>2. CASE DeleteChunks(r)
        BY <2>2 DEF DeleteChunks, rowVars
    <2>3. CASE DeleteChunksFails(r)
        BY <2>3 DEF DeleteChunksFails, rowVars
    <2>4. CASE Embed(r)
        BY <2>4 DEF Embed, rowVars
    <2>5. CASE RecordVectors(r)
        BY <2>5 DEF RecordVectors, rowVars
    <2>6. CASE VectorsFail(r)
        BY <2>1, <2>6 DEF VectorsFail, ErrorWritten
    <2>7. CASE Judge(r)
        BY <2>7 DEF Judge, rowVars
    <2>8. CASE JudgeOcr(r)
        BY <2>8 DEF JudgeOcr, rowVars
    <2>9. CASE WriteInfo(r)
        BY <2>9 DEF WriteInfo, rowVars
    <2>10. CASE TaskFails(r)
        BY <2>10 DEF TaskFails, rowVars
    <2>11. CASE HandleError(r)
        BY <2>1, <2>11 DEF HandleError
    <2>12. CASE HandleErrorFails(r)
        BY <2>12 DEF HandleErrorFails
    <2> QED
        BY <2>2, <2>3, <2>4, <2>5, <2>6, <2>7, <2>8, <2>9, <2>10, <2>11, <2>12
<1>4. ~TakesUp(r) /\ run[r].pc # "extract"
    BY <1>2 DEF TakesUp
<1>5. WaitingIsCarried'
    BY <1>1, <1>3, <1>4, OthersCarry DEF CarriedInv
<1> QED
    BY <1>1, <1>5 DEF CarriedInv

\* The OCR message goes to a free slot, and its sender carries nothing.
LEMMA CarriedByEscalating == ASSUME CarriedInv, NEW r \in Runs, Escalate(r) PROVE CarriedInv'
<1>1. PICK s \in Runs : /\ SlotsInv' /\ Free(s) /\ s # r
                        /\ \A q \in Runs \ {r, s} : run'[q] = run[q]
    BY Escalating DEF CarriedInv
<1>2. ~TakesUp(s) /\ run[s].pc # "extract" /\ ~TakesUp(r) /\ run[r].pc # "extract"
    BY <1>1, FreeCarriesNothing DEF Escalate, At, TakesUp
<1>3. status' = status /\ upload' = upload /\ lost' = lost
    BY DEF Escalate, rowVars
<1>4. ASSUME NEW q \in Runs, TakesUp(q) \/ run[q].pc = "extract"
      PROVE  run'[q] = run[q]
    BY <1>1, <1>2, <1>4
<1>5. (\E q \in Runs : TakesUp(q)) => (\E q \in Runs : TakesUp(q))'
    BY <1>4 DEF TakesUp
<1>6. (\E q \in Runs : run[q].pc = "extract") => \E q \in Runs : run'[q].pc = "extract"
    BY <1>4
<1>7. WaitingIsCarried'
    BY <1>3, <1>5, <1>6 DEF CarriedInv, WaitingIsCarried
<1> QED
    BY <1>1, <1>7 DEF CarriedInv

\* Nothing happens.
LEMMA CarriedStill == ASSUME CarriedInv, UNCHANGED vars PROVE CarriedInv'
<1>1. run' = run /\ status' = status /\ upload' = upload /\ lost' = lost
    BY DEF vars
<1> QED
    BY <1>1 DEF CarriedInv, SlotsInv, WaitingIsCarried, TakesUp

\* Every step keeps the invariant.
LEMMA CarriedStep == ASSUME CarriedInv, [Next]_vars PROVE CarriedInv'
<1>1. ASSUME NEW r \in Runs, RunStep(r) PROVE CarriedInv'
    BY <1>1, CarriedOn, CarriedPast, CarriedByEscalating DEF RunStep
<1>2. ASSUME NEW r \in Runs, RunTrouble(r) PROVE CarriedInv'
    BY <1>2, CarriedOn, CarriedPast, CarriedAgain DEF RunTrouble
<1>3. CASE RequestStep \/ UploadFails \/ Reprocess \/ DeleteDocument
    BY <1>3, CarriedByRequests, CarriedByPublishing, CarriedByReprocessing DEF RequestStep
<1> QED
    BY <1>1, <1>2, <1>3, CarriedStill DEF Next

\* A document that is shown as queued has its message still to be sent, waiting
\* or in the hands of process_document, and one shown as processing has a run at
\* work on its text, whoever else processes it, retries, deletes it or fails, as
\* long as no message, worker or status was lost: without that nothing would ever
\* change what is shown (document_tasks.py has no watchdog).
THEOREM WaitingDocumentsAreCarried == Spec => []WaitingIsCarried
<1>1. Init => CarriedInv
    <2> SUFFICES ASSUME Init PROVE CarriedInv
        OBVIOUS
    <2>1. SlotsInv
        BY SlotsAtFirst
    <2>2. WaitingIsCarried
        BY DEF Init, WaitingIsCarried
    <2> QED
        BY <2>1, <2>2 DEF CarriedInv
<1>2. CarriedInv /\ [Next]_vars => CarriedInv'
    BY CarriedStep
<1>3. CarriedInv => WaitingIsCarried
    BY DEF CarriedInv
<1> QED
    BY <1>1, <1>2, <1>3, PTL DEF Spec

=============================================================================
