--------------------------- MODULE AccountsProofs ---------------------------
(***************************************************************************)
(* Proofs about Accounts: that its strengthened invariant is inductive, so *)
(* that roles rest on saved approvals however many calls overlap.          *)
(***************************************************************************)
EXTENDS Accounts, SequenceTheorems, TLAPS

-----------------------------------------------------------------------------
(* Rows.                                                                   *)

\* The factory of the entity makes rows.
LEMMA NewType ==
    ASSUME NEW c \in Identities, NEW t \in Types, NEW s \in Status,
           NEW by \in Identities \cup {"none"}
    PROVE  /\ New(c, t, s, by) \in Row
           /\ New(c, t, s, by).owner = c /\ New(c, t, s, by).type = t
           /\ New(c, t, s, by).status = s /\ New(c, t, s, by).createdBy = by
BY DEF New, Row

LEMMA BlankType == Blank \in Row
BY NewType, PeopleAssumption DEF Blank, Types, Status

\* Every transition leads to a status the table accepts.
LEMMA TargetType == ASSUME NEW o \in Ops PROVE Target(o) \in Status
BY DEF Target, Ops, Status

\* The table, read at one of its indices.
LEMMA RowType == ASSUME TypeOK PROVE /\ \A i \in DOMAIN rows : rows[i] \in Row
                                     /\ DOMAIN rows = 1 .. Len(rows)
                                     /\ Len(rows) \in Nat
BY LenProperties, ElementOfSeq DEF TypeOK

\* Two kinds of type.
LEMMA Kinds == /\ Requested \subseteq Types /\ Given \subseteq Types
               /\ Requested \cap Given = {}
               /\ \A t \in Given : Giver(t) \in Requested
BY DEF Requested, Given, Types, Giver

\* An active holder of a role that is requested has been approved for it.
LEMMA ActiveIsApproved ==
    ASSUME AccountsInv, NEW c \in Identities, NEW t \in Requested, IsActive(c, t)
    PROVE  \E j \in approved : rows[j].owner = c /\ rows[j].type = t
BY DEF AccountsInv, ActiveWasApproved, IsActive, Of

-----------------------------------------------------------------------------
(* Three kinds of step.                                                    *)

\* A handler goes on and writes nothing.
LEMMA ReadKeepsInv ==
    ASSUME AccountsInv, UNCHANGED <<rows, approved>>,
           NEW p \in Callers, NEW call \in Pc, NEW o \in Ops, NEW i \in Nat, NEW r \in Row,
           Await(p, call, o, i, r),
           call \in {"findUser", "findTarget", "insert"} =>
               /\ r.type \in Requested => r.status = "PENDING"
               /\ r.type \in Given => Vouched(r),
           call = "save" =>
               /\ i \in DOMAIN rows
               /\ r.status = Target(o)
               /\ o \in {"deactivate", "reactivate", "remove"} /\ rows[i].type \in Requested
                      => i \in approved
    PROVE  AccountsInv'
<1> USE DEF AccountsInv
<1>1. /\ pc'[p] = call /\ op'[p] = o /\ on'[p] = i /\ copy'[p] = r
      /\ \A q \in Callers \ {p} :
            pc'[q] = pc[q] /\ op'[q] = op[q] /\ on'[q] = on[q] /\ copy'[q] = copy[q]
  BY DEF Await, TypeOK
<1>2. TypeOK'
  BY DEF TypeOK, Await
<1>3. OneAccountPerType' /\ ActiveWasApproved' /\ GivenByApproved'
  BY DEF OneAccountPerType, ActiveWasApproved, GivenByApproved, Vouched
<1>4. ASSUME NEW q \in Callers PROVE InsertOk(q)' /\ SaveOk(q)'
  <2>1. CASE q = p
    BY <1>1, <2>1 DEF InsertOk, SaveOk, Vouched
  <2>2. CASE q # p
    BY <1>1, <2>2 DEF InsertOk, SaveOk, Vouched
  <2>3. QED
    BY <2>1, <2>2
<1>5. QED
  BY <1>2, <1>3, <1>4

\* A handler that returns holds nothing.
LEMMA ReturnKeepsInv ==
    ASSUME AccountsInv, NEW p \in Callers, Return(p), UNCHANGED <<rows, approved>>
    PROVE  AccountsInv'
<1>1. "idle" \in Pc /\ "approve" \in Ops /\ 0 \in Nat
  BY DEF Pc, Ops
<1>2. QED
  BY <1>1, BlankType, ReadKeepsInv DEF Return

\* A read of the row i that the handler is to change.
LEMMA ChangeKeepsInv ==
    ASSUME AccountsInv, UNCHANGED <<rows, approved>>,
           NEW p \in Callers, NEW o \in Ops, NEW i \in DOMAIN rows, Change(p, o, i)
    PROVE  AccountsInv'
<1> DEFINE r == [rows[i] EXCEPT !.status = Target(o)]
<1>1. rows[i] \in Row /\ i \in Nat
  BY RowType DEF AccountsInv
<1>2. r \in Row /\ r.status = Target(o)
  BY <1>1, TargetType DEF Row
<1>3. ASSUME o \in {"deactivate", "reactivate", "remove"}, rows[i].type \in Requested
      PROVE  i \in approved
  <2>1. rows[i].status \in {"ACTIVE", "DEACTIVATED"}
    BY <1>3 DEF Change, Allowed
  <2>2. QED
    BY <1>3, <2>1 DEF AccountsInv, ActiveWasApproved
<1>4. Await(p, "save", o, i, r) /\ "save" \in Pc
  BY DEF Change, Pc
<1>5. QED
  BY <1>1, <1>2, <1>3, <1>4, ReadKeepsInv

\* An INSERT that the unique index lets through: the new index has no approval and
\* no handler knows it.
LEMMA InsertKeepsInv ==
    ASSUME AccountsInv, NEW p \in Callers, Insert(p)
    PROVE  AccountsInv'
<1> USE DEF AccountsInv
<1>1. CASE Refused(copy[p])
  BY <1>1, ReturnKeepsInv DEF Insert
<1>2. CASE ~Refused(copy[p])
  <2> DEFINE n == Len(rows) + 1
  <2>1. rows' = Append(rows, copy[p]) /\ UNCHANGED approved /\ Return(p) /\ pc[p] = "insert"
    BY <1>2 DEF Insert
  <2>2. copy[p] \in Row /\ Len(rows) \in Nat
    BY RowType DEF TypeOK
  <2>3. /\ rows' \in Seq(Row) /\ DOMAIN rows = 1 .. Len(rows)
        /\ DOMAIN rows' = DOMAIN rows \cup {n} /\ n \notin DOMAIN rows
        /\ \A i \in DOMAIN rows : rows'[i] = rows[i]
        /\ rows'[n] = copy[p]
    BY <2>1, <2>2, AppendProperties, LenProperties DEF TypeOK
  <2>4. TypeOK'
    BY <2>1, <2>3, BlankType DEF TypeOK, Return, Await, Pc, Ops
  <2>5. OneAccountPerType'
    <3>1. \A i \in DOMAIN rows :
             ~(rows[i].owner = copy[p].owner /\ rows[i].type = copy[p].type)
      BY <1>2 DEF Refused, Of
    <3>2. QED
      BY <2>3, <3>1 DEF OneAccountPerType
  <2>6. \A r \in Row : Vouched(r) => Vouched(r)'
    BY <2>1, <2>3 DEF Vouched, TypeOK
  <2>7. ActiveWasApproved'
    BY <2>1, <2>3 DEF ActiveWasApproved, InsertOk
  <2>8. GivenByApproved'
    <3>1. ASSUME NEW i \in DOMAIN rows, rows[i].type \in Given
          PROVE  \E j \in approved' : /\ rows'[j].owner = rows'[i].createdBy
                                      /\ rows'[j].type = Giver(rows'[i].type)
      <4>1. PICK j \in approved :
               rows[j].owner = rows[i].createdBy /\ rows[j].type = Giver(rows[i].type)
        BY <3>1 DEF GivenByApproved, Vouched
      <4>2. j \in approved' /\ rows'[j] = rows[j] /\ rows'[i] = rows[i]
        BY <2>1, <2>3 DEF TypeOK
      <4>3. QED
        BY <4>1, <4>2
    <3>2. ASSUME copy[p].type \in Given
          PROVE  \E j \in approved' : /\ rows'[j].owner = rows'[n].createdBy
                                      /\ rows'[j].type = Giver(rows'[n].type)
      <4>1. PICK j \in approved :
               rows[j].owner = copy[p].createdBy /\ rows[j].type = Giver(copy[p].type)
        BY <2>1, <3>2 DEF InsertOk, Vouched
      <4>2. j \in approved' /\ rows'[j] = rows[j]
        BY <2>1, <2>3 DEF TypeOK
      <4>3. QED
        BY <2>3, <4>1, <4>2
    <3>3. QED
      BY <2>3, <3>1, <3>2 DEF GivenByApproved, Vouched
  <2>9. ASSUME NEW q \in Callers PROVE InsertOk(q)' /\ SaveOk(q)'
    <3>1. CASE q = p
      BY <2>1, <3>1 DEF InsertOk, SaveOk, Return, Await, TypeOK
    <3>2. CASE q # p
      <4>1. pc'[q] = pc[q] /\ op'[q] = op[q] /\ on'[q] = on[q] /\ copy'[q] = copy[q]
        BY <2>1, <3>2 DEF Return, Await, TypeOK
      <4>2. copy[q] \in Row
        BY DEF TypeOK
      <4>3. InsertOk(q)'
        BY <2>6, <4>1, <4>2 DEF InsertOk
      <4>4. SaveOk(q)'
        BY <2>1, <2>3, <4>1 DEF SaveOk
      <4>5. QED
        BY <4>3, <4>4
    <3>3. QED
      BY <3>1, <3>2
  <2>10. QED
    BY <2>4, <2>5, <2>7, <2>8, <2>9
<1>3. QED
  BY <1>1, <1>2

\* An UPDATE of the status of a row.
LEMMA SaveKeepsInv ==
    ASSUME AccountsInv, NEW p \in Callers, Save(p)
    PROVE  AccountsInv'
<1> USE DEF AccountsInv
<1> DEFINE i == on[p]
<1>1. /\ pc[p] = "save" /\ Return(p)
      /\ rows' = [rows EXCEPT ![i].status = copy[p].status]
      /\ approved' = IF op[p] = "approve" THEN approved \cup {i} ELSE approved
  BY DEF Save
<1>2. /\ i \in DOMAIN rows /\ copy[p].status = Target(op[p]) /\ copy[p].status \in Status
      /\ op[p] \in Ops
  BY <1>1, TargetType DEF SaveOk, TypeOK
<1>3. rows[i] \in Row /\ [rows[i] EXCEPT !.status = copy[p].status] \in Row
  BY <1>2, RowType DEF Row
<1>4. rows' = [rows EXCEPT ![i] = [rows[i] EXCEPT !.status = copy[p].status]]
  BY <1>1
<1>5. /\ rows' \in Seq(Row) /\ DOMAIN rows' = DOMAIN rows
      /\ rows'[i] = [rows[i] EXCEPT !.status = copy[p].status]
      /\ \A j \in DOMAIN rows \ {i} : rows'[j] = rows[j]
  BY <1>2, <1>3, <1>4, ExceptSeq, LenProperties DEF TypeOK
<1>6. /\ \A j \in DOMAIN rows : /\ rows'[j].owner = rows[j].owner
                                /\ rows'[j].type = rows[j].type
                                /\ rows'[j].createdBy = rows[j].createdBy
      /\ rows'[i].status = copy[p].status
  BY <1>3, <1>5 DEF Row
<1>7. approved \subseteq approved' /\ approved' \subseteq DOMAIN rows'
  BY <1>1, <1>2, <1>5 DEF TypeOK
<1>8. TypeOK'
  BY <1>1, <1>5, <1>7, BlankType DEF TypeOK, Return, Await, Pc, Ops
<1>9. OneAccountPerType'
  BY <1>5, <1>6 DEF OneAccountPerType
<1>10. ActiveWasApproved'
  <2>1. SUFFICES ASSUME rows[i].type \in Requested,
                        copy[p].status \in {"ACTIVE", "DEACTIVATED"}
                 PROVE  i \in approved'
    BY <1>5, <1>6, <1>7 DEF ActiveWasApproved
  <2>2. op[p] \in {"approve", "reactivate", "deactivate", "remove"}
    BY <1>2, <2>1 DEF Target, Ops
  <2>3. QED
    BY <1>1, <1>7, <2>1, <2>2 DEF SaveOk
<1>11. GivenByApproved'
  <2>1. SUFFICES ASSUME NEW k \in DOMAIN rows, rows[k].type \in Given
                 PROVE  \E j \in approved' : /\ rows'[j].owner = rows'[k].createdBy
                                             /\ rows'[j].type = Giver(rows'[k].type)
    BY <1>5, <1>6 DEF GivenByApproved, Vouched
  <2>2. PICK j \in approved :
           rows[j].owner = rows[k].createdBy /\ rows[j].type = Giver(rows[k].type)
    BY <2>1 DEF GivenByApproved, Vouched
  <2>3. QED
    BY <1>6, <1>7, <2>1, <2>2 DEF TypeOK
<1>12. ASSUME NEW q \in Callers PROVE InsertOk(q)' /\ SaveOk(q)'
  <2>1. CASE q = p
    BY <1>1, <2>1 DEF InsertOk, SaveOk, Return, Await, TypeOK
  <2>2. CASE q # p
    <3>1. pc'[q] = pc[q] /\ op'[q] = op[q] /\ on'[q] = on[q] /\ copy'[q] = copy[q]
      BY <1>1, <2>2 DEF Return, Await, TypeOK
    <3>2. InsertOk(q)'
      BY <1>6, <1>7, <3>1 DEF InsertOk, Vouched, TypeOK
    <3>3. SaveOk(q)'
      BY <1>5, <1>6, <1>7, <3>1 DEF SaveOk
    <3>4. QED
      BY <3>2, <3>3
  <2>3. QED
    BY <2>1, <2>2
<1>13. QED
  BY <1>8, <1>9, <1>10, <1>11, <1>12

-----------------------------------------------------------------------------
(* The use cases.                                                          *)

\* CreateUser, RequestOrganizer and RequestCommerce, up to the first answer.
LEMMA AskKeepsInv ==
    ASSUME AccountsInv, NEW p \in Callers, NEW c \in Identities,
           CreateUser(p, c) \/ RequestOrganizer(p, c) \/ RequestCommerce(p, c)
    PROVE  AccountsInv'
<1>1. op[p] \in Ops
  BY DEF AccountsInv, TypeOK
<1>2. CASE CreateUser(p, c)
  <2>1. New(c, "USER", "ACTIVE", "none") \in Row /\ New(c, "USER", "ACTIVE", "none").type = "USER"
    BY NewType DEF Types, Status
  <2>2. "USER" \notin Requested /\ "USER" \notin Given /\ "insert" \in Pc
    BY DEF Requested, Given, Pc
  <2>3. QED
    BY <1>1, <1>2, <2>1, <2>2, ReadKeepsInv DEF CreateUser
<1>3. ASSUME NEW t \in Requested, Request(p, c, t) PROVE AccountsInv'
  <2>1. /\ New(c, t, "PENDING", "none") \in Row
        /\ New(c, t, "PENDING", "none").type = t
        /\ New(c, t, "PENDING", "none").status = "PENDING"
    BY NewType, Kinds DEF Status
  <2>2. t \notin Given /\ "findUser" \in Pc
    BY Kinds DEF Pc
  <2>3. QED
    BY <1>1, <1>3, <2>1, <2>2, ReadKeepsInv DEF Request
<1>4. QED
  BY <1>2, <1>3 DEF RequestOrganizer, RequestCommerce, Requested

\* AddStaffByOrganizer, AddEmployeeByCommerce: the giver is active, so was approved.
LEMMA AddKeepsInv ==
    ASSUME AccountsInv, NEW p \in Callers, NEW c \in Identities, NEW t \in Given,
           NEW target \in Identities, Add(p, c, t, target)
    PROVE  AccountsInv'
<1> DEFINE r == New(target, t, "ACTIVE", c)
<1>1. r \in Row /\ r.type = t /\ r.createdBy = c
  BY NewType, Kinds DEF Status
<1>2. Vouched(r)
  BY <1>1, ActiveIsApproved, Kinds DEF Add, Vouched
<1>3. t \notin Requested /\ "findTarget" \in Pc /\ op[p] \in Ops
  BY Kinds DEF Pc, AccountsInv, TypeOK
<1>4. Await(p, "findTarget", op[p], 0, r) /\ UNCHANGED <<rows, approved>>
  BY DEF Add
<1>5. QED
  BY <1>1, <1>2, <1>3, <1>4, ReadKeepsInv

\* The second look, and what it leads to.
LEMMA FindKeepsInv ==
    ASSUME AccountsInv, NEW p \in Callers, RequestFindUser(p) \/ AddFindTarget(p)
    PROVE  AccountsInv'
<1>1. /\ pc[p] \in {"findUser", "findTarget"} /\ UNCHANGED <<rows, approved>>
      /\ Then(p, "insert") \/ Return(p)
  BY DEF RequestFindUser, AddFindTarget
<1>2. CASE Return(p)
  BY <1>1, <1>2, ReturnKeepsInv
<1>3. CASE Then(p, "insert")
  <2>1. "insert" \in Pc /\ op[p] \in Ops /\ on[p] \in Nat /\ copy[p] \in Row
    BY DEF Pc, AccountsInv, TypeOK
  <2>2. InsertOk(p)
    BY DEF AccountsInv
  <2>3. Await(p, "insert", op[p], on[p], copy[p])
    BY <1>3 DEF Then
  <2>4. QED
    BY <1>1, <2>1, <2>2, <2>3, ReadKeepsInv DEF InsertOk
<1>4. QED
  BY <1>1, <1>2, <1>3

\* The decisions of an admin and the removals, up to their second call.
LEMMA DecideKeepsInv ==
    ASSUME AccountsInv, NEW p \in Callers, NEW c \in Identities,
           \/ \E o \in Ops : Moderate(p, c, o)
           \/ \E t \in Given, target \in Identities :
                Remove(p, c, t, "findRow", target) \/ Remove(p, c, t, "findOf", target)
    PROVE  AccountsInv'
<1>1. "findRow" \in Pc /\ "findOf" \in Pc /\ "remove" \in Ops /\ 0 \in Nat
  BY DEF Pc, Ops
<1>2. ASSUME NEW o \in Ops, Moderate(p, c, o) PROVE AccountsInv'
  BY <1>1, <1>2, BlankType, ReadKeepsInv DEF Moderate
<1>3. ASSUME NEW t \in Given, NEW target \in Identities, NEW call \in {"findRow", "findOf"},
             Remove(p, c, t, call, target)
      PROVE  AccountsInv'
  <2>1. New(target, t, "ACTIVE", "none") \in Row
    BY NewType, Kinds DEF Status
  <2>2. QED
    BY <1>1, <1>3, <2>1, ReadKeepsInv DEF Remove
<1>4. QED
  BY <1>2, <1>3

LEMMA StepKeepsInv == AccountsInv /\ [Next]_vars => AccountsInv'
<1> SUFFICES ASSUME AccountsInv, [Next]_vars PROVE AccountsInv'
  OBVIOUS
<1>1. CASE UNCHANGED vars
  BY <1>1 DEF vars, AccountsInv, TypeOK, OneAccountPerType, ActiveWasApproved, GivenByApproved,
              InsertOk, SaveOk, Vouched
<1>2. ASSUME NEW p \in Callers, Step(p) PROVE AccountsInv'
  BY <1>2, FindKeepsInv, InsertKeepsInv, SaveKeepsInv, ReturnKeepsInv DEF Step, Fail
<1>3. ASSUME NEW p \in Callers, NEW i \in DOMAIN rows, FindRow(p, i) PROVE AccountsInv'
  BY <1>3, ChangeKeepsInv DEF FindRow, AccountsInv, TypeOK
<1>4. ASSUME NEW p \in Callers, NEW c \in Identities,
             ReRequestOrganizer(p, c) \/ ReRequestCommerce(p, c)
      PROVE  AccountsInv'
  BY <1>4, ChangeKeepsInv DEF ReRequestOrganizer, ReRequestCommerce, ReRequest, Of, Ops
<1>5. ASSUME NEW p \in Callers, NEW c \in Identities,
             \/ ApproveOrganizer(p, c) \/ RejectOrganizer(p, c)
             \/ DeactivateAccount(p, c) \/ ReactivateAccount(p, c)
      PROVE  AccountsInv'
  BY <1>5, DecideKeepsInv
     DEF ApproveOrganizer, RejectOrganizer, DeactivateAccount, ReactivateAccount, Ops
<1>6. ASSUME NEW p \in Callers, NEW c \in Identities,
             \/ RemoveStaffByOrganizer(p, c) \/ RemoveEmployeeByCommerce(p, c)
             \/ \E target \in Identities :
                  RemoveStaffByIdentityRef(p, c, target) \/ RemoveEmployeeByIdentityRef(p, c, target)
      PROVE  AccountsInv'
  BY <1>6, DecideKeepsInv
     DEF RemoveStaffByOrganizer, RemoveEmployeeByCommerce,
         RemoveStaffByIdentityRef, RemoveEmployeeByIdentityRef, Given
<1>7. ASSUME NEW p \in Callers, NEW c \in Identities, NEW target \in Identities,
             AddStaffByOrganizer(p, c, target) \/ AddEmployeeByCommerce(p, c, target)
      PROVE  AccountsInv'
  BY <1>7, AddKeepsInv DEF AddStaffByOrganizer, AddEmployeeByCommerce, Given
<1>8. QED
  BY <1>1, <1>2, <1>3, <1>4, <1>5, <1>6, <1>7, AskKeepsInv DEF Next

LEMMA InitEstablishesInv == Init => AccountsInv
<1> SUFFICES ASSUME Init PROVE AccountsInv
  OBVIOUS
<1> DEFINE admin == New(Admin, "ADMIN", "ACTIVE", "none")
<1>1. admin \in Row /\ admin.type = "ADMIN" /\ Blank \in Row
  BY NewType, BlankType, PeopleAssumption DEF Types, Status
<1>2. rows = <<admin>> /\ DOMAIN rows = {1} /\ rows[1] = admin /\ rows \in Seq(Row)
  BY <1>1 DEF Init
<1>3. TypeOK
  BY <1>1, <1>2 DEF Init, TypeOK, Pc, Ops
<1>4. OneAccountPerType /\ ActiveWasApproved /\ GivenByApproved
  BY <1>1, <1>2 DEF OneAccountPerType, ActiveWasApproved, GivenByApproved, Requested, Given
<1>5. \A p \in Callers : InsertOk(p) /\ SaveOk(p)
  BY DEF Init, InsertOk, SaveOk
<1>6. QED
  BY <1>3, <1>4, <1>5 DEF AccountsInv

LEMMA AccountsInvariant == Spec => []AccountsInv
BY InitEstablishesInv, StepKeepsInv, PTL DEF Spec

-----------------------------------------------------------------------------
(* The theorems.                                                           *)

\* Every variable keeps its type, for any number of calls and people.
THEOREM AccountsTypeCorrect == Spec => []TypeOK
BY AccountsInvariant, PTL DEF AccountsInv

\* However many use cases check for an account and insert one at the same time, an
\* identity has at most one of each type.
THEOREM OneOfAType == Spec => []OneAccountPerType
BY AccountsInvariant, PTL DEF AccountsInv

\* No stale decision, re-request or reactivation makes an organizer or a commerce of
\* somebody no approval was ever saved for.
THEOREM ApprovedFirst == Spec => []ActiveWasApproved
BY AccountsInvariant, PTL DEF AccountsInv

\* No staff or employee account was given by somebody who never was approved, even if
\* the giver lost the role between the check and the insert.
THEOREM GivenByTheApproved == Spec => []GivenByApproved
BY AccountsInvariant, PTL DEF AccountsInv
=============================================================================
