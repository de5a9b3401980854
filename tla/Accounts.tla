------------------------------ MODULE Accounts ------------------------------
(***************************************************************************)
(* The account subdomain: the table accounts (the roles of an identity)    *)
(* and the use cases that request, grant, vouch for and withdraw roles.    *)
(* Each awaited repository call is one step; what it reads (the caller's   *)
(* role, the row to change) may be outdated when the last one, save(),     *)
(* writes the new status.  Rows are never deleted: an id is an index.      *)
(***************************************************************************)
EXTENDS Naturals, Sequences, FiniteSets

CONSTANTS
    Identities,     \* the people
    Admin,          \* the identity the seed script gives the ADMIN account
    Callers,        \* slots for concurrent calls
    Moderation,     \* whether DeactivateAccount and ReactivateAccount are routed
    MaxRows         \* bound on the rows of the table

ASSUME PeopleAssumption == Admin \in Identities /\ "none" \notin Identities

ASSUME BoundsAssumption == Moderation \in BOOLEAN /\ MaxRows \in Nat

VARIABLES
    rows,       \* accounts
    approved,   \* history: rows an approval has been saved for
    pc,         \* the call each handler is waiting for
    op,         \* the transition it is to make
    on,         \* the id of the row its entity came from (0: not stored yet)
    copy        \* its Account entity

vars == <<rows, approved, pc, op, on, copy>>

Types == {"USER", "ORGANIZER", "ADMIN", "STAFF", "COMMERCE", "EMPLOYEE"}

Status == {"ACTIVE", "PENDING", "REJECTED", "DEACTIVATED"}

Row == [owner: Identities, type: Types, status: Status, createdBy: Identities \cup {"none"}]

Pc == {"idle", "findUser", "findTarget", "insert", "findRow", "findOf", "save"}

\* The roles a user requests and an admin approves; the roles a holder of one
\* of those gives to others.
Requested == {"ORGANIZER", "COMMERCE"}
Given == {"STAFF", "EMPLOYEE"}
Giver(t) == IF t = "STAFF" THEN "ORGANIZER" ELSE "COMMERCE"

Ops == {"approve", "reject", "reRequest", "deactivate", "reactivate", "remove"}

TypeOK ==
    /\ rows \in Seq(Row)
    /\ approved \subseteq DOMAIN rows
    /\ pc \in [Callers -> Pc]
    /\ op \in [Callers -> Ops]
    /\ on \in [Callers -> Nat]
    /\ copy \in [Callers -> Row]

-----------------------------------------------------------------------------
(* The entity.                                                             *)

New(c, t, s, by) == [owner |-> c, type |-> t, status |-> s, createdBy |-> by]

Blank == New(Admin, "USER", "ACTIVE", "none")

\* approve(), reject() and reRequest() refuse the types that need no approval.
Approvable(r) == r.type \notin {"USER", "ADMIN"}

\* Mutant: reactivate() refuses only what is active already.
AllowedLax(r, o) ==
    CASE o \in {"approve", "reject"} -> Approvable(r) /\ r.status = "PENDING"
      [] o = "reRequest" -> Approvable(r) /\ r.status = "REJECTED"
      [] o \in {"deactivate", "remove"} -> r.status = "ACTIVE"
      [] o = "reactivate" -> r.status # "ACTIVE"

Allowed(r, o) ==
    CASE o \in {"approve", "reject"} -> Approvable(r) /\ r.status = "PENDING"
      [] o = "reRequest" -> Approvable(r) /\ r.status = "REJECTED"
      [] o \in {"deactivate", "remove"} -> r.status = "ACTIVE"
      [] o = "reactivate" -> r.status = "DEACTIVATED"

\* Mutant: a status the CHECK constraint of the table does not list.
TargetUnlisted(o) == IF o = "reject" THEN "REFUSED" ELSE "ACTIVE"

Target(o) ==
    CASE o \in {"approve", "reactivate"} -> "ACTIVE"
      [] o = "reject" -> "REJECTED"
      [] o = "reRequest" -> "PENDING"
      [] o \in {"deactivate", "remove"} -> "DEACTIVATED"

-----------------------------------------------------------------------------
(* The table.                                                              *)

Of(c, t) == {i \in DOMAIN rows : rows[i].owner = c /\ rows[i].type = t}

IsActive(c, t) == \E i \in Of(c, t) : rows[i].status = "ACTIVE"

\* Mutant: a migration without uq_identity_account_type.
RefusedNever(r) == FALSE

\* UNIQUE (identity_id, type).
Refused(r) == Of(r.owner, r.type) # {}

-----------------------------------------------------------------------------
(* Handlers.                                                               *)

Await(p, call, o, i, r) ==
    /\ pc'   = [pc EXCEPT ![p] = call]
    /\ op'   = [op EXCEPT ![p] = o]
    /\ on'   = [on EXCEPT ![p] = i]
    /\ copy' = [copy EXCEPT ![p] = r]

Then(p, call) == Await(p, call, op[p], on[p], copy[p])

Return(p) == Await(p, "idle", "approve", 0, Blank)

Init ==
    /\ rows = <<New(Admin, "ADMIN", "ACTIVE", "none")>>
    /\ approved = {}
    /\ pc = [p \in Callers |-> "idle"]
    /\ op = [p \in Callers |-> "approve"]
    /\ on = [p \in Callers |-> 0]
    /\ copy = [p \in Callers |-> Blank]

\* MaxRows bounds the table: a slot is reserved for every insert in flight.
Room ==
    Len(rows) + Cardinality({q \in Callers : pc[q] \in {"findUser", "findTarget", "insert"}})
        < MaxRows

\* CreateAccount(USER), the only type the server asks it for.
CreateUser(p, c) ==
    /\ pc[p] = "idle" /\ Room
    /\ Of(c, "USER") = {}                     \* AccountAlreadyExistsError
    /\ Await(p, "insert", op[p], 0, New(c, "USER", "ACTIVE", "none"))
    /\ UNCHANGED <<rows, approved>>

\* Somebody asks for a role.
Request(p, c, t) ==
    /\ pc[p] = "idle" /\ Room
    /\ Of(c, t) = {}                          \* AccountAlreadyExistsError
    /\ Await(p, "findUser", op[p], 0, New(c, t, "PENDING", "none"))
    /\ UNCHANGED <<rows, approved>>

RequestOrganizer(p, c) == Request(p, c, "ORGANIZER")

RequestCommerce(p, c) == Request(p, c, "COMMERCE")

RequestFindUser(p) ==
    /\ pc[p] = "findUser"
    /\ IF IsActive(copy[p].owner, "USER") THEN Then(p, "insert") ELSE Return(p)
    /\ UNCHANGED <<rows, approved>>

\* A holder of a role gives somebody another.
\* Mutant: the giver needs the role, in whatever status.
AddUnapproved(p, c, t, target) ==
    /\ pc[p] = "idle" /\ Room
    /\ Of(c, Giver(t)) # {}
    /\ Await(p, "findTarget", op[p], 0, New(target, t, "ACTIVE", c))
    /\ UNCHANGED <<rows, approved>>

Add(p, c, t, target) ==
    /\ pc[p] = "idle" /\ Room
    /\ IsActive(c, Giver(t))                  \* InsufficientPermissionsError
    /\ Await(p, "findTarget", op[p], 0, New(target, t, "ACTIVE", c))
    /\ UNCHANGED <<rows, approved>>

AddStaffByOrganizer(p, c, target) == Add(p, c, "STAFF", target)

AddEmployeeByCommerce(p, c, target) == Add(p, c, "EMPLOYEE", target)

AddFindTarget(p) ==
    /\ pc[p] = "findTarget"
    /\ IF Of(copy[p].owner, copy[p].type) = {} THEN Then(p, "insert") ELSE Return(p)
    /\ UNCHANGED <<rows, approved>>

Insert(p) ==
    /\ pc[p] = "insert"
    /\ rows' = IF Refused(copy[p]) THEN rows ELSE Append(rows, copy[p])
    /\ Return(p)
    /\ UNCHANGED approved

\* An admin decides on a row of any type.
Moderate(p, c, o) ==
    /\ pc[p] = "idle"
    /\ IsActive(c, "ADMIN")                   \* InsufficientPermissionsError
    /\ Await(p, "findRow", o, 0, Blank)
    /\ UNCHANGED <<rows, approved>>

ApproveOrganizer(p, c) == Moderate(p, c, "approve")

RejectOrganizer(p, c) == Moderate(p, c, "reject")

DeactivateAccount(p, c) == Moderation /\ Moderate(p, c, "deactivate")

ReactivateAccount(p, c) == Moderation /\ Moderate(p, c, "reactivate")

\* A giver of a role withdraws one of type t, named by its id ("findRow": of
\* anybody) or by its holder ("findOf").
Remove(p, c, t, call, target) ==
    /\ pc[p] = "idle"
    /\ IsActive(c, Giver(t))                  \* InsufficientPermissionsError
    /\ Await(p, call, "remove", 0, New(target, t, "ACTIVE", "none"))
    /\ UNCHANGED <<rows, approved>>

RemoveStaffByOrganizer(p, c) == Remove(p, c, "STAFF", "findRow", c)

RemoveStaffByIdentityRef(p, c, target) == Remove(p, c, "STAFF", "findOf", target)

RemoveEmployeeByCommerce(p, c) == Remove(p, c, "EMPLOYEE", "findRow", c)

RemoveEmployeeByIdentityRef(p, c, target) == Remove(p, c, "EMPLOYEE", "findOf", target)

\* The entity changes its status, or throws.
Change(p, o, i) ==
    /\ Allowed(rows[i], o)                    \* InvalidStatusTransitionError
    /\ Await(p, "save", o, i, [rows[i] EXCEPT !.status = Target(o)])

FindRow(p, i) ==
    /\ \/ /\ pc[p] = "findRow"
          /\ i \in DOMAIN rows
          /\ op[p] = "remove" => rows[i].type = copy[p].type
       \/ pc[p] = "findOf" /\ i \in Of(copy[p].owner, copy[p].type)
    /\ Change(p, op[p], i)
    /\ UNCHANGED <<rows, approved>>

\* The owner of a rejected row asks again.
ReRequest(p, i) ==
    /\ pc[p] = "idle"
    /\ Change(p, "reRequest", i)
    /\ UNCHANGED <<rows, approved>>

ReRequestOrganizer(p, c) == \E i \in Of(c, "ORGANIZER") : ReRequest(p, i)

ReRequestCommerce(p, c) == \E i \in Of(c, "COMMERCE") : ReRequest(p, i)

Save(p) ==
    /\ pc[p] = "save"
    /\ rows' = [rows EXCEPT ![on[p]].status = copy[p].status]
    /\ approved' = IF op[p] = "approve" THEN approved \cup {on[p]} ELSE approved
    /\ Return(p)

\* An awaited call rejects or finds nothing, or the process dies.
Fail(p) ==
    /\ pc[p] # "idle"
    /\ Return(p)
    /\ UNCHANGED <<rows, approved>>

-----------------------------------------------------------------------------

Step(p) == RequestFindUser(p) \/ AddFindTarget(p) \/ Insert(p) \/ Save(p) \/ Fail(p)

Next ==
    \E p \in Callers :
        \/ Step(p)
        \/ \E i \in DOMAIN rows : FindRow(p, i)
        \/ \E c \in Identities :
            \/ CreateUser(p, c)
            \/ RequestOrganizer(p, c) \/ RequestCommerce(p, c)
            \/ ReRequestOrganizer(p, c) \/ ReRequestCommerce(p, c)
            \/ ApproveOrganizer(p, c) \/ RejectOrganizer(p, c)
            \/ DeactivateAccount(p, c) \/ ReactivateAccount(p, c)
            \/ RemoveStaffByOrganizer(p, c) \/ RemoveEmployeeByCommerce(p, c)
            \/ \E target \in Identities :
                \/ AddStaffByOrganizer(p, c, target)
                \/ AddEmployeeByCommerce(p, c, target)
                \/ RemoveStaffByIdentityRef(p, c, target)
                \/ RemoveEmployeeByIdentityRef(p, c, target)

Spec == Init /\ [][Next]_vars

-----------------------------------------------------------------------------
(* Properties.                                                             *)

\* An identity has at most one account of a type, though every use case checks
\* before it inserts, in another step.
OneAccountPerType ==
    \A i, j \in DOMAIN rows :
        rows[i].owner = rows[j].owner /\ rows[i].type = rows[j].type => i = j

\* Nobody is an active organizer or commerce without an approval that was saved,
\* whatever stale decision, re-request or reactivation is saved later.
ActiveWasApproved ==
    \A i \in DOMAIN rows :
        rows[i].type \in Requested /\ rows[i].status \in {"ACTIVE", "DEACTIVATED"}
            => i \in approved

\* Somebody approved for the role that gives r's type is who created it.
Vouched(r) ==
    \E j \in approved : rows[j].owner = r.createdBy /\ rows[j].type = Giver(r.type)

\* Every staff or employee account leads back to an approved giver of that role.
GivenByApproved == \A i \in DOMAIN rows : rows[i].type \in Given => Vouched(rows[i])

(* The inductive strengthening: what an outdated copy may still do when it *)
(* is stored.                                                              *)

\* A role about to be inserted is one its owner still waits for, or is vouched for.
InsertOk(p) ==
    pc[p] \in {"findUser", "findTarget", "insert"} =>
        /\ copy[p].type \in Requested => copy[p].status = "PENDING"
        /\ copy[p].type \in Given => Vouched(copy[p])

\* Whatever the row has become meanwhile, to save a status other than by an approval
\* makes active or deactivated only what an approval has been saved for.
SaveOk(p) ==
    pc[p] = "save" =>
        /\ on[p] \in DOMAIN rows
        /\ copy[p].status = Target(op[p])
        /\ op[p] \in {"deactivate", "reactivate", "remove"} /\ rows[on[p]].type \in Requested
               => on[p] \in approved

AccountsInv ==
    /\ TypeOK
    /\ OneAccountPerType
    /\ ActiveWasApproved
    /\ GivenByApproved
    /\ \A p \in Callers : InsertOk(p) /\ SaveOk(p)

-----------------------------------------------------------------------------
(* What the documentation says and the code does not keep.                 *)

\* "Cualquier transicion fuera de esta tabla -> InvalidStatusTransitionError"
TransitionMatrix ==
    [][\A i \in DOMAIN rows :
         rows'[i].status # rows[i].status =>
             \E o \in Ops : Allowed(rows[i], o) /\ rows'[i].status = Target(o)]_rows
=============================================================================
