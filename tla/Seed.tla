-------------------------------- MODULE Seed --------------------------------
(***************************************************************************)
(* The seed script: it registers an admin, an organizer and a user through *)
(* the use cases, promotes the first two, and skips whom it finds to be    *)
(* registered.  An operator runs it, again if it failed, on a database in  *)
(* which others may hold the names or phones of its people.                *)
(*                                                                         *)
(* The saga is one step here with the outcomes RegisterSaga has for it.  A *)
(* run takes less than the minute after which a code may be sent again.    *)
(***************************************************************************)
EXTENDS Naturals, Sequences

CONSTANTS
    HourlyLimit,    \* of verifications requested for an e-mail
    MaxFaults       \* bound on failed calls and interrupted runs

ASSUME LimitsAssumption == HourlyLimit \in Nat \ {0} /\ MaxFaults \in Nat

\* SEED_USERS, each called by its role.
People == {"ADMIN", "ORGANIZER", "USER"}

\* Mutant: b - a for a - b.
OrderReversed == <<"USER", "ORGANIZER", "ADMIN">>

\* ordered: the admin first, who approves the organizer.
Order == <<"ADMIN", "ORGANIZER", "USER">>

VARIABLES
    taken,      \* people whose username or phone somebody else has
    identities, \* people with a row in identities
    whole,      \* those who have a credential and a USER account as well
    role,       \* the status of the ADMIN or ORGANIZER account of each
    requests,   \* verifications requested for each in this hour
    pending,    \* people with a PENDING verification less than a minute old
    pc,         \* what the script waits for
    turn,       \* the position in Order of the one it seeds
    report,     \* results
    faults      \* faults so far

people == <<taken, identities, whole>>
codes == <<requests, pending>>
script == <<pc, turn, report>>
vars == <<people, role, codes, script, faults>>

Pc == {"down", "request", "verify", "register", "lookUp", "promote", "approve", "complete"}

TypeOK ==
    /\ taken \subseteq People
    /\ whole \subseteq identities
    /\ identities \subseteq People
    /\ role \in [People -> {"none", "PENDING", "ACTIVE"}]
    /\ requests \in [People -> 0 .. HourlyLimit]
    /\ pending \subseteq People
    /\ pc \in Pc
    /\ turn \in DOMAIN Order
    /\ report \subseteq People
    /\ faults \in 0 .. MaxFaults

-----------------------------------------------------------------------------

Person == Order[turn]

\* adminIdentityRef, or else the identityRef of the one to be approved.
Caller == IF "ADMIN" \in report THEN "ADMIN" ELSE Person

Goto(call) == pc' = call /\ UNCHANGED <<turn, report>>

\* The end of a pass of the loop, with an identityRef to report or without.
Done(found) ==
    /\ report' = report \cup found
    /\ IF turn = Len(Order)
       THEN pc' = "complete" /\ UNCHANGED turn
       ELSE pc' = "request" /\ turn' = turn + 1

Fatal == Goto("down")

Fault == faults < MaxFaults /\ faults' = faults + 1

Init ==
    /\ taken \in SUBSET People
    /\ identities = {}
    /\ whole = {}
    /\ role = [u \in People |-> "none"]
    /\ requests = [u \in People |-> 0]
    /\ pending = {}
    /\ pc = "down"
    /\ turn = 1
    /\ report = {}
    /\ faults = 0

\* npx tsx src/seed.ts
Run ==
    /\ pc \in {"down", "complete"}
    /\ pc' = "request"
    /\ turn' = 1
    /\ report' = {}
    /\ UNCHANGED <<people, role, codes, faults>>

\* Mutant: > for >= HOURLY_LIMIT.
RequestOffByOne ==
    /\ pc = "request"
    /\ IF Person \in pending \/ requests[Person] > HourlyLimit
       THEN Fatal /\ UNCHANGED codes
       ELSE /\ requests' = [requests EXCEPT ![Person] = @ + 1]
            /\ pending' = pending \cup {Person}
            /\ Goto("verify")
    /\ UNCHANGED <<people, role, faults>>

\* Step 1: RequestEmailVerification.  Its cooldown and its limit are fatal.
Request ==
    /\ pc = "request"
    /\ IF Person \in pending \/ requests[Person] >= HourlyLimit
       THEN Fatal /\ UNCHANGED codes
       ELSE /\ requests' = [requests EXCEPT ![Person] = @ + 1]
            /\ pending' = pending \cup {Person}
            /\ Goto("verify")
    /\ UNCHANGED <<people, role, faults>>

\* Step 2: VerifyEmail with the code the StubEmailSender kept.
Verify ==
    /\ pc = "verify"
    /\ pending' = pending \ {Person}
    /\ Goto("register")
    /\ UNCHANGED <<people, role, requests, faults>>

\* Mutant: an identity that is not created is compensated as well.
RegisterCompensatesAlways ==
    /\ pc = "register"
    /\ IF Person \in identities \cup taken
       THEN /\ identities' = identities \ {Person}
            /\ whole' = whole \ {Person}
            /\ Goto("lookUp")
       ELSE /\ identities' = identities \cup {Person}
            /\ whole' = whole \cup {Person}
            /\ IF Person = "USER" THEN Done({Person}) ELSE Goto("promote")
    /\ UNCHANGED <<taken, role, codes, faults>>

\* Step 3: RegisterSaga.  It refuses an e-mail, a phone or a username there already is
\* and leaves no rows, and the errors that say "already" are tolerated.
Register ==
    /\ pc = "register"
    /\ IF Person \in identities \cup taken
       THEN Goto("lookUp") /\ UNCHANGED <<identities, whole>>
       ELSE /\ identities' = identities \cup {Person}
            /\ whole' = whole \cup {Person}
            /\ IF Person = "USER" THEN Done({Person}) ELSE Goto("promote")
    /\ UNCHANGED <<taken, role, codes, faults>>

\* A call of the saga fails, a compensation among them, or the process dies: rows
\* stay behind.  Where the name is taken, its refusal is the error there is, which is
\* tolerated although the identity is not taken back.
RegisterFails ==
    /\ pc = "register"
    /\ \/ Fatal /\ UNCHANGED <<identities, whole>>
       \/ /\ Person \notin identities
          /\ identities' = identities \cup {Person}
          /\ \/ Fatal /\ UNCHANGED whole
             \/ Person \in taken /\ Goto("lookUp") /\ UNCHANGED whole
             \/ Person \notin taken /\ Fatal /\ whole' = whole \cup {Person}
    /\ Fault
    /\ UNCHANGED <<taken, role, codes>>

\* "user already exists, skipping": identityRepo.findByEmail.
LookUp ==
    /\ pc = "lookUp"
    /\ Done({Person} \cap identities)
    /\ UNCHANGED <<people, role, codes, faults>>

\* Step 4, for the admin: an ACTIVE account saved past CreateAccount; for the
\* organizer: CreateAccount, PENDING.
Promote ==
    /\ pc = "promote"
    /\ IF Person = "ADMIN"
       THEN role' = [role EXCEPT ![Person] = "ACTIVE"] /\ Done({Person})
       ELSE role' = [role EXCEPT ![Person] = "PENDING"] /\ Goto("approve")
    /\ UNCHANGED <<people, codes, faults>>

\* Both calls have a .catch that swallows whatever they reject with.
PromoteFails ==
    /\ pc = "promote"
    /\ IF Person = "ADMIN" THEN Done({Person}) ELSE Goto("approve")
    /\ Fault
    /\ UNCHANGED <<people, role, codes>>

\* Mutant: ApproveOrganizer does not look at the caller.
ApproveForAnyone ==
    /\ pc = "approve"
    /\ role' = [role EXCEPT ![Person] = IF @ = "PENDING" THEN "ACTIVE" ELSE @]
    /\ Done({Person})
    /\ UNCHANGED <<people, codes, faults>>

\* findByIdentityRefAndType, and ApproveOrganizer if it finds an account that is not
\* active; InsufficientPermissionsError is fatal.
Approve ==
    /\ pc = "approve"
    /\ \/ /\ role[Person] = "PENDING"
          /\ Caller = "ADMIN" /\ role["ADMIN"] = "ACTIVE"
          /\ role' = [role EXCEPT ![Person] = "ACTIVE"]
          /\ Done({Person})
       \/ /\ role[Person] = "PENDING"
          /\ ~(Caller = "ADMIN" /\ role["ADMIN"] = "ACTIVE")
          /\ Fatal
          /\ UNCHANGED role
       \/ /\ role[Person] = "none"
          /\ Done({Person})
          /\ UNCHANGED role
    /\ UNCHANGED <<people, codes, faults>>

\* The process dies, or an awaited call that nothing catches rejects.
Interrupted ==
    /\ pc \notin {"down", "complete"}
    /\ Fault
    /\ Fatal
    /\ UNCHANGED <<people, role, codes>>

\* Between two runs, a minute or an hour.
TimePasses ==
    /\ pc \in {"down", "complete"}
    /\ pending' = {}
    /\ requests' \in {requests, [u \in People |-> 0]}
    /\ UNCHANGED <<people, role, script, faults>>

Step == Request \/ Verify \/ Register \/ LookUp \/ Promote \/ Approve

Next == Run \/ Step \/ RegisterFails \/ PromoteFails \/ Interrupted \/ TimePasses

Spec == Init /\ [][Next]_vars

\* The operator runs it, and a run that is not interrupted goes on.
FairSpec == Spec /\ WF_vars(Run) /\ WF_vars(Step)

-----------------------------------------------------------------------------
(* Properties.                                                             *)

HasRole(u) == u \in whole /\ (u # "USER" => role[u] = "ACTIVE")

Seeded == \A u \in People : HasRole(u)

\* An active organizer was approved by an active admin, whatever was skipped, swallowed
\* or left by an earlier run.
OrganizerNeedsAdmin == role["ORGANIZER"] = "ACTIVE" => HasRole("ADMIN")

\* Another run never takes back what one has given.
RunsOnlyAdd == [][\A u \in People : HasRole(u) => HasRole(u)']_vars

\* The order of the three is one in which each finds what it needs: on a database where
\* nothing is in the way, a run with no fault gives all their roles.
SeedsTheDatabase == taken = {} /\ [](faults = 0) => <>Seeded

\* The inductive strengthening of OrganizerNeedsAdmin and RunsOnlyAdd: who has a role
\* has all else, a role is asked for once, and only what an organizer has asked for
\* awaits an approval.
SeedInv ==
    /\ TypeOK
    /\ \A u \in People : role[u] # "none" => u \in whole
    /\ pc = "promote" => Person \in whole /\ Person # "USER" /\ role[Person] = "none"
    /\ pc = "approve" => Person = "ORGANIZER" /\ Person \in whole /\ role[Person] # "ACTIVE"
    /\ OrganizerNeedsAdmin

-----------------------------------------------------------------------------
(* What the comments say and the code does not keep.                       *)

\* "Idempotency": run again after an interruption, the script makes up for what is
\* missing before it reports that it is complete.
CompleteIsSeeded == pc = "complete" /\ taken = {} => Seeded
=============================================================================
