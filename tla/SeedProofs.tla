----------------------------- MODULE SeedProofs -----------------------------
(***************************************************************************)
(* Proofs about Seed: for every hourly limit, and however often runs fail, *)
(* roles are given in order and never taken back.                          *)
(***************************************************************************)
EXTENDS Seed, TLAPS

\* Whose turn it is, and what a pass of the loop leaves.
LEMMA Turns ==
    /\ DOMAIN Order = 1 .. 3 /\ Len(Order) = 3
    /\ Order[1] = "ADMIN" /\ Order[2] = "ORGANIZER" /\ Order[3] = "USER"
BY DEF Order

LEMMA WhoseTurn ==
    ASSUME TypeOK
    PROVE  /\ Person \in People
           /\ Person = "ADMIN" <=> turn = 1
           /\ Person = "ORGANIZER" <=> turn = 2
           /\ Person = "USER" <=> turn = 3
BY Turns DEF TypeOK, Person, People

LEMMA DoneKeepsType ==
    ASSUME TypeOK, NEW found \in SUBSET People, Done(found)
    PROVE  /\ pc' \in {"complete", "request"}
           /\ turn' \in DOMAIN Order
           /\ report' \subseteq People
BY Turns DEF Done, TypeOK

LEMMA GotoKeepsType ==
    ASSUME TypeOK, NEW call \in Pc, Goto(call)
    PROVE  pc' = call /\ turn' = turn /\ report' = report
           /\ Person' = Person
BY DEF Goto, Person

-----------------------------------------------------------------------------
(* The strengthened invariant is inductive.                                *)

LEMMA SeedInitially == Init => SeedInv
BY Turns, LimitsAssumption DEF Init, SeedInv, TypeOK, People, Pc, OrganizerNeedsAdmin

\* A step that gives no role and takes nobody out of the tables keeps it, wherever it
\* goes but to the promotion or the approval.
LEMMA NothingTaken ==
    ASSUME SeedInv, TypeOK', UNCHANGED role, whole \subseteq whole',
           pc' \notin {"promote", "approve"}
    PROVE  SeedInv'
BY DEF SeedInv, OrganizerNeedsAdmin, HasRole

LEMMA RunKeepsInv == ASSUME SeedInv, Run PROVE SeedInv'
<1>1. TypeOK'
  BY Turns DEF SeedInv, Run, TypeOK, people, codes, Pc
<1>2. QED
  BY <1>1, NothingTaken DEF Run, people

LEMMA RequestKeepsInv == ASSUME SeedInv, Request PROVE SeedInv'
<1> USE DEF SeedInv
<1>1. Person \in People
  BY WhoseTurn
<1>2. TypeOK'
  <2>1. CASE Person \in pending \/ requests[Person] >= HourlyLimit
    BY <2>1 DEF Request, TypeOK, people, codes, Fatal, Goto, Pc
  <2>2. CASE ~(Person \in pending \/ requests[Person] >= HourlyLimit)
    <3>1. requests[Person] + 1 \in 0 .. HourlyLimit
      BY <1>1, <2>2, LimitsAssumption DEF TypeOK
    <3>2. QED
      BY <1>1, <2>2, <3>1 DEF Request, TypeOK, people, codes, Goto, Pc
  <2>3. QED
    BY <2>1, <2>2
<1>3. pc' \notin {"promote", "approve"} /\ UNCHANGED <<role, whole>>
  BY DEF Request, Goto, Fatal, people
<1>4. QED
  BY <1>2, <1>3, NothingTaken

LEMMA VerifyKeepsInv == ASSUME SeedInv, Verify PROVE SeedInv'
<1>1. TypeOK'
  BY DEF SeedInv, Verify, TypeOK, people, Goto, Pc
<1>2. QED
  BY <1>1, NothingTaken DEF Verify, people, Goto

\* One who is registered now had no role, for those who have one are registered.
LEMMA RegisterKeepsInv == ASSUME SeedInv, Register PROVE SeedInv'
<1> USE DEF SeedInv
<1>1. Person \in People
  BY WhoseTurn
<1>2. CASE Person \in identities \cup taken
  <2>1. TypeOK'
    BY <1>2 DEF Register, TypeOK, Goto, Pc, codes
  <2>2. QED
    BY <1>2, <2>1, NothingTaken DEF Register, Goto
<1>3. CASE Person \notin identities \cup taken /\ Person = "USER"
  <2>1. Done({Person})
    BY <1>3 DEF Register
  <2>2. TypeOK'
    BY <1>1, <1>3, <2>1, DoneKeepsType DEF Register, TypeOK, Pc, codes
  <2>3. QED
    BY <1>1, <1>3, <2>1, <2>2, DoneKeepsType, NothingTaken DEF Register
<1>4. CASE Person \notin identities \cup taken /\ Person # "USER"
  <2>1. /\ identities' = identities \cup {Person} /\ whole' = whole \cup {Person}
        /\ Goto("promote") /\ UNCHANGED <<taken, role, codes, faults>>
    BY <1>4 DEF Register
  <2>2. pc' = "promote" /\ Person' = Person /\ TypeOK'
    BY <1>1, <2>1 DEF TypeOK, Pc, codes, Goto, Person
  <2>3. role[Person] = "none"
    BY <1>1, <1>4 DEF TypeOK
  <2>4. QED
    BY <1>4, <2>1, <2>2, <2>3 DEF OrganizerNeedsAdmin, HasRole
<1>5. QED
  BY <1>2, <1>3, <1>4

LEMMA RegisterFailsKeepsInv == ASSUME SeedInv, RegisterFails PROVE SeedInv'
<1>1. Person \in People
  BY WhoseTurn DEF SeedInv
<1>2. TypeOK'
  BY <1>1, LimitsAssumption DEF SeedInv, RegisterFails, TypeOK, Fault, Fatal, Goto, Pc, codes
<1>3. QED
  BY <1>2, NothingTaken DEF RegisterFails, Fatal, Goto

LEMMA LookUpKeepsInv == ASSUME SeedInv, LookUp PROVE SeedInv'
<1>1. Person \in People
  BY WhoseTurn DEF SeedInv
<1>2. Done({Person} \cap identities) /\ {Person} \cap identities \in SUBSET People
  BY <1>1 DEF LookUp
<1>3. pc' \in {"complete", "request"} /\ TypeOK'
  BY <1>2, DoneKeepsType DEF SeedInv, LookUp, TypeOK, people, codes, Pc
<1>4. QED
  BY <1>3, NothingTaken DEF LookUp, people

\* The admin's account is active from the start; an organizer's waits.
LEMMA PromoteKeepsInv == ASSUME SeedInv, Promote PROVE SeedInv'
<1> USE DEF SeedInv
<1>1. /\ Person \in {"ADMIN", "ORGANIZER"} /\ Person \in whole /\ role[Person] = "none"
      /\ UNCHANGED <<people, codes, faults>>
  BY WhoseTurn DEF Promote, People
<1>2. CASE Person = "ADMIN"
  <2>1. Done({Person}) /\ role' = [role EXCEPT !["ADMIN"] = "ACTIVE"]
    BY <1>2 DEF Promote
  <2>2. pc' \in {"complete", "request"} /\ TypeOK'
    BY <1>2, <2>1, <1>1, DoneKeepsType DEF TypeOK, people, codes, Pc, People
  <2>3. role'["ADMIN"] = "ACTIVE" /\ \A u \in People \ {"ADMIN"} : role'[u] = role[u]
    BY <2>1 DEF TypeOK, People
  <2>4. QED
    BY <1>1, <1>2, <2>2, <2>3 DEF OrganizerNeedsAdmin, HasRole, people, People
<1>3. CASE Person = "ORGANIZER"
  <2>1. Goto("approve") /\ role' = [role EXCEPT !["ORGANIZER"] = "PENDING"]
    BY <1>3 DEF Promote
  <2>2. pc' = "approve" /\ Person' = Person /\ TypeOK'
    BY <2>1, <1>1 DEF TypeOK, people, codes, Pc, Goto, Person
  <2>3. role'["ORGANIZER"] = "PENDING" /\ \A u \in People \ {"ORGANIZER"} : role'[u] = role[u]
    BY <2>1 DEF TypeOK, People
  <2>4. QED
    BY <1>1, <1>3, <2>2, <2>3 DEF OrganizerNeedsAdmin, people, People
<1>4. QED
  BY <1>1, <1>2, <1>3

LEMMA PromoteFailsKeepsInv == ASSUME SeedInv, PromoteFails PROVE SeedInv'
<1> USE DEF SeedInv
<1>1. /\ Person \in {"ADMIN", "ORGANIZER"} /\ Person \in whole /\ role[Person] = "none"
      /\ UNCHANGED <<people, role, codes>> /\ Fault
  BY WhoseTurn DEF PromoteFails, People
<1>2. CASE Person = "ADMIN"
  <2>1. Done({Person})
    BY <1>2 DEF PromoteFails
  <2>2. pc' \in {"complete", "request"} /\ TypeOK'
    BY <1>2, <2>1, <1>1, DoneKeepsType, LimitsAssumption
    DEF TypeOK, people, codes, Pc, People, Fault
  <2>3. QED
    BY <1>1, <2>2, NothingTaken DEF people
<1>3. CASE Person = "ORGANIZER"
  <2>1. Goto("approve")
    BY <1>3 DEF PromoteFails
  <2>2. pc' = "approve" /\ Person' = Person /\ TypeOK'
    BY <2>1, <1>1, LimitsAssumption DEF TypeOK, people, codes, Pc, Goto, Person, Fault
  <2>3. QED
    BY <1>1, <1>3, <2>2 DEF OrganizerNeedsAdmin, HasRole, people
<1>4. QED
  BY <1>1, <1>2, <1>3

\* What is approved has been asked for, and the caller is an active admin.
LEMMA ApproveKeepsInv == ASSUME SeedInv, Approve PROVE SeedInv'
<1> USE DEF SeedInv
<1>1. /\ Person = "ORGANIZER" /\ Person \in People /\ Person \in whole
      /\ role[Person] # "ACTIVE" /\ UNCHANGED <<people, codes, faults>>
  BY WhoseTurn DEF Approve
<1>2. CASE UNCHANGED role /\ (Fatal \/ Done({Person}))
  <2>1. pc' \notin {"promote", "approve"} /\ TypeOK'
    BY <1>1, <1>2, DoneKeepsType DEF TypeOK, people, codes, Pc, Fatal, Goto
  <2>2. QED
    BY <1>1, <1>2, <2>1, NothingTaken DEF people
<1>3. CASE /\ role["ADMIN"] = "ACTIVE" /\ role' = [role EXCEPT ![Person] = "ACTIVE"]
           /\ Done({Person})
  <2>1. pc' \in {"complete", "request"} /\ TypeOK'
    BY <1>1, <1>3, DoneKeepsType DEF TypeOK, people, codes, Pc
  <2>2. role'["ADMIN"] = "ACTIVE" /\ \A u \in People \ {"ORGANIZER"} : role'[u] = role[u]
    BY <1>1, <1>3 DEF TypeOK, People
  <2>3. "ADMIN" \in whole
    BY <1>3 DEF People
  <2>4. QED
    BY <1>1, <2>1, <2>2, <2>3 DEF OrganizerNeedsAdmin, HasRole, people
<1>4. QED
  BY <1>2, <1>3 DEF Approve

LEMMA InterruptedKeepsInv == ASSUME SeedInv, Interrupted PROVE SeedInv'
<1>1. TypeOK'
  BY LimitsAssumption DEF SeedInv, Interrupted, TypeOK, Fault, Fatal, Goto, Pc, people, codes
<1>2. QED
  BY <1>1, NothingTaken DEF Interrupted, Fatal, Goto, people

LEMMA TimePassesKeepsInv == ASSUME SeedInv, TimePasses PROVE SeedInv'
<1>1. TypeOK'
  BY LimitsAssumption DEF SeedInv, TimePasses, TypeOK, people, script
<1>2. QED
  BY <1>1, NothingTaken DEF TimePasses, people, script

LEMMA SeedStep == ASSUME SeedInv, [Next]_vars PROVE SeedInv'
<1>1. CASE UNCHANGED vars
  BY <1>1 DEF vars, people, codes, script, SeedInv, TypeOK, OrganizerNeedsAdmin, HasRole, Person
<1>2. QED
  BY <1>1, RunKeepsInv, RequestKeepsInv, VerifyKeepsInv, RegisterKeepsInv,
     RegisterFailsKeepsInv, LookUpKeepsInv, PromoteKeepsInv, PromoteFailsKeepsInv,
     ApproveKeepsInv, InterruptedKeepsInv, TimePassesKeepsInv DEF Next, Step

LEMMA SeedInvariant == Spec => []SeedInv
BY SeedInitially, SeedStep, PTL DEF Spec

-----------------------------------------------------------------------------
(* Theorems.                                                               *)

\* Every state of the script and of the tables it writes has its type: no run asks
\* for more codes than an hour allows.
THEOREM SeedTypeCorrect == Spec => []TypeOK
<1>1. SeedInv => TypeOK
  BY DEF SeedInv
<1>2. QED
  BY <1>1, SeedInvariant, PTL

\* However many runs were interrupted, and whatever they skipped or swallowed, an
\* active organizer was approved by an active admin.
THEOREM OrganizersAreApproved == Spec => []OrganizerNeedsAdmin
<1>1. SeedInv => OrganizerNeedsAdmin
  BY DEF SeedInv
<1>2. QED
  BY <1>1, SeedInvariant, PTL

\* No step of a run takes back what an earlier one has given: a role is asked for only
\* of somebody who was registered in this pass, who had none.
LEMMA StepOnlyAdds ==
    ASSUME SeedInv, [Next]_vars, NEW u \in People, HasRole(u)
    PROVE  HasRole(u)'
<1>1. CASE UNCHANGED <<whole, role>>
  BY <1>1 DEF HasRole
<1>2. CASE Register \/ RegisterFails
  BY <1>2 DEF Register, RegisterFails, HasRole
<1>3. CASE Promote
  <2>1. role[Person] = "none" /\ Person # "USER"
    BY <1>3 DEF SeedInv, Promote
  <2>2. u # Person => role'[u] = role[u]
    BY <1>3 DEF Promote, SeedInv, TypeOK
  <2>3. QED
    BY <1>3, <2>1, <2>2 DEF Promote, HasRole, people
<1>4. CASE Approve
  <2>1. role'[u] = role[u] \/ role'[u] = "ACTIVE"
    BY <1>4 DEF Approve, SeedInv, TypeOK
  <2>2. QED
    BY <1>4, <2>1 DEF Approve, HasRole, people
<1>5. QED
  BY <1>1, <1>2, <1>3, <1>4
  DEF Next, Step, Run, Request, Verify, LookUp, PromoteFails, Interrupted, TimePasses,
      vars, people

\* What one run has given, no other run takes back.
THEOREM RunsTakeNothingBack == Spec => RunsOnlyAdd
<1>1. SeedInv /\ [Next]_vars => [\A u \in People : HasRole(u) => HasRole(u)']_vars
  BY StepOnlyAdds
<1>2. QED
  BY <1>1, SeedInvariant, PTL DEF Spec, RunsOnlyAdd
=============================================================================
