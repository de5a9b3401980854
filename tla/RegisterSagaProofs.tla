------------------------- MODULE RegisterSagaProofs -------------------------
(***************************************************************************)
(* Proofs about RegisterSaga.  The invariant is built in layers: the types *)
(* and the calls of each handler; what the tables promise; the stages of a *)
(* saga; the webhooks.                                                     *)
(***************************************************************************)
EXTENDS RegisterSaga, FiniteSetTheorems, SequenceTheorems, TLAPS

-----------------------------------------------------------------------------
(* What a step does to the tables and to the handlers.                     *)

\* A form that is filled in, and the rows made of it.
LEMMA FormFilled ==
    ASSUME NEW i \in Nat, NEW e \in Emails, NEW h \in Phones, NEW u \in Usernames
    PROVE  /\ Filled(i, e, h, u) \in Form
           /\ Filled(i, e, h, u).id = i /\ Filled(i, e, h, u).email = e
           /\ Filled(i, e, h, u).phone = h /\ Filled(i, e, h, u).username = u
BY DEF Filled, Form

LEMMA FormType ==
    /\ NoForm \in Form /\ NoForm.id = 0
    /\ NoForm.email \in Emails /\ NoForm.phone \in Phones /\ NoForm.username \in Usernames
    /\ Input \subseteq Form
    /\ \A f \in Form : /\ IdentityRow(f).id = f.id /\ IdentityRow(f).email = f.email
                       /\ IdentityRow(f).phone = f.phone
                       /\ CredentialRow(f).id = f.id /\ CredentialRow(f).username = f.username
<1>1. /\ (CHOOSE e \in Emails : TRUE) \in Emails /\ (CHOOSE h \in Phones : TRUE) \in Phones
      /\ (CHOOSE u \in Usernames : TRUE) \in Usernames
  BY DataAssumption
<1>2. QED
  BY <1>1, FormFilled DEF NoForm, Form, Input, IdentityRow, CredentialRow

\* A step changes at most one table, in one of these ways.
Leaves(p) == \E call, f : call # pc[p] /\ Await(p, call, f)

IdentitySaved ==
    \E p \in Handlers :
        /\ pc[p] \in {"saveIdentity", "saveProfile"}
        /\ ~IdentityRefused(form[p]) /\ SaveIdentity(form[p]) /\ Leaves(p)
        /\ pc[p] = "saveProfile" => Upsert(form[p].id, identities)
        /\ UNCHANGED <<credentials, accounts, sessions>>

CredentialSaved ==
    \E p \in Handlers :
        /\ pc[p] \in {"saveCredential", "saveName"}
        /\ ~CredentialRefused(form[p]) /\ SaveCredential(form[p]) /\ Leaves(p)
        /\ pc[p] = "saveName" => Upsert(form[p].id, credentials)
        /\ UNCHANGED <<identities, accounts, sessions>>

AccountSaved ==
    \E p \in Sagas :
        /\ pc[p] = "saveAccount" /\ form[p].id \in Ids(identities)
        /\ accounts' = accounts \cup {form[p].id}
        /\ Then(p, "signIn") \/ (Then(p, "dropCredential") /\ form[p].id \in lost')
        /\ UNCHANGED <<identities, credentials, sessions>>

RowsDropped == \E p \in Sagas : DropIdentity(p) \/ DropCredential(p)

SessionsChanged ==
    /\ sessions' \subseteq sessions \cup Ids(credentials)
    /\ UNCHANGED <<identities, credentials, accounts>>

TableStep == IdentitySaved \/ CredentialSaved \/ AccountSaved \/ RowsDropped \/ SessionsChanged

LEMMA TableSteps == [Next]_vars => TableStep
<1> SUFFICES ASSUME [Next]_vars PROVE TableStep
  OBVIOUS
<1>1. CASE UNCHANGED vars
  BY <1>1 DEF vars, tables, TableStep, SessionsChanged
<1>2. ASSUME NEW p \in Handlers, Reject(p) \/ CompensationFails(p) \/ Crash(p) PROVE TableStep
  BY <1>2 DEF Reject, CompensationFails, Crash, tables, TableStep, SessionsChanged
<1>3. ASSUME NEW p \in Sagas,
             \/ \E f \in Input : Register(p, f)
             \/ FindPhone(p) \/ FindUsername(p) \/ FindAccount(p)
      PROVE  TableStep
  BY <1>3 DEF Register, FindPhone, FindUsername, FindAccount, tables, TableStep, SessionsChanged
<1>4. ASSUME NEW p \in Sagas, InsertIdentity(p) PROVE TableStep
  BY <1>4 DEF InsertIdentity, TableStep, SessionsChanged, IdentitySaved, Handlers, Leaves, Then
<1>5. ASSUME NEW p \in Sagas, InsertCredential(p) PROVE TableStep
  BY <1>5 DEF InsertCredential, TableStep, SessionsChanged, CredentialSaved, Handlers, Leaves, Then
<1>6. ASSUME NEW p \in Sagas, InsertAccount(p) PROVE TableStep
  BY <1>6 DEF InsertAccount, TableStep, SessionsChanged, AccountSaved
<1>7. ASSUME NEW p \in Sagas, SagaSignIn(p) PROVE TableStep
  BY <1>7 DEF SagaSignIn, TableStep, SessionsChanged
<1>8. ASSUME NEW p \in Sagas, DropCredential(p) \/ DropIdentity(p) PROVE TableStep
  BY <1>8 DEF TableStep, RowsDropped
<1>9. ASSUME NEW p \in Sagas, AnswerLost(p) PROVE TableStep
  BY <1>9 DEF AnswerLost, TableStep, IdentitySaved, CredentialSaved, AccountSaved, Handlers,
              SagaFault, Catch, AfterError, Leaves, Return, Then
<1>10. ASSUME NEW p \in SignIns, (\E i \in Ids(credentials) : SignIn(p, i)) \/ OpenSession(p)
       PROVE  TableStep
  <2>1. CASE \E i \in Ids(credentials) : SignIn(p, i)
    BY <2>1 DEF SignIn, tables, TableStep, SessionsChanged
  <2>2. CASE OpenSession(p)
    BY <2>2 DEF OpenSession, TableStep, SessionsChanged
  <2>3. QED
    BY <1>10, <2>1, <2>2
<1>11. ASSUME NEW p \in Editors,
              (\E r \in identities, h \in Phones : UpdateProfile(p, r, h)) \/ CheckPhone(p)
       PROVE  TableStep
  BY <1>11 DEF UpdateProfile, CheckPhone, tables, TableStep, SessionsChanged
<1>12. ASSUME NEW p \in Editors, SaveProfile(p) PROVE TableStep
  BY <1>12 DEF SaveProfile, TableStep, SessionsChanged, IdentitySaved, Handlers, Leaves, Return
<1>13. ASSUME NEW p \in Renamers,
              (\E r \in credentials, u \in Usernames : ChangeUsername(p, r, u)) \/ CheckName(p)
       PROVE  TableStep
  BY <1>13 DEF ChangeUsername, CheckName, tables, TableStep, SessionsChanged
<1>14. ASSUME NEW p \in Renamers, SaveName(p) PROVE TableStep
  BY <1>14 DEF SaveName, TableStep, SessionsChanged, CredentialSaved, Handlers, Leaves, Return
<1>15. ASSUME NEW i \in sessions, SignOut(i) PROVE TableStep
  BY <1>15 DEF SignOut, TableStep, SessionsChanged
<1>16. ASSUME NEW i \in DOMAIN sending,
              WebhookAnswered(i) \/ WebhookFails(i) \/ WebhookAnswerLost(i)
       PROVE  TableStep
  BY <1>16 DEF WebhookAnswered, WebhookFails, WebhookAnswerLost, tables, TableStep, SessionsChanged
<1>17. QED
  BY <1>1, <1>2, <1>3, <1>4, <1>5, <1>6, <1>7, <1>8, <1>9, <1>10, <1>11, <1>12, <1>13, <1>14,
     <1>15, <1>16
     DEF Next, SagaStep, SagaFailure, Handlers

\* Each handler is of one kind.
LEMMA CallsOf ==
    /\ \A p \in Sagas : /\ p \in Handlers /\ p \notin SignIns \cup Editors \cup Renamers
                        /\ Calls(p) = {"idle", "findPhone", "saveIdentity", "findUsername",
                                       "saveCredential", "findAccount", "saveAccount", "signIn",
                                       "dropCredential", "dropIdentity"}
    /\ \A p \in SignIns : /\ p \in Handlers /\ p \notin Sagas
                          /\ Calls(p) = {"idle", "openSession"}
    /\ \A p \in Editors : /\ p \in Handlers /\ p \notin Sagas
                          /\ Calls(p) = {"idle", "checkPhone", "saveProfile"}
    /\ \A p \in Renamers : /\ p \in Handlers /\ p \notin Sagas
                           /\ Calls(p) = {"idle", "checkName", "saveName"}
    /\ \A p \in Handlers : Calls(p) \subseteq Pc
<1>1. \A p \in Sagas : p \in Handlers /\ p \notin SignIns \cup Editors \cup Renamers
  BY SlotsAssumption DEF Handlers
<1>2. \A p \in SignIns : p \in Handlers /\ p \notin Sagas /\ p \notin Editors \cup Renamers
  BY SlotsAssumption DEF Handlers
<1>3. \A p \in Editors : p \in Handlers /\ p \notin Sagas \cup SignIns /\ p \notin Renamers
  BY SlotsAssumption DEF Handlers
<1>4. \A p \in Renamers : p \in Handlers /\ p \notin Sagas \cup SignIns /\ p \notin Editors
  BY SlotsAssumption DEF Handlers
<1>5. QED
  BY <1>1, <1>2, <1>3, <1>4 DEF Calls, Handlers, Pc

\* ... and at most one handler: it returns, starts, generates its id or goes on.
WentOn(p, f) == pc[p] \notin {"idle", "findPhone"} /\ f = form[p]

StartsWith(p, f) ==
    \/ p \in SignIns
    \/ p \in Editors /\ \E r \in identities : r.id = f.id /\ r.email = f.email
    \/ p \in Renamers

HandlerStep ==
    \/ UNCHANGED <<made, pc, form>>
    \/ \E p \in Handlers : \E call \in Calls(p), f \in Form :
        /\ Await(p, call, f)
        /\ \/ made' = made /\ call = "idle"
           \/ made' = made /\ call = "findPhone" /\ f.id = 0 /\ pc[p] = "idle"
           \/ /\ made' = made + 1 /\ call = "saveIdentity" /\ f.id = made + 1
              /\ pc[p] = "findPhone" /\ p \in Sagas
           \/ /\ made' = made /\ call \notin {"idle", "findPhone"} /\ f.id \in 1 .. made
              /\ WentOn(p, f) \/ StartsWith(p, f)

LEMMA ReturnStep == ASSUME NEW p \in Handlers, Return(p), made' = made PROVE HandlerStep
<1>1. "idle" \in Calls(p)
  BY CallsOf DEF Handlers
<1>2. QED
  BY <1>1, FormType DEF Return, HandlerStep

LEMMA ThenStep ==
    ASSUME TypeOK, HandlersInv, NEW p \in Handlers, NEW call \in Calls(p) \ {"idle", "findPhone"},
           pc[p] \notin {"idle", "findPhone"}, Then(p, call), made' = made
    PROVE  HandlerStep
<1>1. form[p] \in Form /\ form[p].id \in 1 .. made
  BY DEF TypeOK, HandlersInv
<1>2. QED
  BY <1>1 DEF Then, HandlerStep, WentOn

LEMMA StartStep ==
    ASSUME NEW p \in SignIns \cup Editors \cup Renamers, NEW call \in Calls(p) \ {"idle"},
           NEW f \in Form, f.id \in 1 .. made, StartsWith(p, f), Await(p, call, f), made' = made
    PROVE  HandlerStep
<1>1. p \in Handlers /\ p \notin Sagas /\ call \notin {"idle", "findPhone"}
  BY CallsOf
<1>2. QED
  BY <1>1 DEF HandlerStep

LEMMA CatchStep ==
    ASSUME TypeOK, HandlersInv, NEW p \in Handlers, Catch(p), pc[p] # "idle", made' = made
    PROVE  HandlerStep
<1>1. CASE AfterError(pc[p]) = "idle"
  BY <1>1, ReturnStep DEF Catch
<1>2. CASE AfterError(pc[p]) # "idle"
  <2>1. /\ AfterError(pc[p]) \in {"dropIdentity", "dropCredential"}
        /\ pc[p] \in {"findUsername", "saveCredential", "findAccount", "saveAccount",
                      "dropCredential"}
    BY <1>2 DEF AfterError
  <2>2. p \in Sagas
    BY <2>1, CallsOf DEF HandlersInv, Handlers
  <2>3. AfterError(pc[p]) \in Calls(p) \ {"idle", "findPhone"}
    BY <2>1, <2>2, CallsOf
  <2>4. Then(p, AfterError(pc[p]))
    BY <1>2 DEF Catch
  <2>5. QED
    BY <2>1, <2>3, <2>4, ThenStep
<1>3. QED
  BY <1>1, <1>2

LEMMA HandlerSteps == TypeOK /\ HandlersInv /\ [Next]_vars => HandlerStep
<1> SUFFICES ASSUME TypeOK, HandlersInv, [Next]_vars PROVE HandlerStep
  OBVIOUS
<1>1. CASE UNCHANGED vars
  BY <1>1 DEF vars, HandlerStep
<1>2. ASSUME NEW p \in Handlers, Reject(p) \/ CompensationFails(p) \/ AnswerLost(p)
      PROVE  HandlerStep
  BY <1>2, CatchStep DEF Reject, CompensationFails, AnswerLost
<1>3. ASSUME NEW p \in Handlers,
             \/ Crash(p) \/ SagaSignIn(p) \/ DropIdentity(p)
             \/ OpenSession(p) \/ SaveProfile(p) \/ SaveName(p)
      PROVE  HandlerStep
  BY <1>3, ReturnStep
     DEF Crash, SagaSignIn, DropIdentity, OpenSession, SaveProfile, SaveName
<1>4. ASSUME NEW p \in Sagas, NEW f \in Input, Register(p, f) PROVE HandlerStep
  <2>1. p \in Handlers /\ "findPhone" \in Calls(p) /\ f \in Form /\ f.id = 0
    BY CallsOf, FormType DEF Input
  <2>2. QED
    BY <1>4, <2>1 DEF Register, HandlerStep
<1>5. ASSUME NEW p \in Sagas, FindPhone(p) PROVE HandlerStep
  <2>1. p \in Handlers /\ "saveIdentity" \in Calls(p)
    BY CallsOf
  <2>2. CASE Return(p) /\ made' = made
    BY <2>1, <2>2, ReturnStep
  <2>3. CASE Await(p, "saveIdentity", [form[p] EXCEPT !.id = made + 1]) /\ made' = made + 1
    <3>1. form[p] \in Form /\ made + 1 \in Nat
      BY <2>1 DEF TypeOK
    <3>2. /\ [form[p] EXCEPT !.id = made + 1] \in Form
          /\ [form[p] EXCEPT !.id = made + 1].id = made + 1
      BY <3>1 DEF Form
    <3>3. QED
      BY <1>5, <2>1, <2>3, <3>2 DEF FindPhone, HandlerStep
  <2>4. QED
    BY <1>5, <2>2, <2>3 DEF FindPhone
<1>6. ASSUME NEW p \in Sagas, InsertIdentity(p) PROVE HandlerStep
  BY <1>6, CallsOf, ReturnStep, ThenStep DEF InsertIdentity
<1>7. ASSUME NEW p \in Sagas,
             \/ FindUsername(p) \/ InsertCredential(p) \/ FindAccount(p) \/ InsertAccount(p)
             \/ DropCredential(p)
      PROVE  HandlerStep
  BY <1>7, CallsOf, ThenStep
     DEF FindUsername, InsertCredential, FindAccount, InsertAccount, DropCredential
<1>8. ASSUME NEW p \in SignIns, NEW i \in Ids(credentials), SignIn(p, i) PROVE HandlerStep
  <2> DEFINE f == Filled(i, NoForm.email, NoForm.phone, NoForm.username)
  <2>1. i \in 1 .. made /\ i \in Nat
    BY DEF TypeOK, Ids
  <2>2. f \in Form /\ f.id \in 1 .. made
    BY <2>1, FormFilled, FormType
  <2>3. QED
    BY <1>8, <2>2, CallsOf, StartStep DEF SignIn, StartsWith
<1>9. ASSUME NEW p \in Editors, NEW r \in identities, NEW h \in Phones, UpdateProfile(p, r, h)
      PROVE  HandlerStep
  <2> DEFINE f == Filled(r.id, r.email, h, NoForm.username)
  <2>1. r.id \in 1 .. made /\ r.id \in Nat /\ r.email \in Emails
    BY DEF TypeOK
  <2>2. f \in Form /\ f.id = r.id /\ f.email = r.email
    BY <2>1, FormFilled, FormType
  <2>3. StartsWith(p, f)
    BY <1>9, <2>2 DEF UpdateProfile, StartsWith
  <2>4. QED
    BY <1>9, <2>1, <2>2, <2>3, CallsOf, StartStep DEF UpdateProfile
<1>10. ASSUME NEW p \in Renamers, NEW r \in credentials, NEW u \in Usernames,
              ChangeUsername(p, r, u)
       PROVE  HandlerStep
  <2> DEFINE f == Filled(r.id, NoForm.email, NoForm.phone, u)
  <2>1. r.id \in 1 .. made /\ r.id \in Nat
    BY DEF TypeOK
  <2>2. f \in Form /\ f.id = r.id
    BY <2>1, FormFilled, FormType
  <2>3. StartsWith(p, f)
    BY <1>10, <2>2 DEF ChangeUsername, StartsWith
  <2>4. QED
    BY <1>10, <2>1, <2>2, <2>3, CallsOf, StartStep DEF ChangeUsername
<1>11. /\ \A p \in Editors : CheckPhone(p) => HandlerStep
       /\ \A p \in Renamers : CheckName(p) => HandlerStep
  BY CallsOf, ThenStep DEF CheckPhone, CheckName
<1>12. ASSUME NEW i, SignOut(i) PROVE HandlerStep
  BY <1>12 DEF SignOut, HandlerStep
<1>13. ASSUME NEW i, WebhookAnswered(i) \/ WebhookFails(i) \/ WebhookAnswerLost(i)
       PROVE  HandlerStep
  BY <1>13 DEF WebhookAnswered, WebhookFails, WebhookAnswerLost, HandlerStep
<1>14. ASSUME NEW p \in Sagas, (\E f \in Input : Register(p, f)) \/ SagaStep(p) \/ SagaFailure(p)
       PROVE  HandlerStep
  BY <1>2, <1>3, <1>4, <1>5, <1>6, <1>7, <1>14, CallsOf DEF SagaStep, SagaFailure
<1>15. ASSUME NEW p \in SignIns,
              (\E i \in Ids(credentials) : SignIn(p, i)) \/ OpenSession(p) \/ Reject(p)
       PROVE  HandlerStep
  BY <1>2, <1>3, <1>8, <1>15, CallsOf
<1>16. ASSUME NEW p \in Editors,
              \/ \E r \in identities, h \in Phones : UpdateProfile(p, r, h)
              \/ CheckPhone(p) \/ SaveProfile(p) \/ Reject(p)
       PROVE  HandlerStep
  <2>1. p \in Handlers
    BY CallsOf
  <2>2. CASE \E r \in identities, h \in Phones : UpdateProfile(p, r, h)
    <3>1. PICK r \in identities, h \in Phones : UpdateProfile(p, r, h)
      BY <2>2
    <3>2. QED
      BY <1>9, <3>1
  <2>3. CASE CheckPhone(p)
    BY <1>11, <2>3
  <2>4. CASE SaveProfile(p) \/ Reject(p)
    BY <1>2, <1>3, <2>1, <2>4
  <2>5. QED
    BY <1>16, <2>2, <2>3, <2>4
<1>17. ASSUME NEW p \in Renamers,
              \/ \E r \in credentials, u \in Usernames : ChangeUsername(p, r, u)
              \/ CheckName(p) \/ SaveName(p) \/ Reject(p)
       PROVE  HandlerStep
  BY <1>2, <1>3, <1>10, <1>11, <1>17, CallsOf
<1>18. CASE Next
  <2>1. CASE \E p \in Sagas : (\E f \in Input : Register(p, f)) \/ SagaStep(p) \/ SagaFailure(p)
    BY <1>14, <2>1
  <2>2. CASE \E p \in SignIns :
               (\E i \in Ids(credentials) : SignIn(p, i)) \/ OpenSession(p) \/ Reject(p)
    BY <1>15, <2>2
  <2>3. CASE \E p \in Editors :
               \/ \E r \in identities, h \in Phones : UpdateProfile(p, r, h)
               \/ CheckPhone(p) \/ SaveProfile(p) \/ Reject(p)
    BY <1>16, <2>3
  <2>4. CASE \E p \in Renamers :
               \/ \E r \in credentials, u \in Usernames : ChangeUsername(p, r, u)
               \/ CheckName(p) \/ SaveName(p) \/ Reject(p)
    BY <1>17, <2>4
  <2>5. QED
    BY <1>12, <1>13, <1>18, <2>1, <2>2, <2>3, <2>4 DEF Next
<1>19. QED
  BY <1>1, <1>18

-----------------------------------------------------------------------------
(* The first layer: types, and the calls of each kind of handler.          *)

LEMMA Awaited ==
    ASSUME TypeOK, NEW p \in Handlers, NEW call \in Pc, NEW f \in Form, Await(p, call, f)
    PROVE  /\ pc' \in [Handlers -> Pc] /\ form' \in [Handlers -> Form]
           /\ pc'[p] = call /\ form'[p] = f
           /\ \A q \in Handlers \ {p} : pc'[q] = pc[q] /\ form'[q] = form[q]
BY DEF Await, TypeOK

LEMMA HandlersKept ==
    ASSUME TypeOK, HandlersInv, HandlerStep
    PROVE  /\ pc' \in [Handlers -> Pc] /\ form' \in [Handlers -> Form]
           /\ made' \in {made, made + 1} /\ HandlersInv'
<1>1. made \in Nat /\ pc \in [Handlers -> Pc] /\ form \in [Handlers -> Form]
  BY DEF TypeOK
<1>2. CASE UNCHANGED <<made, pc, form>>
  BY <1>1, <1>2 DEF HandlersInv
<1>3. ASSUME NEW p \in Handlers, NEW call \in Calls(p), NEW f \in Form, Await(p, call, f),
             call = "findPhone" => f.id = 0,
             call \notin {"idle", "findPhone"} => f.id \in 1 .. made',
             made' \in {made, made + 1}
      PROVE  /\ pc' \in [Handlers -> Pc] /\ form' \in [Handlers -> Form]
             /\ made' \in {made, made + 1} /\ HandlersInv'
  <2>1. call \in Pc
    BY CallsOf
  <2>2. /\ pc' \in [Handlers -> Pc] /\ form' \in [Handlers -> Form]
        /\ pc'[p] = call /\ form'[p] = f
        /\ \A q \in Handlers \ {p} : pc'[q] = pc[q] /\ form'[q] = form[q]
    BY <1>3, <2>1, Awaited
  <2>3. \A i \in 1 .. made : i \in 1 .. made'
    BY <1>1, <1>3
  <2>4. HandlersInv'
    BY <1>3, <2>2, <2>3 DEF HandlersInv
  <2>5. QED
    BY <1>3, <2>2, <2>4
<1>4. ASSUME NEW p \in Handlers, NEW call \in Calls(p), NEW f \in Form, Await(p, call, f),
             \/ made' = made /\ call = "idle"
             \/ made' = made /\ call = "findPhone" /\ f.id = 0
             \/ made' = made + 1 /\ call = "saveIdentity" /\ f.id = made + 1
             \/ made' = made /\ call \notin {"idle", "findPhone"} /\ f.id \in 1 .. made
      PROVE  /\ call = "findPhone" => f.id = 0
             /\ call \notin {"idle", "findPhone"} => f.id \in 1 .. made'
             /\ made' \in {made, made + 1}
  BY <1>1, <1>4
<1>5. QED
  BY <1>2, <1>3, <1>4 DEF HandlerStep

\* What a step does to the rest: the webhooks, the tokens and the mishaps.
HookStep ==
    \/ UNCHANGED <<made, hooks>>
    \/ made' = made + 1 /\ sending' = Append(sending, 0) /\ received' = Append(received, 0)
    \/ \E p \in Sagas : SagaSignIn(p)
    \/ \E i \in DOMAIN sending : WebhookAnswered(i) \/ WebhookFails(i) \/ WebhookAnswerLost(i)

FaultStep ==
    \/ faults' = faults /\ lost' = lost
    \/ /\ faults < MaxFaults /\ faults' = faults + 1
       /\ \/ lost' = lost
          \/ \E p \in Sagas : pc[p] # "idle" /\ lost' = lost \cup {form[p].id}

ReviveStep ==
    \/ revived' = revived
    \/ \E p \in Handlers :
         pc[p] \in {"saveProfile", "saveName"} /\ revived' = revived \cup {form[p].id}

OtherStep ==
    /\ HookStep
    /\ tokens \subseteq tokens' /\ tokens' \subseteq tokens \cup Ids(credentials)
    /\ \/ tokens' \cup sessions' \subseteq tokens \cup sessions
       \/ (\E p \in Sagas : SagaSignIn(p)) \/ (\E p \in SignIns : OpenSession(p))
    /\ FaultStep
    /\ ReviveStep

LEMMA OtherSteps == [Next]_vars => OtherStep
<1> SUFFICES ASSUME [Next]_vars PROVE OtherStep
  OBVIOUS
<1> USE DEF OtherStep, HookStep, FaultStep, ReviveStep, hooks, tables, mishaps
<1>1. CASE UNCHANGED vars
  BY <1>1 DEF vars
<1>2. /\ \A p : Reject(p) => OtherStep
      /\ \A p \in Sagas : FindUsername(p) \/ FindAccount(p) \/ SagaFailure(p) => OtherStep
  <2>1. ASSUME NEW p, Reject(p) \/ FindUsername(p) \/ FindAccount(p) PROVE OtherStep
    BY <2>1 DEF Reject, FindUsername, FindAccount
  <2>2. ASSUME NEW p \in Sagas, CompensationFails(p) \/ AnswerLost(p) \/ Crash(p)
        PROVE  OtherStep
    BY <2>2 DEF CompensationFails, AnswerLost, Crash, SagaFault, Fault
  <2>3. QED
    BY <2>1, <2>2 DEF SagaFailure
<1>3. ASSUME NEW p,
             InsertIdentity(p) \/ InsertCredential(p) \/ InsertAccount(p)
             \/ DropCredential(p) \/ DropIdentity(p)
      PROVE  OtherStep
  BY <1>3 DEF InsertIdentity, InsertCredential, InsertAccount, DropCredential, DropIdentity,
              hooks, tables, mishaps,
              OtherStep, HookStep, FaultStep, ReviveStep
<1>4. ASSUME NEW p, FindPhone(p) PROVE OtherStep
  BY <1>4 DEF FindPhone
<1>5. ASSUME NEW p \in Sagas, SagaSignIn(p) PROVE OtherStep
  BY <1>5 DEF SagaSignIn
<1>6. ASSUME NEW p, NEW f, Register(p, f) PROVE OtherStep
  BY <1>6 DEF Register
<1>7. ASSUME NEW p, NEW i, SignIn(p, i) PROVE OtherStep
  BY <1>7 DEF SignIn
<1>8. ASSUME NEW p \in SignIns, OpenSession(p) PROVE OtherStep
  BY <1>8 DEF OpenSession
<1>9. ASSUME NEW p, NEW r, NEW h, UpdateProfile(p, r, h) PROVE OtherStep
  BY <1>9 DEF UpdateProfile
<1>10. ASSUME NEW p, NEW r, NEW u, ChangeUsername(p, r, u) PROVE OtherStep
  BY <1>10 DEF ChangeUsername
<1>11. ASSUME NEW p \in Handlers, CheckPhone(p) \/ SaveProfile(p) \/ CheckName(p) \/ SaveName(p)
       PROVE  OtherStep
  <2>1. CASE CheckPhone(p) \/ CheckName(p)
    BY <2>1 DEF CheckPhone, CheckName
  <2>2. CASE SaveProfile(p)
    BY <2>2 DEF SaveProfile, Upsert
  <2>3. CASE SaveName(p)
    BY <2>3 DEF SaveName, Upsert
  <2>4. QED
    BY <1>11, <2>1, <2>2, <2>3
<1>12. ASSUME NEW i, SignOut(i) PROVE OtherStep
  BY <1>12 DEF SignOut
<1>13. ASSUME NEW i \in DOMAIN sending,
              WebhookAnswered(i) \/ WebhookFails(i) \/ WebhookAnswerLost(i)
       PROVE  OtherStep
  BY <1>13 DEF WebhookAnswered, WebhookFails, WebhookAnswerLost, Fault
<1>14. CASE \E p \in Sagas : (\E f \in Input : Register(p, f)) \/ SagaStep(p) \/ SagaFailure(p)
  BY <1>2, <1>3, <1>4, <1>5, <1>6, <1>14 DEF SagaStep, SagaFailure
<1>15. CASE \E p \in SignIns :
              (\E i \in Ids(credentials) : SignIn(p, i)) \/ OpenSession(p) \/ Reject(p)
  BY <1>2, <1>7, <1>8, <1>15
<1>16. CASE \E p \in Editors :
              \/ \E r \in identities, h \in Phones : UpdateProfile(p, r, h)
              \/ CheckPhone(p) \/ SaveProfile(p) \/ Reject(p)
  BY <1>2, <1>9, <1>11, <1>16, CallsOf
<1>17. CASE \E p \in Renamers :
              \/ \E r \in credentials, u \in Usernames : ChangeUsername(p, r, u)
              \/ CheckName(p) \/ SaveName(p) \/ Reject(p)
  BY <1>2, <1>10, <1>11, <1>17, CallsOf
<1>18. QED
  BY <1>1, <1>12, <1>13, <1>14, <1>15, <1>16, <1>17 DEF Next

\* The ids of the rows after a write.
LEMMA SavedIds ==
    ASSUME NEW f \in Form
    PROVE  /\ SaveIdentity(f) => Ids(identities') = Ids(identities) \cup {f.id}
           /\ SaveCredential(f) => Ids(credentials') = Ids(credentials) \cup {f.id}
BY FormType DEF Ids, SaveIdentity, SaveCredential

LEMMA DroppedIds ==
    ASSUME NEW p \in Sagas
    PROVE  /\ DropIdentity(p) =>
                \A i : i \in Ids(identities') <=>
                       /\ i \in Ids(identities)
                       /\ i = form[p].id => i \in Ids(credentials) \cup accounts
           /\ DropCredential(p) =>
                \A i : i \in Ids(credentials') <=>
                       i \in Ids(credentials) /\ (i = form[p].id => i \in sessions)
BY DEF Ids, DropIdentity, DropCredential

LEMMA TablesTyped ==
    ASSUME TypeOK, HandlersInv, TableStep, OtherStep, made' \in {made, made + 1}
    PROVE  /\ identities' \subseteq [id: 1 .. made', email: Emails, phone: Phones]
           /\ credentials' \subseteq [id: 1 .. made', username: Usernames]
           /\ {accounts', sessions', tokens'} \subseteq SUBSET (1 .. made')
<1>1. /\ made \in Nat /\ identities \subseteq [id: 1 .. made, email: Emails, phone: Phones]
      /\ credentials \subseteq [id: 1 .. made, username: Usernames]
      /\ accounts \subseteq 1 .. made /\ sessions \subseteq 1 .. made /\ tokens \subseteq 1 .. made
  BY DEF TypeOK
<1>2. 1 .. made \subseteq 1 .. made'
  BY <1>1
<1>3. Ids(identities) \subseteq 1 .. made /\ Ids(credentials) \subseteq 1 .. made
  BY <1>1 DEF Ids
<1>4. tokens' \subseteq 1 .. made'
  BY <1>1, <1>2, <1>3 DEF OtherStep
<1>5. \A p \in Handlers :
        /\ form[p] \in Form
        /\ pc[p] \notin {"idle", "findPhone"} => form[p].id \in 1 .. made
  BY DEF TypeOK, HandlersInv
<1>6. ASSUME NEW f \in Form, f.id \in 1 .. made
      PROVE  /\ IdentityRow(f) \in [id: 1 .. made, email: Emails, phone: Phones]
             /\ CredentialRow(f) \in [id: 1 .. made, username: Usernames]
  BY <1>6 DEF IdentityRow, CredentialRow, Form
<1>7. identities' \subseteq [id: 1 .. made, email: Emails, phone: Phones]
  <2>1. CASE IdentitySaved
    BY <1>1, <1>5, <1>6, <2>1 DEF IdentitySaved, SaveIdentity
  <2>2. CASE identities' \subseteq identities
    BY <1>1, <2>2
  <2>3. QED
    BY <2>1, <2>2
       DEF TableStep, CredentialSaved, AccountSaved, RowsDropped, DropIdentity, DropCredential,
           SessionsChanged
<1>8. credentials' \subseteq [id: 1 .. made, username: Usernames]
  <2>1. CASE CredentialSaved
    BY <1>1, <1>5, <1>6, <2>1 DEF CredentialSaved, SaveCredential
  <2>2. CASE credentials' \subseteq credentials
    BY <1>1, <2>2
  <2>3. QED
    BY <2>1, <2>2
       DEF TableStep, IdentitySaved, AccountSaved, RowsDropped, DropIdentity, DropCredential,
           SessionsChanged
<1>9. accounts' \subseteq 1 .. made /\ sessions' \subseteq 1 .. made
  BY <1>1, <1>3
     DEF TableStep, IdentitySaved, CredentialSaved, AccountSaved, RowsDropped, DropIdentity,
         DropCredential, SessionsChanged
<1>10. /\ [id: 1 .. made, email: Emails, phone: Phones]
              \subseteq [id: 1 .. made', email: Emails, phone: Phones]
       /\ [id: 1 .. made, username: Usernames] \subseteq [id: 1 .. made', username: Usernames]
  BY <1>2
<1>11. QED
  BY <1>2, <1>4, <1>7, <1>8, <1>9, <1>10

LEMMA HooksTyped ==
    ASSUME TypeOK, HandlersInv, OtherStep, HandlerStep
    PROVE  /\ sending' \in [1 .. made' -> 0 .. Attempts]
           /\ received' \in [1 .. made' -> Nat]
<1>1. /\ made \in Nat /\ Attempts \in Nat /\ Attempts > 0
      /\ sending \in [1 .. made -> 0 .. Attempts] /\ received \in [1 .. made -> Nat]
  BY BoundsAssumption DEF TypeOK
<1>2. CASE UNCHANGED <<made, hooks>>
  BY <1>1, <1>2 DEF hooks
<1>3. CASE made' = made + 1 /\ sending' = Append(sending, 0) /\ received' = Append(received, 0)
  <2>1. sending \in Seq(0 .. Attempts) /\ received \in Seq(Nat)
    BY <1>1
  <2>2. Len(sending) = made /\ Len(received) = made
    BY <1>1, <2>1, LenProperties
  <2>3. 0 \in 0 .. Attempts
    BY <1>1
  <2>4. /\ sending' \in Seq(0 .. Attempts) /\ Len(sending') = made'
        /\ received' \in Seq(Nat) /\ Len(received') = made'
    BY <1>3, <2>1, <2>2, <2>3, AppendProperties
  <2>5. QED
    BY <2>4, LenProperties
<1>4. CASE \E p \in Sagas : SagaSignIn(p)
  <2>1. PICK p \in Sagas : SagaSignIn(p)
    BY <1>4
  <2>2. /\ made' = made /\ received' = received
        /\ \/ sending' = sending
           \/ sending' = [sending EXCEPT ![form[p].id] = IF Webhook THEN 1 ELSE 0]
    BY <2>1 DEF SagaSignIn
  <2>3. (IF Webhook THEN 1 ELSE 0) \in 0 .. Attempts
    BY <1>1
  <2>4. sending' \in [1 .. made -> 0 .. Attempts]
    <3>1. ASSUME NEW i, NEW v \in 0 .. Attempts
          PROVE  [sending EXCEPT ![i] = v] \in [1 .. made -> 0 .. Attempts]
      BY <1>1, Zenon
    <3>2. QED
      BY <1>1, <2>2, <2>3, <3>1
  <2>5. QED
    BY <1>1, <2>2, <2>4
<1>5. ASSUME NEW i \in DOMAIN sending,
             WebhookAnswered(i) \/ WebhookFails(i) \/ WebhookAnswerLost(i)
      PROVE  sending' \in [1 .. made' -> 0 .. Attempts] /\ received' \in [1 .. made' -> Nat]
  <2>1. i \in 1 .. made /\ made' = made /\ sending[i] \in 0 .. Attempts /\ received[i] \in Nat
    BY <1>1, <1>5 DEF WebhookAnswered, WebhookFails, WebhookAnswerLost
  <2>2. GiveUpOrRetry(i) \in [1 .. made -> 0 .. Attempts]
    BY <1>1, <2>1 DEF GiveUpOrRetry
  <2>3. /\ [sending EXCEPT ![i] = 0] \in [1 .. made -> 0 .. Attempts]
        /\ [received EXCEPT ![i] = @ + 1] \in [1 .. made -> Nat]
    BY <1>1, <2>1
  <2>4. QED
    BY <1>1, <1>5, <2>1, <2>2, <2>3 DEF WebhookAnswered, WebhookFails, WebhookAnswerLost
<1>6. QED
  BY <1>2, <1>3, <1>4, <1>5 DEF OtherStep, HookStep

LEMMA MishapsTyped ==
    ASSUME TypeOK, HandlersInv, OtherStep, made' \in {made, made + 1}
    PROVE  /\ faults' \in 0 .. MaxFaults
           /\ lost' \subseteq 0 .. made' /\ revived' \subseteq 1 .. made'
<1>1. /\ made \in Nat /\ faults \in 0 .. MaxFaults /\ MaxFaults \in Nat
      /\ lost \subseteq 0 .. made /\ revived \subseteq 1 .. made
  BY BoundsAssumption DEF TypeOK
<1>2. \A p \in Sagas : pc[p] # "idle" => form[p].id \in 0 .. made
  BY <1>1, CallsOf DEF HandlersInv
<1>3. \A p \in Handlers : pc[p] \in {"saveProfile", "saveName"} => form[p].id \in 1 .. made
  BY DEF HandlersInv
<1>4. faults' \in 0 .. MaxFaults
  BY <1>1 DEF OtherStep, FaultStep
<1>5. lost' \subseteq 0 .. made
  <2>1. \A p \in Sagas : pc[p] # "idle" => lost \cup {form[p].id} \subseteq 0 .. made
    BY <1>1, <1>2
  <2>2. QED
    BY <1>1, <2>1 DEF OtherStep, FaultStep
<1>6. revived' \subseteq 1 .. made
  <2>1. \A p \in Handlers : pc[p] \in {"saveProfile", "saveName"} =>
          revived \cup {form[p].id} \subseteq 1 .. made
    BY <1>1, <1>3
  <2>2. QED
    BY <1>1, <2>1 DEF OtherStep, ReviveStep
<1>7. 0 .. made \subseteq 0 .. made' /\ 1 .. made \subseteq 1 .. made'
  BY <1>1
<1>8. QED
  BY <1>4, <1>5, <1>6, <1>7

LEMMA TypeKept == TypeOK /\ HandlersInv /\ [Next]_vars => TypeOK' /\ HandlersInv'
<1> SUFFICES ASSUME TypeOK, HandlersInv, [Next]_vars PROVE TypeOK' /\ HandlersInv'
  OBVIOUS
<1>1. TableStep /\ HandlerStep /\ OtherStep
  BY TableSteps, HandlerSteps, OtherSteps
<1>2. /\ faults' \in 0 .. MaxFaults
      /\ lost' \subseteq 0 .. made' /\ revived' \subseteq 1 .. made'
  BY <1>1, HandlersKept, MishapsTyped
<1>3. made' \in Nat
  <2>1. made \in Nat
    BY DEF TypeOK
  <2>2. QED
    BY <1>1, <2>1, HandlersKept
<1>4. QED
  BY <1>1, <1>2, <1>3, HandlersKept, TablesTyped, HooksTyped DEF TypeOK

-----------------------------------------------------------------------------
(* The second layer: what the tables promise, and who works on which rows. *)

\* The unique columns are checked by the write itself.
LEMMA PeopleKept ==
    ASSUME TypeOK, HandlersInv, PeopleDistinct, TableStep
    PROVE  PeopleDistinct'
<1>1. \A p \in Handlers : form[p] \in Form
  BY DEF TypeOK
<1>2. \A a, b \in identities' :
         a # b => a.id # b.id /\ a.email # b.email /\ a.phone # b.phone
  <2>1. CASE IdentitySaved
    <3>1. PICK p \in Handlers : ~IdentityRefused(form[p]) /\ SaveIdentity(form[p])
      BY <2>1 DEF IdentitySaved
    <3>2. /\ IdentityRow(form[p]).id = form[p].id /\ IdentityRow(form[p]).email = form[p].email
          /\ IdentityRow(form[p]).phone = form[p].phone
      BY <1>1, FormType
    <3>3. QED
      BY <3>1, <3>2 DEF IdentityRefused, SaveIdentity, PeopleDistinct
  <2>2. CASE identities' \subseteq identities
    BY <2>2 DEF PeopleDistinct
  <2>3. QED
    BY <2>1, <2>2
       DEF TableStep, CredentialSaved, AccountSaved, RowsDropped, DropIdentity, DropCredential,
           SessionsChanged
<1>3. \A a, b \in credentials' : a # b => a.id # b.id /\ a.username # b.username
  <2>1. CASE CredentialSaved
    <3>1. PICK p \in Handlers : ~CredentialRefused(form[p]) /\ SaveCredential(form[p])
      BY <2>1 DEF CredentialSaved
    <3>2. /\ CredentialRow(form[p]).id = form[p].id
          /\ CredentialRow(form[p]).username = form[p].username
      BY <1>1, FormType
    <3>3. QED
      BY <3>1, <3>2 DEF CredentialRefused, SaveCredential, PeopleDistinct
  <2>2. CASE credentials' \subseteq credentials
    BY <2>2 DEF PeopleDistinct
  <2>3. QED
    BY <2>1, <2>2
       DEF TableStep, IdentitySaved, AccountSaved, RowsDropped, DropIdentity, DropCredential,
           SessionsChanged
<1>4. QED
  BY <1>2, <1>3 DEF PeopleDistinct

\* So are the foreign keys.
LEMMA ReferencesKept ==
    ASSUME TypeOK, HandlersInv, ReferencesHold, TableStep
    PROVE  ReferencesHold'
<1>1. \A p \in Handlers : form[p] \in Form
  BY DEF TypeOK
<1>2. CASE IdentitySaved
  <2>1. Ids(identities) \subseteq Ids(identities') /\ UNCHANGED <<credentials, accounts, sessions>>
    BY <1>1, <1>2, SavedIds DEF IdentitySaved
  <2>2. QED
    BY <2>1 DEF ReferencesHold
<1>3. CASE CredentialSaved
  <2>1. PICK p \in Handlers :
           /\ ~CredentialRefused(form[p]) /\ SaveCredential(form[p])
           /\ UNCHANGED <<identities, accounts, sessions>>
    BY <1>3 DEF CredentialSaved
  <2>2. form[p].id \in Ids(identities) /\ Ids(credentials') = Ids(credentials) \cup {form[p].id}
    BY <1>1, <2>1, SavedIds DEF CredentialRefused
  <2>3. QED
    BY <2>1, <2>2 DEF ReferencesHold
<1>4. CASE AccountSaved
  BY <1>4 DEF AccountSaved, ReferencesHold
<1>5. ASSUME NEW p \in Sagas, DropIdentity(p) PROVE ReferencesHold'
  <2>1. UNCHANGED <<credentials, accounts, sessions>>
    BY <1>5 DEF DropIdentity
  <2>2. Ids(credentials) \cup accounts \subseteq Ids(identities')
    BY <1>5, DroppedIds DEF ReferencesHold
  <2>3. QED
    BY <2>1, <2>2 DEF ReferencesHold
<1>6. ASSUME NEW p \in Sagas, DropCredential(p) PROVE ReferencesHold'
  <2>1. UNCHANGED <<identities, accounts, sessions>>
    BY <1>6 DEF DropCredential
  <2>2. Ids(credentials') \subseteq Ids(credentials) /\ sessions \subseteq Ids(credentials')
    BY <1>6, DroppedIds DEF ReferencesHold
  <2>3. QED
    BY <2>1, <2>2 DEF ReferencesHold
<1>7. CASE SessionsChanged
  BY <1>7 DEF SessionsChanged, ReferencesHold
<1>8. QED
  BY <1>2, <1>3, <1>4, <1>5, <1>6, <1>7 DEF TableStep, RowsDropped

\* An id is generated once, and only its saga works with it.
LEMMA OneSagaKept ==
    ASSUME TypeOK, HandlersInv, OneSagaPerId, HandlerStep
    PROVE  /\ OneSagaPerId'
           /\ \A i \in 1 .. made : Responsible(i)' \subseteq Responsible(i)
<1>1. made \in Nat
  BY DEF TypeOK
<1>2. CASE UNCHANGED <<made, pc, form>>
  BY <1>2 DEF OneSagaPerId, Responsible
<1>3. ASSUME NEW p \in Handlers, NEW call \in Calls(p), NEW f \in Form, Await(p, call, f),
             \/ made' = made /\ call = "idle"
             \/ made' = made /\ call = "findPhone" /\ f.id = 0
             \/ made' = made + 1 /\ f.id = made + 1
             \/ made' = made /\ (WentOn(p, f) \/ StartsWith(p, f))
      PROVE  /\ OneSagaPerId'
             /\ \A i \in 1 .. made : Responsible(i)' \subseteq Responsible(i)
  <2>1. /\ pc'[p] = call /\ form'[p] = f
        /\ \A q \in Sagas \ {p} : pc'[q] = pc[q] /\ form'[q] = form[q]
    BY <1>3, Awaited, CallsOf
  <2>2. \A i \in 1 .. made : Responsible(i)' \subseteq Responsible(i)
    BY <1>1, <1>3, <2>1, CallsOf DEF Responsible, WentOn, StartsWith
  <2>3. \A q \in Sagas \ {p} : pc'[q] # "idle" => form'[q].id # made + 1
    BY <1>1, <2>1, CallsOf DEF HandlersInv
  <2>4. OneSagaPerId'
    <3>1. CASE made' = made
      BY <2>2, <3>1 DEF OneSagaPerId
    <3>2. CASE made' = made + 1 /\ f.id = made + 1
      <4>1. 1 .. made' = 1 .. made \cup {made + 1}
        BY <1>1, <3>2
      <4>2. QED
        BY <2>2, <2>3, <4>1 DEF OneSagaPerId, Responsible
    <3>3. QED
      BY <1>3, <3>1, <3>2
  <2>5. QED
    BY <2>2, <2>4
<1>4. QED
  BY <1>2, <1>3 DEF HandlerStep

-----------------------------------------------------------------------------
(* The third layer: how far each saga has come.                            *)

\* What the tables hold of an id nobody compensates.
LEMMA RowsKept ==
    ASSUME TypeOK, HandlersInv, TableStep, NEW i,
           \A p \in Sagas : DropCredential(p) => form[p].id # i
    PROVE  /\ i \in Ids(credentials) => i \in Ids(credentials')
           /\ i \in accounts => i \in accounts'
           /\ i \in Complete => i \in Complete'
<1>1. \A p \in Handlers : form[p] \in Form
  BY DEF TypeOK
<1>2. i \in Ids(credentials) => i \in Ids(credentials')
  BY <1>1, SavedIds, DroppedIds
     DEF TableStep, IdentitySaved, CredentialSaved, AccountSaved, RowsDropped, DropIdentity,
         SessionsChanged
<1>3. accounts \subseteq accounts'
  BY DEF TableStep, IdentitySaved, CredentialSaved, AccountSaved, RowsDropped, DropIdentity,
         DropCredential, SessionsChanged
<1>4. ASSUME i \in Complete PROVE i \in Ids(identities')
  <2>1. i \in Ids(identities) /\ i \in accounts
    BY <1>4 DEF Complete
  <2>2. CASE IdentitySaved
    BY <1>1, <2>1, <2>2, SavedIds DEF IdentitySaved
  <2>3. ASSUME NEW p \in Sagas, DropIdentity(p) PROVE i \in Ids(identities')
    BY <2>1, <2>3, DroppedIds
  <2>4. CASE UNCHANGED identities
    BY <2>1, <2>4
  <2>5. QED
    BY <2>2, <2>3, <2>4
       DEF TableStep, CredentialSaved, AccountSaved, RowsDropped, DropCredential, SessionsChanged
<1>5. QED
  BY <1>2, <1>3, <1>4 DEF Complete

\* Two sagas with one id are one.
LEMMA SameSaga ==
    ASSUME TypeOK, HandlersInv, OneSagaPerId, NEW p \in Sagas, NEW q \in Sagas,
           pc[p] \notin {"idle", "findPhone"}, pc[q] # "idle", form[p].id = form[q].id
    PROVE  p = q
<1>1. form[p].id \in 1 .. made
  BY CallsOf DEF HandlersInv
<1>2. QED
  BY <1>1 DEF OneSagaPerId, Responsible

\* A saga is where it was when others take a step.
LEMMA BystanderStage ==
    ASSUME TypeOK, HandlersInv, OneSagaPerId, TableStep, OtherStep,
           NEW q \in Sagas, StageOk(q), pc'[q] = pc[q], form'[q] = form[q]
    PROVE  StageOk(q)'
<1>1. ASSUME NEW p \in Sagas, DropCredential(p), pc[q] \notin {"idle", "findPhone"}
      PROVE  form[p].id # form[q].id
  <2>1. pc[p] = "dropCredential" /\ Then(p, "dropIdentity")
    BY <1>1 DEF DropCredential
  <2>2. pc'[p] = "dropIdentity"
    BY <2>1, CallsOf DEF Then, Await, TypeOK
  <2>3. QED
    BY <1>1, <2>1, <2>2, SameSaga
<1>2. ASSUME pc[q] \in {"findAccount", "saveAccount"} PROVE form[q].id \in Ids(credentials')
  BY <1>1, <1>2, RowsKept DEF StageOk
<1>3. ASSUME pc[q] = "signIn" PROVE form[q].id \in Complete'
  BY <1>1, <1>3, RowsKept DEF StageOk
<1>4. ASSUME pc[q] \notin {"idle", "findPhone", "signIn"}
      PROVE  form[q].id \notin accounts' \ lost'
  <2>1. lost \subseteq lost'
    BY DEF OtherStep, FaultStep
  <2>2. form[q].id \notin accounts \ lost'
    BY <1>4, <2>1 DEF StageOk
  <2>3. ASSUME NEW p \in Sagas, pc[p] = "saveAccount",
               Then(p, "signIn") \/ Then(p, "dropCredential")
        PROVE  form[p].id # form[q].id
    <3>1. pc'[p] # pc[p]
      BY <2>3, CallsOf DEF Then, Await, TypeOK
    <3>2. QED
      BY <1>4, <2>3, <3>1, SameSaga
  <2>4. QED
    BY <2>2, <2>3
       DEF TableStep, IdentitySaved, CredentialSaved, AccountSaved, RowsDropped, DropIdentity,
           DropCredential, SessionsChanged
<1>5. QED
  BY <1>2, <1>3, <1>4 DEF StageOk

\* ... and moves on with what it has found or saved.
LEMMA ActingStage ==
    ASSUME TypeOK, HandlersInv, ReferencesHold, NEW p \in Sagas, StageOk(p),
           (\E f \in Input : Register(p, f)) \/ SagaStep(p) \/ SagaFailure(p)
    PROVE  StageOk(p)'
<1>1. /\ p \in Handlers /\ pc[p] \in Pc /\ form[p] \in Form /\ made \in Nat
      /\ accounts \subseteq 1 .. made
  BY CallsOf DEF TypeOK
<1>2. \A call, f : Await(p, call, f) => pc'[p] = call /\ form'[p] = f
  BY <1>1 DEF Await, TypeOK
<1>3. \A call : Then(p, call) => pc'[p] = call /\ form'[p] = form[p]
  BY <1>2 DEF Then
<1>4. Return(p) => pc'[p] = "idle"
  BY <1>2 DEF Return
<1>5. CASE pc'[p] \in {"idle", "findPhone"}
  BY <1>5 DEF StageOk
<1>6. CASE FindPhone(p)
  <2>1. CASE Return(p)
    BY <1>4, <1>5, <2>1
  <2>2. CASE Await(p, "saveIdentity", [form[p] EXCEPT !.id = made + 1])
    <3>1. pc'[p] = "saveIdentity" /\ form'[p].id = made + 1 /\ accounts' = accounts
      BY <1>1, <1>2, <1>6, <2>2 DEF FindPhone, tables, Form
    <3>2. QED
      BY <1>1, <3>1 DEF StageOk
  <2>3. QED
    BY <1>6, <2>1, <2>2 DEF FindPhone
<1>7. ASSUME Then(p, AfterError(pc[p])), AfterError(pc[p]) # "idle",
             accounts' = accounts \/ form[p].id \in lost', lost \subseteq lost'
      PROVE  StageOk(p)'
  <2>1. /\ pc[p] \in {"findUsername", "saveCredential", "findAccount", "saveAccount",
                      "dropCredential"}
        /\ pc'[p] \in {"dropIdentity", "dropCredential"} /\ form'[p] = form[p]
    BY <1>3, <1>7 DEF AfterError
  <2>2. QED
    BY <1>1, <1>7, <2>1 DEF StageOk
<1>8. CASE SagaFailure(p)
  <2>1. CASE Crash(p)
    BY <1>4, <1>5, <2>1 DEF Crash
  <2>2. CASE Reject(p) \/ CompensationFails(p) \/ AnswerLost(p)
    <3>1. Catch(p) /\ (accounts' = accounts \/ form[p].id \in lost') /\ lost \subseteq lost'
      BY <2>2 DEF Reject, CompensationFails, AnswerLost, SagaFault, tables, mishaps
    <3>2. QED
      BY <1>4, <1>5, <1>7, <3>1 DEF Catch
  <2>3. QED
    BY <1>8, <2>1, <2>2 DEF SagaFailure
<1>9. CASE InsertIdentity(p) \/ FindUsername(p)
  <2>1. /\ accounts' = accounts /\ lost' = lost
        /\ pc[p] \in {"saveIdentity", "findUsername"}
        /\ \/ pc'[p] = "idle"
           \/ pc'[p] \in {"findUsername", "saveCredential", "dropIdentity"} /\ form'[p] = form[p]
    BY <1>3, <1>4, <1>9 DEF InsertIdentity, FindUsername, tables, mishaps
  <2>2. QED
    BY <1>5, <2>1 DEF StageOk
<1>10. CASE InsertCredential(p)
  <2>1. accounts' = accounts /\ lost' = lost /\ pc[p] = "saveCredential"
    BY <1>10 DEF InsertCredential, mishaps
  <2>2. CASE Then(p, "dropIdentity")
    BY <1>3, <2>1, <2>2 DEF StageOk
  <2>3. CASE Then(p, "findAccount") /\ SaveCredential(form[p])
    <3>1. form[p].id \in Ids(credentials')
      BY <1>1, <2>3, SavedIds
    <3>2. QED
      BY <1>3, <2>1, <2>3, <3>1 DEF StageOk
  <2>4. QED
    BY <1>10, <2>2, <2>3 DEF InsertCredential
<1>11. CASE FindAccount(p)
  BY <1>3, <1>11 DEF FindAccount, StageOk, tables, mishaps
<1>12. CASE InsertAccount(p)
  <2>1. /\ lost' = lost /\ pc[p] = "saveAccount" /\ UNCHANGED <<identities, credentials>>
        /\ form'[p] = form[p]
    BY <1>3, <1>12 DEF InsertAccount, mishaps
  <2>2. CASE pc'[p] = "dropCredential" /\ accounts' = accounts
    BY <2>1, <2>2 DEF StageOk
  <2>3. CASE pc'[p] = "signIn" /\ accounts' = accounts \cup {form[p].id}
    <3>1. form[p].id \in Ids(credentials) /\ form[p].id \in Ids(identities)
      BY <2>1 DEF StageOk, ReferencesHold
    <3>2. QED
      BY <2>1, <2>3, <3>1 DEF StageOk, Complete
  <2>4. QED
    BY <1>3, <1>12, <2>2, <2>3 DEF InsertAccount
<1>13. CASE DropCredential(p)
  BY <1>3, <1>13 DEF DropCredential, StageOk, mishaps
<1>14. CASE SagaSignIn(p) \/ DropIdentity(p)
  BY <1>4, <1>5, <1>14 DEF SagaSignIn, DropIdentity
<1>15. CASE \E f \in Input : Register(p, f)
  BY <1>2, <1>5, <1>15 DEF Register
<1>16. QED
  BY <1>6, <1>8, <1>9, <1>10, <1>11, <1>12, <1>13, <1>14, <1>15 DEF SagaStep

\* Every step is one of this saga, or leaves it where it is.
LEMMA ActsOrNot ==
    ASSUME TypeOK, HandlersInv, [Next]_vars, NEW q \in Sagas
    PROVE  \/ (\E f \in Input : Register(q, f)) \/ SagaStep(q) \/ SagaFailure(q)
           \/ pc'[q] = pc[q] /\ form'[q] = form[q]
<1> DEFINE Still == pc'[q] = pc[q] /\ form'[q] = form[q]
<1>1. ASSUME NEW p \in Handlers \ {q}, NEW call, NEW f, Await(p, call, f) PROVE Still
  BY <1>1, CallsOf DEF Await, TypeOK
<1>2. ASSUME NEW p \in Handlers \ {q}, Return(p) \/ \E call : Then(p, call) PROVE Still
  BY <1>1, <1>2 DEF Return, Then
<1>3. ASSUME NEW p \in Handlers \ {q}, Catch(p) PROVE Still
  BY <1>2, <1>3 DEF Catch
<1>4. ASSUME NEW p \in Handlers \ {q}, SagaFailure(p) \/ Reject(p) PROVE Still
  BY <1>2, <1>3, <1>4 DEF SagaFailure, Reject, CompensationFails, AnswerLost, Crash
<1>5. ASSUME NEW p \in Handlers \ {q}, SagaStep(p) PROVE Still
  <2>1. CASE FindPhone(p)
    BY <1>1, <1>2, <2>1 DEF FindPhone
  <2>2. CASE InsertIdentity(p) \/ FindUsername(p) \/ InsertCredential(p) \/ FindAccount(p)
    BY <1>2, <2>2 DEF InsertIdentity, FindUsername, InsertCredential, FindAccount
  <2>3. CASE InsertAccount(p) \/ SagaSignIn(p) \/ DropCredential(p) \/ DropIdentity(p)
    BY <1>2, <2>3 DEF InsertAccount, SagaSignIn, DropCredential, DropIdentity
  <2>4. QED
    BY <1>5, <2>1, <2>2, <2>3 DEF SagaStep
<1>6. CASE UNCHANGED vars
  BY <1>6 DEF vars
<1>7. CASE \E p \in Sagas : (\E f \in Input : Register(p, f)) \/ SagaStep(p) \/ SagaFailure(p)
  <2>1. PICK p \in Sagas : (\E f \in Input : Register(p, f)) \/ SagaStep(p) \/ SagaFailure(p)
    BY <1>7
  <2>2. CASE p = q
    BY <2>1, <2>2
  <2>3. CASE p # q
    <3>1. p \in Handlers \ {q}
      BY <2>3, CallsOf
    <3>2. CASE \E f \in Input : Register(p, f)
      BY <1>1, <3>1, <3>2 DEF Register
    <3>3. QED
      BY <1>4, <1>5, <2>1, <3>1, <3>2
  <2>4. QED
    BY <2>2, <2>3
<1>8. CASE \E p \in SignIns :
              (\E i \in Ids(credentials) : SignIn(p, i)) \/ OpenSession(p) \/ Reject(p)
  <2>1. PICK p \in SignIns :
               (\E i \in Ids(credentials) : SignIn(p, i)) \/ OpenSession(p) \/ Reject(p)
    BY <1>8
  <2>2. p \in Handlers \ {q}
    BY CallsOf
  <2>3. QED
    BY <1>1, <1>2, <1>4, <2>1, <2>2 DEF SignIn, OpenSession
<1>9. CASE \E p \in Editors :
              \/ \E r \in identities, h \in Phones : UpdateProfile(p, r, h)
              \/ CheckPhone(p) \/ SaveProfile(p) \/ Reject(p)
  <2>1. PICK p \in Editors :
               \/ \E r \in identities, h \in Phones : UpdateProfile(p, r, h)
               \/ CheckPhone(p) \/ SaveProfile(p) \/ Reject(p)
    BY <1>9
  <2>2. p \in Handlers \ {q}
    BY CallsOf
  <2>3. QED
    BY <1>1, <1>2, <1>4, <2>1, <2>2 DEF UpdateProfile, CheckPhone, SaveProfile
<1>10. CASE \E p \in Renamers :
              \/ \E r \in credentials, u \in Usernames : ChangeUsername(p, r, u)
              \/ CheckName(p) \/ SaveName(p) \/ Reject(p)
  <2>1. PICK p \in Renamers :
               \/ \E r \in credentials, u \in Usernames : ChangeUsername(p, r, u)
               \/ CheckName(p) \/ SaveName(p) \/ Reject(p)
    BY <1>10
  <2>2. p \in Handlers \ {q}
    BY CallsOf
  <2>3. QED
    BY <1>1, <1>2, <1>4, <2>1, <2>2 DEF ChangeUsername, CheckName, SaveName
<1>11. ASSUME NEW i,
              SignOut(i) \/ WebhookAnswered(i) \/ WebhookFails(i) \/ WebhookAnswerLost(i)
       PROVE  Still
  BY <1>11 DEF SignOut, WebhookAnswered, WebhookFails, WebhookAnswerLost
<1>12. QED
  BY <1>6, <1>7, <1>8, <1>9, <1>10, <1>11 DEF Next

LEMMA StagesKept == SagaInv /\ [Next]_vars => \A p \in Sagas : StageOk(p)'
<1> SUFFICES ASSUME SagaInv, [Next]_vars, NEW p \in Sagas PROVE StageOk(p)'
  OBVIOUS
<1>1. TypeOK /\ HandlersInv /\ ReferencesHold /\ OneSagaPerId /\ StageOk(p)
  BY DEF SagaInv
<1>2. TableStep /\ OtherStep
  BY TableSteps, OtherSteps
<1>3. QED
  BY <1>1, <1>2, ActsOrNot, ActingStage, BystanderStage

LEMMA AccountsKept == SagaInv /\ [Next]_vars => AccountHasCredential'
<1> SUFFICES ASSUME SagaInv, [Next]_vars PROVE accounts' \ lost' \subseteq Ids(credentials')
  BY DEF AccountHasCredential
<1>1. /\ TypeOK /\ HandlersInv /\ AccountHasCredential /\ TableStep /\ OtherStep
      /\ \A p \in Sagas : StageOk(p)
  BY TableSteps, OtherSteps DEF SagaInv
<1>2. lost \subseteq lost' /\ accounts \ lost' \subseteq Ids(credentials)
  BY <1>1 DEF OtherStep, FaultStep, AccountHasCredential
<1>3. CASE AccountSaved
  <2>1. PICK p \in Sagas : /\ pc[p] = "saveAccount" /\ accounts' = accounts \cup {form[p].id}
                           /\ UNCHANGED credentials
    BY <1>3 DEF AccountSaved
  <2>2. form[p].id \in Ids(credentials)
    BY <1>1, <2>1 DEF StageOk
  <2>3. QED
    BY <1>2, <2>1, <2>2
<1>4. CASE CredentialSaved
  <2>1. Ids(credentials) \subseteq Ids(credentials') /\ accounts' = accounts
    BY <1>1, <1>4, SavedIds DEF CredentialSaved, TypeOK
  <2>2. QED
    BY <1>2, <2>1
<1>5. ASSUME NEW p \in Sagas, DropCredential(p)
      PROVE  accounts' \ lost' \subseteq Ids(credentials')
  <2>1. form[p].id \notin accounts \ lost' /\ accounts' = accounts
    BY <1>1, <1>2, <1>5 DEF DropCredential, StageOk
  <2>2. QED
    BY <1>2, <1>5, <2>1, DroppedIds
<1>6. CASE UNCHANGED <<credentials, accounts>>
  BY <1>2, <1>6
<1>7. QED
  BY <1>1, <1>3, <1>4, <1>5, <1>6
     DEF TableStep, IdentitySaved, RowsDropped, DropIdentity, SessionsChanged

-----------------------------------------------------------------------------
(* The fourth layer: the webhooks.                                         *)

\* Who is registered whole and has no saga at work stays so.
LEMMA CompleteKept ==
    ASSUME TypeOK, HandlersInv, TableStep, NEW i \in Complete, Responsible(i) = {}
    PROVE  i \in Complete'
<1>1. \A p \in Sagas : DropCredential(p) => form[p].id # i
  BY DEF DropCredential, Responsible
<1>2. QED
  BY <1>1, RowsKept

LEMMA WebhooksKept == SagaInv /\ [Next]_vars => \A i \in 1 .. made' : WebhookOk(i)'
<1> SUFFICES ASSUME SagaInv, [Next]_vars PROVE \A i \in 1 .. made' : WebhookOk(i)'
  OBVIOUS
<1>1. /\ TypeOK /\ HandlersInv /\ OneSagaPerId /\ TableStep /\ OtherStep /\ HandlerStep
      /\ \A i \in 1 .. made : WebhookOk(i)
  BY TableSteps, OtherSteps, HandlerSteps DEF SagaInv
<1>2. /\ made \in Nat /\ faults \in Nat /\ faults' \in Nat /\ faults <= faults'
      /\ DOMAIN sending = 1 .. made
      /\ \A i \in 1 .. made : sending[i] \in Nat /\ received[i] \in Nat
  <2>1. /\ made \in Nat /\ faults \in Nat /\ DOMAIN sending = 1 .. made
        /\ \A i \in 1 .. made : sending[i] \in Nat /\ received[i] \in Nat
    BY <1>1, BoundsAssumption DEF TypeOK
  <2>2. faults' = faults \/ faults' = faults + 1
    BY <1>1 DEF OtherStep, FaultStep
  <2>3. QED
    BY <2>1, <2>2
<1>3. \A i \in 1 .. made :
         i \in Complete /\ Responsible(i) = {} => i \in Complete' /\ Responsible(i)' = {}
  BY <1>1, CompleteKept, OneSagaKept
<1>4. ASSUME NEW i \in 1 .. made, sending'[i] = sending[i], received'[i] = received[i]
      PROVE  WebhookOk(i)'
  BY <1>1, <1>2, <1>3, <1>4 DEF WebhookOk
<1>5. CASE UNCHANGED <<made, hooks>>
  BY <1>4, <1>5 DEF hooks
<1>6. CASE made' = made + 1 /\ sending' = Append(sending, 0) /\ received' = Append(received, 0)
  <2>1. sending \in Seq(Nat) /\ received \in Seq(Nat) /\ Len(sending) = made /\ Len(received) = made
    BY <1>1, <1>2, LenProperties DEF TypeOK
  <2>2. /\ \A i \in 1 .. made : sending'[i] = sending[i] /\ received'[i] = received[i]
        /\ sending'[made + 1] = 0 /\ received'[made + 1] = 0
    BY <1>2, <1>6, <2>1, AppendProperties
  <2>3. \A i \in {made + 1} : WebhookOk(i)'
    BY <1>2, <2>2 DEF WebhookOk
  <2>4. 1 .. made' = 1 .. made \cup {made + 1}
    BY <1>2, <1>6
  <2>5. QED
    BY <1>4, <2>2, <2>3, <2>4
<1>7. ASSUME NEW p \in Sagas, SagaSignIn(p) PROVE \A i \in 1 .. made' : WebhookOk(i)'
  <2> DEFINE j == form[p].id
  <2>1. pc[p] = "signIn" /\ Return(p) /\ made' = made /\ received' = received
    BY <1>7 DEF SagaSignIn
  <2>2. /\ j \in 1 .. made /\ j \in Complete /\ p \in Responsible(j)
        /\ \A q \in Responsible(j) : q = p
    BY <1>1, <2>1, CallsOf DEF HandlersInv, SagaInv, StageOk, OneSagaPerId, Responsible
  <2>3. sending[j] = 0 /\ received[j] = 0
    BY <1>1, <1>2, <2>2 DEF WebhookOk
  <2>4. /\ sending'[j] \in {0, 1} /\ received'[j] = 0
        /\ \A i \in 1 .. made \ {j} : sending'[i] = sending[i] /\ received'[i] = received[i]
    BY <1>2, <1>7, <2>1, <2>2, <2>3 DEF SagaSignIn
  <2>5. j \in Complete'
    BY <1>7, <2>2 DEF SagaSignIn, Complete
  <2>6. pc'[p] = "idle"
    BY <1>1, <2>1, CallsOf DEF Return, Await, TypeOK
  <2>7. \A q \in Sagas : pc'[q] # "idle" => form'[q].id # j
    BY <1>1, <2>1, <2>2, <2>6, OneSagaKept DEF Responsible
  <2>8. \A i \in {j} : WebhookOk(i)'
    BY <1>2, <2>4, <2>5, <2>7 DEF WebhookOk, Responsible
  <2>9. QED
    BY <1>4, <2>1, <2>4, <2>8
<1>8. ASSUME NEW j \in DOMAIN sending, WebhookAnswered(j) \/ WebhookFails(j) \/ WebhookAnswerLost(j)
      PROVE  \A i \in 1 .. made' : WebhookOk(i)'
  <2>1. j \in 1 .. made /\ made' = made /\ sending[j] > 0
    BY <1>2, <1>8 DEF WebhookAnswered, WebhookFails, WebhookAnswerLost
  <2>2. \A i \in 1 .. made \ {j} : sending'[i] = sending[i] /\ received'[i] = received[i]
    BY <1>1, <1>2, <1>8 DEF WebhookAnswered, WebhookFails, WebhookAnswerLost, GiveUpOrRetry, TypeOK
  <2>3. j \in Complete' /\ Responsible(j)' = {}
    BY <1>1, <1>3, <2>1 DEF WebhookOk
  <2>4. sending'[j] > 0 => received'[j] < sending'[j] /\ received'[j] <= faults'
    <3>1. received[j] < sending[j] /\ received[j] <= faults
      BY <1>1, <2>1 DEF WebhookOk
    <3>2. sending \in [1 .. made -> Nat] /\ received \in [1 .. made -> Nat]
      BY <1>1, <1>2 DEF TypeOK
    <3>3. GiveUpOrRetry(j)[j] \in {0, sending[j] + 1}
      BY <2>1, <3>2 DEF GiveUpOrRetry
    <3>4. CASE WebhookAnswered(j)
      BY <2>1, <3>2, <3>4 DEF WebhookAnswered
    <3>5. CASE WebhookFails(j)
      BY <1>2, <2>1, <3>1, <3>2, <3>3, <3>5 DEF WebhookFails
    <3>6. CASE WebhookAnswerLost(j)
      <4>1. /\ sending'[j] \in {0, sending[j] + 1} /\ received'[j] = received[j] + 1
            /\ faults' = faults + 1
        BY <2>1, <3>2, <3>3, <3>6 DEF WebhookAnswerLost, Fault
      <4>2. QED
        BY <1>2, <2>1, <3>1, <4>1
    <3>7. QED
      BY <1>8, <3>4, <3>5, <3>6
  <2>5. QED
    BY <1>4, <2>1, <2>2, <2>3, <2>4 DEF WebhookOk
<1>9. QED
  BY <1>1, <1>5, <1>6, <1>7, <1>8 DEF OtherStep, HookStep

LEMMA NotifiedKept ==
    ASSUME SagaInv, [Next]_vars, \A i \in 1 .. made' : WebhookOk(i)'
    PROVE  NotifiedOfTheRegistered'
<1>1. /\ TypeOK /\ TypeOK' /\ OtherStep /\ NotifiedOfTheRegistered
      /\ \A i \in 1 .. made : WebhookOk(i)
  BY TypeKept, OtherSteps DEF SagaInv
<1>2. /\ made \in Nat /\ faults \in Nat /\ faults' \in Nat /\ faults <= faults' /\ Attempts \in Nat
      /\ DOMAIN sending = 1 .. made /\ DOMAIN received = 1 .. made
      /\ \A i \in 1 .. made : sending[i] \in 0 .. Attempts /\ received[i] \in Nat
      /\ received \in [1 .. made -> Nat]
  <2>1. faults \in Nat /\ faults' \in Nat /\ faults <= faults' /\ Attempts \in Nat
    BY <1>1, BoundsAssumption DEF TypeOK, OtherStep, FaultStep
  <2>2. QED
    BY <1>1, <2>1 DEF TypeOK
<1>3. SUFFICES \A i \in 1 .. made' : received'[i] <= Attempts /\ received'[i] <= 1 + faults'
  <2>1. DOMAIN received' = 1 .. made'
    BY <1>1 DEF TypeOK
  <2>2. QED
    BY <2>1 DEF NotifiedOfTheRegistered, WebhookOk
<1>4. ASSUME NEW i \in 1 .. made, received'[i] = received[i]
      PROVE  received'[i] <= Attempts /\ received'[i] <= 1 + faults'
  <2>1. received[i] <= Attempts /\ received[i] <= 1 + faults
    BY <1>1, <1>2 DEF NotifiedOfTheRegistered
  <2>2. QED
    BY <1>2, <1>4, <2>1
<1>5. CASE UNCHANGED <<made, hooks>>
  BY <1>4, <1>5 DEF hooks
<1>6. CASE made' = made + 1 /\ received' = Append(received, 0)
  <2>1. received \in Seq(Nat) /\ Len(received) = made
    BY <1>2, LenProperties
  <2>2. (\A i \in 1 .. made : received'[i] = received[i]) /\ received'[made + 1] = 0
    BY <1>2, <1>6, <2>1, AppendProperties
  <2>3. 1 .. made' = 1 .. made \cup {made + 1}
    BY <1>2, <1>6
  <2>4. QED
    BY <1>2, <1>4, <2>2, <2>3
<1>7. CASE \E p \in Sagas : SagaSignIn(p)
  BY <1>4, <1>7 DEF SagaSignIn
<1>8. ASSUME NEW j \in DOMAIN sending, WebhookAnswered(j) \/ WebhookFails(j) \/ WebhookAnswerLost(j)
      PROVE  \A i \in 1 .. made' : received'[i] <= Attempts /\ received'[i] <= 1 + faults'
  <2>1. /\ j \in 1 .. made /\ made' = made /\ received'[j] \in {received[j], received[j] + 1}
        /\ received[j] < sending[j] /\ received[j] <= faults
        /\ \A i \in 1 .. made \ {j} : received'[i] = received[i]
    BY <1>1, <1>2, <1>8 DEF WebhookAnswered, WebhookFails, WebhookAnswerLost, WebhookOk
  <2>2. received'[j] <= Attempts /\ received'[j] <= 1 + faults'
    BY <1>2, <2>1
  <2>3. QED
    BY <1>4, <2>1, <2>2
<1>9. QED
  BY <1>1, <1>5, <1>6, <1>7, <1>8 DEF OtherStep, HookStep

-----------------------------------------------------------------------------
(* The invariant.                                                          *)

LEMMA InitEstablishesInv == Init => SagaInv
<1> SUFFICES ASSUME Init PROVE SagaInv
  OBVIOUS
<1>1. Ids(identities) = {} /\ Ids(credentials) = {}
  BY DEF Init, Ids
<1>2. TypeOK
  <2>1. 1 .. 0 = {} /\ {accounts, sessions, tokens} \subseteq SUBSET (1 .. made)
    BY DEF Init
  <2>2. sending \in [1 .. made -> 0 .. Attempts] /\ received \in [1 .. made -> Nat]
    BY <2>1 DEF Init
  <2>3. /\ pc \in [Handlers -> Pc] /\ form \in [Handlers -> Form]
    BY FormType DEF Init, Pc
  <2>4. QED
    BY <2>1, <2>2, <2>3, BoundsAssumption DEF Init, TypeOK
<1>3. HandlersInv
  BY CallsOf DEF Init, HandlersInv, Handlers
<1>4. PeopleDistinct /\ ReferencesHold /\ AccountHasCredential
  BY <1>1 DEF Init, PeopleDistinct, ReferencesHold, AccountHasCredential
<1>5. OneSagaPerId /\ \A p \in Sagas : StageOk(p)
  BY CallsOf DEF Init, OneSagaPerId, Responsible, StageOk
<1>6. (\A i \in 1 .. made : WebhookOk(i)) /\ NotifiedOfTheRegistered
  BY DEF Init, NotifiedOfTheRegistered
<1>7. QED
  BY <1>2, <1>3, <1>4, <1>5, <1>6 DEF SagaInv

LEMMA StepKeepsInv == SagaInv /\ [Next]_vars => SagaInv'
<1> SUFFICES ASSUME SagaInv, [Next]_vars PROVE SagaInv'
  OBVIOUS
<1>1. /\ TypeOK /\ HandlersInv /\ PeopleDistinct /\ ReferencesHold /\ OneSagaPerId
      /\ TableStep /\ HandlerStep
  BY TableSteps, HandlerSteps DEF SagaInv
<1>2. TypeOK' /\ HandlersInv'
  BY <1>1, TypeKept
<1>3. PeopleDistinct' /\ ReferencesHold' /\ OneSagaPerId'
  BY <1>1, PeopleKept, ReferencesKept, OneSagaKept
<1>4. (\A p \in Sagas : StageOk(p)') /\ AccountHasCredential'
  BY StagesKept, AccountsKept
<1>5. (\A i \in 1 .. made' : WebhookOk(i)') /\ NotifiedOfTheRegistered'
  BY WebhooksKept, NotifiedKept
<1>6. QED
  BY <1>2, <1>3, <1>4, <1>5 DEF SagaInv

LEMMA SagaInvariant == Spec => []SagaInv
BY InitEstablishesInv, StepKeepsInv, PTL DEF Spec

-----------------------------------------------------------------------------
(* The theorems that hold whatever fails.                                  *)

\* Every variable keeps its type, and no bound of a webhook is passed.
THEOREM SagaTypeCorrect == Spec => []TypeOK
BY SagaInvariant, PTL DEF SagaInv

\* Nobody shares an e-mail, a phone number or a username with anyone.
THEOREM NobodyShares == Spec => []PeopleDistinct
BY SagaInvariant, PTL DEF SagaInv

\* No row refers to a row that is gone, whatever compensation, lost answer or
\* crash came between.
THEOREM NoDanglingReference == Spec => []ReferencesHold
BY SagaInvariant, PTL DEF SagaInv

\* The backend is told of the registered only, and once but for lost answers.
THEOREM ToldOfTheRegistered == Spec => []NotifiedOfTheRegistered
BY SagaInvariant, PTL DEF SagaInv

\* Who has an account can sign in, unless the saga of that very registration met a
\* fault.
THEOREM AccountsCanSignIn == Spec => []AccountHasCredential
BY SagaInvariant, PTL DEF SagaInv

-----------------------------------------------------------------------------
(* What is registered is never taken back.                                 *)

LEMMA FinishedStep == SagaInv /\ [Next]_vars => Complete \ lost \subseteq Complete'
<1> SUFFICES ASSUME SagaInv, [Next]_vars, NEW i \in Complete \ lost PROVE i \in Complete'
  OBVIOUS
<1>1. /\ TypeOK /\ HandlersInv /\ TableStep /\ \A p \in Sagas : StageOk(p)
  BY TableSteps DEF SagaInv
<1>2. \A p \in Sagas : DropCredential(p) => form[p].id # i
  BY <1>1 DEF DropCredential, StageOk, Complete
<1>3. QED
  BY <1>1, <1>2, RowsKept

\* A finished registration is not undone by any saga, sign-in, update or rename, nor by
\* the faults of others.
THEOREM RegistrationLasts == Spec => FinishedStays
<1>1. SagaInv /\ [Next]_vars => [Complete \ lost \subseteq Complete']_vars
  BY FinishedStep
<1>2. QED
  BY <1>1, SagaInvariant, PTL DEF Spec, FinishedStays

-----------------------------------------------------------------------------
(* Nothing is left half done, unless somebody gets in the way of a saga.   *)

LEMMA MishapsGrow ==
    OtherStep => lost \subseteq lost' /\ tokens \subseteq tokens' /\ revived \subseteq revived'
BY DEF OtherStep, FaultStep, ReviveStep

LEMMA TokensKept ==
    ASSUME OtherStep, sessions \subseteq tokens
    PROVE  sessions' \subseteq tokens'
<1>1. CASE tokens' \cup sessions' \subseteq tokens \cup sessions
  BY <1>1 DEF OtherStep
<1>2. ASSUME NEW p \in Sagas, SagaSignIn(p) PROVE sessions' \subseteq tokens'
  BY <1>2 DEF SagaSignIn
<1>3. ASSUME NEW p \in SignIns, OpenSession(p) PROVE sessions' \subseteq tokens'
  BY <1>3 DEF OpenSession
<1>4. QED
  BY <1>1, <1>2, <1>3 DEF OtherStep

\* A row that appears under a saga at work, and is not its own, has been upserted.
LEMMA RowAppears ==
    ASSUME SagaInv, TableStep, NEW q \in Sagas, pc[q] \notin {"idle", "findPhone"},
           pc'[q] = pc[q], NEW i, i = form[q].id
    PROVE  /\ i \in Ids(identities') => i \in Ids(identities) \/ i \in revived'
           /\ i \in Ids(credentials') => i \in Ids(credentials) \/ i \in revived'
<1>1. /\ TypeOK /\ HandlersInv /\ OneSagaPerId
      /\ \A p \in Handlers : form[p] \in Form
  BY DEF SagaInv, TypeOK
<1>2. ASSUME NEW p \in Handlers, Leaves(p), form[p].id = i,
             pc[p] \in {"saveIdentity", "saveCredential", "saveProfile", "saveName"}
      PROVE  pc[p] \in {"saveProfile", "saveName"}
  <2>1. SUFFICES ASSUME p \in Sagas PROVE FALSE
    BY <1>1, <1>2, CallsOf DEF HandlersInv, Handlers
  <2>2. p = q
    BY <1>1, <1>2, <2>1, SameSaga
  <2>3. QED
    BY <1>1, <1>2, <2>2 DEF Leaves, Await, TypeOK
<1>3. ASSUME i \in Ids(identities') \ Ids(identities) PROVE i \in revived'
  <2>1. IdentitySaved
    BY <1>3 DEF Ids, TableStep, CredentialSaved, AccountSaved, RowsDropped, DropIdentity,
                DropCredential, SessionsChanged
  <2>2. PICK p \in Handlers : /\ pc[p] \in {"saveIdentity", "saveProfile"} /\ Leaves(p)
                              /\ SaveIdentity(form[p])
                              /\ pc[p] = "saveProfile" => Upsert(form[p].id, identities)
    BY <2>1 DEF IdentitySaved
  <2>3. form[p].id = i
    BY <1>1, <1>3, <2>2, SavedIds
  <2>4. QED
    BY <1>2, <1>3, <2>2, <2>3 DEF Upsert
<1>4. ASSUME i \in Ids(credentials') \ Ids(credentials) PROVE i \in revived'
  <2>1. CredentialSaved
    BY <1>4 DEF Ids, TableStep, IdentitySaved, AccountSaved, RowsDropped, DropIdentity,
                DropCredential, SessionsChanged
  <2>2. PICK p \in Handlers : /\ pc[p] \in {"saveCredential", "saveName"} /\ Leaves(p)
                              /\ SaveCredential(form[p])
                              /\ pc[p] = "saveName" => Upsert(form[p].id, credentials)
    BY <2>1 DEF CredentialSaved
  <2>3. form[p].id = i
    BY <1>1, <1>4, <2>2, SavedIds
  <2>4. QED
    BY <1>2, <1>4, <2>2, <2>3 DEF Upsert
<1>5. QED
  BY <1>3, <1>4

LEMMA BystanderClean ==
    ASSUME SagaInv, TableStep, OtherStep, NEW q \in Sagas, CleanOk(q),
           pc'[q] = pc[q], form'[q] = form[q]
    PROVE  CleanOk(q)'
<1>1. lost \subseteq lost' /\ tokens \subseteq tokens' /\ revived \subseteq revived'
  BY MishapsGrow
<1>2. ASSUME pc[q] \notin {"idle", "findPhone"}
      PROVE  /\ form[q].id \in Ids(identities') =>
                   form[q].id \in Ids(identities) \/ form[q].id \in revived'
             /\ form[q].id \in Ids(credentials') =>
                   form[q].id \in Ids(credentials) \/ form[q].id \in revived'
  BY <1>2, RowAppears
<1>3. QED
  BY <1>1, <1>2 DEF CleanOk

\* A saga that acts knows what it has stored, and leaves its registration only when it
\* is whole or has been taken back, or somebody got in the way.
LEMMA ActingClean ==
    ASSUME SagaInv, OtherStep, sessions \subseteq tokens, NEW p \in Sagas, CleanOk(p),
           (\E f \in Input : Register(p, f)) \/ SagaStep(p) \/ SagaFailure(p)
    PROVE  /\ CleanOk(p)'
           /\ pc[p] # "idle" /\ form[p].id \in 1 .. made /\ form[p].id \in Ids(identities') =>
                \/ pc'[p] # "idle" /\ form'[p].id = form[p].id
                \/ form[p].id \in Complete'
                \/ form[p].id \in (lost \cup tokens \cup revived)'
<1> DEFINE i == form[p].id
           InTheWay == i \in (lost \cup tokens \cup revived)'
           Kept == pc'[p] # "idle" /\ form'[p] = form[p]
           Goal == /\ CleanOk(p)'
                   /\ pc[p] # "idle" /\ i \in 1 .. made /\ i \in Ids(identities') =>
                        \/ pc'[p] # "idle" /\ form'[p].id = i
                        \/ i \in Complete' \/ InTheWay
<1> SUFFICES Goal
  OBVIOUS
<1>1. /\ TypeOK /\ HandlersInv /\ StageOk(p) /\ ReferencesHold
      /\ p \in Handlers /\ form[p] \in Form /\ made \in Nat /\ pc[p] \in Calls(p)
      /\ Ids(identities) \subseteq 1 .. made
  BY CallsOf DEF SagaInv, TypeOK, HandlersInv, Ids
<1>2. \A call, f : Await(p, call, f) => pc'[p] = call /\ form'[p] = f
  BY <1>1 DEF Await, TypeOK
<1>3. \A call : Then(p, call) => pc'[p] = call /\ form'[p] = form[p]
  BY <1>2 DEF Then
<1>4. Return(p) => pc'[p] = "idle"
  BY <1>2 DEF Return
<1>5. lost \subseteq lost' /\ tokens \subseteq tokens' /\ revived \subseteq revived'
  BY MishapsGrow
<1>6. CASE \E f \in Input : Register(p, f)
  BY <1>2, <1>6 DEF Register, CleanOk
<1>7. CASE FindPhone(p)
  <2>1. pc[p] = "findPhone" /\ i = 0 /\ identities' = identities
    BY <1>1, <1>7 DEF FindPhone, HandlersInv, tables
  <2>2. CASE Return(p)
    BY <1>1, <1>4, <2>1, <2>2 DEF CleanOk
  <2>3. CASE Await(p, "saveIdentity", [form[p] EXCEPT !.id = made + 1])
    <3>1. pc'[p] = "saveIdentity" /\ form'[p].id = made + 1 /\ made + 1 \notin 1 .. made
      BY <1>1, <1>2, <2>3 DEF Form
    <3>2. QED
      BY <1>1, <2>1, <3>1 DEF CleanOk
  <2>4. QED
    BY <1>7, <2>2, <2>3 DEF FindPhone
<1>8. CASE InsertIdentity(p)
  <2>1. /\ pc[p] = "saveIdentity" /\ credentials' = credentials
        /\ i \in Ids(identities) \cup Ids(credentials) => i \in revived'
    BY <1>1, <1>5, <1>8 DEF InsertIdentity, CleanOk, ReferencesHold
  <2>2. CASE Return(p) /\ UNCHANGED identities
    BY <1>4, <2>1, <2>2 DEF CleanOk
  <2>3. CASE Then(p, "findUsername")
    BY <1>3, <2>1, <2>3 DEF CleanOk
  <2>4. QED
    BY <1>8, <2>2, <2>3 DEF InsertIdentity
<1>9. CASE FindUsername(p) \/ InsertCredential(p)
  <2>1. /\ pc[p] \in {"findUsername", "saveCredential"}
        /\ pc'[p] \in {"dropIdentity", "saveCredential", "findAccount"} /\ form'[p] = form[p]
        /\ pc'[p] = "findAccount" \/ credentials' = credentials
    BY <1>3, <1>9 DEF FindUsername, InsertCredential, tables
  <2>2. QED
    BY <1>5, <2>1 DEF CleanOk
<1>10. CASE FindAccount(p) \/ InsertAccount(p)
  <2>1. pc'[p] \in {"dropCredential", "saveAccount", "signIn"} /\ form'[p] = form[p]
    BY <1>3, <1>10 DEF FindAccount, InsertAccount
  <2>2. QED
    BY <2>1 DEF CleanOk
<1>11. ASSUME pc[p] = "signIn", Return(p), UNCHANGED <<identities, credentials, accounts>>
       PROVE  Goal
  <2>1. i \in Complete'
    BY <1>1, <1>11 DEF StageOk, Complete
  <2>2. QED
    BY <1>4, <1>11, <2>1 DEF CleanOk
<1>12. CASE SagaSignIn(p)
  BY <1>11, <1>12 DEF SagaSignIn
<1>13. CASE DropCredential(p)
  <2>1. i \in Ids(credentials') => i \in tokens'
    BY <1>5, <1>13, DroppedIds
  <2>2. QED
    BY <1>3, <1>13, <2>1 DEF DropCredential, CleanOk
<1>14. CASE DropIdentity(p)
  <2>1. pc[p] = "dropIdentity" /\ pc'[p] = "idle"
    BY <1>4, <1>14 DEF DropIdentity
  <2>2. i \in Ids(identities') => i \in Ids(credentials) \cup accounts
    BY <1>14, DroppedIds
  <2>3. i \in Ids(credentials) \cup accounts => InTheWay
    BY <1>1, <1>5, <2>1 DEF CleanOk, StageOk
  <2>4. QED
    BY <2>1, <2>2, <2>3 DEF CleanOk
<1>15. ASSUME Catch(p)
       PROVE  \/ pc'[p] = "idle" /\ pc[p] \notin {"findUsername", "saveCredential", "findAccount",
                                                  "saveAccount", "dropCredential"}
              \/ Kept /\ pc'[p] = "dropCredential"
              \/ Kept /\ pc'[p] = "dropIdentity"
                 /\ pc[p] \in {"findUsername", "saveCredential", "dropCredential"}
  BY <1>3, <1>4, <1>15 DEF Catch, AfterError
<1>16. CASE CompensationFails(p) \/ AnswerLost(p) \/ Crash(p)
  <2>1. i \in lost'
    BY <1>16 DEF CompensationFails, AnswerLost, Crash, SagaFault
  <2>2. pc'[p] = "idle" \/ (Kept /\ pc'[p] \in {"dropCredential", "dropIdentity"})
    BY <1>4, <1>15, <1>16 DEF CompensationFails, AnswerLost, Crash
  <2>3. QED
    BY <2>1, <2>2 DEF CleanOk
<1>17. CASE Reject(p)
  <2>1. /\ Catch(p) /\ UNCHANGED <<identities, credentials, accounts>>
        /\ pc[p] \notin {"idle", "dropCredential", "dropIdentity"}
    BY <1>17 DEF Reject, tables
  <2>2. CASE Kept /\ pc'[p] = "dropCredential"
    BY <2>2 DEF CleanOk
  <2>3. CASE Kept /\ pc'[p] = "dropIdentity" /\ pc[p] \in {"findUsername", "saveCredential"}
    BY <1>5, <2>1, <2>3 DEF CleanOk
  <2>4. CASE pc[p] = "findPhone" /\ pc'[p] = "idle"
    BY <1>1, <2>4 DEF CleanOk, HandlersInv
  <2>5. CASE pc[p] = "saveIdentity" /\ pc'[p] = "idle"
    BY <1>5, <2>1, <2>5 DEF CleanOk
  <2>6. CASE pc[p] = "signIn"
    BY <1>11, <2>1, <2>6 DEF Catch, AfterError
  <2>7. QED
    BY <1>1, <1>15, <2>1, <2>2, <2>3, <2>4, <2>5, <2>6, CallsOf
<1>18. QED
  BY <1>6, <1>7, <1>8, <1>9, <1>10, <1>12, <1>13, <1>14, <1>16, <1>17 DEF SagaStep, SagaFailure

LEMMA NothingHalf ==
    ASSUME SagaInv, CleanInv, [Next]_vars
    PROVE  NoHalfRegistration'
<1>1. /\ TypeOK /\ HandlersInv /\ TableStep /\ OtherStep /\ Complete \ lost \subseteq Complete'
      /\ \A p \in Handlers : form[p] \in Form
  BY TableSteps, OtherSteps, FinishedStep DEF SagaInv, TypeOK
<1>2. lost \subseteq lost' /\ tokens \subseteq tokens' /\ revived \subseteq revived'
  BY <1>1, MishapsGrow
<1>3. SUFFICES ASSUME NEW i \in Ids(identities') \ Complete',
                      i \notin (lost \cup tokens \cup revived)'
               PROVE  \E p \in Sagas : pc'[p] # "idle" /\ form'[p].id = i
  BY DEF NoHalfRegistration, Responsible
<1>4. ASSUME NEW p \in Sagas, pc[p] # "idle", form[p].id = i, i \in 1 .. made
      PROVE  pc'[p] # "idle" /\ form'[p].id = i
  <2>1. CASE (\E f \in Input : Register(p, f)) \/ SagaStep(p) \/ SagaFailure(p)
    BY <1>1, <1>3, <1>4, <2>1, ActingClean DEF CleanInv
  <2>2. CASE pc'[p] = pc[p] /\ form'[p] = form[p]
    BY <1>4, <2>2
  <2>3. QED
    BY <1>1, <2>1, <2>2, ActsOrNot
<1>5. CASE i \in Ids(identities)
  <2>1. i \in 1 .. made /\ i \notin Complete
    BY <1>1, <1>2, <1>3, <1>5 DEF TypeOK, Ids
  <2>2. PICK p \in Sagas : pc[p] # "idle" /\ form[p].id = i
    BY <1>2, <1>3, <1>5, <2>1 DEF CleanInv, NoHalfRegistration, Responsible
  <2>3. QED
    BY <1>4, <2>1, <2>2
<1>6. CASE i \notin Ids(identities)
  <2>1. IdentitySaved
    BY <1>1, <1>3, <1>6
       DEF Ids, TableStep, CredentialSaved, AccountSaved, RowsDropped, DropIdentity,
           DropCredential, SessionsChanged
  <2>2. PICK p \in Handlers : /\ pc[p] \in {"saveIdentity", "saveProfile"}
                              /\ SaveIdentity(form[p])
                              /\ pc[p] = "saveProfile" => Upsert(form[p].id, identities)
    BY <2>1 DEF IdentitySaved
  <2>3. form[p].id = i
    BY <1>1, <1>3, <1>6, <2>2, SavedIds
  <2>4. pc[p] = "saveIdentity"
    BY <1>3, <1>6, <2>2, <2>3 DEF Upsert
  <2>5. p \in Sagas /\ i \in 1 .. made
    BY <1>1, <2>3, <2>4, CallsOf DEF HandlersInv, Handlers
  <2>6. QED
    BY <1>4, <2>3, <2>4, <2>5
<1>7. QED
  BY <1>5, <1>6

LEMMA CleanInvariant == Spec => [](SagaInv /\ CleanInv)
<1>1. Init => CleanInv
  <2>1. ASSUME Init PROVE Ids(identities) = {}
    BY <2>1 DEF Init, Ids
  <2>2. QED
    BY <2>1, CallsOf DEF Init, CleanInv, CleanOk, NoHalfRegistration
<1>2. ASSUME SagaInv, CleanInv, [Next]_vars PROVE CleanInv'
  <2>1. TypeOK /\ HandlersInv /\ TableStep /\ OtherStep
    BY <1>2, TableSteps, OtherSteps DEF SagaInv
  <2>2. sessions' \subseteq tokens'
    BY <1>2, <2>1, TokensKept DEF CleanInv
  <2>3. ASSUME NEW p \in Sagas PROVE CleanOk(p)'
    BY <1>2, <2>1, ActingClean, BystanderClean, ActsOrNot DEF CleanInv
  <2>4. NoHalfRegistration'
    BY <1>2, NothingHalf
  <2>5. QED
    BY <2>2, <2>3, <2>4 DEF CleanInv
<1>3. QED
  BY <1>1, <1>2, SagaInvariant, PTL DEF Spec

\* A registration that failed leaves nothing behind once its saga is done, whatever
\* happens to the others, unless it met a fault itself or somebody else got in its way.
THEOREM NothingLeftHalfDone == Spec => []NoHalfRegistration
BY CleanInvariant, PTL DEF CleanInv

-----------------------------------------------------------------------------
(* Without faults, registration is atomic.                                 *)

LEMMA KnownRows ==
    ASSUME SagaInv, TableStep, NEW r \in identities'
    PROVE  <<r.id, r.email>> \in Known
<1>1. TypeOK /\ HandlersInv
  BY DEF SagaInv
<1>2. CASE r \in identities
  BY <1>2 DEF Known
<1>3. CASE r \notin identities
  <2>1. PICK p \in Handlers : pc[p] \in {"saveIdentity", "saveProfile"} /\ SaveIdentity(form[p])
    BY <1>3 DEF TableStep, IdentitySaved, CredentialSaved, AccountSaved, RowsDropped,
                DropIdentity, DropCredential, SessionsChanged
  <2>2. r = IdentityRow(form[p]) /\ form[p] \in Form
    BY <1>1, <1>3, <2>1 DEF SaveIdentity, TypeOK
  <2>3. p \in Sagas \cup Editors
    BY <1>1, <2>1, CallsOf DEF HandlersInv, Handlers
  <2>4. <<r.id, r.email>> = <<form[p].id, form[p].email>>
    BY <2>2, FormType
  <2>5. QED
    BY <2>1, <2>3, <2>4 DEF Known
<1>4. QED
  BY <1>2, <1>3

LEMMA KnownHandlers ==
    ASSUME SagaInv, HandlerStep
    PROVE  \E e : \A q \in Sagas \cup Editors :
              pc'[q] \notin {"idle", "findPhone"} =>
                 <<form'[q].id, form'[q].email>> \in Known \cup {<<made + 1, e>>}
<1>1. TypeOK /\ HandlersInv
  BY DEF SagaInv
<1>2. \A q \in Sagas \cup Editors :
         pc[q] \notin {"idle", "findPhone"} => <<form[q].id, form[q].email>> \in Known
  BY DEF Known
<1>3. CASE UNCHANGED <<made, pc, form>>
  BY <1>2, <1>3
<1>4. ASSUME NEW p \in Handlers, NEW call \in Calls(p), NEW f \in Form, Await(p, call, f),
             \/ call \in {"idle", "findPhone"}
             \/ f.id = made + 1
             \/ WentOn(p, f) \/ StartsWith(p, f)
      PROVE  \A q \in Sagas \cup Editors :
                pc'[q] \notin {"idle", "findPhone"} =>
                   <<form'[q].id, form'[q].email>> \in Known \cup {<<made + 1, f.email>>}
  <2>1. /\ pc'[p] = call /\ form'[p] = f
        /\ \A q \in Handlers \ {p} : pc'[q] = pc[q] /\ form'[q] = form[q]
    BY <1>1, <1>4, Awaited, CallsOf
  <2>2. ASSUME NEW q \in Sagas \cup Editors, q # p, pc'[q] \notin {"idle", "findPhone"}
        PROVE  <<form'[q].id, form'[q].email>> \in Known
    BY <1>2, <2>1, <2>2, CallsOf
  <2>3. ASSUME p \in Sagas \cup Editors, StartsWith(p, f) PROVE <<f.id, f.email>> \in Known
    <3>1. p \notin SignIns \cup Renamers
      BY <2>3, SlotsAssumption
    <3>2. PICK r \in identities : r.id = f.id /\ r.email = f.email
      BY <2>3, <3>1 DEF StartsWith
    <3>3. QED
      BY <3>2 DEF Known
  <2>4. ASSUME p \in Sagas \cup Editors, call \notin {"idle", "findPhone"}
        PROVE  <<f.id, f.email>> \in Known \cup {<<made + 1, f.email>>}
    BY <1>2, <1>4, <2>3, <2>4 DEF WentOn
  <2>5. QED
    BY <2>1, <2>2, <2>4
<1>5. QED
  BY <1>3, <1>4 DEF HandlerStep

LEMMA EmailsKept == SagaInv /\ EmailsAgree /\ [Next]_vars => EmailsAgree'
<1> SUFFICES ASSUME SagaInv, EmailsAgree, [Next]_vars PROVE EmailsAgree'
  OBVIOUS
<1>1. TypeOK /\ HandlersInv /\ TableStep /\ HandlerStep
  BY TableSteps, HandlerSteps DEF SagaInv
<1>2. PICK e : \A q \in Sagas \cup Editors :
         pc'[q] \notin {"idle", "findPhone"} =>
            <<form'[q].id, form'[q].email>> \in Known \cup {<<made + 1, e>>}
  BY <1>1, KnownHandlers
<1>3. Known' \subseteq Known \cup {<<made + 1, e>>}
  BY <1>1, <1>2, KnownRows DEF Known
<1>4. \A x \in Known : x[1] \in 1 .. made
  BY <1>1, CallsOf DEF Known, TypeOK, HandlersInv, Handlers
<1>5. \A x \in Known : x[1] # made + 1
  BY <1>1, <1>4 DEF TypeOK
<1>6. QED
  BY <1>3, <1>5 DEF EmailsAgree

LEMMA AtomicInvariant == ASSUME MaxFaults = 0 PROVE Spec => [](SagaInv /\ AtomicInv)
<1>1. Init => AtomicInv
  BY CallsOf DEF Init, AtomicInv, EmailsAgree, Known, Handlers
<1>2. ASSUME SagaInv, AtomicInv, [Next]_vars PROVE AtomicInv'
  <2>1. OtherStep /\ faults = 0
    BY <1>2, OtherSteps, MaxFaults = 0 DEF SagaInv, TypeOK
  <2>2. lost' = {}
    BY <1>2, <2>1, MaxFaults = 0 DEF OtherStep, FaultStep, AtomicInv
  <2>3. QED
    BY <1>2, <2>2, EmailsKept DEF AtomicInv
<1>3. QED
  BY <1>1, <1>2, SagaInvariant, PTL DEF Spec

\* The person a with the id i, in given tables.
Who(ids, creds, i, a) ==
    \E r \in ids, c \in creds : r.id = i /\ c.id = i /\ a = Person(r, c)

DistinctIn(ids, creds) ==
    /\ \A a, b \in ids : a # b => a.id # b.id /\ a.email # b.email /\ a.phone # b.phone
    /\ \A a, b \in creds : a # b => a.id # b.id /\ a.username # b.username

\* Distinct rows make distinct people.
LEMMA PeopleDiffer ==
    ASSUME NEW ids, NEW creds, DistinctIn(ids, creds), NEW i, NEW j, NEW a, NEW b,
           Who(ids, creds, i, a), Who(ids, creds, j, b)
    PROVE  IF i = j THEN a = b ELSE ~Atomic!Clash(a, b)
<1>1. PICK r \in ids, c \in creds : r.id = i /\ c.id = i /\ a = Person(r, c)
  BY DEF Who
<1>2. PICK s \in ids, d \in creds : s.id = j /\ d.id = j /\ b = Person(s, d)
  BY DEF Who
<1>3. CASE i = j
  BY <1>1, <1>2, <1>3 DEF DistinctIn
<1>4. CASE i # j
  <2>1. r.email # s.email /\ r.phone # s.phone /\ c.username # d.username
    BY <1>1, <1>2, <1>4 DEF DistinctIn
  <2>2. QED
    BY <1>1, <1>2, <1>4, <2>1 DEF Person, Atomic!Clash
<1>5. QED
  BY <1>3, <1>4

LEMMA PeopleAre ==
    ASSUME NEW ids, NEW creds, NEW C, NEW a
    PROVE  a \in {Person(x[1], x[2]) :
                    x \in {y \in ids \X creds : y[1].id = y[2].id /\ y[1].id \in C}}
               <=> \E i \in C : Who(ids, creds, i, a)
<1> DEFINE Pairs == {y \in ids \X creds : y[1].id = y[2].id /\ y[1].id \in C}
<1>1. ASSUME NEW x \in Pairs, a = Person(x[1], x[2])
      PROVE  \E i \in C : Who(ids, creds, i, a)
  BY <1>1 DEF Who
<1>2. ASSUME NEW i \in C, NEW r \in ids, NEW c \in creds, r.id = i, c.id = i, a = Person(r, c)
      PROVE  \E x \in Pairs : a = Person(x[1], x[2])
  <2>1. <<r, c>> \in Pairs
    BY <1>2
  <2>2. a = Person(<<r, c>>[1], <<r, c>>[2])
    BY <1>2
  <2>3. QED
    BY <2>1, <2>2
<1>3. QED
  BY <1>1, <1>2 DEF Who

LEMMA RegisteredAre ==
    \A a : a \in Registered <=> \E i \in Complete : Who(identities, credentials, i, a)
BY PeopleAre DEF Registered

LEMMA RegisteredThen ==
    \A a : a \in Registered' <=> \E i \in Complete' : Who(identities', credentials', i, a)
BY PeopleAre DEF Registered

\* Three ways of changing the tables: by nobody's rows, by the rows of one more
\* person, by those of one person.
LEMMA NobodyChanges ==
    ASSUME Complete' = Complete,
           \A i \in Complete : \A a :
              Who(identities', credentials', i, a) <=> Who(identities, credentials, i, a)
    PROVE  Registered' = Registered
BY RegisteredAre, RegisteredThen

LEMMA OneMore ==
    ASSUME PeopleDistinct', NEW j, NEW b, j \notin Complete, Complete' = Complete \cup {j},
           Who(identities', credentials', j, b),
           \A i \in Complete : \A a :
              Who(identities', credentials', i, a) <=> Who(identities, credentials, i, a)
    PROVE  /\ Registered' = Registered \cup {b}
           /\ \A a \in Registered : ~Atomic!Clash(b, a)
<1>1. DistinctIn(identities', credentials')
  BY DEF PeopleDistinct, DistinctIn
<1>2. \A a : Who(identities', credentials', j, a) <=> a = b
  BY <1>1, PeopleDiffer
<1>3. Registered' = Registered \cup {b}
  BY <1>2, RegisteredAre, RegisteredThen
<1>4. ASSUME NEW a \in Registered PROVE ~Atomic!Clash(b, a)
  <2>1. PICK i \in Complete : Who(identities', credentials', i, a)
    BY RegisteredAre
  <2>2. QED
    BY <1>1, <2>1, PeopleDiffer
<1>5. QED
  BY <1>3, <1>4

LEMMA OneChanges ==
    ASSUME PeopleDistinct, PeopleDistinct', Complete' = Complete, NEW j \in Complete, NEW a, NEW b,
           Who(identities, credentials, j, a), Who(identities', credentials', j, b),
           \A i \in Complete \ {j} : \A x :
              Who(identities', credentials', i, x) <=> Who(identities, credentials, i, x)
    PROVE  /\ a \in Registered /\ Registered' = (Registered \ {a}) \cup {b}
           /\ \A x \in Registered \ {a} : ~Atomic!Clash(b, x)
<1>1. DistinctIn(identities, credentials) /\ DistinctIn(identities', credentials')
  BY DEF PeopleDistinct, DistinctIn
<1>2. /\ \A x : Who(identities, credentials, j, x) <=> x = a
      /\ \A x : Who(identities', credentials', j, x) <=> x = b
  BY <1>1, PeopleDiffer
<1>3. \A i \in Complete \ {j} : ~Who(identities, credentials, i, a)
  <2> SUFFICES ASSUME NEW i \in Complete \ {j}, Who(identities, credentials, i, a) PROVE FALSE
    OBVIOUS
  <2>1. ~Atomic!Clash(a, a)
    BY <1>1, PeopleDiffer
  <2>2. QED
    BY <2>1 DEF Atomic!Clash
<1>4. a \in Registered
  BY RegisteredAre
<1>5. ASSUME NEW x PROVE x \in Registered' <=> x \in (Registered \ {a}) \cup {b}
  <2>1. x \in Registered \ {a} <=> \E i \in Complete \ {j} : Who(identities, credentials, i, x)
    BY <1>2, <1>3, RegisteredAre
  <2>2. x \in Registered' <=>
          x = b \/ \E i \in Complete \ {j} : Who(identities', credentials', i, x)
    BY <1>2, RegisteredThen
  <2>3. QED
    BY <2>1, <2>2
<1>6. ASSUME NEW x \in Registered \ {a} PROVE ~Atomic!Clash(b, x)
  <2>1. PICK i \in Complete \ {j} : Who(identities', credentials', i, x)
    BY <1>2, RegisteredAre
  <2>2. QED
    BY <1>1, <2>1, PeopleDiffer
<1>7. QED
  BY <1>4, <1>5, <1>6

\* The abstract steps.
Changed == Atomic!Register \/ Atomic!ChangePhone \/ Atomic!ChangeName

\* Of a saga nothing is visible before its account.
LEMMA NotYetSomebody ==
    ASSUME SagaInv, AtomicInv, NEW p \in Sagas,
           pc[p] \notin {"idle", "findPhone", "signIn"}
    PROVE  form[p].id \notin accounts
BY DEF SagaInv, StageOk, AtomicInv

\* An identity saved again gives somebody another phone, or nobody's row.
LEMMA IdentityStep ==
    ASSUME SagaInv, AtomicInv, PeopleDistinct', IdentitySaved
    PROVE  Changed \/ Registered' = Registered
<1>1. TypeOK /\ HandlersInv /\ PeopleDistinct /\ ReferencesHold
  BY DEF SagaInv
<1>2. PICK p \in Handlers : /\ pc[p] \in {"saveIdentity", "saveProfile"} /\ SaveIdentity(form[p])
                            /\ UNCHANGED <<credentials, accounts>>
  BY DEF IdentitySaved
<1> DEFINE i == form[p].id
           row == IdentityRow(form[p])
<1>3. form[p] \in Form /\ row.id = i /\ row.email = form[p].email /\ row.phone = form[p].phone
  BY <1>1, FormType DEF TypeOK
<1>4. /\ identities' = {r \in identities : r.id # i} \cup {row}
      /\ Ids(identities') = Ids(identities) \cup {i}
  BY <1>2, <1>3, SavedIds DEF SaveIdentity
<1>5. \A k : k # i =>
        \A a : Who(identities', credentials', k, a) <=> Who(identities, credentials, k, a)
  BY <1>2, <1>3, <1>4 DEF Who
<1>6. Complete' = Complete
  BY <1>1, <1>2, <1>4 DEF Complete, ReferencesHold
<1>7. CASE i \notin Complete
  BY <1>5, <1>6, <1>7, NobodyChanges
<1>8. CASE i \in Complete
  <2>1. p \in Editors
    BY <1>1, <1>2, <1>8, NotYetSomebody, CallsOf DEF HandlersInv, Handlers, Complete
  <2>2. PICK r \in identities, c \in credentials : r.id = i /\ c.id = i
    BY <1>8 DEF Complete, Ids
  <2>3. <<r.id, r.email>> \in Known /\ <<i, form[p].email>> \in Known
    BY <1>2, <2>1 DEF Known
  <2>4. r.email = form[p].email
    BY <2>2, <2>3 DEF AtomicInv, EmailsAgree
  <2> DEFINE a == Person(r, c)
             b == Person(row, c)
  <2>5. Who(identities, credentials, i, a) /\ Who(identities', credentials', i, b)
    BY <1>2, <1>3, <1>4, <2>2 DEF Who
  <2>6. /\ a \in Registered /\ Registered' = (Registered \ {a}) \cup {b}
        /\ \A x \in Registered \ {a} : ~Atomic!Clash(b, x)
    BY <1>1, <1>5, <1>6, <1>8, <2>5, OneChanges
  <2>7. b = [a EXCEPT !.phone = form[p].phone] /\ form[p].phone \in Phones
    BY <1>3, <2>4 DEF Person, Form
  <2>8. Atomic!ChangePhone
    BY <2>6, <2>7 DEF Atomic!ChangePhone
  <2>9. QED
    BY <2>8 DEF Changed
<1>9. QED
  BY <1>7, <1>8

\* A credential saved again gives somebody another username, or is nobody's.
LEMMA CredentialStep ==
    ASSUME SagaInv, AtomicInv, PeopleDistinct', CredentialSaved
    PROVE  Changed \/ Registered' = Registered
<1>1. /\ TypeOK /\ HandlersInv /\ PeopleDistinct
      /\ accounts \subseteq Ids(credentials)
  BY DEF SagaInv, AtomicInv, AccountHasCredential
<1>2. PICK p \in Handlers : /\ pc[p] \in {"saveCredential", "saveName"} /\ SaveCredential(form[p])
                            /\ UNCHANGED <<identities, accounts>>
  BY DEF CredentialSaved
<1> DEFINE i == form[p].id
           row == CredentialRow(form[p])
<1>3. form[p] \in Form /\ row.id = i /\ row.username = form[p].username
  BY <1>1, FormType DEF TypeOK
<1>4. /\ credentials' = {r \in credentials : r.id # i} \cup {row}
      /\ Ids(credentials') = Ids(credentials) \cup {i}
  BY <1>2, <1>3, SavedIds DEF SaveCredential
<1>5. \A k : k # i =>
        \A a : Who(identities', credentials', k, a) <=> Who(identities, credentials, k, a)
  BY <1>2, <1>3, <1>4 DEF Who
<1>6. Complete' = Complete
  BY <1>1, <1>2, <1>4 DEF Complete
<1>7. CASE i \notin Complete
  BY <1>5, <1>6, <1>7, NobodyChanges
<1>8. CASE i \in Complete
  <2>1. PICK r \in identities, c \in credentials : r.id = i /\ c.id = i
    BY <1>8 DEF Complete, Ids
  <2> DEFINE a == Person(r, c)
             b == Person(r, row)
  <2>2. Who(identities, credentials, i, a) /\ Who(identities', credentials', i, b)
    BY <1>2, <1>3, <1>4, <2>1 DEF Who
  <2>3. /\ a \in Registered /\ Registered' = (Registered \ {a}) \cup {b}
        /\ \A x \in Registered \ {a} : ~Atomic!Clash(b, x)
    BY <1>1, <1>5, <1>6, <1>8, <2>2, OneChanges
  <2>4. b = [a EXCEPT !.username = form[p].username] /\ form[p].username \in Usernames
    BY <1>3 DEF Person, Form
  <2>5. Atomic!ChangeName
    BY <2>3, <2>4 DEF Atomic!ChangeName
  <2>6. QED
    BY <2>5 DEF Changed
<1>9. QED
  BY <1>7, <1>8

\* The account makes somebody registered.
LEMMA AccountStep ==
    ASSUME SagaInv, AtomicInv, PeopleDistinct', AccountSaved
    PROVE  Changed
<1>1. TypeOK
  BY DEF SagaInv
<1>2. PICK p \in Sagas : /\ pc[p] = "saveAccount" /\ form[p].id \in Ids(identities)
                         /\ accounts' = accounts \cup {form[p].id}
                         /\ UNCHANGED <<identities, credentials>>
  BY DEF AccountSaved
<1> DEFINE i == form[p].id
<1>3. i \in Ids(credentials) /\ i \notin accounts
  BY <1>2, NotYetSomebody DEF SagaInv, StageOk
<1>4. Complete' = Complete \cup {i} /\ i \notin Complete
  BY <1>2, <1>3 DEF Complete
<1>5. PICK r \in identities, c \in credentials : r.id = i /\ c.id = i
  BY <1>2, <1>3 DEF Ids
<1> DEFINE b == Person(r, c)
<1>6. Who(identities', credentials', i, b)
  BY <1>2, <1>5 DEF Who
<1>7. Registered' = Registered \cup {b} /\ \A a \in Registered : ~Atomic!Clash(b, a)
  BY <1>2, <1>4, <1>6, OneMore
<1>8. b \in Atomic!Person
  BY <1>1 DEF TypeOK, Person, Atomic!Person
<1>9. QED
  BY <1>7, <1>8 DEF Changed, Atomic!Register

\* What is compensated is nobody.
LEMMA DropStep ==
    ASSUME SagaInv, AtomicInv, RowsDropped
    PROVE  Registered' = Registered
<1>1. \A p \in Sagas : DropCredential(p) => form[p].id \notin accounts
  BY NotYetSomebody DEF DropCredential
<1>2. ASSUME NEW p \in Sagas, DropIdentity(p) PROVE Registered' = Registered
  <2>1. /\ identities' = {r \in identities :
                            r.id = form[p].id => r.id \in Ids(credentials) \cup accounts}
        /\ UNCHANGED <<credentials, accounts>>
    BY <1>2 DEF DropIdentity
  <2>2. Complete' = Complete
    BY <1>2, <2>1, DroppedIds DEF Complete
  <2>3. \A i \in Complete : \A a :
           Who(identities', credentials', i, a) <=> Who(identities, credentials, i, a)
    BY <2>1 DEF Who, Complete
  <2>4. QED
    BY <2>2, <2>3, NobodyChanges
<1>3. ASSUME NEW p \in Sagas, DropCredential(p) PROVE Registered' = Registered
  <2>1. /\ credentials' = {r \in credentials : r.id = form[p].id => r.id \in sessions}
        /\ UNCHANGED <<identities, accounts>>
        /\ form[p].id \notin accounts
    BY <1>1, <1>3 DEF DropCredential
  <2>2. Complete' = Complete
    BY <1>3, <2>1, DroppedIds DEF Complete
  <2>3. \A i \in Complete : \A a :
           Who(identities', credentials', i, a) <=> Who(identities, credentials, i, a)
    BY <2>1 DEF Who, Complete
  <2>4. QED
    BY <2>2, <2>3, NobodyChanges
<1>4. QED
  BY <1>2, <1>3 DEF RowsDropped

\* Seen through the people who are registered whole, every step of the sagas and of
\* the updates and renames next to them is one of the abstract registration.
THEOREM RegistrationIsAtomic ==
    ASSUME MaxFaults = 0
    PROVE  Spec => ImplementsAtomicRegistration
<1>1. Init => Atomic!Init
  <2>1. ASSUME Init PROVE Registered = {}
    BY <2>1, RegisteredAre DEF Init, Who
  <2>2. QED
    BY <2>1 DEF Atomic!Init
<1>2. ASSUME SagaInv, AtomicInv, SagaInv', [Next]_vars
      PROVE  [Changed]_Registered
  <2>1. TableStep /\ PeopleDistinct'
    BY <1>2, TableSteps DEF SagaInv
  <2>2. CASE SessionsChanged
    <3>1. Registered' = Registered
      BY <2>2 DEF SessionsChanged, Registered, Complete
    <3>2. QED
      BY <3>1
  <2>3. QED
    BY <1>2, <2>1, <2>2, IdentityStep, CredentialStep, AccountStep, DropStep DEF TableStep
<1>3. QED
  BY <1>1, <1>2, AtomicInvariant, PTL
     DEF Spec, ImplementsAtomicRegistration, Atomic!Spec, Changed
=============================================================================
