---------------------------- MODULE RegisterSaga ----------------------------
(***************************************************************************)
(* The registration saga over the tables identities, credentials, accounts *)
(* and sessions, with its compensations and the webhook it sends at the    *)
(* end, next to the sign-ins, profile updates and username changes of the  *)
(* same people.  Each awaited repository call is one step.  The foreign    *)
(* keys refuse the deletion of a row others refer to, and the saga logs    *)
(* and swallows the errors of its compensations.                           *)
(*                                                                         *)
(* The e-mails here are verified; Verification models the guard.  A saga   *)
(* inserts at most one row per table, so its rows share one id.  sessions  *)
(* keeps only whether a credential has any, accounts only the USER type.   *)
(***************************************************************************)
EXTENDS Naturals, Sequences, FiniteSets

CONSTANTS
    Emails, Phones, Usernames,
    Sagas,          \* slots for concurrent POST /register calls
    SignIns,        \* ... POST /auth/sign-in calls
    Editors,        \* ... UpdateProfile calls
    Renamers,       \* ... ChangeUsername calls
    Attempts,       \* of a webhook: DELAYS_MS.length + 1
    Webhook,        \* whether WEBHOOK_BACKEND_URL is set
    MaxIds,         \* bound on the identities ever created
    MaxFaults       \* bound on lost answers, failed compensations and crashes

ASSUME DataAssumption == Emails # {} /\ Phones # {} /\ Usernames # {}

ASSUME BoundsAssumption ==
    /\ {Attempts, MaxIds, MaxFaults} \subseteq Nat
    /\ Attempts > 0
    /\ Webhook \in BOOLEAN

ASSUME SlotsAssumption ==
    /\ Sagas \cap (SignIns \cup Editors \cup Renamers) = {}
    /\ SignIns \cap (Editors \cup Renamers) = {}
    /\ Editors \cap Renamers = {}

VARIABLES
    identities,    \* rows [id, email, phone]
    credentials,   \* rows [id, username]
    accounts,      \* ids of the identities that have a USER account row
    sessions,      \* ids of the credentials that have session rows
    made,          \* ids generated so far
    tokens,        \* ids for which an access token has been issued
    sending,       \* webhooks: per id, the attempt under way (0: none)
    received,      \* ... and how often the backend has received it
    faults,        \* faults so far
    lost,          \* history: ids of the registrations whose own saga met one
    revived,       \* history: ids of deleted rows that an upsert has brought back
    pc,            \* the call each handler is waiting for
    form           \* its input and, once generated, the id of its rows

tables == <<identities, credentials, accounts, sessions>>
hooks == <<sending, received>>
mishaps == <<faults, lost, revived>>
vars == <<tables, made, tokens, hooks, mishaps, pc, form>>

Handlers == Sagas \cup SignIns \cup Editors \cup Renamers

Pc == {"idle", "findPhone", "saveIdentity", "findUsername", "saveCredential",
       "findAccount", "saveAccount", "signIn", "dropCredential", "dropIdentity",
       "openSession", "checkPhone", "saveProfile", "checkName", "saveName"}

\* What a handler holds: an identity row and a credential row with one id.
Form == [id: Nat, email: Emails, phone: Phones, username: Usernames]

Input == [id: {0}, email: Emails, phone: Phones, username: Usernames]

Filled(i, e, h, u) == [id |-> i, email |-> e, phone |-> h, username |-> u]

NoForm == Filled(0, CHOOSE e \in Emails : TRUE, CHOOSE h \in Phones : TRUE,
                    CHOOSE u \in Usernames : TRUE)

TypeOK ==
    /\ identities \subseteq [id: 1 .. made, email: Emails, phone: Phones]
    /\ credentials \subseteq [id: 1 .. made, username: Usernames]
    /\ {accounts, sessions, tokens} \subseteq SUBSET (1 .. made)
    /\ sending \in [1 .. made -> 0 .. Attempts]
    /\ received \in [1 .. made -> Nat]
    /\ made \in Nat
    /\ faults \in 0 .. MaxFaults
    /\ lost \subseteq 0 .. made
    /\ revived \subseteq 1 .. made
    /\ pc \in [Handlers -> Pc]
    /\ form \in [Handlers -> Form]

-----------------------------------------------------------------------------
(* Tables.                                                                 *)

Ids(rows) == {r.id : r \in rows}

IdentityRow(f) == [id |-> f.id, email |-> f.email, phone |-> f.phone]

CredentialRow(f) == [id |-> f.id, username |-> f.username]

\* Mutant: identities without UNIQUE (phone).
IdentityRefusedPhoneAside(f) ==
    \E r \in identities : r.id # f.id /\ r.email = f.email

\* UNIQUE (email), UNIQUE (phone).
IdentityRefused(f) ==
    \E r \in identities : r.id # f.id /\ (r.email = f.email \/ r.phone = f.phone)

\* Mutant: credentials without UNIQUE (username).
CredentialRefusedNameAside(f) == f.id \notin Ids(identities)

\* UNIQUE (username) and the foreign key to identities.
CredentialRefused(f) ==
    \/ f.id \notin Ids(identities)
    \/ \E r \in credentials : r.id # f.id /\ r.username = f.username

UsernameTaken(u) == \E r \in credentials : r.username = u

\* INSERT ... ON CONFLICT (id) DO UPDATE.  No copy ever changes its e-mail.
SaveIdentity(f) == identities' = {r \in identities : r.id # f.id} \cup {IdentityRow(f)}

SaveCredential(f) ==
    credentials' = {r \in credentials : r.id # f.id} \cup {CredentialRow(f)}

-----------------------------------------------------------------------------
(* Handlers.                                                               *)

Await(p, call, f) ==
    /\ pc'   = [pc EXCEPT ![p] = call]
    /\ form' = [form EXCEPT ![p] = f]

Then(p, call) == Await(p, call, form[p])

Return(p) == Await(p, "idle", NoForm)

Init ==
    /\ identities = {}
    /\ credentials = {}
    /\ accounts = {}
    /\ sessions = {}
    /\ made = 0
    /\ tokens = {}
    /\ sending = <<>>
    /\ received = <<>>
    /\ faults = 0
    /\ lost = {}
    /\ revived = {}
    /\ pc = [p \in Handlers |-> "idle"]
    /\ form = [p \in Handlers |-> NoForm]

(* Step 1: CreateIdentity; sub-step 1a changes no table of this module.    *)

\* MaxIds bounds the identities: a slot is reserved for every saga in flight.
RoomForSaga == made + Cardinality({q \in Sagas : pc[q] # "idle"}) < MaxIds

Register(p, f) ==
    /\ pc[p] = "idle"
    /\ RoomForSaga
    /\ \A r \in identities : r.email # f.email        \* EmailAlreadyRegisteredError
    /\ Await(p, "findPhone", f)
    /\ UNCHANGED <<tables, made, tokens, hooks, mishaps>>

\* Mutant: the generated id is one that was used before.
FindPhoneIdReused(p) ==
    /\ pc[p] = "findPhone"
    /\ IF \E r \in identities : r.phone = form[p].phone
       THEN Return(p)
       ELSE Await(p, "saveIdentity", [form[p] EXCEPT !.id = made + 1])
    /\ UNCHANGED <<tables, made, tokens, hooks, mishaps>>

FindPhone(p) ==
    /\ pc[p] = "findPhone"
    /\ IF \E r \in identities : r.phone = form[p].phone
       THEN Return(p) /\ UNCHANGED <<made, hooks>>
       ELSE /\ Await(p, "saveIdentity", [form[p] EXCEPT !.id = made + 1])
            /\ made' = made + 1
            /\ sending' = Append(sending, 0)
            /\ received' = Append(received, 0)
    /\ UNCHANGED <<tables, tokens, mishaps>>

InsertIdentity(p) ==
    /\ pc[p] = "saveIdentity"
    /\ IF IdentityRefused(form[p])
       THEN Return(p) /\ UNCHANGED identities
       ELSE Then(p, "findUsername") /\ SaveIdentity(form[p])
    /\ UNCHANGED <<credentials, accounts, sessions, made, tokens, hooks, mishaps>>

(* Step 2: CreateCredential *)

FindUsername(p) ==
    /\ pc[p] = "findUsername"
    /\ Then(p, IF UsernameTaken(form[p].username) THEN "dropIdentity" ELSE "saveCredential")
    /\ UNCHANGED <<tables, made, tokens, hooks, mishaps>>

InsertCredential(p) ==
    /\ pc[p] = "saveCredential"
    /\ IF CredentialRefused(form[p])
       THEN Then(p, "dropIdentity") /\ UNCHANGED credentials
       ELSE Then(p, "findAccount") /\ SaveCredential(form[p])
    /\ UNCHANGED <<identities, accounts, sessions, made, tokens, hooks, mishaps>>

(* Step 3: CreateAccount(USER) *)

FindAccount(p) ==
    /\ pc[p] = "findAccount"
    /\ Then(p, IF form[p].id \in accounts THEN "dropCredential" ELSE "saveAccount")
    /\ UNCHANGED <<tables, made, tokens, hooks, mishaps>>

InsertAccount(p) ==
    /\ pc[p] = "saveAccount"
    /\ IF form[p].id \notin Ids(identities) \/ form[p].id \in accounts
       THEN Then(p, "dropCredential") /\ UNCHANGED accounts
       ELSE Then(p, "signIn") /\ accounts' = accounts \cup {form[p].id}
    /\ UNCHANGED <<identities, credentials, sessions, made, tokens, hooks, mishaps>>

(* Step 4: SignIn, never compensated, and then the webhook, not awaited.   *)

SagaSignIn(p) ==
    /\ pc[p] = "signIn"
    /\ IF form[p].id \in Ids(credentials)
       THEN /\ sessions' = sessions \cup {form[p].id}
            /\ tokens' = tokens \cup {form[p].id}
            /\ sending' = [sending EXCEPT ![form[p].id] = IF Webhook THEN 1 ELSE 0]
       ELSE UNCHANGED <<sessions, tokens, sending>>
    /\ Return(p)
    /\ UNCHANGED <<identities, credentials, accounts, made, received, mishaps>>

(* Compensations: refused by the foreign keys of sessions and accounts.    *)

DropCredential(p) ==
    /\ pc[p] = "dropCredential"
    /\ credentials' = {r \in credentials : r.id = form[p].id => r.id \in sessions}
    /\ Then(p, "dropIdentity")
    /\ UNCHANGED <<identities, accounts, sessions, made, tokens, hooks, mishaps>>

\* Mutant: the compensation logs and stops before the delete.
DropIdentitySkipped(p) ==
    /\ pc[p] = "dropIdentity"
    /\ Return(p)
    /\ UNCHANGED <<tables, made, tokens, hooks, mishaps>>

\* Mutant: tables without REFERENCES.
DropIdentityUnchecked(p) ==
    /\ pc[p] = "dropIdentity"
    /\ identities' = {r \in identities : r.id # form[p].id}
    /\ Return(p)
    /\ UNCHANGED <<credentials, accounts, sessions, made, tokens, hooks, mishaps>>

DropIdentity(p) ==
    /\ pc[p] = "dropIdentity"
    /\ identities' = {r \in identities :
                        r.id = form[p].id => r.id \in Ids(credentials) \cup accounts}
    /\ Return(p)
    /\ UNCHANGED <<credentials, accounts, sessions, made, tokens, hooks, mishaps>>

\* What a rejected call leads to: the catch blocks of the saga.
\* Mutant: the catch of step 4 compensates as well.
AfterErrorEager(call) ==
    CASE call \in {"findUsername", "saveCredential"} -> "dropIdentity"
      [] call \in {"findAccount", "saveAccount", "signIn"} -> "dropCredential"
      [] call = "dropCredential" -> "dropIdentity"
      [] OTHER -> "idle"

AfterError(call) ==
    CASE call \in {"findUsername", "saveCredential"} -> "dropIdentity"
      [] call \in {"findAccount", "saveAccount"} -> "dropCredential"
      [] call = "dropCredential" -> "dropIdentity"
      [] OTHER -> "idle"

Catch(p) == IF AfterError(pc[p]) = "idle" THEN Return(p) ELSE Then(p, AfterError(pc[p]))

\* A call of the saga rejects and has changed nothing.
Reject(p) ==
    /\ pc[p] \notin {"idle", "dropCredential", "dropIdentity"}
    /\ Catch(p)
    /\ UNCHANGED <<tables, made, tokens, hooks, mishaps>>

Fault == faults < MaxFaults /\ faults' = faults + 1

\* A fault of the saga p, which from then on may not know what it has stored.
SagaFault(p) == Fault /\ lost' = lost \cup {form[p].id} /\ UNCHANGED revived

\* A compensation rejects.
CompensationFails(p) ==
    /\ pc[p] \in {"dropCredential", "dropIdentity"}
    /\ SagaFault(p)
    /\ Catch(p)
    /\ UNCHANGED <<tables, made, tokens, hooks>>

\* An insert takes effect, but its answer is lost and the call rejects.
AnswerLost(p) ==
    /\ SagaFault(p)
    /\ \/ /\ pc[p] = "saveIdentity" /\ ~IdentityRefused(form[p])
          /\ SaveIdentity(form[p])
          /\ UNCHANGED <<credentials, accounts>>
       \/ /\ pc[p] = "saveCredential" /\ ~CredentialRefused(form[p])
          /\ SaveCredential(form[p])
          /\ UNCHANGED <<identities, accounts>>
       \/ /\ pc[p] = "saveAccount" /\ form[p].id \in Ids(identities)
          /\ accounts' = accounts \cup {form[p].id}
          /\ UNCHANGED <<identities, credentials>>
    /\ Catch(p)
    /\ UNCHANGED <<sessions, made, tokens, hooks>>

\* The process dies in the middle of the saga.
Crash(p) ==
    /\ pc[p] # "idle"
    /\ SagaFault(p)
    /\ Return(p)
    /\ UNCHANGED <<tables, made, tokens, hooks>>

(* The webhook: attempts one after another, until one is answered.         *)

GiveUpOrRetry(i) == [sending EXCEPT ![i] = IF @ = Attempts THEN 0 ELSE @ + 1]

\* Mutant: the loop goes on after an answer.
WebhookAnsweredNoReturn(i) ==
    /\ sending[i] > 0
    /\ received' = [received EXCEPT ![i] = @ + 1]
    /\ sending' = GiveUpOrRetry(i)
    /\ UNCHANGED <<tables, made, tokens, mishaps, pc, form>>

WebhookAnswered(i) ==
    /\ sending[i] > 0
    /\ received' = [received EXCEPT ![i] = @ + 1]
    /\ sending' = [sending EXCEPT ![i] = 0]
    /\ UNCHANGED <<tables, made, tokens, mishaps, pc, form>>

\* The attempt does not reach the backend.
WebhookFails(i) ==
    /\ sending[i] > 0
    /\ sending' = GiveUpOrRetry(i)
    /\ UNCHANGED <<tables, made, tokens, received, mishaps, pc, form>>

\* It does, but its answer is lost or is an error; or the process dies then.
WebhookAnswerLost(i) ==
    /\ sending[i] > 0
    /\ Fault
    /\ received' = [received EXCEPT ![i] = @ + 1]
    /\ sending' \in {GiveUpOrRetry(i), [sending EXCEPT ![i] = 0]}
    /\ UNCHANGED <<tables, made, tokens, lost, revived, pc, form>>

(* Sign-in, sign-out, UpdateProfile and ChangeUsername of the same people: *)
(* none of them asks whether the registration is finished.                 *)

SignIn(p, i) ==
    /\ pc[p] = "idle"
    /\ i \in Ids(credentials)
    /\ Await(p, "openSession", Filled(i, NoForm.email, NoForm.phone, NoForm.username))
    /\ UNCHANGED <<tables, made, tokens, hooks, mishaps>>

OpenSession(p) ==
    /\ pc[p] = "openSession"
    /\ IF form[p].id \in Ids(credentials)    \* the foreign key of sessions
       THEN sessions' = sessions \cup {form[p].id} /\ tokens' = tokens \cup {form[p].id}
       ELSE UNCHANGED <<sessions, tokens>>
    /\ Return(p)
    /\ UNCHANGED <<identities, credentials, accounts, made, hooks, mishaps>>

SignOut(i) ==
    /\ i \in sessions
    /\ sessions' = sessions \ {i}
    /\ UNCHANGED <<identities, credentials, accounts, made, tokens, hooks, mishaps, pc, form>>

UpdateProfile(p, r, h) ==
    /\ pc[p] = "idle"
    /\ r \in identities
    /\ LET f == Filled(r.id, r.email, h, NoForm.username) IN
       \/ Await(p, "checkPhone", f)
       \/ h = r.phone /\ Await(p, "saveProfile", f)    \* no phone is given
    /\ UNCHANGED <<tables, made, tokens, hooks, mishaps>>

CheckPhone(p) ==
    /\ pc[p] = "checkPhone"
    /\ \A r \in identities : r.phone = form[p].phone => r.id = form[p].id
    /\ Then(p, "saveProfile")
    /\ UNCHANGED <<tables, made, tokens, hooks, mishaps>>

\* Both saves are upserts: a row that was deleted meanwhile comes back.
Upsert(i, rows) == revived' = (IF i \in Ids(rows) THEN revived ELSE revived \cup {i})

SaveProfile(p) ==
    /\ pc[p] = "saveProfile"
    /\ IF IdentityRefused(form[p])
       THEN UNCHANGED <<identities, revived>>
       ELSE SaveIdentity(form[p]) /\ Upsert(form[p].id, identities)
    /\ Return(p)
    /\ UNCHANGED <<credentials, accounts, sessions, made, tokens, hooks, faults, lost>>

\* The route trusts the identity its header names.  The cool-down is left to Sessions.
ChangeUsername(p, r, u) ==
    /\ pc[p] = "idle"
    /\ r \in credentials
    /\ Await(p, "checkName", Filled(r.id, NoForm.email, NoForm.phone, u))
    /\ UNCHANGED <<tables, made, tokens, hooks, mishaps>>

CheckName(p) ==
    /\ pc[p] = "checkName"
    /\ ~UsernameTaken(form[p].username)        \* UsernameAlreadyTakenError
    /\ Then(p, "saveName")
    /\ UNCHANGED <<tables, made, tokens, hooks, mishaps>>

SaveName(p) ==
    /\ pc[p] = "saveName"
    /\ IF CredentialRefused(form[p])
       THEN UNCHANGED <<credentials, revived>>
       ELSE SaveCredential(form[p]) /\ Upsert(form[p].id, credentials)
    /\ Return(p)
    /\ UNCHANGED <<identities, accounts, sessions, made, tokens, hooks, faults, lost>>

-----------------------------------------------------------------------------

SagaStep(p) ==
    \/ FindPhone(p) \/ InsertIdentity(p) \/ FindUsername(p) \/ InsertCredential(p)
    \/ FindAccount(p) \/ InsertAccount(p) \/ SagaSignIn(p)
    \/ DropCredential(p) \/ DropIdentity(p)

SagaFailure(p) == Reject(p) \/ CompensationFails(p) \/ AnswerLost(p) \/ Crash(p)

Next ==
    \/ \E p \in Sagas :
         (\E f \in Input : Register(p, f)) \/ SagaStep(p) \/ SagaFailure(p)
    \/ \E p \in SignIns :
         (\E i \in Ids(credentials) : SignIn(p, i)) \/ OpenSession(p) \/ Reject(p)
    \/ \E p \in Editors :
         \/ \E r \in identities, h \in Phones : UpdateProfile(p, r, h)
         \/ CheckPhone(p) \/ SaveProfile(p) \/ Reject(p)
    \/ \E p \in Renamers :
         \/ \E r \in credentials, u \in Usernames : ChangeUsername(p, r, u)
         \/ CheckName(p) \/ SaveName(p) \/ Reject(p)
    \/ \E i \in sessions : SignOut(i)
    \/ \E i \in DOMAIN sending :
         WebhookAnswered(i) \/ WebhookFails(i) \/ WebhookAnswerLost(i)

Spec == Init /\ [][Next]_vars

-----------------------------------------------------------------------------
(* Properties that hold whatever fails.                                    *)

\* Nobody shares an e-mail, a phone number or a username, however the checks and
\* the writes of several sagas, profile updates and renames interleave.
PeopleDistinct ==
    /\ \A a, b \in identities :
         a # b => a.id # b.id /\ a.email # b.email /\ a.phone # b.phone
    /\ \A a, b \in credentials : a # b => a.id # b.id /\ a.username # b.username

\* The people who are registered whole.
Complete == Ids(identities) \cap Ids(credentials) \cap accounts

\* The backend hears only of people who are registered whole and stay so, and
\* hears again of one only if an answer of its own got lost; never more often
\* than the sender has attempts.
NotifiedOfTheRegistered ==
    \A i \in DOMAIN received :
        /\ received[i] > 0 => i \in Complete
        /\ received[i] <= Attempts
        /\ received[i] <= 1 + faults

\* No compensation, late answer or crash leaves a row that refers to a deleted one.
ReferencesHold ==
    /\ Ids(credentials) \cup accounts \subseteq Ids(identities)
    /\ sessions \subseteq Ids(credentials)

-----------------------------------------------------------------------------
(* Properties of the registrations whose own saga has met no fault: the    *)
(* faults of others do not reach them.                                     *)

\* A person with an account can always sign in: a credential is not taken away
\* from an identity that has got its account.
AccountHasCredential == accounts \ lost \subseteq Ids(credentials)

\* The saga that is still to finish or compensate the registration i.
Responsible(i) == {p \in Sagas : pc[p] # "idle" /\ form[p].id = i}

\* A registration that failed leaves nothing behind, so its e-mail, phone and
\* username are free again: every other partial one has its saga still running, or
\* somebody got in its way: a sign-in before step 4, whose session holds up the
\* compensation, or a rename or update whose upsert undid the compensation.
NoHalfRegistration ==
    \A i \in Ids(identities) \ Complete :
        Responsible(i) # {} \/ i \in lost \cup tokens \cup revived

\* A finished registration is never undone, by its own saga or by another's
\* compensation.
FinishedStays == [][Complete \ lost \subseteq Complete']_vars

-----------------------------------------------------------------------------
(* ... and of all together while no saga has met a fault.                  *)

Person(r, c) == [email |-> r.email, phone |-> r.phone, username |-> c.username]

\* The people who are registered whole, from their two rows.
Registered ==
    {Person(x[1], x[2]) :
        x \in {y \in identities \X credentials : y[1].id = y[2].id /\ y[1].id \in Complete}}

Atomic == INSTANCE AtomicRegistration WITH registered <- Registered

\* Seen through them, registration is atomic.
ImplementsAtomicRegistration == Atomic!Spec

(* The inductive strengthenings: what each handler has done so far.        *)

\* The calls each kind of handler waits for.
Calls(p) ==
    CASE p \in Sagas -> Pc \ {"openSession", "checkPhone", "saveProfile", "checkName", "saveName"}
      [] p \in SignIns -> {"idle", "openSession"}
      [] p \in Editors -> {"idle", "checkPhone", "saveProfile"}
      [] p \in Renamers -> {"idle", "checkName", "saveName"}

\* Past its first call, a handler holds the id of rows that have been made.
HandlersInv ==
    \A p \in Handlers :
        /\ pc[p] \in Calls(p)
        /\ pc[p] = "findPhone" => form[p].id = 0
        /\ pc[p] \notin {"idle", "findPhone"} => form[p].id \in 1 .. made

\* No two sagas work on the same registration.
OneSagaPerId == \A i \in 1 .. made : \A p, q \in Responsible(i) : p = q

\* How far a saga has come; unless an answer was lost, it knows of the account it saved.
StageOk(p) ==
    /\ pc[p] \in {"findAccount", "saveAccount"} => form[p].id \in Ids(credentials)
    /\ pc[p] = "signIn" => form[p].id \in Complete
    /\ pc[p] \notin {"idle", "findPhone", "signIn"} => form[p].id \notin accounts \ lost

\* A webhook is sent when its saga is done, and each attempt is received at most once.
WebhookOk(i) ==
    /\ sending[i] > 0 \/ received[i] > 0 => i \in Complete /\ Responsible(i) = {}
    /\ sending[i] > 0 => received[i] < sending[i] /\ received[i] <= faults

SagaInv ==
    /\ TypeOK
    /\ HandlersInv
    /\ PeopleDistinct
    /\ ReferencesHold
    /\ OneSagaPerId
    /\ \A p \in Sagas : StageOk(p)
    /\ AccountHasCredential
    /\ \A i \in 1 .. made : WebhookOk(i)
    /\ NotifiedOfTheRegistered

\* A saga has stored nothing it does not know of, unless somebody got in its way.
CleanOk(p) ==
    /\ pc[p] = "saveIdentity" /\ form[p].id \in Ids(identities) => form[p].id \in revived
    /\ /\ pc[p] \in {"findUsername", "saveCredential", "dropIdentity"}
       /\ form[p].id \in Ids(credentials)
       => form[p].id \in lost \cup tokens \cup revived

CleanInv ==
    /\ sessions \subseteq tokens
    /\ \A p \in Sagas : CleanOk(p)
    /\ NoHalfRegistration

(* ... and for the refinement: who works on an id agrees on its e-mail.    *)

Known ==
    {<<r.id, r.email>> : r \in identities} \cup
    {<<form[p].id, form[p].email>> :
        p \in {q \in Sagas \cup Editors : pc[q] \notin {"idle", "findPhone"}}}

EmailsAgree == \A x, y \in Known : x[1] = y[1] => x = y

AtomicInv == lost = {} /\ EmailsAgree

-----------------------------------------------------------------------------
(* What the documentation says and the code does not keep.                 *)

\* "seguro porque en este punto no hay Sessions creadas": step 2 is compensated
\* before anyone has signed in.
NoSessionBeforeStep4 ==
    \A p \in Sagas : pc[p] = "dropCredential" => form[p].id \notin sessions

\* "seguro porque Credential ya fue eliminada": when step 1 is compensated, the
\* credential of step 2 is gone.
NoCredentialBeforeStep2 ==
    \A p \in Sagas : pc[p] = "dropIdentity" => form[p].id \notin Ids(credentials)

\* "Account nunca llego a crearse": a failed step 3 has saved no account.
FailedStep3SavedNothing ==
    \A p \in Sagas : pc[p] = "dropCredential" => form[p].id \notin accounts

\* "no compensation needed - nothing was created yet": a failed step 1 has saved
\* no identity.
FailedStep1SavedNothing ==
    [][\A p \in Sagas :
         pc[p] = "saveIdentity" /\ pc'[p] = "idle" => identities' = identities]_vars
=============================================================================
