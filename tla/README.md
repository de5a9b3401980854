# chabit-id: TLA+ models and proofs

chabit-id is the identity service of chabit: a Hono/Node HTTP server over one
PostgreSQL database. It mails one-time codes, registers people, signs them in,
rotates their session tokens and keeps their roles. Around it are a migration runner
and a seed script. This directory models the
parts of it whose correctness depends on the order in which things happen, checks
them with TLC on small instances and proves their safety properties with TLAPS.

Paths below are relative to `src/src/modules/` of the repository unless they start
with `src/`.

## 1. Inventory

| Component | State | Operations | Interacts with | What is hard | What makes it correct |
|---|---|---|---|---|---|
| verification | `email_verifications` (status, attempts, sent_at, blocked_at, identity_id) | RequestEmailVerification, VerifyEmail (the only use case in a transaction), the code half of ResetPassword, sub-step 1a of RegisterSaga | mail server, credential, registration | four kinds of handler write whole rows from copies; one of them holds a row lock; the mail call lies between a check and an insert | one live code per address, limited guesses, single use, limits per hour, a block is served, every call returns |
| credential | `credentials`, `sessions` | SignIn, RefreshToken, RevokeToken, RevokeAllTokens, ChangePassword, ChangeUsername, ResetPassword, CreateCredential | identity and account (reads), verification | no transactions at all; `save` of a session is an upsert; count, evict and insert are three steps | a replaced token is dead, an ended session stays ended, a replaced password opens nothing, usernames distinct, at most `MAX_SESSIONS` |
| registration | none of its own | RegisterSaga: verification guard, identity, credential, account, sign-in; compensations | all of the above | partial failure, lost answers, crash, foreign keys that refuse a compensation, others who sign in, rename or update meanwhile | registered whole or not at all; a finished registration is never undone |
| identity | `identities` | CreateIdentity, UpdateProfile, hardDelete, lookups | registration | check and insert are separate | e-mail and phone distinct |
| account | `accounts` | CreateAccount, Request/ReRequest Organizer and Commerce, Approve, Reject, Deactivate, Reactivate, Add/Remove staff and employees | credential reads the roles into the access token | status saved from a copy; roles depend on other roles that may be withdrawn | one account of a type per person, active only if approved, given only by the approved |
| webhook sender (`src/src/shared/infrastructure/http/HttpWebhookSender.ts`) | a retry loop in memory | `send`: up to four attempts | RegisterSaga, fire and forget; the backend | duplicated or lost delivery | only people who are registered are announced |
| access tokens (auth middleware, `JwtTokenService`, `PostgresAccountQueryAdapter`) | none: signed claims | issued by SignIn and RefreshToken, accepted until they expire | account (roles), sessions | claims are read before they are signed, nobody asks the tables when they are used | a withdrawn role and an ended session are gone after a bounded time |
| migration runner (`src/src/shared/infrastructure/db/MigrationRunner.ts`) | `_migrations` and the schema | list, apply the missing files in one transaction | server start, `npm run migrate` | several processes, of different releases, that start together; crashes; lost answers of COMMIT | the database always has a version, and only ever moves to a later one |
| server process (`src/src/index.ts`, `src/src/shared/infrastructure/db/pgPool.ts`) | a pool of connections | start, serve, shut down | all handlers, migration runner | more handlers than connections, one of which holds a row lock; SIGTERM under load | serves only with all its own migrations applied, handlers return, shutdown ends |
| seed script (`src/src/seed.ts`) | none of its own | registers and promotes three people | verification, registration, account | interrupted and run again; errors it swallows | gives no role without the approval it needs, takes nothing back |
| check, value objects, hashing, audit events, mail sender, openapi, error handler, logger | none, or write-only | reads, validation, formatting | | | not modelled |

How they interact: everything runs in one or more Node processes that share the
database and nothing else. A handler is an async function: between two `await`s it
runs alone in its process, at each `await` anything else may run. All communication
between handlers goes through table rows; the only lock the application takes is
`SELECT ... FOR UPDATE` in `findPendingByEmailForUpdate`; the only transactions are
those of `PostgresTransactionRunner` (used by VerifyEmail) and of the migrations.

The full list of hazards, each with its line and the properties aimed at it, is in
`PROJECT.json`.

## 2. Modules

| Module | Role |
|---|---|
| `OneTimeCode` | abstract: what the service promises about a mailed code |
| `Verification` | the verification table and its four kinds of handler |
| `AtomicRegistration` | abstract: people are registered whole, in one step |
| `RegisterSaga` | the saga over identities, credentials, accounts, sessions |
| `Sessions` | credentials and sessions at run time |
| `Accounts` | roles |
| `AccessTokens` | what an accepted access token says of roles and sessions |
| `SchemaUpgrade` | abstract: a database has a version that only grows |
| `Migrations` | the migration runner in several processes |
| `Server` | `Migrations` composed with serving, the connection pool and shutdown |
| `Seed` | the seed script, run again and again |
| `<Module>Proofs` | TLAPS proofs about `Verification`, `Sessions`, `RegisterSaga`, `Accounts`, `AccessTokens`, `Server` (and `Migrations`) and `Seed` (section 5) |
| `MC...` | the same for TLC: symmetry sets, functions; the `.cfg` files give the constants |

The models of the service are built alike. A table is a variable. Each kind of use case has a
set of *slots* (`Requesters`, `Verifiers`, ...): a slot is idle or in the middle of
one call. `pc[p]` names the repository call the handler waits for, other variables
hold its in-memory entity. One action is one awaited call, executed by the database,
together with the synchronous code after it up to the next `await`: so what a
handler has read may be stale when it writes, as in the program. The actions of a
use case carry its name as prefix (`RequestFindLatest`, `RequestExpire`, ...);
early returns and thrown errors that change nothing are the guard of the action,
those that end a running call are `Return`. `Fail(p)` (`Reject` in `RegisterSaga`)
is any awaited call that rejects, or the death of the process: the slot becomes
idle, what was stored stays, an open transaction rolls back.

`RegisterSaga`, `Sessions`, `Accounts` and `AccessTokens` each see the others through
what they need of them: `RegisterSaga` knows of sessions only whether a credential has
any, `AccessTokens` lets roles change and sessions end at any moment, `Seed` takes the
saga as one step with the outcomes that `RegisterSaga` has for it. `Server` extends
`Migrations` itself: the state of a process is one variable for both.

### Verification
`rows` is the table in insertion order, so that the id is the index. `Update` writes
the whole row, as `PostgresEmailVerificationRepository.save` does. `Locked(i)` is the
row lock of a VerifyEmail transaction between its SELECT and its COMMIT; every other
writer of that row has it as a guard, i.e. waits. `Duplicate` is the unique partial
index on `(email) WHERE status = 'PENDING'`. `tally` is history: what clients have
been told about each row; the code never reads it.

Abstractions: a submitted code is only "right" or "wrong"; `blockedAt` stands for
`getBlockedAt() ?? getSentAt()`; `expires_at` is `sent_at` plus the TTL; the audit
events are left out; a VerifyEmail that finds its row changed after waiting for the
lock answers not-found and changes nothing, which is an idle step.

### Sessions
Passwords, session ids and tokens are numbers from a supply (bcrypt hashes and UUIDs
are never compared but for equality). `auth`, `exchanged`, `ended`, `raced`, `revived`
and `retired` are history. `ended` holds the sessions a call meant to end
while no refresh of them was running, `raced` those ended while one was; `revived`
counts for each credential how often a refresh has brought a session back.
Lifetimes are an odd number of half ticks: at the very instant `expires_at = now()` a row is neither purged nor counted as
active, and what is a microsecond in the database would be a whole tick in the model. The eviction
`DELETE ... WHERE id = (SELECT ...)` is two steps, because under READ COMMITTED the
subquery of one statement may have chosen a row that another statement deletes
first. The identity of a caller is given by its headers, as the routes have it; a
ChangePassword keeps the session that its header names, whoever's it is, if anyone's. The
credentials exist from the start (their creation is in `RegisterSaga`).

### RegisterSaga
The rows of one registration share an id and are created by one saga: `identities` and
`credentials` are sets of rows with that id, `accounts` is a set of ids. `sessions` says
which credentials have any. The foreign keys and unique columns are in `IdentityRefused`
and `CredentialRefused` and in the guards of `DropCredential`, `DropIdentity`,
`InsertAccount` and `OpenSession`. `Renamers` are ChangeUsername calls. Their route asks
for no token (`credential/presentation/http/credential.routes.ts:120`), so they may be of
a registration that is still under way, and their upsert can bring back a credential that
a compensation has deleted; the foreign key then refuses to delete the identity. `UpdateProfile`
exists as a use case but no route reaches it; it is modelled (`Editors`) as the only
other writer of `identities`, with an upsert as well. `lost` and `revived` are history,
and no guard reads them: the registrations whose own saga has met a fault, and those
a row of which an upsert has inserted again. `sending` and `received` are the webhook:
the attempt under way, and what the backend has got. Four kinds of fault are counted by `MaxFaults`: an insert that took effect but whose answer was
lost, a webhook whose answer was lost, a compensation that rejects (it is logged and
swallowed) and a crash. A forward call that rejects without effect is not counted: it
may always happen, and so may an attempt that does not reach the backend.

### Accounts
The admin of the seed script is the initial row. `Moderation` says whether
DeactivateAccount and ReactivateAccount take part: the server constructs them
(`src/src/shared/presentation/http/server.ts:183`) but no route reaches them. RequestStaff and
ReRequestStaff are constructed nowhere. Each use case is an action of its own, built from
one that it shares with its like: `ApproveOrganizer(p, c) == Moderate(p, c, "approve")`.
The audit events, saved without an `await`, are left out. The first repository
read of each use case is merged with its start; the permission it establishes is then as stale as in the
program when the last call saves.

### AccessTokens
`token` is any one token that has been signed: `Sign` may or may not replace it, so an
invariant about it is one about every token. `claim[p]` is what a running call is to
sign; `readAt` is when it read the roles, `iat` when `generateAccessToken` signed.
`SaveSession` is the upsert. `lost`, `ended` and `raced` are history: when a role was
withdrawn and a session ended, and which ended while a call of theirs was running.

### Migrations and Server
A file is its number and a table is known by the last file applied to it, which is what
decides whether the SQL of the next one succeeds (`Succeeds`); the two that replace a
CHECK constraint can be applied twice. `pc[r]` says what the runner waits for; what an
open transaction has done is only in `done[r]` until `Commit`, and locks its tables
(`LockedBy`). UNIQUE (name) makes an insert wait for another transaction that has
inserted the same name, and fail if that commits. `Rollback` is also the death of the
process. The answer of `Commit` may be lost: then the process exits although its
migrations are stored. `MigrationsInit` starts from the database of any release. That
PostgreSQL breaks a deadlock by aborting one of those that wait is left out, since the
property is that none arises (`RunsEnd`).

`Server` adds to a runner that has reached "up" the handlers of one process. `Used` is
the number of pool connections they hold. A VerifyEmail keeps one from BEGIN to COMMIT,
the other handlers (`Sagas`) take one per query. One row stands for all: those that lock
or write other rows do not wait. `Exit` is enabled once all connections are back, as
`pgPool.end()` resolves; `Connect` is not enabled in a server that is stopping. Locks
between migrations of one release and handlers of another are not modelled.

### Seed
One operator at a time: `pc` and `turn` are the position in the loop over `Order`.
`taken` says which of the usernames and phones somebody else has. `MaxFaults` counts
rejected calls and interruptions; the swallowed errors are `PromoteFails`, and
`RegisterFails` may leave an identity behind, also one whose username was refused. The hourly
limit and the cooldown of RequestEmailVerification, against which a repeated run may
run, are in `Request`, and `TimePasses` between two runs lifts them.

## 3. Runs

All runs have `CHECK_DEADLOCK FALSE`: the bounds on rows, ids and time let the model
run out of things to do, and a server with no calls is a legal state. `SYMMETRY`
permutes slots of one kind, which no definition distinguishes; it is not used in
`all`, `lifecycle` and `reruns`, which check liveness.

| Run (`MC<module>_<run>.cfg`, or `<module>_<run>.cfg`) | What it shows | Bounds, and why they suffice |
|---|---|---|
| Verification `all` | table invariants with every kind of handler; every call returns | one handler of each kind, each racing with the three others; `MaxAttempts` 2: a first and a last wrong guess; one code after another (`MaxRows` 2); the clock passes the cooldown of a request, but neither the end of a code nor that of a block nor the hour: those are left to `locked` and to the theorems |
| Verification `locked` | guess limit, single use, overshoot of the hourly limit on stored codes, refinement of `OneTimeCode`; no ResetPassword | two requesters and two verifiers; four rows against an hourly limit of two, and a clock that outlives the hour |
| Sessions `tokens` | dead tokens stay dead; the session limit, up to sessions that a refresh brings back | two refreshes and a sign-in; the supply of tokens covers a session, its two successors and another session; `MaxSessions` 1, so the second sign-in evicts; sessions expire, in half ticks so that no two instants of the database coincide |
| Sessions `passwords` | replaced passwords open nothing after the revocation, ended sessions stay ended | a change, a reset, a refresh, a sign-in and a username change at once; one credential, so the first of two interchangeable names is fixed (`MCSpec`); the session a change keeps is one of the caller's own or nobody's |
| RegisterSaga `atomic` | refinement of `AtomicRegistration` | two sagas, a profile update and a rename, also of a registration under way, that may collide in any of e-mail, phone and username (two values each); two ids: one registration after another, or both at once; no faults; sign-ins are left to the theorem, which covers them |
| RegisterSaga `faults` | distinct people, references hold, an account keeps its credential, a finished registration lasts, a failed one leaves no rows, the backend hears only of the registered | two sagas, a sign-in, a profile update, a rename; two faults reach a failed compensation after a lost answer; two attempts of a webhook: a first and a last one |
| Accounts `moderated` | one account per type, active and given only with approval | three concurrent calls, two people, four rows: an admin, a giver, a receiver, one more |
| AccessTokens `exposure` | how long withdrawn roles and ended sessions stay in accepted tokens | one role, a sign-in and a refresh, two sessions; the clock runs for two lifetimes of a token, so a token issued in the first tick or by the latest refresh expires within the run |
| Server `lifecycle` | migrations implement `SchemaUpgrade`, a serving server has its own migrations, liveness of migrations, handlers and shutdown | a server of the release with six files and a tool of the one with seven, from a database of any version; three handlers for two connections: one may hold the lock while the other waits for it and the third for a connection |
| Seed `reruns` | roles only by approval, nothing taken back, a run without faults seeds the database | two faults: a run that fails after another has been skipped; any of the three people in the way; the limit of five codes an hour as in the code |

Time is discrete and scaled: what matters is the order of cooldown, code lifetime,
block and hour. Larger instances of `lifecycle` (two servers and a tool, or two servers
with two transactions each) take too long for a run that is repeated often.

### Disagreements with the documentation

Two runs expect a violation; each checks one sentence of the documentation. The
quotations are under `findings` in `PROJECT.json`.

| Run | The document says | The code |
|---|---|---|
| Verification `guesses` | the number of attempts is limited | ResetPassword attempts without the lock of VerifyEmail: overlapping calls share a counter |
| Sessions `lostpassword` | only `updatePassword` changes the password | a username change writes the old hash back |

The other definitions under "What the documentation says and the code does not keep"
(or its comments, or its messages) in the modules are of the same kind. They belong to
no run of their own; TLC finds each violated when it replaces the properties of the
configuration named here:

| Property | Configuration | The document (`src/ARCHITECTURE.md`) says | The code |
|---|---|---|---|
| `SingleUse` | `MCVerification_guesses` | `USED` is terminal (1395) | two overlapping ResetPassword calls use one code |
| `BlockHonoured` | `MCVerification_locked` | 30 minutes after a block (1359) | the request handler saves `EXPIRED` from a stale copy over `BLOCKED`, and mails the next code at once (RequestEmailVerification.usecase.ts:59) |
| `TerminalStatus` | `MCVerification_locked` | statuses are terminal (1443) | a stale `EXPIRED` is saved over `USED` |
| `HourlyCap` | `MCVerification_locked` | five codes per hour (1358) | the mail is sent between the count and the insert; `HourlyOvershoot` is what holds of the codes that are stored. Mails are bounded by nothing: one whose insert is refused (23505) or fails leaves no row, so with a limit of two, two rounds of two overlapping requests send four mails for two rows |
| `QuietPendingIsLatest` | `MCVerification_locked` | a duplicate key means two concurrent requests (comment, RequestEmailVerification.usecase.ts:127) | the live row can lie behind a later dead one; requests are then refused after their mail is out |
| `SignedOutForGood` | `MCSessions_tokens` | sign-out invalidates the token (115) | the upsert of a running refresh inserts the session again (PostgresSessionRepository.ts:16) |
| `SessionLimit` | `MCSessions_tokens` with `SignIns = {s1, s2}` | at most ten sessions (`src/README.md` 172) | count, evict and insert are separate steps: two sign-ins see the same count |
| `SingleExchange` | `MCSessions_tokens` | each refresh invalidates the token (926) | two overlapping refreshes both succeed |
| `NameCooldownKept` | `MCSessions_passwords` with `Renamers = {n1, n2}` | one username change in 30 days (801) | two overlapping changes pass the check |
| `NoSessionBeforeStep4` | `MCRegisterSaga_faults` | compensation of step 2 is safe (647) | somebody may have signed in since step 2 |
| `NoCredentialBeforeStep2` | `MCRegisterSaga_atomic` | compensation of step 1 is safe (649): the credential is gone | a rename that read the credential before its compensation inserts it again, and the delete of the identity is refused |
| `FailedStep3SavedNothing` | `MCRegisterSaga_faults` | a failed step 3 saved nothing (650) | the answer of a committed insert may be lost |
| `FailedStep1SavedNothing` | `MCRegisterSaga_faults` | nothing was created yet (comment, RegisterSaga.ts:76) | the same |
| `TransitionMatrix` | `MCAccounts_moderated` | other transitions are refused (1085) | the check is on a copy, the save unconditional |
| `RolesAgeWithTheToken` | `AccessTokens_exposure` | a withdrawn role is exposed for the 15 minutes of a token (218) | the 15 minutes start with the signature, after the session has been saved; the roles were read before; `RolesAreRecent` is what holds |
| `ShutdownFinishesRequests` | `MCServer_lifecycle` | "graceful shutdown" (comment, index.ts:16) | the pool is ended while a saga still needs connections: it is cut off between two steps, before its compensations |
| `CompleteIsSeeded` | `Seed_reruns` | "Idempotency" (comment, seed.ts:270) | a person who is registered is skipped with the role still missing, and errors of the role accounts are swallowed |

The passing runs say how far the damage goes: a stale `EXPIRED` never makes a dead
code live again (`ImplementsOneTimeCode`), a session that comes back does so only
through a refresh that was already running (`EndedStaysEnded`), and the old token
never does (`ExchangedTokenIsDead`). With one requester, `PendingIsLatest` and
`HourlyCap` hold (section 5): without ResetPassword, both need overlapping requests to fail.

## 4. Fairness

Three runs assume any. In `all`, a handler that has started is run on by the event loop and
its database calls are answered. A save that waits for a row lock is enabled only
while the lock is free; PostgreSQL queues the waiters of a row lock in order, so one
that is free again and again is granted in the end: strong fairness for the saves of
requesters, resetters and linkers. The commit of a VerifyEmail needs no lock it does
not hold: weak fairness. Nothing is assumed of the arrival of requests or of the
clock.

In `lifecycle` the same holds of the statements of a migration: strong fairness for those
that may wait for a lock (`Apply`, `Record`), weak for the others; and of handlers: a
wait for a connection ends at the latest with `connectionTimeoutMillis` (weak fairness
of `ConnectRejects`), the row lock is granted in turn (strong), the transaction that
holds it goes on (weak), and `pgPool.end()` resolves when it can. That a connection
is given to those who wait is not assumed, nor that a process is started or told
to stop. In `reruns` the operator runs the script and the script goes on.

## 5. Proofs

TLC checks small instances; the theorems hold for every value of the constants that
the named assumptions of the modules allow: any number of addresses, people, servers
and overlapping calls, any limits and lifetimes. Every invariant and every action
property of a passing run is proved, and so are the three refinements. Only liveness is
left to TLC. Each proof is by cases on the actions of `Next`, one lemma per action or
kind of action, and each inductive invariant was first checked by TLC on the
configuration of its module.

| Module | Theorems | Of the runs' properties |
|---|---|---|
| `VerificationProofs` | `TypeCorrect`, `OnePending`, `NoPhantoms`, `AttemptsLeft`, `OvershootIsBounded` | `TypeOK`, `OnePendingPerEmail`, `NoPhantomAttempts`, `LiveCodeHasAttemptsLeft`, `HourlyOvershoot` |
| | `GuessesLimited`, `UsedOnce`, `ImplementsCodes` (no ResetPassword) | `GuessLimit`, `SingleUse`, `ImplementsOneTimeCode` |
| | `OneAtATimeIsCapped` (one request at a time), `LiveCodeIsLatest` (and no ResetPassword) | none: `HourlyCap` and `PendingIsLatest`, false otherwise |
| `SessionsProofs` | `SessionsTypeCorrect`, `ExchangedTokensStayDead`, `EndedSessionsStayEnded`, `RetiredPasswordsOpenNothing` | `TypeOK`, `ExchangedTokenIsDead`, `EndedStaysEnded`, `RetiredPasswordOpensNothing` |
| | `SessionsAreLimited` (one sign-in at a time, odd lifetimes) | `SessionLimit` |
| `RegisterSagaProofs` | `SagaTypeCorrect`, `NobodyShares`, `NoDanglingReference`, `ToldOfTheRegistered`, `AccountsCanSignIn` | `TypeOK`, `PeopleDistinct`, `ReferencesHold`, `NotifiedOfTheRegistered`, `AccountHasCredential` |
| | `RegistrationLasts`, `NothingLeftHalfDone` | `FinishedStays`, `NoHalfRegistration` |
| | `RegistrationIsAtomic` (no faults) | `ImplementsAtomicRegistration` |
| `AccountsProofs` | `AccountsTypeCorrect`, `OneOfAType`, `ApprovedFirst`, `GivenByTheApproved` | `TypeOK`, `OneAccountPerType`, `ActiveWasApproved`, `GivenByApproved` |
| `AccessTokensProofs` | `TokensTypeCorrect`, `TokenRolesAreRecent`, `SignedOutTokensExpire` | `TypeOK`, `RolesAreRecent`, `SignOutTakesEffect` |
| `ServerProofs` | `ServerTypeCorrect`, `ServersHaveTheirSchema`, `MigrationsAreUpgrades` | `TypeOK`, `ServesItsSchema`, `ImplementsSchemaUpgrade` |
| `SeedProofs` | `SeedTypeCorrect`, `OrganizersAreApproved`, `RunsTakeNothingBack` | `TypeOK`, `OrganizerNeedsAdmin`, `RunsOnlyAdd` |

### Assumptions beyond the constants

* `Resetters = {}` (`GuessesLimited`, `UsedOnce`, `ImplementsCodes`): ResetPassword attempts
  a code without the row lock. The run `guesses` shows that the assumption is needed.
* One request at a time: the mail lies between the count and the insert. Overlapping
  requests break both `HourlyCap` and `PendingIsLatest` (section 3).
* One sign-in at a time (`SessionsAreLimited`): count, evict and insert are separate
  steps, two sign-ins count the same rows (section 3). `SessionTtl` odd: as in section 2,
  no row is read at the instant at which it is neither expired nor active.
* `MaxFaults = 0` (`RegistrationIsAtomic`): no lost answer, no failing compensation, no
  crash in the middle of a saga; a call may still be refused or reject. With faults a
  registration may be left half done or undone, since the saga keeps no record of how far
  it has come. The other theorems of `RegisterSagaProofs` allow faults; what a saga that
  has met one does to its own registration (`lost`) is exempt in `AccountHasCredential`,
  `NoHalfRegistration` and `FinishedStays`, what it does to others is not.
* `Requesters`, and the handlers of a server, are finite sets.

### The inductive invariants

* `TableInv` (Verification). None of the properties is inductive alone: the next save
  writes a copy, so the invariant says what a copy may contain at each `pc` (`CopyInv`),
  that it belongs to the row it will be saved to (`HeldInv`), who can be where
  (`KindInv`), and that the row a transaction has locked is still PENDING and locked by
  that one alone (`LockInv`), which makes a commit unable to create a second live
  row without a check of the index. `CodeInv` adds, without ResetPassword: while a code
  lives its stored counter equals the answers given, a copy in a transaction is exactly
  one attempt ahead of its locked row, and every other pending save is of a dead row or
  kills it. That is also why each commit is a step of `OneTimeCode` and each other save
  one that retires a code or none. `HourInv` adds that no save carries another `sent_at`;
  `OrderInv` that rows are inserted in the order of their `sent_at`.
* `SessionsInv`. `OwnersInv`: rows and copies belong to whom `auth` says. `TokensInv`: a
  token is in one row or about to be stored by one handler, and the token a refresh was sent
  is in no row but the one it writes; so to store a successor leaves no row with the
  exchanged one. `RetiredInv`: a retired password is in no copy of a running call but a
  refresh's, which holds none. `LimitInv` counts: what a sign-in has seen to before it
  stores, at each of its steps.
  The bound of `SessionLimit` is the number of revivals: a refresh that was running
  while its session was ended inserts it again, the same one as often as it is ended.
* `SagaInv` says how far each saga has come (`StageOk`), that no two work on one
  registration (`OneSagaPerId`), and that only a webhook of a finished registration is
  under way. The foreign keys and unique columns do the rest. `CleanInv` adds that a saga
  has saved nothing it does not know of (`CleanOk`), but for three ways to lose track: a
  fault of its own, a session that somebody opened before its step 4, and a row that an
  upsert inserted again behind its compensation. `AtomicInv` adds, for the refinement,
  that all copies of a row agree on the e-mail. There the rows of an
  id are seen once the account is there; `IdentityStep`, `CredentialStep` and the step of
  the account show for each table which abstract step, if any, a save is.
* `AccountsInv`: what an outdated copy may still do when it is stored (`InsertOk`,
  `SaveOk`). Statuses are saved unconditionally; what keeps `ActiveWasApproved` is that
  no transition but an approval leads out of the states before the first approval.
* `TokensInv` (AccessTokens): every claim still to be signed is as recent as the token
  must be once signed, and an ended session is only back if a call of it was running.
* `MigrationsInv`: the database has a version n, and each runner's list starts at a k
  that is n, or less for a list read before a commit of another. `Record` refuses such a list
  by the unique name; one that starts at n has, from its first `Record` on, the name
  n + 1 in its transaction, for which every other waits: so at most one transaction has
  written (`OneWriter`), and its commit takes the database from n to the version of its
  release. Table locks are not needed for safety.
  `ServerInv` adds the types, which bound the connections in use. `ServesItsSchema` says
  nothing against later migrations: a server of an older release may serve over them.
* `SeedInv`: who has a role has all else, and only what an organizer asked for awaits an
  approval.

### Left to TLC

Liveness (`HandlersReturn` of `Verification` and of `Server`, `RunsEnd`, `StopsWhenTold`,
`SeedsTheDatabase`) rests on fairness and ENABLED, which TLAPS does not reach. The runs that
expect a violation need no proof. That TLC's bounds (`MaxRows`, `MaxIds`, `MaxTime`, ...)
are constants does not weaken the theorems: they hold for all values of them.

## 6. Plan

1. Done: all modules of section 2, checked; every safety property and refinement that a
   run checks, proved.
2. Next: the lemmas that several proof modules repeat (what an UPDATE of one row leaves
   alone, who stays where) in one place.
3. After that: the writers that are left out of one another's modules, e.g. migrations of a
   release that is started while handlers of another one hold locks.

## 7. Not modelled

* `check`, GetAccountsByIdentity and the other lookups: reads of one row that change
  nothing.
* Value objects, schemas, `openapi.ts`, the error handler, the routes as such: validation,
  formatting and wiring of single requests. Which use cases a route reaches decides
  the `Next` of each module.
* Rate limits: an in-memory counter per address in front of the routes, that only
  refuses requests.
* Audit events: inserts nobody awaits or reads back.
* Mail server, bcrypt, HMAC and JWT signatures: external; a call succeeds or rejects,
  a code is right or wrong, a token is signed or not.
* In-memory repositories: doubles of the unit tests. The models are of the PostgreSQL
  repositories.
* RequestStaff, ReRequestStaff, `assignBlnkRef` and the types other than USER of
  CreateAccount over HTTP: nothing reaches them.
* Replication, backups and the configuration of PostgreSQL; isolation is READ COMMITTED
  throughout, one statement at a time.
