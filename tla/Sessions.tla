------------------------------ MODULE Sessions ------------------------------
(***************************************************************************)
(* The credential subdomain at run time: the tables credentials and        *)
(* sessions, and the sign-in, refresh, sign-out, password and username     *)
(* handlers that work on them at the same time.  No handler here opens a   *)
(* transaction: each awaited repository call is a step of its own, and     *)
(* save() writes whole rows from the copy the handler read earlier.        *)
(*                                                                         *)
(* Passwords, session ids and update tokens are opaque: a chosen password  *)
(* and a generated UUID is the next number of a supply.                    *)
(***************************************************************************)
EXTENDS Integers, FiniteSets

CONSTANTS
    Credentials,       \* credential ids; the rows exist from the start
    Usernames,         \* names that are not reserved
    SignIns,           \* slots for concurrent SignIn calls
    Refreshers,        \* ... RefreshToken calls
    Changers,          \* ... ChangePassword calls
    Resetters,         \* ... ResetPassword calls (their credential part)
    Renamers,          \* ... ChangeUsername calls
    SessionTtl,        \* SESSION_TTL_MS, in half ticks: see Expired
    NameCooldown,      \* COOLDOWN_MS of ChangeUsername
    MaxSessions,       \* MAX_SESSIONS
    MaxTime,           \* bound on the clock
    MaxIssued,         \* bound on the ids and tokens generated
    MaxChosen          \* bound on the new passwords chosen

ASSUME NamesAssumption == Credentials # {} /\ Usernames # {}

ASSUME NumbersAssumption ==
    /\ {SessionTtl, NameCooldown, MaxSessions, MaxTime, MaxIssued, MaxChosen} \subseteq Nat
    /\ MaxSessions >= 1

ASSUME SlotsAssumption ==
    /\ SignIns \cap (Refreshers \cup Changers \cup Resetters \cup Renamers) = {}
    /\ Refreshers \cap (Changers \cup Resetters \cup Renamers) = {}
    /\ Changers \cap (Resetters \cup Renamers) = {}
    /\ Resetters \cap Renamers = {}

VARIABLES
    now,        \* the clock
    creds,      \* the table credentials
    sessions,   \* the table sessions: a set of rows with distinct ids
    issued,     \* ids and tokens generated so far
    chosen,     \* passwords chosen so far (0 is everyone's first)
    pc,         \* the call each handler is waiting for
    cred,       \* its Credential entity
    sess,       \* its Session entity
    dto,        \* the token or session id its caller sent
    auth,       \* history: <<credential, password>> each opened session stands on
    exchanged,  \* history: <<token sent, token answered>> of each refresh
    ended,      \* history: sessions ended while no refresh of them was running
    raced,      \* history: sessions ended while one was
    revived,    \* history: how many deleted or expired sessions a refresh has saved
    retired     \* history: <<credential, password>> that must open nothing more

tables  == <<creds, sessions>>
local   == <<pc, cred, sess, dto>>
history == <<auth, exchanged, ended, raced, revived, retired>>
vars == <<now, tables, issued, chosen, local, history>>

Handlers == SignIns \cup Refreshers \cup Changers \cup Resetters \cup Renamers

Pc == {"idle", "purge", "count", "pick", "evict", "accounts", "store",
       "rotate", "restore", "savePassword", "revoke", "findName", "saveName"}

Cred == [id: Credentials, username: Usernames, password: Nat, changedAt: Nat]

\* expires_at is lastUsedAt + SESSION_TTL_MS in every row: create() and rotate()
\* set both from one reading of the clock.
Session == [id: Nat, owner: Credentials, token: Nat, lastUsedAt: Nat]

TypeOK ==
    /\ {now, issued, chosen} \subseteq Nat
    /\ creds \in [Credentials -> Cred]
    /\ sessions \subseteq Session
    /\ pc \in [Handlers -> Pc]
    /\ cred \in [Handlers -> Cred]
    /\ sess \in [Handlers -> Session]
    /\ dto \in [Handlers -> Nat]
    /\ DOMAIN auth \subseteq 1 .. issued
    /\ \A i \in DOMAIN auth : auth[i] \in Credentials \X (0 .. chosen)
    /\ exchanged \subseteq Nat \X Nat
    /\ ended \subseteq DOMAIN auth
    /\ raced \subseteq DOMAIN auth
    /\ revived \in [Credentials -> Nat]
    /\ retired \subseteq Credentials \X (0 .. chosen)

-----------------------------------------------------------------------------
(* Entities and tables.                                                    *)

NoCred == [id |-> CHOOSE c \in Credentials : TRUE,
           username |-> CHOOSE u \in Usernames : TRUE, password |-> 0, changedAt |-> 0]

NewSession(c, n) == [id |-> n, owner |-> c, token |-> n, lastUsedAt |-> now]

NoSession == [id |-> 0, owner |-> NoCred.id, token |-> 0, lastUsedAt |-> 0]

Rotate(s, n) == [s EXCEPT !.token = n, !.lastUsedAt = now]

\* expires_at against the clock.  A half tick more or less than a number of ticks
\* (an odd SessionTtl) keeps expires_at = now() away, at which a row is neither
\* Expired nor Active.
Remaining(s) == 2 * s.lastUsedAt + SessionTtl - 2 * now

Expired(s) == Remaining(s) < 0

UpdatePassword(r, w) == [r EXCEPT !.password = w]

ChangeUsername(r, u) == [r EXCEPT !.username = u, !.changedAt = now]

\* Usernames may change again COOLDOWN_MS after the last change (0: never changed).
Cooling(r) == r.changedAt # 0 /\ now < r.changedAt + NameCooldown

Of(c) == {s \in sessions : s.owner = c}

Ids(S) == {s.id : s \in S}

Tokens(S) == {s.token : s \in S}

Active(c) == {s \in Of(c) : Remaining(s) > 0}

Oldest(c) == {s \in Of(c) : \A t \in Of(c) : s.lastUsedAt <= t.lastUsedAt}

\* INSERT ... ON CONFLICT (id) DO UPDATE: a deleted row comes back.
Upsert(s) == {t \in sessions : t.id # s.id} \cup {s}

\* The UNIQUE constraint on credentials.username.
NameTaken(r) == \E c \in Credentials \ {r.id} : creds[c].username = r.username

SaveCred(r) == creds' = [creds EXCEPT ![r.id] = r]

-----------------------------------------------------------------------------
(* Handlers.                                                               *)

Await(p, call, r, s, sent) ==
    /\ pc'   = [pc EXCEPT ![p] = call]
    /\ cred' = [cred EXCEPT ![p] = r]
    /\ sess' = [sess EXCEPT ![p] = s]
    /\ dto'  = [dto EXCEPT ![p] = sent]

Then(p, call) == pc' = [pc EXCEPT ![p] = call] /\ UNCHANGED <<cred, sess, dto>>

Return(p) == Await(p, "idle", NoCred, NoSession, 0)

\* The sessions a running refresh has read and will write again.
Held == {sess[p].id : p \in {q \in Refreshers : pc[q] # "idle"}}

\* History of a call whose purpose is to end the sessions with these ids.
End(ids) ==
    /\ ended' = ended \cup (ids \ Held)
    /\ raced' = (raced \ ids) \cup (ids \cap Held)

\* Passwords of c that nothing may stand on once its sessions are revoked: those
\* that are not the stored one and that no running call has read or is to store.
Retirable(c) ==
    {w \in 0 .. chosen :
        /\ w # creds[c].password
        /\ \A p \in Handlers \ Refreshers :
             pc[p] # "idle" /\ cred[p].id = c => cred[p].password # w
        /\ \A i \in Held : auth[i] # <<c, w>>}

Retire(c) == retired' = retired \cup ({c} \X Retirable(c))

\* Session i now stands on password w of c.
Stand(i, c, w) ==
    auth' = [j \in DOMAIN auth \cup {i} |-> IF j = i THEN <<c, w>> ELSE auth[j]]

\* The sessions of c that were ever opened: the sid claims its callers hold.
Sids(c) == {i \in DOMAIN auth : auth[i][1] = c}

Init ==
    /\ now = 1
    /\ \E name \in [Credentials -> Usernames] :
        /\ \A c, d \in Credentials : name[c] = name[d] => c = d
        /\ creds = [c \in Credentials |->
                [id |-> c, username |-> name[c], password |-> 0, changedAt |-> 0]]
    /\ sessions = {}
    /\ issued = 0
    /\ chosen = 0
    /\ pc = [p \in Handlers |-> "idle"]
    /\ cred = [p \in Handlers |-> NoCred]
    /\ sess = [p \in Handlers |-> NoSession]
    /\ dto = [p \in Handlers |-> 0]
    /\ auth = [i \in {} |-> 0]
    /\ exchanged = {}
    /\ ended = {}
    /\ raced = {}
    /\ revived = [c \in Credentials |-> 0]
    /\ retired = {}

(* SignIn *)

\* The caller's password matches the hash; other callers are refused.
SignInCheck(p, c) ==
    /\ pc[p] = "idle"
    /\ Await(p, "purge", creds[c], NoSession, 0)
    /\ UNCHANGED <<now, tables, issued, chosen, history>>

SignInPurge(p) ==
    /\ pc[p] = "purge"
    /\ sessions' = sessions \ {s \in Of(cred[p].id) : Expired(s)}
    /\ Then(p, "count")
    /\ UNCHANGED <<now, creds, issued, chosen, history>>

\* Mutant: > MAX_SESSIONS.
SignInCountOffByOne(p) ==
    /\ pc[p] = "count"
    /\ Then(p, IF Cardinality(Active(cred[p].id)) > MaxSessions THEN "pick" ELSE "accounts")
    /\ UNCHANGED <<now, tables, issued, chosen, history>>

SignInCount(p) ==
    /\ pc[p] = "count"
    /\ Then(p, IF Cardinality(Active(cred[p].id)) >= MaxSessions THEN "pick" ELSE "accounts")
    /\ UNCHANGED <<now, tables, issued, chosen, history>>

\* DELETE ... WHERE id = (SELECT ...): the subquery reads a snapshot; two
\* deletes that overlap may pick the same row, and the second deletes nothing.
SignInPick(p) ==
    /\ pc[p] = "pick"
    /\ \/ Of(cred[p].id) = {} /\ Then(p, "accounts")
       \/ \E s \in Oldest(cred[p].id) : Await(p, "evict", cred[p], s, 0)
    /\ UNCHANGED <<now, tables, issued, chosen, history>>

SignInEvict(p) ==
    /\ pc[p] = "evict"
    /\ sessions' = {s \in sessions : s.id # sess[p].id}
    /\ Then(p, "accounts")
    /\ UNCHANGED <<now, creds, issued, chosen, history>>

\* Mutant: the generator repeats the ids it gave out last.
SignInAccountsIdReused(p) ==
    /\ pc[p] = "accounts"
    /\ Await(p, "store", cred[p], NewSession(cred[p].id, issued + 1), 0)
    /\ UNCHANGED <<now, tables, issued, chosen, history>>

\* The accounts are read; the session is created from the clock now.
SignInAccounts(p) ==
    /\ pc[p] = "accounts"
    /\ issued < MaxIssued
    /\ issued' = issued + 1
    /\ Await(p, "store", cred[p], NewSession(cred[p].id, issued + 1), 0)
    /\ UNCHANGED <<now, tables, chosen, history>>

SignInStore(p) ==
    /\ pc[p] = "store"
    /\ sessions' = Upsert(sess[p])
    /\ Stand(sess[p].id, cred[p].id, cred[p].password)
    /\ Return(p)
    /\ UNCHANGED <<now, creds, issued, chosen, exchanged, ended, raced, revived, retired>>

(* RefreshToken *)

RefreshFind(p, s) ==
    /\ pc[p] = "idle"
    /\ s \in sessions
    /\ ~Expired(s)                    \* SessionExpiredError
    /\ Await(p, "rotate", NoCred, s, s.token)
    /\ UNCHANGED <<now, tables, issued, chosen, history>>

\* Mutant: the entity is saved as it was read, and rotated afterwards.
RefreshRotateLate(p) ==
    /\ pc[p] = "rotate"
    /\ issued < MaxIssued
    /\ issued' = issued + 1
    /\ Await(p, "restore", NoCred, Rotate(sess[p], sess[p].token), dto[p])
    /\ UNCHANGED <<now, tables, chosen, history>>

\* The credential and the accounts are read; then the entity rotates.
RefreshRotate(p) ==
    /\ pc[p] = "rotate"
    /\ issued < MaxIssued
    /\ issued' = issued + 1
    /\ Await(p, "restore", NoCred, Rotate(sess[p], issued + 1), dto[p])
    /\ UNCHANGED <<now, tables, chosen, history>>

RefreshSave(p) ==
    /\ pc[p] = "restore"
    /\ sessions' = Upsert(sess[p])
    /\ exchanged' = exchanged \cup {<<dto[p], sess[p].token>>}
    /\ revived' = [revived EXCEPT ![sess[p].owner] =
                      IF sess[p].id \in Ids(Active(sess[p].owner)) THEN @ ELSE @ + 1]
    /\ Return(p)
    /\ UNCHANGED <<now, creds, issued, chosen, auth, ended, raced, retired>>

(* RevokeToken and RevokeAllTokens *)

SignOut(i) ==
    /\ i \in DOMAIN auth
    /\ sessions' = {s \in sessions : s.id # i}
    /\ End({i})
    /\ UNCHANGED <<now, creds, issued, chosen, local, auth, exchanged, revived, retired>>

SignOutAll(c) ==
    /\ sessions' = sessions \ Of(c)
    /\ End(Sids(c))
    /\ UNCHANGED <<now, creds, issued, chosen, local, auth, exchanged, revived, retired>>

(* ChangePassword: the session that its header names is kept at the end, whoever's
   it is, if anyone's (0: nobody's). *)

ChangePasswordCheck(p, c, i) ==
    /\ pc[p] = "idle"
    /\ chosen < MaxChosen
    /\ chosen' = chosen + 1
    /\ Await(p, "savePassword", UpdatePassword(creds[c], chosen + 1), NoSession, i)
    /\ UNCHANGED <<now, tables, issued, history>>

ResetPasswordFind(p, c) ==
    /\ pc[p] = "idle"
    /\ chosen < MaxChosen
    /\ chosen' = chosen + 1
    /\ Await(p, "savePassword", UpdatePassword(creds[c], chosen + 1), NoSession, 0)
    /\ UNCHANGED <<now, tables, issued, history>>

\* credentialRepo.save of either; the unique name may be taken meanwhile only
\* if this copy is stale.
SavePassword(p) ==
    /\ pc[p] = "savePassword"
    /\ IF NameTaken(cred[p])
       THEN Return(p) /\ UNCHANGED creds
       ELSE Then(p, "revoke") /\ SaveCred(cred[p])
    /\ UNCHANGED <<now, sessions, issued, chosen, history>>

\* Mutant: DELETE ... AND id = $2 instead of id != $2.
RevokeOthersInverted(p) ==
    LET c == cred[p].id IN
    /\ pc[p] = "revoke"
    /\ sessions' = {s \in sessions : s.owner = c => s.id # dto[p]}
    /\ End(Sids(c) \ {dto[p]})
    /\ IF dto[p] \in Sids(c) THEN Stand(dto[p], c, cred[p].password) ELSE UNCHANGED auth
    /\ Retire(c)
    /\ Return(p)
    /\ UNCHANGED <<now, creds, issued, chosen, exchanged, revived>>

\* deleteAllByCredentialIdExcept, or (a reset: dto[p] = 0) deleteAllByCredentialId.
RevokeOthers(p) ==
    LET c == cred[p].id IN
    /\ pc[p] = "revoke"
    /\ sessions' = {s \in sessions : s.owner = c => s.id = dto[p]}
    /\ End(Sids(c) \ {dto[p]})
    /\ IF dto[p] \in Sids(c) THEN Stand(dto[p], c, cred[p].password) ELSE UNCHANGED auth
    /\ Retire(c)
    /\ Return(p)
    /\ UNCHANGED <<now, creds, issued, chosen, exchanged, revived>>

(* ChangeUsername *)

RenameFind(p, c) ==
    /\ pc[p] = "idle"
    /\ ~Cooling(creds[c])              \* CannotChangeUsernameYetError
    /\ Await(p, "findName", creds[c], NoSession, 0)
    /\ UNCHANGED <<now, tables, issued, chosen, history>>

RenameCheck(p, u) ==
    /\ pc[p] = "findName"
    /\ \A c \in Credentials : creds[c].username # u     \* UsernameAlreadyTakenError
    /\ Await(p, "saveName", ChangeUsername(cred[p], u), NoSession, 0)
    /\ UNCHANGED <<now, tables, issued, chosen, history>>

RenameSave(p) ==
    /\ pc[p] = "saveName"
    /\ IF NameTaken(cred[p]) THEN UNCHANGED creds ELSE SaveCred(cred[p])
    /\ Return(p)
    /\ UNCHANGED <<now, sessions, issued, chosen, history>>

\* An awaited call rejects, or the process dies: what was saved before stays.
Fail(p) ==
    /\ pc[p] # "idle"
    /\ Return(p)
    /\ UNCHANGED <<now, tables, issued, chosen, history>>

Tick ==
    /\ now < MaxTime
    /\ now' = now + 1
    /\ UNCHANGED <<tables, issued, chosen, local, history>>

-----------------------------------------------------------------------------

SignInStep(p) ==
    \/ SignInPurge(p) \/ SignInCount(p) \/ SignInPick(p) \/ SignInEvict(p)
    \/ SignInAccounts(p) \/ SignInStore(p)

PasswordStep(p) == SavePassword(p) \/ RevokeOthers(p)

Next ==
    \/ \E p \in SignIns : (\E c \in Credentials : SignInCheck(p, c)) \/ SignInStep(p)
    \/ \E p \in Refreshers :
         (\E s \in sessions : RefreshFind(p, s)) \/ RefreshRotate(p) \/ RefreshSave(p)
    \/ \E p \in Changers :
         \/ \E c \in Credentials, i \in {0} \cup DOMAIN auth : ChangePasswordCheck(p, c, i)
         \/ PasswordStep(p)
    \/ \E p \in Resetters : (\E c \in Credentials : ResetPasswordFind(p, c)) \/ PasswordStep(p)
    \/ \E p \in Renamers :
         \/ \E c \in Credentials : RenameFind(p, c)
         \/ \E u \in Usernames : RenameCheck(p, u)
         \/ RenameSave(p)
    \/ \E i \in DOMAIN auth : SignOut(i)
    \/ \E c \in Credentials : SignOutAll(c)
    \/ \E p \in Handlers : Fail(p)
    \/ Tick

Spec == Init /\ [][Next]_vars

-----------------------------------------------------------------------------
(* Properties, whatever handlers run.                                      *)

\* A refresh replaces the token it was sent: once answered, that token never
\* again matches a session, whatever other refreshes of it were under way.
ExchangedTokenIsDead ==
    \A x \in exchanged : x[1] \notin Tokens(sessions)

\* Sign-out, global sign-out, and the revocations of a password change or reset
\* last: only a refresh that was already running can bring such a session back.
EndedStaysEnded == Ids(sessions) \cap ended = {}

\* After the revocation of a password change or reset, no session stands on a
\* replaced password and no sign-in accepts it, except for what a call that had
\* read the old password before the revocation still stores.
RetiredPasswordOpensNothing ==
    /\ \A s \in sessions : auth[s.id] \notin retired
    /\ \A c \in Credentials : <<c, creds[c].password>> \notin retired

\* The session limit, with one sign-in at a time: a user exceeds MAX_SESSIONS by no
\* more than the times a refresh has brought a session back from the dead, the same
\* one perhaps twice, though the count, the eviction and the insert are three steps
\* that others interrupt.
SessionLimit ==
    \A c \in Credentials : Cardinality(Active(c)) <= MaxSessions + revived[c]

-----------------------------------------------------------------------------
(* Inductive strengthenings.                                               *)

\* Handlers that are about to store a token nobody has seen.
Pending == {p \in SignIns : pc[p] = "store"} \cup {p \in Refreshers : pc[p] = "restore"}

Refreshing == {p \in Refreshers : pc[p] # "idle"}

\* Rows and the copies handlers have of them belong to whom auth says; the id of a
\* session to be stored is new.
OwnersInv ==
    /\ TypeOK
    /\ \A c \in Credentials : creds[c].id = c /\ creds[c].password <= chosen
    /\ \A s \in sessions : s.id \in DOMAIN auth /\ auth[s.id][1] = s.owner
    /\ \A p \in Handlers : cred[p].password <= chosen
    /\ \A p \in SignIns : pc[p] = "store" =>
        /\ sess[p].id = sess[p].token /\ sess[p].owner = cred[p].id
        /\ sess[p].id \in (1 .. issued) \ DOMAIN auth
    /\ \A p \in Refreshing : sess[p].id \in DOMAIN auth /\ auth[sess[p].id][1] = sess[p].owner

\* A token belongs to one row, one about to be stored to none, and what a refresh was
\* sent to no row but the one it writes.
TokensInv ==
    /\ \A s \in sessions : s.token <= issued
    /\ \A s, t \in sessions : (s.id = t.id \/ s.token = t.token) => s = t
    /\ \A x \in exchanged : x[1] <= issued
    /\ ExchangedTokenIsDead
    /\ \A p \in Refreshing :
        /\ dto[p] <= issued
        /\ \A s \in sessions : s.token = dto[p] => s.id = sess[p].id
    /\ \A p \in Pending :
        /\ sess[p].token <= issued
        /\ sess[p].token \notin Tokens(sessions)
        /\ \A x \in exchanged : x[1] # sess[p].token
        /\ \A q \in Refreshing : dto[q] # sess[p].token
        /\ \A q \in Pending \ {p} : sess[q].token # sess[p].token

\* What is retired is neither stored nor in a copy of a running call.
RetiredInv ==
    /\ RetiredPasswordOpensNothing
    /\ \A p \in Handlers \ Refreshers :
        pc[p] # "idle" => <<cred[p].id, cred[p].password>> \notin retired
    /\ \A i \in Held : auth[i] \notin retired

SessionsInv ==
    OwnersInv /\ TokensInv /\ EndedStaysEnded /\ Held \cap ended = {} /\ RetiredInv

\* What the sign-in of a user has seen to, before it stores: the rows it may have to
\* evict one of, then those besides the one it has picked, then those that count.
Rest(c, i) == {s \in Of(c) : s.id # i}

LimitOk(p) ==
    LET c == cred[p].id
        limit == MaxSessions + revived[c] IN
    /\ pc[p] \in {"count", "pick"} => Cardinality(Of(c)) <= limit
    /\ pc[p] = "evict" => Cardinality(Rest(c, sess[p].id)) < limit
    /\ pc[p] \in {"accounts", "store"} => Cardinality(Active(c)) < limit

LimitInv == IsFiniteSet(sessions) /\ SessionLimit /\ \A p \in SignIns : LimitOk(p)

-----------------------------------------------------------------------------
(* What the documentation says and the code does not keep.                 *)

\* "cada refresh invalida el token anterior": a token buys one successor.
SingleExchange ==
    \A x, y \in exchanged : x[1] = y[1] => x = y

\* "El update token se invalida al hacer logout" (and on a password change).
SignedOutForGood == Ids(sessions) \cap (ended \cup raced) = {}

\* A change of username leaves the password as it is, and the reverse.
SaveTouchesOneField ==
    [][\A c \in Credentials :
         creds'[c].username # creds[c].username => creds'[c].password = creds[c].password]_creds

\* A username changes at most once in COOLDOWN_MS.
NameCooldownKept ==
    [][\A c \in Credentials :
         creds'[c].username # creds[c].username => ~Cooling(creds[c])]_creds
=============================================================================
