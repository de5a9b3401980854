---------------------------- MODULE AccessTokens ----------------------------
(***************************************************************************)
(* Any one access token of one person.  SignIn and RefreshToken read the   *)
(* active accounts, store the session and then sign a token that names the *)
(* session and the roles they read.  Whoever receives it verifies the      *)
(* signature and the expiry and asks nobody what has become of either      *)
(* meanwhile: a token outlives a sign-out and the withdrawal of a role.    *)
(*                                                                         *)
(* Accounts models how roles change; here they change at any moment.       *)
(* Sessions models the refresh tokens, the sign-in's earlier steps and the *)
(* 30 days after which a session expires, far longer than an access token  *)
(* lives.  No handler reads a token it has signed, so it is enough to      *)
(* follow one, whichever.                                                  *)
(***************************************************************************)
EXTENDS Naturals, FiniteSets

CONSTANTS
    Types,              \* roles the person may hold
    SignIns,            \* slots for concurrent SignIn calls
    Refreshers,         \* ... RefreshToken calls
    AccessTokenTtl,     \* ACCESS_TOKEN_TTL, in ticks
    MaxTime,            \* bound on the clock
    MaxIds              \* bound on the sessions ever opened

ASSUME SlotsAssumption == SignIns \cap Refreshers = {}

ASSUME NumbersAssumption ==
    {AccessTokenTtl, MaxTime, MaxIds} \subseteq Nat /\ MaxTime >= 1

VARIABLES
    now,        \* the clock
    accounts,   \* the status of the person's account of each type
    sessions,   \* ids of the sessions in the table
    made,       \* session ids generated so far
    token,      \* an access token that has been signed
    pc,         \* the call each handler waits for
    claim,      \* the token it is to sign
    lost,       \* history: when each role that is not active was withdrawn
    ended,      \* history: when each session was ended last
    raced       \* history: sessions ended while a call of them was running

tables == <<accounts, sessions>>
history == <<lost, ended, raced>>
vars == <<now, tables, made, token, pc, claim, history>>

Handlers == SignIns \cup Refreshers

\* readAt is history: when the roles were read.
Token == [sid: 0 .. MaxIds, roles: SUBSET Types, readAt: Nat, iat: Nat]

TypeOK ==
    /\ now \in 1 .. MaxTime
    /\ accounts \in [Types -> {"none", "ACTIVE", "inactive"}]
    /\ sessions \subseteq 1 .. made
    /\ made \in 0 .. MaxIds
    /\ token \in Token
    /\ token.readAt <= token.iat /\ token.iat <= now
    /\ pc \in [Handlers -> {"idle", "readAccounts", "save", "sign"}]
    /\ claim \in [Handlers -> Token]
    /\ lost \in [Types -> Nat]
    /\ ended \in [1 .. MaxIds -> Nat]
    /\ raced \subseteq 1 .. made

-----------------------------------------------------------------------------

NoClaim == [sid |-> 0, roles |-> {}, readAt |-> 0, iat |-> 0]

\* Mutant: the query of the adapter without AND status = 'ACTIVE'.
RolesOfAnyStatus == {t \in Types : accounts[t] # "none"}

\* getAccountsByIdentityRef
Roles == {t \in Types : accounts[t] = "ACTIVE"}

\* jwt.verify, in the auth middleware and in the services that hold the secret.
Accepted(k) == k.sid # 0 /\ now < k.iat + AccessTokenTtl

Await(p, call, k) ==
    /\ pc' = [pc EXCEPT ![p] = call]
    /\ claim' = [claim EXCEPT ![p] = k]

Return(p) == Await(p, "idle", NoClaim)

Init ==
    /\ now = 1
    /\ accounts = [t \in Types |-> "none"]
    /\ sessions = {}
    /\ made = 0
    /\ token = NoClaim
    /\ pc = [p \in Handlers |-> "idle"]
    /\ claim = [p \in Handlers |-> NoClaim]
    /\ lost = [t \in Types |-> 0]
    /\ ended = [i \in 1 .. MaxIds |-> 0]
    /\ raced = {}

\* What a call is to sign, as it reads the accounts.
Read(i) == [sid |-> i, roles |-> Roles, readAt |-> now, iat |-> 0]

\* The password matches; a session id is generated once the accounts are read.
SignIn(p) ==
    /\ pc[p] = "idle"
    /\ made < MaxIds
    /\ made' = made + 1
    /\ Await(p, "save", Read(made + 1))
    /\ UNCHANGED <<now, tables, token, history>>

\* Mutant: the session is found by an id that nobody looks up in the table.
RefreshUnchecked(p, i) ==
    /\ pc[p] = "idle"
    /\ i \in 1 .. made
    /\ Await(p, "readAccounts", [NoClaim EXCEPT !.sid = i])
    /\ UNCHANGED <<now, tables, made, token, history>>

Refresh(p, i) ==
    /\ pc[p] = "idle"
    /\ i \in sessions                        \* SessionNotFoundError
    /\ Await(p, "readAccounts", [NoClaim EXCEPT !.sid = i])
    /\ UNCHANGED <<now, tables, made, token, history>>

ReadAccounts(p) ==
    /\ pc[p] = "readAccounts"
    /\ Await(p, "save", Read(claim[p].sid))
    /\ UNCHANGED <<now, tables, made, token, history>>

\* An upsert: a session that was ended meanwhile is back.
SaveSession(p) ==
    /\ pc[p] = "save"
    /\ sessions' = sessions \cup {claim[p].sid}
    /\ Await(p, "sign", claim[p])
    /\ UNCHANGED <<now, accounts, made, token, history>>

\* Mutant: the token is signed with the iat of the claims it was built from.
SignUnstamped(p) ==
    /\ pc[p] = "sign"
    /\ token' \in {token, claim[p]}
    /\ Return(p)
    /\ UNCHANGED <<now, tables, made, history>>

\* The answer of the save is in; generateAccessToken reads the clock.  The new
\* token may or may not be the one to follow.
Sign(p) ==
    /\ pc[p] = "sign"
    /\ token' \in {token, [claim[p] EXCEPT !.iat = now]}
    /\ Return(p)
    /\ UNCHANGED <<now, tables, made, history>>

Fail(p) ==
    /\ pc[p] # "idle"
    /\ Return(p)
    /\ UNCHANGED <<now, tables, made, token, history>>

\* RevokeToken, RevokeAllTokens, the revocations of a password change or reset.
SignOut(S) ==
    /\ S \subseteq sessions /\ S # {}
    /\ sessions' = sessions \ S
    /\ ended' = [i \in 1 .. MaxIds |-> IF i \in S THEN now ELSE ended[i]]
    /\ raced' = raced \cup {i \in S : \E p \in Handlers : claim[p].sid = i}
    /\ UNCHANGED <<now, accounts, made, token, pc, claim, lost>>

\* What the use cases of the account module save: rows are never deleted.
ChangeRole(t, s) ==
    /\ accounts[t] # s
    /\ accounts' = [accounts EXCEPT ![t] = s]
    /\ lost' = [lost EXCEPT ![t] = IF accounts[t] = "ACTIVE" THEN now ELSE @]
    /\ UNCHANGED <<now, sessions, made, token, pc, claim, ended, raced>>

Tick ==
    /\ now < MaxTime
    /\ now' = now + 1
    /\ UNCHANGED <<tables, made, token, pc, claim, history>>

-----------------------------------------------------------------------------

Next ==
    \/ \E p \in SignIns : SignIn(p)
    \/ \E p \in Refreshers, i \in 1 .. made : Refresh(p, i)
    \/ \E p \in Handlers : ReadAccounts(p) \/ SaveSession(p) \/ Sign(p) \/ Fail(p)
    \/ \E S \in SUBSET sessions : SignOut(S)
    \/ \E t \in Types, s \in {"ACTIVE", "inactive"} : ChangeRole(t, s)
    \/ Tick

Spec == Init /\ [][Next]_vars

-----------------------------------------------------------------------------
(* Properties.                                                             *)

Active == {t \in Types : accounts[t] = "ACTIVE"}

\* A role in an accepted token was active when the issuing call read it, and has
\* been withdrawn for no longer than the lifetime of the token and the time that
\* call went on: no claim is inherited from an earlier token or lives longer.
RolesAreRecent ==
    Accepted(token) =>
        \A t \in token.roles \ Active :
            /\ lost[t] >= token.readAt
            /\ now < lost[t] + AccessTokenTtl + (token.iat - token.readAt)

\* A session that was ended is in no accepted token once the lifetime of a token
\* has passed, unless a sign-in or refresh of it was running when it was ended.
SignOutTakesEffect ==
    Accepted(token) /\ token.sid \notin raced /\ ended[token.sid] > 0 =>
        now < ended[token.sid] + AccessTokenTtl

\* A role that k names and that is not active has been withdrawn since k was read.
Recent(k) == \A t \in k.roles \ Active : lost[t] >= k.readAt

\* The inductive strengthening of both: what is known of the token holds of every
\* claim that may become it, and a session that is back after it was ended was
\* brought back by a call that ran when it was ended.
TokensInv ==
    /\ TypeOK
    /\ \A p \in Handlers :
        /\ claim[p].sid \in IF pc[p] = "idle" THEN {0} ELSE 1 .. made
        /\ claim[p].readAt <= now
        /\ Recent(claim[p])
        /\ claim[p].sid \notin raced \cup {0} => ended[claim[p].sid] = 0
    /\ token.sid <= made
    /\ Recent(token)
    /\ token.sid \notin raced \cup {0} /\ ended[token.sid] > 0 =>
        token.iat <= ended[token.sid]
    /\ \A i \in sessions \ raced : ended[i] = 0
    /\ \A i \in 1 .. MaxIds : ended[i] > 0 => i <= made

-----------------------------------------------------------------------------
(* What the documentation says and the code does not keep.                 *)

\* "TTL del access token: 15 minutos ... limita la ventana de exposicion ante ...
\* accounts desactualizados": a role is out of every token that long after its
\* withdrawal.
RolesAgeWithTheToken ==
    Accepted(token) =>
        \A t \in token.roles \ Active : now < lost[t] + AccessTokenTtl
=============================================================================
