------------------------- MODULE AccessTokensProofs -------------------------
(***************************************************************************)
(* Proofs about AccessTokens: for every lifetime of a token and however    *)
(* many calls overlap, how old what a token says can be.                   *)
(***************************************************************************)
EXTENDS AccessTokens, TLAPS

LEMMA Numbers ==
    AccessTokenTtl \in Nat /\ MaxTime \in Nat /\ MaxTime >= 1 /\ MaxIds \in Nat
BY NumbersAssumption

LEMMA NoClaimType ==
    /\ NoClaim \in Token
    /\ NoClaim.sid = 0 /\ NoClaim.roles = {} /\ NoClaim.readAt = 0 /\ NoClaim.iat = 0
BY Numbers DEF NoClaim, Token

\* Claims are built with the roles that are active now, whatever the session.
LEMMA ReadType ==
    ASSUME TypeOK, NEW i \in 1 .. MaxIds
    PROVE  /\ Read(i) \in Token /\ Read(i).sid = i /\ Read(i).readAt = now
           /\ Recent(Read(i))
BY Numbers DEF Read, Token, Roles, Active, Recent, TypeOK

\* The claims of a refresh that has found its session, before it reads any role.
LEMMA FoundType ==
    ASSUME NEW i \in 0 .. MaxIds
    PROVE  /\ [NoClaim EXCEPT !.sid = i] \in Token
           /\ [NoClaim EXCEPT !.sid = i].sid = i
           /\ [NoClaim EXCEPT !.sid = i].roles = {}
           /\ [NoClaim EXCEPT !.sid = i].readAt = 0
BY Numbers DEF NoClaim, Token

-----------------------------------------------------------------------------
(* A handler goes on.                                                      *)

LEMMA AwaitKeepsInv ==
    ASSUME TokensInv, NEW p \in Handlers, NEW k \in Token,
           NEW call \in {"idle", "readAccounts", "save", "sign"},
           Await(p, call, k),
           UNCHANGED <<now, accounts, token, history>>,
           made' \in made .. MaxIds,
           sessions' \subseteq 1 .. made',
           \A i \in sessions' \ raced : ended[i] = 0,
           k.sid \in IF call = "idle" THEN {0} ELSE 1 .. made',
           k.readAt <= now, Recent(k),
           k.sid \notin raced \cup {0} => ended[k.sid] = 0
    PROVE  TokensInv'
<1> USE DEF TokensInv
<1>1. /\ pc'[p] = call /\ claim'[p] = k
      /\ \A q \in Handlers \ {p} : pc'[q] = pc[q] /\ claim'[q] = claim[q]
  BY DEF Await, TypeOK
<1>2. made' \in 0 .. MaxIds /\ made <= made' /\ made \in Nat
  BY Numbers DEF TypeOK
<1>3. TypeOK'
  BY <1>2 DEF TypeOK, Await, history
<1>4. UNCHANGED <<now, token, lost, ended, raced, Active>>
  BY DEF history, Active
<1>5. \A m \in Token : Recent(m) => Recent(m)'
  BY <1>4 DEF Recent
<1>6. ASSUME NEW q \in Handlers
      PROVE  /\ claim'[q].sid \in IF pc'[q] = "idle" THEN {0} ELSE 1 .. made'
             /\ claim'[q].readAt <= now'
             /\ Recent(claim[q])'
             /\ claim'[q].sid \notin raced' \cup {0} => ended'[claim'[q].sid] = 0
  <2>1. CASE q = p
    BY <1>1, <1>4, <2>1 DEF Recent
  <2>2. CASE q # p
    <3>1. claim'[q] = claim[q] /\ pc'[q] = pc[q]
      BY <1>1, <2>2
    <3>2. claim[q].sid \in IF pc[q] = "idle" THEN {0} ELSE 1 .. made'
      BY <1>2
    <3>3. QED
      BY <1>4, <3>1, <3>2 DEF Recent
  <2>3. QED
    BY <2>1, <2>2
<1>7. token'.sid <= made' /\ Recent(token)'
  BY <1>2, <1>4 DEF Recent, TypeOK, Token
<1>8. \A i \in 1 .. MaxIds : ended'[i] > 0 => i <= made'
  BY <1>2, <1>4 DEF TypeOK
<1>9. QED
  BY <1>3, <1>4, <1>6, <1>7, <1>8

\* What else a step asks for that leaves the sessions alone.
LEMMA SessionsStay ==
    ASSUME TokensInv, UNCHANGED sessions, made' \in made .. MaxIds
    PROVE  sessions' \subseteq 1 .. made' /\ \A i \in sessions' \ raced : ended[i] = 0
BY Numbers DEF TokensInv, TypeOK

\* The id of a sign-in is new: nothing has been ended that it could name.
LEMMA SignInKeepsInv ==
    ASSUME TokensInv, NEW p \in SignIns, SignIn(p)
    PROVE  TokensInv'
<1> DEFINE k == Read(made + 1)
<1>1. made + 1 \in 1 .. MaxIds /\ made \in Nat /\ p \in Handlers /\ now \in Nat
  BY Numbers DEF SignIn, TokensInv, TypeOK, Handlers
<1>2. ended[made + 1] = 0
  BY <1>1 DEF TokensInv, TypeOK
<1>3. k \in Token /\ k.sid = made + 1 /\ k.readAt <= now /\ Recent(k)
  BY <1>1, ReadType DEF TokensInv
<1>4. /\ Await(p, "save", k) /\ made' = made + 1 /\ made' \in made .. MaxIds
      /\ UNCHANGED <<now, accounts, sessions, token, history>>
  BY <1>1 DEF SignIn, tables
<1>5. k.sid \in 1 .. made'
  BY <1>1, <1>3, <1>4
<1> HIDE DEF k
<1>6. QED
  BY <1>1, <1>2, <1>3, <1>4, <1>5, SessionsStay, AwaitKeepsInv

\* A session that is found was not ended, unless a call brought it back.
LEMMA RefreshKeepsInv ==
    ASSUME TokensInv, NEW p \in Refreshers, NEW i \in 1 .. made, Refresh(p, i)
    PROVE  TokensInv'
<1> DEFINE k == [NoClaim EXCEPT !.sid = i]
<1>1. /\ i \in 0 .. MaxIds /\ made \in 0 .. MaxIds /\ made \in made .. MaxIds
      /\ p \in Handlers /\ 0 <= now
  BY Numbers DEF TokensInv, TypeOK, Handlers
<1>2. i \notin raced => ended[i] = 0
  BY DEF Refresh, TokensInv
<1>3. k \in Token /\ k.sid = i /\ k.readAt <= now /\ Recent(k)
  BY <1>1, FoundType DEF Recent
<1>4. Await(p, "readAccounts", k) /\ UNCHANGED <<now, accounts, sessions, made, token, history>>
  BY DEF Refresh, tables
<1> HIDE DEF k
<1>5. QED
  BY <1>1, <1>2, <1>3, <1>4, SessionsStay, AwaitKeepsInv

LEMMA ReadAccountsKeepsInv ==
    ASSUME TokensInv, NEW p \in Handlers, ReadAccounts(p)
    PROVE  TokensInv'
<1> DEFINE k == Read(claim[p].sid)
<1>1. claim[p].sid \in 1 .. made /\ made \in made .. MaxIds /\ now \in Nat
  BY Numbers DEF ReadAccounts, TokensInv, TypeOK
<1>2. claim[p].sid \in 1 .. MaxIds
  BY <1>1, Numbers DEF TokensInv, TypeOK
<1>3. k \in Token /\ k.sid = claim[p].sid /\ k.readAt <= now /\ Recent(k)
  BY <1>1, <1>2, ReadType DEF TokensInv
<1>4. Await(p, "save", k) /\ UNCHANGED <<now, accounts, sessions, made, token, history>>
  BY DEF ReadAccounts, tables
<1>5. claim[p].sid \notin raced \cup {0} => ended[claim[p].sid] = 0
  BY DEF TokensInv
<1> HIDE DEF k
<1>6. QED
  BY <1>1, <1>3, <1>4, <1>5, SessionsStay, AwaitKeepsInv

\* The upsert brings back no session but one whose end raced with this call.
LEMMA SaveSessionKeepsInv ==
    ASSUME TokensInv, NEW p \in Handlers, SaveSession(p)
    PROVE  TokensInv'
<1> DEFINE k == claim[p]
<1>1. /\ k.sid \in 1 .. made /\ made \in 0 .. MaxIds /\ k \in Token
      /\ k.readAt <= now /\ Recent(k)
      /\ k.sid \notin raced \cup {0} => ended[k.sid] = 0
  BY DEF SaveSession, TokensInv, TypeOK
<1>2. sessions' = sessions \cup {k.sid} /\ sessions' \subseteq 1 .. made
  BY <1>1 DEF SaveSession, TokensInv, TypeOK
<1>3. \A i \in sessions' \ raced : ended[i] = 0
  BY <1>1, <1>2 DEF TokensInv
<1>4. Await(p, "sign", k) /\ UNCHANGED <<now, accounts, made, token, history>>
  BY DEF SaveSession
<1>5. made' \in made .. MaxIds
  BY <1>1, <1>4
<1> HIDE DEF k
<1>6. QED
  BY <1>1, <1>2, <1>3, <1>4, <1>5, AwaitKeepsInv

LEMMA ReturnKeepsInv ==
    ASSUME TokensInv, NEW p \in Handlers, Return(p),
           UNCHANGED <<now, tables, made, token, history>>
    PROVE  TokensInv'
<1>1. Recent(NoClaim) /\ 0 <= now /\ made' \in made .. MaxIds
  BY NoClaimType, Numbers DEF Recent, TokensInv, TypeOK
<1>2. Await(p, "idle", NoClaim) /\ UNCHANGED <<accounts, sessions>>
  BY DEF Return, tables
<1>3. QED
  BY <1>1, <1>2, NoClaimType, SessionsStay, AwaitKeepsInv

\* A claim that becomes the token takes with it what is known of it.
LEMMA SignKeepsInv ==
    ASSUME TokensInv, NEW p \in Handlers, Sign(p)
    PROVE  TokensInv'
<1> USE DEF TokensInv
<1> DEFINE k == [claim[p] EXCEPT !.iat = now]
<1>1. claim[p] \in Token /\ now \in Nat /\ made \in Nat
  BY Numbers DEF TypeOK
<1>2. /\ k \in Token /\ k.sid = claim[p].sid /\ k.roles = claim[p].roles
      /\ k.readAt = claim[p].readAt /\ k.iat = now
  BY <1>1 DEF Token
<1>3. token' = token \/ token' = k
  BY DEF Sign
<1> HIDE DEF k
<1>4. /\ Return(p) /\ pc[p] = "sign"
      /\ UNCHANGED <<now, accounts, sessions, made, lost, ended, raced, Active>>
  BY DEF Sign, tables, history, Active
<1>5. /\ pc'[p] = "idle" /\ claim'[p] = NoClaim
      /\ \A q \in Handlers \ {p} : pc'[q] = pc[q] /\ claim'[q] = claim[q]
  BY <1>4 DEF Return, Await, TypeOK
<1>6. TypeOK'
  <2>1. token' \in Token /\ token'.readAt <= token'.iat /\ token'.iat <= now'
    <3>1. k.readAt <= k.iat /\ k.iat <= now
      BY <1>1, <1>2
    <3>2. QED
      BY <1>2, <1>3, <1>4, <3>1 DEF TypeOK
  <2>2. /\ pc' \in [Handlers -> {"idle", "readAccounts", "save", "sign"}]
        /\ claim' \in [Handlers -> Token]
    BY <1>4, NoClaimType DEF TypeOK, Return, Await
  <2>3. QED
    BY <1>4, <2>1, <2>2 DEF TypeOK
<1>7. ASSUME NEW q \in Handlers
      PROVE  /\ claim'[q].sid \in IF pc'[q] = "idle" THEN {0} ELSE 1 .. made'
             /\ claim'[q].readAt <= now'
             /\ Recent(claim[q])'
             /\ claim'[q].sid \notin raced' \cup {0} => ended'[claim'[q].sid] = 0
  <2>1. CASE q = p
    BY <1>1, <1>4, <1>5, <2>1, NoClaimType DEF Recent
  <2>2. CASE q # p
    BY <1>4, <1>5, <2>2 DEF Recent
  <2>3. QED
    BY <2>1, <2>2
<1>8. token'.sid <= made' /\ Recent(token)'
  <2>1. k.sid <= made /\ Recent(k)
    BY <1>1, <1>2, <1>4 DEF Recent
  <2>2. QED
    BY <1>3, <1>4, <2>1 DEF Recent
<1>9. token'.sid \notin raced' \cup {0} /\ ended'[token'.sid] > 0 =>
         token'.iat <= ended'[token'.sid]
  <2>1. k.sid \notin raced \cup {0} => ~(ended[k.sid] > 0)
    BY <1>2
  <2>2. QED
    BY <1>3, <1>4, <2>1
<1>10. /\ \A i \in sessions' \ raced' : ended'[i] = 0
       /\ \A i \in 1 .. MaxIds : ended'[i] > 0 => i <= made'
  BY <1>4
<1>11. QED
  BY <1>6, <1>7, <1>8, <1>9, <1>10

-----------------------------------------------------------------------------
(* The others.                                                             *)

\* What is ended now is in no claim that does not count as raced, and the token was
\* signed before.
LEMMA SignOutKeepsInv ==
    ASSUME TokensInv, NEW S \in SUBSET sessions, SignOut(S)
    PROVE  TokensInv'
<1> USE DEF TokensInv
<1>1. /\ sessions' = sessions \ S
      /\ ended' = [i \in 1 .. MaxIds |-> IF i \in S THEN now ELSE ended[i]]
      /\ raced' = raced \cup {i \in S : \E p \in Handlers : claim[p].sid = i}
      /\ UNCHANGED <<now, accounts, made, token, pc, claim, lost, Active>>
  BY DEF SignOut, Active
<1>2. S \subseteq 1 .. made /\ made \in 0 .. MaxIds /\ now \in 1 .. MaxTime
  BY DEF TypeOK
<1>3. S \subseteq 1 .. MaxIds /\ now \in Nat /\ made \in Nat
  BY <1>2, Numbers
<1>4. TypeOK'
  BY <1>1, <1>2, <1>3 DEF TypeOK
<1>5. \A i \in 1 .. MaxIds : ended'[i] = IF i \in S THEN now ELSE ended[i]
  BY <1>1
<1>6. \A m \in Token : Recent(m) => Recent(m)'
  BY <1>1 DEF Recent
<1>7. ASSUME NEW p \in Handlers
      PROVE  /\ claim'[p].sid \in IF pc'[p] = "idle" THEN {0} ELSE 1 .. made'
             /\ claim'[p].readAt <= now'
             /\ Recent(claim[p])'
             /\ claim'[p].sid \notin raced' \cup {0} => ended'[claim'[p].sid] = 0
  <2>1. claim[p].sid \notin raced' => claim[p].sid \notin S /\ claim[p].sid \notin raced
    BY <1>1
  <2>2. claim[p].sid # 0 => claim[p].sid \in 1 .. MaxIds
    BY <1>2, Numbers DEF TypeOK
  <2>3. QED
    BY <1>1, <1>5, <2>1, <2>2 DEF Recent
<1>8. token'.sid <= made' /\ Recent(token)'
  BY <1>1 DEF Recent
<1>9. token'.sid \notin raced' \cup {0} /\ ended'[token'.sid] > 0 =>
         token'.iat <= ended'[token'.sid]
  <2>1. token.sid # 0 => token.sid \in 1 .. MaxIds
    BY Numbers DEF TypeOK, Token
  <2>2. token.iat <= now
    BY DEF TypeOK
  <2>3. QED
    BY <1>1, <1>5, <2>1, <2>2
<1>10. \A i \in sessions' \ raced' : ended'[i] = 0
  BY <1>1, <1>2, <1>5, Numbers DEF TypeOK
<1>11. \A i \in 1 .. MaxIds : ended'[i] > 0 => i <= made'
  BY <1>1, <1>2, <1>5, Numbers DEF TypeOK
<1>12. QED
  BY <1>1, <1>4, <1>7, <1>8, <1>9, <1>10, <1>11

\* A role that is withdrawn is withdrawn now, when everything was read already.
LEMMA ChangeRoleKeepsInv ==
    ASSUME TokensInv, NEW t \in Types, NEW s \in {"ACTIVE", "inactive"}, ChangeRole(t, s)
    PROVE  TokensInv'
<1> USE DEF TokensInv
<1>1. UNCHANGED <<now, sessions, made, token, pc, claim, ended, raced>>
  BY DEF ChangeRole
<1>2. now \in Nat /\ \A u \in Types : lost[u] \in Nat
  BY Numbers DEF TypeOK
<1>3. TypeOK'
  <2>1. accounts' \in [Types -> {"none", "ACTIVE", "inactive"}] /\ lost' \in [Types -> Nat]
    BY <1>2 DEF ChangeRole, TypeOK
  <2>2. QED
    BY <1>1, <2>1 DEF TypeOK
<1>4. /\ accounts[t] = "ACTIVE" => lost'[t] = now
      /\ accounts[t] # "ACTIVE" => lost'[t] = lost[t]
      /\ \A u \in Types \ {t} : lost'[u] = lost[u] /\ accounts'[u] = accounts[u]
  BY DEF ChangeRole, TypeOK
<1>5. ASSUME NEW m \in Token, Recent(m), m.readAt <= now
      PROVE  Recent(m)'
  <2>1. \A u \in m.roles \ Active' : lost'[u] >= m.readAt
    BY <1>2, <1>4, <1>5 DEF Recent, Active, Token
  <2>2. QED
    BY <2>1 DEF Recent
<1>6. \A p \in Handlers : claim[p] \in Token /\ Recent(claim[p]) /\ claim[p].readAt <= now
  BY DEF TypeOK
<1>7. token \in Token /\ token.readAt <= now
  BY <1>2 DEF TypeOK, Token
<1>8. \A p \in Handlers : Recent(claim[p])'
  <2>1. TAKE p \in Handlers
  <2>2. \A u \in claim[p].roles \ Active' : lost'[u] >= claim[p].readAt
    BY <1>5, <1>6 DEF Recent
  <2>3. QED
    BY <1>1, <2>2 DEF Recent
<1>9. Recent(token)'
  <2>1. \A u \in token.roles \ Active' : lost'[u] >= token.readAt
    BY <1>5, <1>7 DEF Recent
  <2>2. QED
    BY <1>1, <2>1 DEF Recent
<1>10. QED
  BY <1>1, <1>3, <1>8, <1>9

LEMMA TickKeepsInv == ASSUME TokensInv, Tick PROVE TokensInv'
<1> USE DEF TokensInv
<1>1. /\ now' = now + 1 /\ now' \in 1 .. MaxTime /\ now \in Nat
      /\ UNCHANGED <<accounts, sessions, made, token, pc, claim, lost, ended, raced, Active>>
  BY Numbers DEF Tick, TypeOK, tables, history, Active
<1>2. TypeOK'
  BY <1>1 DEF TypeOK, Token
<1>3. \A p \in Handlers : Recent(claim[p])' /\ claim'[p].readAt <= now'
  BY <1>1 DEF Recent, TypeOK, Token
<1>4. Recent(token)'
  BY <1>1 DEF Recent
<1>5. QED
  BY <1>1, <1>2, <1>3, <1>4

-----------------------------------------------------------------------------
(* The strengthened invariant is inductive.                                *)

LEMMA TokensInitially == Init => TokensInv
BY NoClaimType, Numbers DEF Init, TokensInv, TypeOK, Recent

LEMMA TokensStep == ASSUME TokensInv, [Next]_vars PROVE TokensInv'
<1>1. CASE UNCHANGED vars
  BY <1>1 DEF vars, tables, history, TokensInv, TypeOK, Recent, Active
<1>2. ASSUME NEW p \in Handlers, Fail(p) PROVE TokensInv'
  BY <1>2, ReturnKeepsInv DEF Fail
<1>3. QED
  BY <1>1, <1>2, SignInKeepsInv, RefreshKeepsInv, ReadAccountsKeepsInv, SaveSessionKeepsInv,
     SignKeepsInv, SignOutKeepsInv, ChangeRoleKeepsInv, TickKeepsInv DEF Next

LEMMA TokensInvariant == Spec => []TokensInv
BY TokensInitially, TokensStep, PTL DEF Spec

-----------------------------------------------------------------------------
(* Theorems.                                                               *)

\* Every state of the handlers, the tables and the token has its type, and no token is
\* older than its claims say.
THEOREM TokensTypeCorrect == Spec => []TypeOK
<1>1. TokensInv => TypeOK
  BY DEF TokensInv
<1>2. QED
  BY <1>1, TokensInvariant, PTL

\* What the auth middleware reads in a token it accepts: roles that were active when the
\* issuing call read them, and that are withdrawn for no longer than the lifetime of the
\* token and the time that call took.
THEOREM TokenRolesAreRecent == Spec => []RolesAreRecent
<1>1. ASSUME TokensInv, Accepted(token), NEW t \in token.roles \ Active
      PROVE  lost[t] >= token.readAt /\ now < lost[t] + AccessTokenTtl + (token.iat - token.readAt)
  <2>1. lost[t] >= token.readAt
    BY <1>1 DEF TokensInv, Recent
  <2>2. /\ token.readAt \in Nat /\ token.iat \in Nat /\ lost[t] \in Nat /\ now \in Nat
        /\ token.readAt <= token.iat
    BY <1>1, Numbers DEF TokensInv, TypeOK, Token
  <2>3. now < token.iat + AccessTokenTtl
    BY <1>1 DEF Accepted
  <2>4. QED
    BY <2>1, <2>2, <2>3, Numbers
<1>2. TokensInv => RolesAreRecent
  BY <1>1 DEF RolesAreRecent
<1>3. QED
  BY <1>2, TokensInvariant, PTL

\* A token of a session that was signed out, evicted or revoked is accepted no longer
\* than a token lives, unless a call of that session was running then.
THEOREM SignedOutTokensExpire == Spec => []SignOutTakesEffect
<1>1. ASSUME TokensInv, Accepted(token), token.sid \notin raced, ended[token.sid] > 0
      PROVE  now < ended[token.sid] + AccessTokenTtl
  <2>1. token.sid \in 1 .. MaxIds /\ token.iat <= ended[token.sid]
    BY <1>1, Numbers DEF TokensInv, TypeOK, Token, Accepted
  <2>2. token.iat \in Nat /\ now \in Nat /\ ended[token.sid] \in Nat
    BY <1>1, <2>1, Numbers DEF TokensInv, TypeOK, Token
  <2>3. now < token.iat + AccessTokenTtl
    BY <1>1 DEF Accepted
  <2>4. QED
    BY <2>1, <2>2, <2>3, Numbers
<1>2. TokensInv => SignOutTakesEffect
  BY <1>1 DEF SignOutTakesEffect
<1>3. QED
  BY <1>2, TokensInvariant, PTL
=============================================================================
