--------------------------- MODULE SessionsProofs ---------------------------
(***************************************************************************)
(* Proofs about Sessions: for any number of users and of overlapping       *)
(* calls, what has been exchanged, ended or replaced opens nothing more.   *)
(***************************************************************************)
EXTENDS Sessions, FiniteSetTheorems, TLAPS

-----------------------------------------------------------------------------
(* Entities.                                                               *)

LEMMA Numbers ==
    /\ SessionTtl \in Nat /\ NameCooldown \in Nat /\ MaxSessions \in Nat /\ MaxSessions >= 1
    /\ MaxTime \in Nat /\ MaxIssued \in Nat /\ MaxChosen \in Nat
BY NumbersAssumption

LEMMA NoCredType == NoCred \in Cred /\ NoCred.id \in Credentials /\ NoCred.password = 0
BY NamesAssumption DEF NoCred, Cred

LEMMA NoSessionType == NoSession \in Session
BY NoCredType DEF NoSession, Session

LEMMA NewSessionType ==
    ASSUME now \in Nat, NEW c \in Credentials, NEW n \in Nat
    PROVE  /\ NewSession(c, n) \in Session
           /\ NewSession(c, n).id = n /\ NewSession(c, n).token = n
           /\ NewSession(c, n).owner = c
BY DEF NewSession, Session

LEMMA RotateType ==
    ASSUME now \in Nat, NEW s \in Session, NEW n \in Nat
    PROVE  /\ Rotate(s, n) \in Session
           /\ Rotate(s, n).id = s.id /\ Rotate(s, n).owner = s.owner
           /\ Rotate(s, n).token = n
<1> DEFINE t == [s EXCEPT !.token = n]
<1>1. t \in Session /\ t.id = s.id /\ t.owner = s.owner /\ t.token = n
  BY DEF Session
<1>2. Rotate(s, n) = [t EXCEPT !.lastUsedAt = now]
  BY DEF Rotate
<1> HIDE DEF t
<1>3. QED
  BY <1>1, <1>2 DEF Session

LEMMA UpdatePasswordType ==
    ASSUME NEW r \in Cred, NEW w \in Nat
    PROVE  /\ UpdatePassword(r, w) \in Cred
           /\ UpdatePassword(r, w).id = r.id /\ UpdatePassword(r, w).password = w
BY DEF UpdatePassword, Cred

LEMMA ChangeUsernameType ==
    ASSUME now \in Nat, NEW r \in Cred, NEW u \in Usernames
    PROVE  /\ ChangeUsername(r, u) \in Cred
           /\ ChangeUsername(r, u).id = r.id /\ ChangeUsername(r, u).password = r.password
<1> DEFINE t == [r EXCEPT !.username = u]
<1>1. t \in Cred /\ t.id = r.id /\ t.password = r.password
  BY DEF Cred
<1>2. ChangeUsername(r, u) = [t EXCEPT !.changedAt = now]
  BY DEF ChangeUsername
<1> HIDE DEF t
<1>3. QED
  BY <1>1, <1>2 DEF Cred

-----------------------------------------------------------------------------
(* Handlers.                                                               *)

\* Which handler belongs to which use case is never in doubt.
LEMMA Kinds ==
    /\ SignIns \subseteq Handlers /\ Refreshers \subseteq Handlers /\ Changers \subseteq Handlers
    /\ Resetters \subseteq Handlers /\ Renamers \subseteq Handlers
    /\ \A p \in SignIns : p \notin Refreshers \cup Changers \cup Resetters \cup Renamers
    /\ \A p \in Refreshers : p \notin Changers \cup Resetters \cup Renamers
    /\ \A p \in Changers : p \notin Resetters \cup Renamers
    /\ \A p \in Resetters : p \notin Renamers
BY SlotsAssumption DEF Handlers

LEMMA AwaitEffect ==
    ASSUME TypeOK, NEW p \in Handlers, NEW call \in Pc, NEW r \in Cred, NEW s \in Session,
           NEW sent \in Nat, Await(p, call, r, s, sent)
    PROVE  /\ pc'[p] = call /\ cred'[p] = r /\ sess'[p] = s /\ dto'[p] = sent
           /\ \A q \in Handlers \ {p} : /\ pc'[q] = pc[q] /\ cred'[q] = cred[q]
                                        /\ sess'[q] = sess[q] /\ dto'[q] = dto[q]
           /\ pc' \in [Handlers -> Pc] /\ cred' \in [Handlers -> Cred]
           /\ sess' \in [Handlers -> Session] /\ dto' \in [Handlers -> Nat]
BY DEF TypeOK, Await

LEMMA ThenIsAwait ==
    ASSUME TypeOK, NEW p \in Handlers, NEW call \in Pc, Then(p, call)
    PROVE  /\ Await(p, call, cred[p], sess[p], dto[p])
           /\ cred[p] \in Cred /\ sess[p] \in Session /\ dto[p] \in Nat
BY DEF TypeOK, Await, Then

\* A handler that returns holds nothing, and the others what they held.
LEMMA ReturnEffect ==
    ASSUME TypeOK, NEW p \in Handlers, Return(p)
    PROVE  /\ pc'[p] = "idle" /\ cred'[p] = NoCred /\ dto'[p] = 0
           /\ \A q \in Handlers \ {p} : /\ pc'[q] = pc[q] /\ cred'[q] = cred[q]
                                        /\ sess'[q] = sess[q] /\ dto'[q] = dto[q]
           /\ pc' \in [Handlers -> Pc] /\ cred' \in [Handlers -> Cred]
           /\ sess' \in [Handlers -> Session] /\ dto' \in [Handlers -> Nat]
           /\ Pending' = Pending \ {p} /\ Refreshing' = Refreshing \ {p}
<1>1. "idle" \in Pc /\ 0 \in Nat /\ Await(p, "idle", NoCred, NoSession, 0)
  BY DEF Pc, Return
<1>2. QED
  BY <1>1, NoCredType, NoSessionType, AwaitEffect, Kinds DEF Pending, Refreshing

LEMMA HeldIds ==
    /\ Held = {sess[p].id : p \in Refreshing}
    /\ Pending \subseteq Handlers /\ Refreshing \subseteq Refreshers
    /\ Pending \cap Refreshers \subseteq Refreshing
BY Kinds DEF Held, Refreshing, Pending

-----------------------------------------------------------------------------
(* A handler goes on and, perhaps, deletes sessions or saves a credential.  *)

\* What it takes with it must be of its user, not ended, not retired, and new if it is
\* to be stored.
LEMMA SavingKeepsInv ==
    ASSUME SessionsInv, UNCHANGED <<now, history>>, sessions' \subseteq sessions,
           creds' \in [Credentials -> Cred],
           \A c \in Credentials : /\ creds'[c].id = c /\ creds'[c].password <= chosen'
                                  /\ <<c, creds'[c].password>> \notin retired,
           issued' \in Nat, issued <= issued', chosen' \in Nat, chosen <= chosen',
           NEW p \in Handlers, NEW call \in Pc, NEW r \in Cred, NEW s \in Session,
           NEW sent \in Nat, Await(p, call, r, s, sent),
           r.password <= chosen',
           p \in SignIns /\ call = "store" =>
               /\ s.id = s.token /\ s.owner = r.id
               /\ s.id \in (1 .. issued') \ DOMAIN auth,
           p \in Refreshers /\ call # "idle" =>
               /\ s.id \in DOMAIN auth /\ auth[s.id][1] = s.owner
               /\ s.id \notin ended /\ auth[s.id] \notin retired
               /\ sent <= issued
               /\ \A t \in sessions : t.token = sent => t.id = s.id
               /\ \A q \in Pending : sess[q].token # sent,
           p \notin Refreshers /\ call # "idle" => <<r.id, r.password>> \notin retired,
           (p \in SignIns /\ call = "store") \/ (p \in Refreshers /\ call = "restore") =>
               s.token \in (issued + 1) .. issued'
    PROVE  SessionsInv'
<1>1. TypeOK /\ OwnersInv /\ TokensInv /\ EndedStaysEnded /\ Held \cap ended = {} /\ RetiredInv
  BY DEF SessionsInv, OwnersInv
<1>2. /\ pc'[p] = call /\ cred'[p] = r /\ sess'[p] = s /\ dto'[p] = sent
      /\ \A q \in Handlers \ {p} : /\ pc'[q] = pc[q] /\ cred'[q] = cred[q]
                                   /\ sess'[q] = sess[q] /\ dto'[q] = dto[q]
      /\ pc' \in [Handlers -> Pc] /\ cred' \in [Handlers -> Cred]
      /\ sess' \in [Handlers -> Session] /\ dto' \in [Handlers -> Nat]
  BY <1>1, AwaitEffect
<1>3. UNCHANGED <<now, auth, exchanged, ended, raced, revived, retired>>
  BY DEF history
<1>4. issued \in Nat /\ chosen \in Nat
  BY <1>1 DEF TypeOK
<1>5. /\ \A q \in Pending' \ {p} : q \in Pending /\ sess'[q] = sess[q]
      /\ \A q \in Refreshing' \ {p} : /\ q \in Refreshing /\ sess'[q] = sess[q]
                                      /\ dto'[q] = dto[q]
      /\ p \in Pending' <=> \/ p \in SignIns /\ call = "store"
                            \/ p \in Refreshers /\ call = "restore"
      /\ p \in Refreshing' <=> p \in Refreshers /\ call # "idle"
  BY <1>2, Kinds DEF Pending, Refreshing
<1>6. TypeOK'
  BY <1>1, <1>2, <1>3, <1>4 DEF TypeOK
<1>7. OwnersInv'
  <2>1. \A c \in Credentials : creds'[c].id = c /\ creds'[c].password <= chosen'
    OBVIOUS
  <2>2. \A t \in sessions' : t.id \in DOMAIN auth' /\ auth'[t.id][1] = t.owner
    BY <1>1, <1>3 DEF OwnersInv
  <2>3. \A q \in Handlers : cred'[q].password <= chosen'
    <3>1. \A q \in Handlers : cred[q].password \in Nat /\ cred[q].password <= chosen
      BY <1>1 DEF OwnersInv, TypeOK, Cred
    <3>2. \A q \in Handlers \ {p} : cred[q].password <= chosen'
      BY <1>4, <3>1
    <3>3. QED
      BY <1>2, <3>2
  <2>4. \A q \in SignIns : pc'[q] = "store" =>
          /\ sess'[q].id = sess'[q].token /\ sess'[q].owner = cred'[q].id
          /\ sess'[q].id \in (1 .. issued') \ DOMAIN auth'
    BY <1>1, <1>2, <1>3, <1>4, Kinds DEF OwnersInv
  <2>5. \A q \in Refreshing' :
          sess'[q].id \in DOMAIN auth' /\ auth'[sess'[q].id][1] = sess'[q].owner
    BY <1>1, <1>2, <1>3, <1>5 DEF OwnersInv
  <2>6. QED
    BY <1>6, <2>1, <2>2, <2>3, <2>4, <2>5 DEF OwnersInv
<1>8. TokensInv'
  <2>1. \A t \in sessions' : t.token <= issued /\ t.token <= issued'
    BY <1>1, <1>4 DEF TokensInv, TypeOK, Session
  <2>2. \A t, u \in sessions' : (t.id = u.id \/ t.token = u.token) => t = u
    BY <1>1 DEF TokensInv
  <2>3. \A x \in exchanged' : x[1] <= issued /\ x[1] <= issued'
    BY <1>1, <1>3, <1>4 DEF TokensInv, TypeOK
  <2>4. ExchangedTokenIsDead'
    BY <1>1, <1>3 DEF TokensInv, ExchangedTokenIsDead, Tokens
  <2>5. \A q \in Refreshing' : /\ dto'[q] <= issued /\ dto'[q] <= issued'
                               /\ \A t \in sessions' : t.token = dto'[q] => t.id = sess'[q].id
    <3>1. TAKE q \in Refreshing'
    <3>2. CASE q = p
      BY <1>2, <1>4, <1>5, <3>2
    <3>3. CASE q # p
      <4>1. dto[q] \in Nat /\ dto[q] <= issued
        BY <1>1, <1>5, <3>3, Kinds DEF TokensInv, TypeOK, Refreshing
      <4>2. QED
        BY <1>1, <1>4, <1>5, <3>3, <4>1 DEF TokensInv
    <3>4. QED
      BY <3>2, <3>3
  <2>6. ASSUME NEW q \in Pending'
        PROVE  /\ sess'[q].token <= issued'
               /\ sess'[q].token \notin Tokens(sessions)'
               /\ \A x \in exchanged' : x[1] # sess'[q].token
               /\ \A o \in Refreshing' : dto'[o] # sess'[q].token
               /\ \A o \in Pending' \ {q} : sess'[o].token # sess'[q].token
    <3>1. CASE q = p
      <4>1. sess'[q] = s /\ s.token \in (issued + 1) .. issued'
        BY <1>2, <1>5, <3>1
      <4>2. \A o \in Pending' \ {q} : sess'[o].token <= issued
        BY <1>1, <1>5, <3>1 DEF TokensInv
      <4>3. s.token <= issued' /\ ~(s.token <= issued)
        BY <1>4, <4>1
      <4>4. QED
        BY <2>1, <2>3, <2>5, <3>1, <4>1, <4>2, <4>3 DEF Tokens
    <3>2. CASE q # p
      <4>1. /\ q \in Pending /\ sess'[q] = sess[q] /\ sess[q].token <= issued
            /\ sess[q].token \in Nat
        BY <1>1, <1>5, <3>2, Kinds DEF TokensInv, TypeOK, Session, Pending
      <4>2. sess[q].token <= issued' /\ sess[q].token \notin Tokens(sessions)'
        BY <1>1, <1>4, <4>1 DEF TokensInv, Tokens
      <4>3. \A x \in exchanged' : x[1] # sess[q].token
        BY <1>1, <1>3, <4>1 DEF TokensInv
      <4>4. \A o \in Refreshing' : dto'[o] # sess[q].token
        BY <1>1, <1>2, <1>5, <4>1 DEF TokensInv
      <4>5. \A o \in Pending' \ {q} : sess'[o].token # sess[q].token
        BY <1>1, <1>2, <1>4, <1>5, <4>1 DEF TokensInv
      <4>6. QED
        BY <4>1, <4>2, <4>3, <4>4, <4>5
    <3>3. QED
      BY <3>1, <3>2
  <2>7. QED
    BY <2>1, <2>2, <2>3, <2>4, <2>5, <2>6 DEF TokensInv
<1>9. EndedStaysEnded'
  BY <1>1, <1>3 DEF EndedStaysEnded, Ids
<1>10. \A q \in Refreshing' : sess'[q].id \notin ended' /\ auth'[sess'[q].id] \notin retired'
  <2>1. \A q \in Refreshing : sess[q].id \notin ended /\ auth[sess[q].id] \notin retired
    BY <1>1, HeldIds DEF RetiredInv
  <2>2. QED
    BY <1>2, <1>3, <1>5, <2>1
<1>11. RetiredInv'
  <2>1. RetiredPasswordOpensNothing'
    BY <1>1, <1>3 DEF RetiredInv, RetiredPasswordOpensNothing
  <2>2. \A q \in Handlers \ Refreshers :
          pc'[q] # "idle" => <<cred'[q].id, cred'[q].password>> \notin retired'
    BY <1>1, <1>2, <1>3 DEF RetiredInv
  <2>3. \A i \in Held' : auth'[i] \notin retired'
    BY <1>10 DEF Held, Refreshing
  <2>4. QED
    BY <2>1, <2>2, <2>3 DEF RetiredInv
<1>12. Held' \cap ended' = {}
  BY <1>10 DEF Held, Refreshing
<1>13. QED
  BY <1>7, <1>8, <1>9, <1>11, <1>12 DEF SessionsInv

\* The same of a handler that saves no credential.
LEMMA AwaitKeepsInv ==
    ASSUME SessionsInv, UNCHANGED <<now, creds, history>>, sessions' \subseteq sessions,
           issued' \in Nat, issued <= issued', chosen' \in Nat, chosen <= chosen',
           NEW p \in Handlers, NEW call \in Pc, NEW r \in Cred, NEW s \in Session,
           NEW sent \in Nat, Await(p, call, r, s, sent),
           r.password <= chosen',
           p \in SignIns /\ call = "store" =>
               /\ s.id = s.token /\ s.owner = r.id
               /\ s.id \in (1 .. issued') \ DOMAIN auth,
           p \in Refreshers /\ call # "idle" =>
               /\ s.id \in DOMAIN auth /\ auth[s.id][1] = s.owner
               /\ s.id \notin ended /\ auth[s.id] \notin retired
               /\ sent <= issued
               /\ \A t \in sessions : t.token = sent => t.id = s.id
               /\ \A q \in Pending : sess[q].token # sent,
           p \notin Refreshers /\ call # "idle" => <<r.id, r.password>> \notin retired,
           (p \in SignIns /\ call = "store") \/ (p \in Refreshers /\ call = "restore") =>
               s.token \in (issued + 1) .. issued'
    PROVE  SessionsInv'
<1>1. /\ creds' \in [Credentials -> Cred]
      /\ \A c \in Credentials : /\ creds'[c].id = c /\ creds'[c].password <= chosen'
                                 /\ <<c, creds'[c].password>> \notin retired
  BY DEF SessionsInv, OwnersInv, TypeOK, Cred, RetiredInv, RetiredPasswordOpensNothing
<1>2. QED
  BY <1>1, SavingKeepsInv

\* A handler that returns, having written nothing.
LEMMA ReturnKeepsInv ==
    ASSUME SessionsInv, NEW p \in Handlers, Return(p),
           UNCHANGED <<now, tables, issued, chosen, history>>
    PROVE  SessionsInv'
<1>1. /\ Await(p, "idle", NoCred, NoSession, 0) /\ "idle" \in Pc /\ 0 \in Nat
      /\ UNCHANGED <<creds, sessions>>
  BY DEF Return, Pc, tables
<1>2. issued' \in Nat /\ issued <= issued' /\ chosen' \in Nat /\ chosen <= chosen'
  BY DEF SessionsInv, OwnersInv, TypeOK
<1>3. NoCred.password <= chosen' /\ sessions' \subseteq sessions
  BY <1>1, <1>2, NoCredType
<1>4. QED
  BY <1>1, <1>2, <1>3, NoCredType, NoSessionType, AwaitKeepsInv

\* A sign-in goes on, and holds nothing but its credential until it stores.
LEMMA SignInGoesOn ==
    ASSUME SessionsInv, NEW p \in SignIns, NEW call \in Pc \ {"idle", "store"},
           NEW s \in Session, NEW sent \in Nat, pc[p] # "idle",
           Await(p, call, cred[p], s, sent),
           UNCHANGED <<now, creds, issued, chosen, history>>, sessions' \subseteq sessions
    PROVE  SessionsInv'
<1>1. /\ issued' \in Nat /\ issued <= issued' /\ chosen' \in Nat /\ chosen <= chosen'
      /\ cred[p] \in Cred /\ cred[p].password <= chosen' /\ p \in Handlers
      /\ <<cred[p].id, cred[p].password>> \notin retired
  BY Kinds DEF SessionsInv, OwnersInv, TypeOK, RetiredInv
<1>2. QED
  BY <1>1, Kinds, AwaitKeepsInv

LEMMA SignInCheckKeepsInv ==
    ASSUME SessionsInv, NEW p \in SignIns, NEW c \in Credentials, SignInCheck(p, c)
    PROVE  SessionsInv'
<1>1. /\ issued' \in Nat /\ issued <= issued' /\ chosen' \in Nat /\ chosen <= chosen'
      /\ creds[c] \in Cred /\ creds[c].password <= chosen' /\ p \in Handlers
      /\ <<creds[c].id, creds[c].password>> \notin retired
  BY Kinds
  DEF SignInCheck, SessionsInv, OwnersInv, TypeOK, RetiredInv, RetiredPasswordOpensNothing
<1>2. /\ Await(p, "purge", creds[c], NoSession, 0) /\ "purge" \in Pc /\ 0 \in Nat
      /\ UNCHANGED <<now, creds, history>> /\ sessions' \subseteq sessions
  BY DEF SignInCheck, tables, Pc
<1>3. QED
  BY <1>1, <1>2, Kinds, NoSessionType, AwaitKeepsInv

LEMMA SignInThenKeepsInv ==
    ASSUME SessionsInv, NEW p \in SignIns, NEW call \in Pc \ {"idle", "store"},
           pc[p] # "idle", Then(p, call),
           UNCHANGED <<now, creds, issued, chosen, history>>, sessions' \subseteq sessions
    PROVE  SessionsInv'
<1>1. TypeOK /\ p \in Handlers /\ call \in Pc
  BY Kinds DEF SessionsInv, OwnersInv
<1>2. Await(p, call, cred[p], sess[p], dto[p]) /\ sess[p] \in Session /\ dto[p] \in Nat
  BY <1>1, ThenIsAwait
<1>3. QED
  BY <1>2, SignInGoesOn

LEMMA SignInDeletesKeepInv ==
    ASSUME SessionsInv, NEW p \in SignIns,
           SignInPurge(p) \/ SignInCount(p) \/ SignInPick(p) \/ SignInEvict(p)
    PROVE  SessionsInv'
<1>1. {"count", "pick", "accounts", "evict"} \subseteq Pc \ {"idle", "store"}
  BY DEF Pc
<1>2. CASE SignInPurge(p)
  <2>1. sessions' \subseteq sessions /\ Then(p, "count") /\ pc[p] # "idle"
        /\ UNCHANGED <<now, creds, issued, chosen, history>>
    BY <1>2 DEF SignInPurge
  <2>2. QED
    BY <1>1, <2>1, SignInThenKeepsInv
<1>3. CASE SignInCount(p)
  <2>1. sessions' \subseteq sessions /\ (Then(p, "pick") \/ Then(p, "accounts")) /\ pc[p] # "idle"
        /\ UNCHANGED <<now, creds, issued, chosen, history>>
    BY <1>3 DEF SignInCount, tables
  <2>2. QED
    BY <1>1, <2>1, SignInThenKeepsInv
<1>4. CASE SignInPick(p)
  <2>1. sessions' \subseteq sessions /\ pc[p] # "idle"
        /\ UNCHANGED <<now, creds, issued, chosen, history>>
    BY <1>4 DEF SignInPick, tables
  <2>2. CASE Then(p, "accounts")
    BY <1>1, <2>1, <2>2, SignInThenKeepsInv
  <2>3. ASSUME NEW s \in Oldest(cred[p].id), Await(p, "evict", cred[p], s, 0)
        PROVE  SessionsInv'
    <3>1. s \in Session /\ 0 \in Nat
      BY DEF Oldest, Of, SessionsInv, OwnersInv, TypeOK
    <3>2. QED
      BY <1>1, <2>1, <2>3, <3>1, SignInGoesOn
  <2>4. QED
    BY <1>4, <2>2, <2>3 DEF SignInPick
<1>5. CASE SignInEvict(p)
  <2>1. sessions' \subseteq sessions /\ Then(p, "accounts") /\ pc[p] # "idle"
        /\ UNCHANGED <<now, creds, issued, chosen, history>>
    BY <1>5 DEF SignInEvict
  <2>2. QED
    BY <1>1, <2>1, SignInThenKeepsInv
<1>6. QED
  BY <1>2, <1>3, <1>4, <1>5

\* The id and token that are generated are new.
LEMMA SignInAccountsKeepsInv ==
    ASSUME SessionsInv, NEW p \in SignIns, SignInAccounts(p)
    PROVE  SessionsInv'
<1> DEFINE s == NewSession(cred[p].id, issued + 1)
<1>1. TypeOK /\ p \in Handlers /\ issued \in Nat /\ issued' = issued + 1 /\ now \in Nat
  BY Kinds DEF SignInAccounts, SessionsInv, OwnersInv, TypeOK
<1>2. /\ issued' \in Nat /\ issued <= issued' /\ chosen' \in Nat /\ chosen <= chosen'
      /\ cred[p] \in Cred /\ cred[p].password <= chosen' /\ cred[p].id \in Credentials
      /\ <<cred[p].id, cred[p].password>> \notin retired
  BY <1>1, Kinds DEF SignInAccounts, SessionsInv, OwnersInv, TypeOK, RetiredInv, Cred
<1>3. s \in Session /\ s.id = s.token /\ s.token = issued + 1 /\ s.owner = cred[p].id
  BY <1>1, <1>2, NewSessionType
<1>4. s.id \in (1 .. issued') \ DOMAIN auth /\ s.token \in (issued + 1) .. issued'
  BY <1>1, <1>3 DEF TypeOK
<1>5. /\ Await(p, "store", cred[p], s, 0) /\ "store" \in Pc /\ 0 \in Nat
      /\ UNCHANGED <<now, creds, history>> /\ sessions' \subseteq sessions
  BY DEF SignInAccounts, tables, Pc
<1> HIDE DEF s
<1>6. QED
  BY <1>1, <1>2, <1>3, <1>4, <1>5, Kinds, AwaitKeepsInv

\* What a refresh finds is in the table, so it is neither ended nor retired.
LEMMA RefreshFindKeepsInv ==
    ASSUME SessionsInv, NEW p \in Refreshers, NEW s \in sessions, RefreshFind(p, s)
    PROVE  SessionsInv'
<1>1. /\ issued' \in Nat /\ issued <= issued' /\ chosen' \in Nat /\ chosen <= chosen'
      /\ NoCred.password <= chosen' /\ p \in Handlers /\ s \in Session /\ s.token \in Nat
  BY Kinds, NoCredType DEF RefreshFind, SessionsInv, OwnersInv, TypeOK, Session
<1>2. /\ s.id \in DOMAIN auth /\ auth[s.id][1] = s.owner
      /\ s.id \notin ended /\ auth[s.id] \notin retired
  BY DEF SessionsInv, OwnersInv, EndedStaysEnded, Ids, RetiredInv, RetiredPasswordOpensNothing
<1>3. /\ s.token <= issued
      /\ \A t \in sessions : t.token = s.token => t.id = s.id
      /\ \A q \in Pending : sess[q].token # s.token
  BY DEF SessionsInv, TokensInv, Tokens
<1>4. /\ Await(p, "rotate", NoCred, s, s.token) /\ "rotate" \in Pc
      /\ UNCHANGED <<now, creds, history>> /\ sessions' \subseteq sessions
  BY DEF RefreshFind, tables, Pc
<1>5. QED
  BY <1>1, <1>2, <1>3, <1>4, Kinds, NoCredType, AwaitKeepsInv

LEMMA RefreshRotateKeepsInv ==
    ASSUME SessionsInv, NEW p \in Refreshers, RefreshRotate(p)
    PROVE  SessionsInv'
<1> DEFINE s == Rotate(sess[p], issued + 1)
<1>1. /\ TypeOK /\ p \in Handlers /\ issued \in Nat /\ issued' = issued + 1 /\ now \in Nat
      /\ sess[p] \in Session /\ p \in Refreshing /\ dto[p] \in Nat
  BY Kinds DEF RefreshRotate, SessionsInv, OwnersInv, TypeOK, Refreshing
<1>2. /\ issued' \in Nat /\ issued <= issued' /\ chosen' \in Nat /\ chosen <= chosen'
      /\ NoCred.password <= chosen'
  BY <1>1, NoCredType DEF RefreshRotate, TypeOK
<1>3. s \in Session /\ s.id = sess[p].id /\ s.owner = sess[p].owner /\ s.token = issued + 1
  BY <1>1, RotateType
<1>4. sess[p].id \in DOMAIN auth /\ auth[sess[p].id][1] = sess[p].owner
  BY <1>1 DEF SessionsInv, OwnersInv
<1>5. sess[p].id \notin ended /\ auth[sess[p].id] \notin retired
  BY <1>1, HeldIds DEF SessionsInv, RetiredInv
<1>6. /\ dto[p] <= issued
      /\ \A t \in sessions : t.token = dto[p] => t.id = sess[p].id
      /\ \A q \in Pending : sess[q].token # dto[p]
  BY <1>1 DEF SessionsInv, TokensInv
<1>7. /\ Await(p, "restore", NoCred, s, dto[p]) /\ "restore" \in Pc
      /\ UNCHANGED <<now, creds, history>> /\ sessions' \subseteq sessions
  BY DEF RefreshRotate, tables, Pc
<1>8. s.token \in (issued + 1) .. issued'
  BY <1>1, <1>3
<1> HIDE DEF s
<1>9. QED
  BY <1>1, <1>2, <1>3, <1>4, <1>5, <1>6, <1>7, <1>8, Kinds, NoCredType, AwaitKeepsInv

\* A new password is no retired one.
LEMMA NewPassword ==
    ASSUME SessionsInv, NEW c \in Credentials, chosen' = chosen + 1
    PROVE  LET r == UpdatePassword(creds[c], chosen + 1) IN
           /\ r \in Cred /\ r.id = c /\ r.password <= chosen'
           /\ <<r.id, r.password>> \notin retired
           /\ chosen' \in Nat /\ chosen <= chosen'
<1>1. TypeOK /\ creds[c] \in Cred /\ creds[c].id = c /\ chosen \in Nat
  BY DEF SessionsInv, OwnersInv, TypeOK
<1>2. <<c, chosen + 1>> \notin retired
  BY <1>1 DEF TypeOK
<1>3. QED
  BY <1>1, <1>2, UpdatePasswordType

LEMMA ChangePasswordCheckKeepsInv ==
    ASSUME SessionsInv, NEW p \in Changers, NEW c \in Credentials,
           NEW i \in {0} \cup DOMAIN auth, ChangePasswordCheck(p, c, i)
    PROVE  SessionsInv'
<1> DEFINE r == UpdatePassword(creds[c], chosen + 1)
<1>1. i \in Nat /\ p \in Handlers /\ issued' \in Nat /\ issued <= issued'
  BY Kinds DEF ChangePasswordCheck, SessionsInv, OwnersInv, TypeOK
<1>2. /\ Await(p, "savePassword", r, NoSession, i) /\ "savePassword" \in Pc
      /\ UNCHANGED <<now, creds, history>> /\ sessions' \subseteq sessions /\ chosen' = chosen + 1
  BY DEF ChangePasswordCheck, tables, Pc
<1>3. /\ r \in Cred /\ r.password <= chosen'
      /\ <<r.id, r.password>> \notin retired /\ chosen' \in Nat /\ chosen <= chosen'
  BY <1>1, <1>2, NewPassword
<1> HIDE DEF r
<1>4. QED
  BY <1>1, <1>2, <1>3, Kinds, NoSessionType, AwaitKeepsInv

LEMMA ResetPasswordFindKeepsInv ==
    ASSUME SessionsInv, NEW p \in Resetters, NEW c \in Credentials, ResetPasswordFind(p, c)
    PROVE  SessionsInv'
<1> DEFINE r == UpdatePassword(creds[c], chosen + 1)
<1>1. p \in Handlers /\ issued' \in Nat /\ issued <= issued'
  BY Kinds DEF ResetPasswordFind, SessionsInv, OwnersInv, TypeOK
<1>2. /\ Await(p, "savePassword", r, NoSession, 0) /\ "savePassword" \in Pc /\ 0 \in Nat
      /\ UNCHANGED <<now, creds, history>> /\ sessions' \subseteq sessions /\ chosen' = chosen + 1
  BY DEF ResetPasswordFind, tables, Pc
<1>3. /\ r \in Cred /\ r.password <= chosen'
      /\ <<r.id, r.password>> \notin retired /\ chosen' \in Nat /\ chosen <= chosen'
  BY <1>1, <1>2, NewPassword
<1> HIDE DEF r
<1>4. QED
  BY <1>1, <1>2, <1>3, Kinds, NoSessionType, AwaitKeepsInv

\* A change of username keeps the password that was read.
LEMMA RenameFindKeepsInv ==
    ASSUME SessionsInv, NEW p \in Renamers, NEW c \in Credentials, RenameFind(p, c)
    PROVE  SessionsInv'
<1>1. /\ issued' \in Nat /\ issued <= issued' /\ chosen' \in Nat /\ chosen <= chosen'
      /\ creds[c] \in Cred /\ creds[c].password <= chosen' /\ p \in Handlers
      /\ <<creds[c].id, creds[c].password>> \notin retired
  BY Kinds
  DEF RenameFind, SessionsInv, OwnersInv, TypeOK, RetiredInv, RetiredPasswordOpensNothing
<1>2. /\ Await(p, "findName", creds[c], NoSession, 0) /\ "findName" \in Pc /\ 0 \in Nat
      /\ UNCHANGED <<now, creds, history>> /\ sessions' \subseteq sessions
  BY DEF RenameFind, tables, Pc
<1>3. QED
  BY <1>1, <1>2, Kinds, NoSessionType, AwaitKeepsInv

LEMMA RenameCheckKeepsInv ==
    ASSUME SessionsInv, NEW p \in Renamers, NEW u \in Usernames, RenameCheck(p, u)
    PROVE  SessionsInv'
<1> DEFINE r == ChangeUsername(cred[p], u)
<1>1. /\ issued' \in Nat /\ issued <= issued' /\ chosen' \in Nat /\ chosen <= chosen'
      /\ cred[p] \in Cred /\ cred[p].password <= chosen' /\ p \in Handlers /\ now \in Nat
      /\ <<cred[p].id, cred[p].password>> \notin retired
  BY Kinds DEF RenameCheck, SessionsInv, OwnersInv, TypeOK, RetiredInv
<1>2. r \in Cred /\ r.id = cred[p].id /\ r.password = cred[p].password
  BY <1>1, ChangeUsernameType
<1>3. /\ Await(p, "saveName", r, NoSession, 0) /\ "saveName" \in Pc /\ 0 \in Nat
      /\ UNCHANGED <<now, creds, history>> /\ sessions' \subseteq sessions
  BY DEF RenameCheck, tables, Pc
<1> HIDE DEF r
<1>4. QED
  BY <1>1, <1>2, <1>3, Kinds, NoSessionType, AwaitKeepsInv

-----------------------------------------------------------------------------
(* Credentials are saved.                                                  *)

\* The copy that is saved holds the password its handler has read or chosen.
LEMMA SaveCredOk ==
    ASSUME SessionsInv, NEW p \in Handlers \ Refreshers, pc[p] # "idle", SaveCred(cred[p])
    PROVE  /\ creds' \in [Credentials -> Cred]
           /\ \A c \in Credentials : /\ creds'[c].id = c /\ creds'[c].password <= chosen
                                     /\ <<c, creds'[c].password>> \notin retired
<1>1. /\ cred[p] \in Cred /\ cred[p].id \in Credentials /\ cred[p].password <= chosen
      /\ <<cred[p].id, cred[p].password>> \notin retired
  BY DEF SessionsInv, OwnersInv, TypeOK, Cred, RetiredInv
<1>2. \A c \in Credentials : creds'[c] = IF c = cred[p].id THEN cred[p] ELSE creds[c]
  BY DEF SaveCred, SessionsInv, OwnersInv, TypeOK
<1>3. QED
  BY <1>1, <1>2
  DEF SaveCred, SessionsInv, OwnersInv, TypeOK, RetiredInv, RetiredPasswordOpensNothing

LEMMA SavePasswordKeepsInv ==
    ASSUME SessionsInv, NEW p \in Changers \cup Resetters, SavePassword(p)
    PROVE  SessionsInv'
<1>1. /\ p \in Handlers \ Refreshers /\ p \notin SignIns /\ pc[p] # "idle" /\ TypeOK
      /\ UNCHANGED <<now, sessions, issued, chosen, history>>
  BY Kinds DEF SavePassword, SessionsInv, OwnersInv
<1>2. CASE NameTaken(cred[p])
  BY <1>1, <1>2, ReturnKeepsInv DEF SavePassword, tables
<1>3. CASE ~NameTaken(cred[p])
  <2>1. Then(p, "revoke") /\ SaveCred(cred[p]) /\ "revoke" \in Pc
    BY <1>3 DEF SavePassword, Pc
  <2>2. Await(p, "revoke", cred[p], sess[p], dto[p])
        /\ cred[p] \in Cred /\ sess[p] \in Session /\ dto[p] \in Nat
    BY <1>1, <2>1, ThenIsAwait
  <2>3. /\ issued' \in Nat /\ issued <= issued' /\ chosen' \in Nat /\ chosen <= chosen'
        /\ cred[p].password <= chosen'
        /\ <<cred[p].id, cred[p].password>> \notin retired
    BY <1>1 DEF SessionsInv, OwnersInv, TypeOK, RetiredInv
  <2>4. sessions' \subseteq sessions /\ UNCHANGED <<now, history>> /\ chosen' = chosen
    BY <1>1
  <2>5. QED
    BY <1>1, <2>1, <2>2, <2>3, <2>4, SaveCredOk, SavingKeepsInv
<1>4. QED
  BY <1>2, <1>3

LEMMA RenameSaveKeepsInv ==
    ASSUME SessionsInv, NEW p \in Renamers, RenameSave(p)
    PROVE  SessionsInv'
<1>1. /\ p \in Handlers \ Refreshers /\ p \notin SignIns /\ pc[p] # "idle" /\ Return(p)
      /\ UNCHANGED <<now, sessions, issued, chosen, history>>
  BY Kinds DEF RenameSave
<1>2. CASE UNCHANGED creds
  BY <1>1, <1>2, ReturnKeepsInv DEF tables
<1>3. CASE SaveCred(cred[p])
  <2>1. Await(p, "idle", NoCred, NoSession, 0) /\ "idle" \in Pc /\ 0 \in Nat
    BY <1>1 DEF Return, Pc
  <2>2. /\ issued' \in Nat /\ issued <= issued' /\ chosen' \in Nat /\ chosen <= chosen'
        /\ NoCred.password <= chosen'
    BY <1>1, NoCredType DEF SessionsInv, OwnersInv, TypeOK
  <2>3. sessions' \subseteq sessions /\ UNCHANGED <<now, history>> /\ chosen' = chosen
    BY <1>1
  <2>4. QED
    BY <1>1, <1>3, <2>1, <2>2, <2>3, NoCredType, NoSessionType, Kinds, SaveCredOk, SavingKeepsInv
<1>4. QED
  BY <1>2, <1>3 DEF RenameSave

-----------------------------------------------------------------------------
(* Sessions are stored.                                                    *)

LEMMA UpsertIs ==
    ASSUME NEW s, sessions' = Upsert(s)
    PROVE  /\ s \in sessions'
           /\ \A t \in sessions' : t = s \/ (t \in sessions /\ t.id # s.id)
BY DEF Upsert

\* The part of it that is about rows and copies, after the upsert of a token that was
\* in none of them, by a handler that returns.
LEMMA StoreKeepsTokens ==
    ASSUME SessionsInv, NEW p \in Pending, sessions' = Upsert(sess[p]), Return(p),
           UNCHANGED issued,
           exchanged' = exchanged
             \/ (p \in Refreshers /\ exchanged' = exchanged \cup {<<dto[p], sess[p].token>>})
    PROVE  TokensInv'
<1>1. TypeOK /\ TokensInv /\ p \in Handlers
  BY HeldIds DEF SessionsInv, OwnersInv
<1>2. /\ \A q \in Handlers \ {p} : sess'[q] = sess[q] /\ dto'[q] = dto[q]
      /\ Pending' = Pending \ {p} /\ Refreshing' = Refreshing \ {p}
      /\ Pending \subseteq Handlers /\ Refreshing \subseteq Handlers
  BY <1>1, ReturnEffect, HeldIds, Kinds
<1>3. /\ sess[p].token <= issued
      /\ sess[p].token \notin Tokens(sessions)
      /\ \A x \in exchanged : x[1] # sess[p].token
      /\ \A q \in Refreshing : dto[q] # sess[p].token
      /\ \A q \in Pending \ {p} : sess[q].token # sess[p].token
  BY <1>1 DEF TokensInv
<1>4. p \in Refreshers => /\ p \in Refreshing /\ dto[p] <= issued
                          /\ \A t \in sessions : t.token = dto[p] => t.id = sess[p].id
                          /\ \A q \in Pending : sess[q].token # dto[p]
  BY <1>1, HeldIds DEF TokensInv
<1>5. \A t \in sessions' : t.token <= issued
  BY <1>1, <1>3, UpsertIs DEF TokensInv
<1>6. \A s, t \in sessions' : (s.id = t.id \/ s.token = t.token) => s = t
  BY <1>1, <1>3, UpsertIs DEF TokensInv, Tokens
<1>7. \A x \in exchanged' : x \in exchanged \/ (p \in Refreshers /\ x[1] = dto[p])
  OBVIOUS
<1>8. \A x \in exchanged' : x[1] <= issued
  BY <1>1, <1>4, <1>7 DEF TokensInv
<1>9. ExchangedTokenIsDead'
  <2>1. ASSUME NEW x \in exchanged', NEW t \in sessions' PROVE t.token # x[1]
    <3>1. CASE t = sess[p]
      BY <1>3, <1>4, <1>7, <3>1
    <3>2. CASE t \in sessions /\ t.id # sess[p].id
      BY <1>1, <1>4, <1>7, <3>2 DEF TokensInv, ExchangedTokenIsDead, Tokens
    <3>3. QED
      BY <3>1, <3>2, UpsertIs
  <2>2. QED
    BY <2>1 DEF ExchangedTokenIsDead, Tokens
<1>10. \A q \in Refreshing' : /\ dto'[q] <= issued
                              /\ \A s \in sessions' : s.token = dto'[q] => s.id = sess'[q].id
  BY <1>1, <1>2, <1>3, UpsertIs DEF TokensInv
<1>11. ASSUME NEW q \in Pending'
       PROVE  /\ sess'[q].token <= issued
              /\ sess'[q].token \notin Tokens(sessions)'
              /\ \A x \in exchanged' : x[1] # sess'[q].token
              /\ \A o \in Refreshing' : dto'[o] # sess'[q].token
              /\ \A o \in Pending' \ {q} : sess'[o].token # sess'[q].token
  <2>1. q \in Pending /\ q # p /\ sess'[q] = sess[q]
    BY <1>2
  <2>2. sess[q].token \notin Tokens(sessions)'
    BY <1>1, <1>3, <2>1, UpsertIs DEF TokensInv, Tokens
  <2>3. \A x \in exchanged' : x[1] # sess[q].token
    BY <1>1, <1>4, <1>7, <2>1 DEF TokensInv
  <2>4. /\ \A o \in Refreshing' : dto'[o] # sess[q].token
        /\ \A o \in Pending' \ {q} : sess'[o].token # sess[q].token
    BY <1>1, <1>2, <2>1 DEF TokensInv
  <2>5. QED
    BY <1>1, <2>1, <2>2, <2>3, <2>4 DEF TokensInv
<1>12. QED
  BY <1>5, <1>6, <1>8, <1>9, <1>10, <1>11 DEF TokensInv

\* A sign-in stores a session of a new id; no other row, copy or history knows it.
LEMMA SignInStoreKeepsInv ==
    ASSUME SessionsInv, NEW p \in SignIns, SignInStore(p)
    PROVE  SessionsInv'
<1> DEFINE i == sess[p].id
           c == cred[p].id
           w == cred[p].password
<1>1. /\ TypeOK /\ OwnersInv /\ EndedStaysEnded /\ Held \cap ended = {} /\ RetiredInv
      /\ p \in Handlers /\ p \in Pending /\ pc[p] = "store" /\ p \notin Refreshers
  BY Kinds DEF SessionsInv, OwnersInv, SignInStore, Pending
<1>2. /\ sessions' = Upsert(sess[p]) /\ Return(p)
      /\ UNCHANGED <<now, creds, issued, chosen, exchanged, ended, raced, revived, retired>>
      /\ auth' = [j \in DOMAIN auth \cup {i} |-> IF j = i THEN <<c, w>> ELSE auth[j]]
  BY DEF SignInStore, Stand
<1>3. /\ sess[p] \in Session /\ i = sess[p].token /\ sess[p].owner = c
      /\ i \in (1 .. issued) \ DOMAIN auth
      /\ c \in Credentials /\ w \in 0 .. chosen /\ <<c, w>> \notin retired
  BY <1>1 DEF OwnersInv, TypeOK, Cred, RetiredInv
<1>4. /\ DOMAIN auth' = DOMAIN auth \cup {i} /\ auth'[i] = <<c, w>>
      /\ \A j \in DOMAIN auth : j # i /\ auth'[j] = auth[j]
  BY <1>2, <1>3
<1>5. /\ \A q \in Handlers \ {p} : /\ pc'[q] = pc[q] /\ cred'[q] = cred[q]
                                   /\ sess'[q] = sess[q] /\ dto'[q] = dto[q]
      /\ pc' \in [Handlers -> Pc] /\ cred' \in [Handlers -> Cred]
      /\ sess' \in [Handlers -> Session] /\ dto' \in [Handlers -> Nat]
      /\ pc'[p] = "idle" /\ cred'[p] = NoCred
      /\ Pending' = Pending \ {p} /\ Refreshing' = Refreshing \ {p}
  BY <1>1, <1>2, ReturnEffect
<1> HIDE DEF i, c, w
<1>6. TypeOK'
  <2>1. sessions' \subseteq Session
    BY <1>1, <1>2, <1>3 DEF TypeOK, Upsert
  <2>2. DOMAIN auth' \subseteq 1 .. issued
    BY <1>1, <1>3, <1>4 DEF TypeOK
  <2>3. \A j \in DOMAIN auth' : auth'[j] \in Credentials \X (0 .. chosen)
    BY <1>1, <1>3, <1>4 DEF TypeOK
  <2>4. QED
    BY <1>1, <1>2, <1>4, <1>5, <2>1, <2>2, <2>3 DEF TypeOK
<1>7. OwnersInv'
  <2>1. \A t \in sessions' : t.id \in DOMAIN auth' /\ auth'[t.id][1] = t.owner
    BY <1>1, <1>2, <1>3, <1>4, UpsertIs DEF OwnersInv, i
  <2>2. \A q \in Handlers : cred'[q].password <= chosen'
    BY <1>1, <1>2, <1>5, NoCredType DEF OwnersInv, TypeOK
  <2>3. ASSUME NEW q \in SignIns, pc'[q] = "store"
        PROVE  /\ sess'[q].id = sess'[q].token /\ sess'[q].owner = cred'[q].id
               /\ sess'[q].id \in (1 .. issued') \ DOMAIN auth'
    <3>1. q \in Handlers \ {p} /\ q \in Pending
      BY <1>5, <2>3, Kinds DEF Pending
    <3>2. sess[q].token # i
      BY <1>1, <1>3, <3>1 DEF SessionsInv, TokensInv
    <3>3. QED
      BY <1>1, <1>2, <1>4, <1>5, <2>3, <3>1, <3>2 DEF OwnersInv
  <2>4. \A q \in Refreshing' :
          sess'[q].id \in DOMAIN auth' /\ auth'[sess'[q].id][1] = sess'[q].owner
    BY <1>1, <1>4, <1>5, Kinds, HeldIds DEF OwnersInv
  <2>5. QED
    BY <1>1, <1>2, <1>6, <2>1, <2>2, <2>3, <2>4 DEF OwnersInv
<1>8. TokensInv'
  BY <1>1, <1>2, StoreKeepsTokens
<1>9. EndedStaysEnded'
  <2>1. \A t \in sessions' : t.id \notin ended
    BY <1>1, <1>2, <1>3, UpsertIs DEF EndedStaysEnded, Ids, TypeOK, i
  <2>2. QED
    BY <1>2, <2>1 DEF EndedStaysEnded, Ids
<1>10. \A j \in Held' : j \in Held
  BY <1>5, Kinds, HeldIds DEF Held, Refreshing
<1>11. Held \subseteq DOMAIN auth
  BY <1>1, HeldIds DEF OwnersInv
<1>12. RetiredInv'
  <2>1. \A t \in sessions' : auth'[t.id] \notin retired
    <3>1. TAKE t \in sessions'
    <3>2. CASE t = sess[p]
      BY <1>3, <1>4, <3>2 DEF i
    <3>3. CASE t \in sessions
      BY <1>1, <1>4, <3>3 DEF OwnersInv, RetiredInv, RetiredPasswordOpensNothing
    <3>4. QED
      BY <1>2, <3>2, <3>3, UpsertIs
  <2>2. RetiredPasswordOpensNothing'
    BY <1>1, <1>2, <2>1 DEF RetiredInv, RetiredPasswordOpensNothing
  <2>3. \A q \in Handlers \ Refreshers :
          pc'[q] # "idle" => <<cred'[q].id, cred'[q].password>> \notin retired'
    BY <1>1, <1>2, <1>5 DEF RetiredInv
  <2>4. \A j \in Held' : auth'[j] \notin retired'
    BY <1>1, <1>2, <1>4, <1>10, <1>11 DEF RetiredInv
  <2>5. QED
    BY <2>2, <2>3, <2>4 DEF RetiredInv
<1>13. Held' \cap ended' = {}
  BY <1>1, <1>2, <1>10
<1>14. QED
  BY <1>7, <1>8, <1>9, <1>12, <1>13 DEF SessionsInv

\* A refresh stores the session that it holds, which is neither ended nor retired.
LEMMA RefreshSaveKeepsInv ==
    ASSUME SessionsInv, NEW p \in Refreshers, RefreshSave(p)
    PROVE  SessionsInv'
<1>1. /\ TypeOK /\ OwnersInv /\ EndedStaysEnded /\ Held \cap ended = {} /\ RetiredInv
      /\ p \in Handlers /\ p \in Pending /\ p \in Refreshing
  BY Kinds DEF SessionsInv, OwnersInv, RefreshSave, Pending, Refreshing
<1>2. /\ sessions' = Upsert(sess[p]) /\ Return(p)
      /\ exchanged' = exchanged \cup {<<dto[p], sess[p].token>>}
      /\ UNCHANGED <<now, creds, issued, chosen, auth, ended, raced, retired>>
  BY DEF RefreshSave
<1>3. /\ sess[p] \in Session /\ dto[p] \in Nat /\ sess[p].id \in Held
      /\ sess[p].id \in DOMAIN auth /\ auth[sess[p].id][1] = sess[p].owner
  BY <1>1, HeldIds DEF OwnersInv, TypeOK
<1>4. /\ \A q \in Handlers \ {p} : /\ pc'[q] = pc[q] /\ cred'[q] = cred[q]
                                   /\ sess'[q] = sess[q] /\ dto'[q] = dto[q]
      /\ pc' \in [Handlers -> Pc] /\ cred' \in [Handlers -> Cred]
      /\ sess' \in [Handlers -> Session] /\ dto' \in [Handlers -> Nat]
      /\ pc'[p] = "idle" /\ cred'[p] = NoCred
      /\ Pending' = Pending \ {p} /\ Refreshing' = Refreshing \ {p}
  BY <1>1, <1>2, ReturnEffect
<1>5. TypeOK'
  <2>1. sessions' \subseteq Session
    BY <1>1, <1>2, <1>3 DEF TypeOK, Upsert
  <2>2. exchanged' \subseteq Nat \X Nat
    BY <1>1, <1>2, <1>3 DEF TypeOK, Session
  <2>3. revived' \in [Credentials -> Nat]
    BY <1>1, <1>3 DEF RefreshSave, TypeOK, Session
  <2>4. QED
    BY <1>1, <1>2, <1>4, <2>1, <2>2, <2>3 DEF TypeOK
<1>6. OwnersInv'
  <2>1. \A t \in sessions' : t.id \in DOMAIN auth' /\ auth'[t.id][1] = t.owner
    BY <1>1, <1>2, <1>3, UpsertIs DEF OwnersInv
  <2>2. \A q \in Handlers : cred'[q].password <= chosen'
    BY <1>1, <1>2, <1>4, NoCredType DEF OwnersInv, TypeOK
  <2>3. QED
    BY <1>1, <1>2, <1>4, <1>5, <2>1, <2>2, Kinds, HeldIds DEF OwnersInv
<1>7. TokensInv'
  BY <1>1, <1>2, StoreKeepsTokens
<1>8. EndedStaysEnded'
  <2>1. \A t \in sessions' : t.id \notin ended
    BY <1>1, <1>2, <1>3, UpsertIs DEF EndedStaysEnded, Ids
  <2>2. QED
    BY <1>2, <2>1 DEF EndedStaysEnded, Ids
<1>9. Held' \subseteq Held
  BY <1>4, Kinds, HeldIds DEF Held, Refreshing
<1>10. RetiredInv'
  <2>1. \A t \in sessions' : auth[t.id] \notin retired
    BY <1>1, <1>2, <1>3, UpsertIs DEF RetiredInv, RetiredPasswordOpensNothing
  <2>2. RetiredPasswordOpensNothing'
    BY <1>1, <1>2, <2>1 DEF RetiredInv, RetiredPasswordOpensNothing
  <2>3. \A q \in Handlers \ Refreshers :
          pc'[q] # "idle" => <<cred'[q].id, cred'[q].password>> \notin retired'
    BY <1>1, <1>2, <1>4 DEF RetiredInv
  <2>4. \A j \in Held' : auth'[j] \notin retired'
    BY <1>1, <1>2, <1>9 DEF RetiredInv
  <2>5. QED
    BY <2>2, <2>3, <2>4 DEF RetiredInv
<1>11. Held' \cap ended' = {}
  BY <1>1, <1>2, <1>9
<1>12. QED
  BY <1>6, <1>7, <1>8, <1>10, <1>11 DEF SessionsInv

-----------------------------------------------------------------------------
(* Sessions are ended.                                                     *)

\* Those that are meant to end leave the table, but for those that a refresh holds.
LEMMA EndIs ==
    ASSUME SessionsInv, NEW ids \in SUBSET DOMAIN auth, End(ids),
           sessions' \subseteq sessions, \A t \in sessions' : t.id \notin ids,
           Held' \subseteq Held
    PROVE  /\ ended' \subseteq DOMAIN auth /\ raced' \subseteq DOMAIN auth
           /\ EndedStaysEnded' /\ Held' \cap ended' = {}
<1>1. ended' \subseteq DOMAIN auth /\ raced' \subseteq DOMAIN auth
  BY DEF End, SessionsInv, OwnersInv, TypeOK
<1>2. \A t \in sessions' : t.id \notin ended'
  BY DEF End, SessionsInv, EndedStaysEnded, Ids
<1>3. Held' \cap ended' = {}
  BY DEF End, SessionsInv
<1>4. QED
  BY <1>1, <1>2, <1>3 DEF EndedStaysEnded, Ids

LEMMA SignOutsKeepInv ==
    ASSUME SessionsInv, NEW ids \in SUBSET DOMAIN auth, End(ids),
           sessions' \subseteq sessions, \A t \in sessions' : t.id \notin ids,
           UNCHANGED <<now, creds, issued, chosen, local, auth, exchanged, revived, retired>>
    PROVE  SessionsInv'
<1>1. TypeOK /\ OwnersInv /\ TokensInv /\ RetiredInv
  BY DEF SessionsInv, OwnersInv
<1>2. UNCHANGED <<pc, cred, sess, dto, Pending, Refreshing, Held>>
  BY DEF local, Pending, Refreshing, Held
<1>3. /\ ended' \subseteq DOMAIN auth /\ raced' \subseteq DOMAIN auth
      /\ EndedStaysEnded' /\ Held' \cap ended' = {}
  BY <1>2, EndIs
<1>4. TypeOK'
  BY <1>1, <1>2, <1>3 DEF TypeOK
<1>5. OwnersInv'
  BY <1>1, <1>2, <1>4 DEF OwnersInv
<1>6. TokensInv'
  BY <1>1, <1>2 DEF TokensInv, ExchangedTokenIsDead, Tokens
<1>7. RetiredInv'
  BY <1>1, <1>2 DEF RetiredInv, RetiredPasswordOpensNothing
<1>8. QED
  BY <1>3, <1>5, <1>6, <1>7 DEF SessionsInv

LEMMA SignOutKeepsInv ==
    ASSUME SessionsInv, NEW i \in DOMAIN auth, SignOut(i) PROVE SessionsInv'
BY SignOutsKeepInv DEF SignOut

\* The sessions that a user ever opened are those whose rows name the user.
LEMMA SidsAreOwned ==
    ASSUME SessionsInv, NEW c \in Credentials
    PROVE  /\ Sids(c) \subseteq DOMAIN auth
           /\ \A s \in sessions : s.id \in Sids(c) <=> s.owner = c
BY DEF SessionsInv, OwnersInv, Sids

LEMMA SignOutAllKeepsInv ==
    ASSUME SessionsInv, NEW c \in Credentials, SignOutAll(c) PROVE SessionsInv'
<1>1. sessions' \subseteq sessions /\ \A t \in sessions' : t.id \notin Sids(c)
  BY SidsAreOwned DEF SignOutAll, Of
<1>2. QED
  BY <1>1, SidsAreOwned, SignOutsKeepInv DEF SignOutAll

\* The revocation retires passwords that no row, no copy and no refresh stands on; the
\* caller's session comes to stand on the password that this call has stored.
LEMMA RevokeOthersKeepsInv ==
    ASSUME SessionsInv, NEW p \in Changers \cup Resetters, RevokeOthers(p)
    PROVE  SessionsInv'
<1> DEFINE c == cred[p].id
           w == cred[p].password
           i == dto[p]
<1>1. /\ TypeOK /\ OwnersInv /\ TokensInv /\ RetiredInv
      /\ p \in Handlers \ Refreshers /\ p \notin SignIns /\ pc[p] = "revoke"
  BY Kinds DEF SessionsInv, OwnersInv, RevokeOthers
<1>2. /\ sessions' = {s \in sessions : s.owner = c => s.id = i}
      /\ End(Sids(c) \ {i}) /\ Retire(c) /\ Return(p)
      /\ UNCHANGED <<now, creds, issued, chosen, exchanged, revived>>
  BY DEF RevokeOthers
<1>3. /\ c \in Credentials /\ w \in 0 .. chosen /\ <<c, w>> \notin retired
  BY <1>1 DEF OwnersInv, TypeOK, Cred, RetiredInv
<1>4. /\ DOMAIN auth' = DOMAIN auth
      /\ \A j \in DOMAIN auth :
            auth'[j] = IF j = i /\ auth[j][1] = c THEN <<c, w>> ELSE auth[j]
  BY DEF RevokeOthers, Stand, Sids
<1>5. \A j \in DOMAIN auth : auth'[j][1] = auth[j][1]
  BY <1>4
<1>6. /\ retired' = retired \cup ({c} \X Retirable(c))
      /\ w \notin Retirable(c) /\ creds[c].password \notin Retirable(c)
      /\ Retirable(c) \subseteq 0 .. chosen
      /\ \A j \in Held : \A v \in Retirable(c) : auth[j] # <<c, v>>
      /\ \A q \in Handlers \ Refreshers :
            pc[q] # "idle" /\ cred[q].id = c => cred[q].password \notin Retirable(c)
  BY <1>1, <1>2 DEF Retire, Retirable
<1>7. /\ \A q \in Handlers \ {p} : /\ pc'[q] = pc[q] /\ cred'[q] = cred[q]
                                   /\ sess'[q] = sess[q] /\ dto'[q] = dto[q]
      /\ pc' \in [Handlers -> Pc] /\ cred' \in [Handlers -> Cred]
      /\ sess' \in [Handlers -> Session] /\ dto' \in [Handlers -> Nat]
      /\ pc'[p] = "idle" /\ cred'[p] = NoCred /\ dto'[p] = 0
      /\ Pending' = Pending \ {p} /\ Refreshing' = Refreshing \ {p}
  BY <1>1, <1>2, ReturnEffect
<1>8. /\ p \notin Pending /\ p \notin Refreshing
      /\ Pending \subseteq Handlers /\ Refreshing \subseteq Handlers
  BY <1>1, Kinds, HeldIds DEF Pending
<1>9. Held' = Held
  BY <1>7, <1>8, Kinds, HeldIds DEF Held, Refreshing
<1> HIDE DEF c, w, i
<1>10. sessions' \subseteq sessions /\ \A t \in sessions' : t.id \notin Sids(c) \ {i}
  BY <1>2, <1>3, SidsAreOwned
<1>11. /\ ended' \subseteq DOMAIN auth /\ raced' \subseteq DOMAIN auth
       /\ EndedStaysEnded' /\ Held' \cap ended' = {}
  <2>1. Sids(c) \ {i} \in SUBSET DOMAIN auth
    BY <1>3, SidsAreOwned
  <2>2. QED
    BY <1>2, <1>9, <1>10, <2>1, EndIs
<1>12. TypeOK'
  <2>1. \A j \in DOMAIN auth' : auth'[j] \in Credentials \X (0 .. chosen)
    BY <1>1, <1>3, <1>4 DEF TypeOK
  <2>2. retired' \subseteq Credentials \X (0 .. chosen)
    BY <1>1, <1>3, <1>6 DEF TypeOK
  <2>3. QED
    BY <1>1, <1>2, <1>4, <1>7, <1>10, <1>11, <2>1, <2>2 DEF TypeOK
<1>13. OwnersInv'
  <2>1. \A t \in sessions' : t.id \in DOMAIN auth' /\ auth'[t.id][1] = t.owner
    BY <1>1, <1>4, <1>5, <1>10 DEF OwnersInv
  <2>2. \A q \in Handlers : cred'[q].password <= chosen'
    BY <1>1, <1>2, <1>7, NoCredType DEF OwnersInv, TypeOK
  <2>3. \A q \in SignIns : pc'[q] = "store" =>
          /\ sess'[q].id = sess'[q].token /\ sess'[q].owner = cred'[q].id
          /\ sess'[q].id \in (1 .. issued') \ DOMAIN auth'
    BY <1>1, <1>2, <1>4, <1>7, Kinds DEF OwnersInv
  <2>4. \A q \in Refreshing' :
          sess'[q].id \in DOMAIN auth' /\ auth'[sess'[q].id][1] = sess'[q].owner
    BY <1>1, <1>4, <1>5, <1>7, <1>8 DEF OwnersInv
  <2>5. QED
    BY <1>1, <1>2, <1>12, <2>1, <2>2, <2>3, <2>4 DEF OwnersInv
<1>14. TokensInv'
  <2>1. Pending' = Pending /\ Refreshing' = Refreshing
    BY <1>7, <1>8
  <2>2. \A q \in Pending \cup Refreshing : sess'[q] = sess[q] /\ dto'[q] = dto[q]
    BY <1>7, <1>8
  <2>3. QED
    BY <1>1, <1>2, <1>10, <2>1, <2>2 DEF TokensInv, ExchangedTokenIsDead, Tokens
<1>15. RetiredInv'
  <2>1. \A t \in sessions' : auth'[t.id] \notin retired'
    <3>1. TAKE t \in sessions'
    <3>2. t \in sessions /\ t.id \in DOMAIN auth /\ auth[t.id] \notin retired
          /\ auth[t.id][1] = t.owner
      BY <1>1, <1>10 DEF OwnersInv, RetiredInv, RetiredPasswordOpensNothing
    <3>3. CASE t.id = i /\ t.owner = c
      BY <1>3, <1>4, <1>6, <3>2, <3>3
    <3>4. CASE ~(t.id = i /\ t.owner = c)
      <4>1. t.owner # c /\ auth'[t.id] = auth[t.id]
        BY <1>2, <1>4, <3>2, <3>4
      <4>2. QED
        BY <1>6, <3>2, <4>1
    <3>5. QED
      BY <3>3, <3>4
  <2>2. \A d \in Credentials : <<d, creds'[d].password>> \notin retired'
    BY <1>1, <1>2, <1>6 DEF RetiredInv, RetiredPasswordOpensNothing
  <2>3. \A q \in Handlers \ Refreshers :
          pc'[q] # "idle" => <<cred'[q].id, cred'[q].password>> \notin retired'
    BY <1>1, <1>6, <1>7 DEF RetiredInv
  <2>4. \A j \in Held' : auth'[j] \notin retired'
    <3>1. Held \subseteq DOMAIN auth
      BY <1>1, HeldIds DEF OwnersInv
    <3>2. \A j \in Held : auth[j] \notin retired'
      BY <1>1, <1>6 DEF RetiredInv
    <3>3. <<c, w>> \notin retired'
      BY <1>3, <1>6
    <3>4. QED
      BY <1>4, <1>9, <3>1, <3>2, <3>3
  <2>5. QED
    BY <2>1, <2>2, <2>3, <2>4 DEF RetiredInv, RetiredPasswordOpensNothing
<1>16. QED
  BY <1>11, <1>13, <1>14, <1>15 DEF SessionsInv

-----------------------------------------------------------------------------
(* The strengthened invariant is inductive.                                *)

LEMMA TickKeepsInv == ASSUME SessionsInv, Tick PROVE SessionsInv'
<1>1. /\ now' = now + 1
      /\ UNCHANGED <<creds, sessions, issued, chosen, pc, cred, sess, dto, auth, exchanged,
                     ended, raced, revived, retired, Pending, Refreshing, Held>>
  BY DEF Tick, tables, local, history, Pending, Refreshing, Held
<1>2. TypeOK'
  BY <1>1 DEF SessionsInv, OwnersInv, TypeOK
<1>3. OwnersInv'
  BY <1>1, <1>2 DEF SessionsInv, OwnersInv
<1>4. TokensInv' /\ EndedStaysEnded' /\ RetiredInv' /\ Held' \cap ended' = {}
  BY <1>1
  DEF SessionsInv, TokensInv, ExchangedTokenIsDead, Tokens, EndedStaysEnded, Ids,
      RetiredInv, RetiredPasswordOpensNothing
<1>5. QED
  BY <1>3, <1>4 DEF SessionsInv

LEMMA SessionsInitially == Init => SessionsInv
<1> SUFFICES ASSUME Init PROVE SessionsInv
  OBVIOUS
<1>1. PICK name \in [Credentials -> Usernames] :
         creds = [c \in Credentials |->
                     [id |-> c, username |-> name[c], password |-> 0, changedAt |-> 0]]
  BY DEF Init
<1>2. creds \in [Credentials -> Cred]
  BY <1>1 DEF Cred
<1>3. \A c \in Credentials : creds[c].id = c /\ creds[c].password = 0
  BY <1>1
<1>4. TypeOK
  BY <1>2, NoCredType, NoSessionType DEF Init, TypeOK, Pc
<1>5. Pending = {} /\ Refreshing = {} /\ Held = {}
  BY Kinds DEF Init, Pending, Refreshing, Held
<1>6. OwnersInv
  BY <1>3, <1>4, <1>5, NoCredType, Kinds DEF Init, OwnersInv
<1>7. TokensInv /\ EndedStaysEnded /\ RetiredInv
  BY <1>5
  DEF Init, TokensInv, ExchangedTokenIsDead, EndedStaysEnded, Ids, RetiredInv,
      RetiredPasswordOpensNothing
<1>8. QED
  BY <1>5, <1>6, <1>7 DEF SessionsInv

LEMMA SessionsStep == ASSUME SessionsInv, [Next]_vars PROVE SessionsInv'
<1>1. CASE UNCHANGED vars
  <2>1. UNCHANGED <<now, creds, sessions, issued, chosen, pc, cred, sess, dto, auth, exchanged,
                    ended, raced, revived, retired, Pending, Refreshing, Held>>
    BY <1>1 DEF vars, tables, local, history, Pending, Refreshing, Held
  <2>2. OwnersInv'
    BY <2>1 DEF SessionsInv, OwnersInv, TypeOK
  <2>3. TokensInv' /\ EndedStaysEnded' /\ RetiredInv' /\ Held' \cap ended' = {}
    BY <2>1
    DEF SessionsInv, TokensInv, ExchangedTokenIsDead, Tokens, EndedStaysEnded, Ids,
        RetiredInv, RetiredPasswordOpensNothing
  <2>4. QED
    BY <2>2, <2>3 DEF SessionsInv
<1>2. ASSUME NEW p \in SignIns, (\E c \in Credentials : SignInCheck(p, c)) \/ SignInStep(p)
      PROVE  SessionsInv'
  BY <1>2, SignInCheckKeepsInv, SignInDeletesKeepInv, SignInAccountsKeepsInv,
     SignInStoreKeepsInv DEF SignInStep
<1>3. ASSUME NEW p \in Refreshers,
             (\E s \in sessions : RefreshFind(p, s)) \/ RefreshRotate(p) \/ RefreshSave(p)
      PROVE  SessionsInv'
  BY <1>3, RefreshFindKeepsInv, RefreshRotateKeepsInv, RefreshSaveKeepsInv
<1>4. ASSUME NEW p \in Changers,
             \/ \E c \in Credentials, i \in {0} \cup DOMAIN auth : ChangePasswordCheck(p, c, i)
             \/ PasswordStep(p)
      PROVE  SessionsInv'
  BY <1>4, ChangePasswordCheckKeepsInv, SavePasswordKeepsInv, RevokeOthersKeepsInv
  DEF PasswordStep
<1>5. ASSUME NEW p \in Resetters,
             (\E c \in Credentials : ResetPasswordFind(p, c)) \/ PasswordStep(p)
      PROVE  SessionsInv'
  BY <1>5, ResetPasswordFindKeepsInv, SavePasswordKeepsInv, RevokeOthersKeepsInv
  DEF PasswordStep
<1>6. ASSUME NEW p \in Renamers,
             \/ \E c \in Credentials : RenameFind(p, c)
             \/ \E u \in Usernames : RenameCheck(p, u)
             \/ RenameSave(p)
      PROVE  SessionsInv'
  BY <1>6, RenameFindKeepsInv, RenameCheckKeepsInv, RenameSaveKeepsInv
<1>7. ASSUME NEW p \in Handlers, Fail(p) PROVE SessionsInv'
  BY <1>7, ReturnKeepsInv DEF Fail
<1>8. QED
  BY <1>1, <1>2, <1>3, <1>4, <1>5, <1>6, <1>7, SignOutKeepsInv, SignOutAllKeepsInv,
     TickKeepsInv DEF Next

LEMMA SessionsInvariant == Spec => []SessionsInv
BY SessionsInitially, SessionsStep, PTL DEF Spec

-----------------------------------------------------------------------------
(* Theorems.                                                               *)

\* Every state of the tables, the handlers and the histories has its type.
THEOREM SessionsTypeCorrect == Spec => []TypeOK
<1>1. SessionsInv => TypeOK
  BY DEF SessionsInv, OwnersInv
<1>2. QED
  BY <1>1, SessionsInvariant, PTL

\* An update token that a refresh has answered matches no session again, however many
\* refreshes of it overlap.
THEOREM ExchangedTokensStayDead == Spec => []ExchangedTokenIsDead
<1>1. SessionsInv => ExchangedTokenIsDead
  BY DEF SessionsInv, TokensInv
<1>2. QED
  BY <1>1, SessionsInvariant, PTL

\* A session that a sign-out or a revocation has ended is back only by a refresh that
\* was running when it ended.
THEOREM EndedSessionsStayEnded == Spec => []EndedStaysEnded
<1>1. SessionsInv => EndedStaysEnded
  BY DEF SessionsInv
<1>2. QED
  BY <1>1, SessionsInvariant, PTL

\* After the revocation of a password change or reset, nothing stands on a replaced
\* password but what a call stores that had read it before.
THEOREM RetiredPasswordsOpenNothing == Spec => []RetiredPasswordOpensNothing
<1>1. SessionsInv => RetiredPasswordOpensNothing
  BY DEF SessionsInv, RetiredInv
<1>2. QED
  BY <1>1, SessionsInvariant, PTL

-----------------------------------------------------------------------------
(* The session limit.                                                      *)

LEMMA Smaller ==
    ASSUME NEW S, IsFiniteSet(S), NEW T \in SUBSET S
    PROVE  /\ IsFiniteSet(T) /\ Cardinality(T) \in Nat /\ Cardinality(S) \in Nat
           /\ Cardinality(T) <= Cardinality(S)
BY FS_Subset, FS_CardinalityType

LEMMA OneMore ==
    ASSUME NEW S, IsFiniteSet(S), NEW x, NEW T \in SUBSET (S \cup {x})
    PROVE  /\ IsFiniteSet(T) /\ Cardinality(T) \in Nat /\ Cardinality(S) \in Nat
           /\ Cardinality(T) <= Cardinality(S) + 1
<1>1. /\ IsFiniteSet(S \cup {x}) /\ Cardinality(S) \in Nat
      /\ Cardinality(S \cup {x}) \in {Cardinality(S), Cardinality(S) + 1}
  BY FS_AddElement, FS_CardinalityType
<1>2. QED
  BY <1>1, Smaller

LEMMA OneLess ==
    ASSUME NEW S, IsFiniteSet(S), NEW x \in S, NEW T \in SUBSET (S \ {x})
    PROVE  /\ IsFiniteSet(T) /\ Cardinality(T) \in Nat /\ Cardinality(S) \in Nat
           /\ Cardinality(T) < Cardinality(S)
<1>1. /\ IsFiniteSet(S \ {x}) /\ Cardinality(S) \in Nat
      /\ Cardinality(S \ {x}) = Cardinality(S) - 1
  BY FS_RemoveElement, FS_CardinalityType
<1>2. Cardinality(T) \in Nat /\ Cardinality(T) <= Cardinality(S \ {x}) /\ IsFiniteSet(T)
  BY <1>1, Smaller
<1>3. QED
  BY <1>1, <1>2

LEMMA Swapped ==
    ASSUME NEW S, IsFiniteSet(S), NEW x \in S, NEW y, NEW T \in SUBSET ((S \ {x}) \cup {y})
    PROVE  /\ IsFiniteSet(T) /\ Cardinality(T) \in Nat /\ Cardinality(S) \in Nat
           /\ Cardinality(T) <= Cardinality(S)
<1>1. /\ IsFiniteSet(S \ {x}) /\ Cardinality(S) \in Nat
      /\ Cardinality(S \ {x}) = Cardinality(S) - 1
  BY FS_RemoveElement, FS_CardinalityType
<1>2. Cardinality(T) \in Nat /\ Cardinality(T) <= Cardinality(S \ {x}) + 1 /\ IsFiniteSet(T)
  BY <1>1, OneMore
<1>3. QED
  BY <1>1, <1>2

\* The rows of a user, those that count and those besides one are finitely many.
LEMMA Finite ==
    ASSUME IsFiniteSet(sessions), NEW c \in Credentials
    PROVE  /\ Active(c) \subseteq Of(c) /\ Of(c) \subseteq sessions
           /\ IsFiniteSet(Of(c)) /\ Cardinality(Of(c)) \in Nat
           /\ IsFiniteSet(Active(c)) /\ Cardinality(Active(c)) \in Nat
           /\ Cardinality(Active(c)) <= Cardinality(Of(c))
           /\ \A i : /\ Rest(c, i) \subseteq Of(c)
                     /\ IsFiniteSet(Rest(c, i)) /\ Cardinality(Rest(c, i)) \in Nat
<1>1. /\ Active(c) \subseteq Of(c) /\ Of(c) \subseteq sessions
      /\ \A i : Rest(c, i) \subseteq Of(c)
  BY DEF Active, Of, Rest
<1>2. IsFiniteSet(Of(c)) /\ Cardinality(Of(c)) \in Nat
  BY <1>1, Smaller
<1>3. QED
  BY <1>1, <1>2, Smaller

\* Rows that are deleted, and time that passes, leave fewer of each.
LEMMA FewerLeft ==
    ASSUME TypeOK, IsFiniteSet(sessions), sessions' \subseteq sessions,
           now' \in Nat, now <= now', NEW c \in Credentials
    PROVE  /\ Of(c)' \subseteq Of(c) /\ Active(c)' \subseteq Active(c)
           /\ Cardinality(Of(c)') <= Cardinality(Of(c))
           /\ Cardinality(Active(c)') <= Cardinality(Active(c))
           /\ Cardinality(Of(c)') \in Nat /\ Cardinality(Active(c)') \in Nat
           /\ \A i : /\ Cardinality(Rest(c, i)') <= Cardinality(Rest(c, i))
                     /\ Cardinality(Rest(c, i)') \in Nat
<1>1. Of(c)' \subseteq Of(c) /\ \A i : Rest(c, i)' \subseteq Rest(c, i)
  BY DEF Of, Rest
<1>2. Active(c)' \subseteq Active(c)
  <2>1. ASSUME NEW s \in Active(c)' PROVE s \in Active(c)
    <3>1. s \in Of(c) /\ s.lastUsedAt \in Nat /\ 2 * s.lastUsedAt + SessionTtl - 2 * now' > 0
      BY <1>1 DEF Active, Of, Remaining, TypeOK, Session
    <3>2. 2 * s.lastUsedAt + SessionTtl - 2 * now > 0
      BY <3>1, Numbers DEF TypeOK
    <3>3. QED
      BY <3>1, <3>2 DEF Active, Remaining
  <2>2. QED
    BY <2>1
<1>3. QED
  BY <1>1, <1>2, Finite, Smaller

\* What is asked of a sign-in, of its user and the row it has picked by name.
LEMMA LimitNow ==
    ASSUME NEW p \in SignIns, NEW c \in Credentials, NEW i, cred[p].id = c, sess[p].id = i
    PROVE  LimitOk(p) <=>
             /\ pc[p] \in {"count", "pick"} => Cardinality(Of(c)) <= MaxSessions + revived[c]
             /\ pc[p] = "evict" => Cardinality(Rest(c, i)) < MaxSessions + revived[c]
             /\ pc[p] \in {"accounts", "store"} =>
                    Cardinality(Active(c)) < MaxSessions + revived[c]
BY DEF LimitOk

LEMMA LimitNext ==
    ASSUME NEW p \in SignIns, NEW c \in Credentials, NEW i, cred'[p].id = c, sess'[p].id = i
    PROVE  LimitOk(p)' <=>
             /\ pc'[p] \in {"count", "pick"} => Cardinality(Of(c)') <= MaxSessions + revived'[c]
             /\ pc'[p] = "evict" => Cardinality(Rest(c, i)') < MaxSessions + revived'[c]
             /\ pc'[p] \in {"accounts", "store"} =>
                    Cardinality(Active(c)') < MaxSessions + revived'[c]
BY DEF LimitOk, Of, Rest, Active, Remaining

LEMMA LimitType ==
    ASSUME SessionsInv, LimitInv
    PROVE  /\ TypeOK /\ IsFiniteSet(sessions)
           /\ \A c \in Credentials : MaxSessions + revived[c] \in Nat /\ revived[c] \in Nat
           /\ \A c \in Credentials : MaxSessions + revived[c] >= 1
           /\ \A c \in Credentials : Cardinality(Active(c)) <= MaxSessions + revived[c]
           /\ \A p \in SignIns : /\ LimitOk(p) /\ p \in Handlers
                                 /\ cred[p] \in Cred /\ cred[p].id \in Credentials
                                 /\ sess[p] \in Session
BY Numbers, Kinds DEF SessionsInv, OwnersInv, LimitInv, TypeOK, SessionLimit, Cred

\* A step that stores nothing keeps what is known of a sign-in that does not take it.
LEMMA FewerKeepsLimit ==
    ASSUME SessionsInv, LimitInv, sessions' \subseteq sessions, UNCHANGED revived,
           now' \in Nat, now <= now'
    PROVE  /\ IsFiniteSet(sessions)' /\ SessionLimit'
           /\ \A p \in SignIns : pc'[p] = pc[p] /\ cred'[p] = cred[p] /\ sess'[p] = sess[p]
                                     => LimitOk(p)'
<1>1. IsFiniteSet(sessions')
  BY LimitType, FS_Subset
<1>2. SessionLimit'
  <2>1. \A c \in Credentials : Cardinality(Active(c)') <= MaxSessions + revived'[c]
    BY LimitType, Finite, FewerLeft
  <2>2. QED
    BY <2>1 DEF SessionLimit
<1>3. ASSUME NEW p \in SignIns, NEW c \in Credentials, NEW i, cred[p].id = c, sess[p].id = i,
             pc'[p] = pc[p], cred'[p] = cred[p], sess'[p] = sess[p]
      PROVE  LimitOk(p)'
  <2>1. /\ Cardinality(Of(c)') <= Cardinality(Of(c)) /\ Cardinality(Of(c)') \in Nat
        /\ Cardinality(Active(c)') <= Cardinality(Active(c)) /\ Cardinality(Active(c)') \in Nat
        /\ Cardinality(Rest(c, i)') <= Cardinality(Rest(c, i))
        /\ Cardinality(Rest(c, i)') \in Nat
    BY LimitType, FewerLeft
  <2>2. /\ Cardinality(Of(c)) \in Nat /\ Cardinality(Active(c)) \in Nat
        /\ Cardinality(Rest(c, i)) \in Nat /\ MaxSessions + revived[c] \in Nat
    BY LimitType, Finite
  <2>3. LimitOk(p)
    BY LimitType
  <2>4. QED
    BY <1>3, <2>1, <2>2, <2>3, LimitNow, LimitNext
<1>4. QED
  BY <1>1, <1>2, <1>3, LimitType

\* A sign-in's own steps, of which there is one at a time.
Alone == \A p, q \in SignIns : p = q

LEMMA AloneKeepsLimit ==
    ASSUME SessionsInv, LimitInv, Alone, sessions' \subseteq sessions, UNCHANGED revived,
           now' = now, NEW p \in SignIns, LimitOk(p)'
    PROVE  LimitInv'
BY LimitType, FewerKeepsLimit DEF Alone, LimitInv, TypeOK

LEMMA PurgeKeepsLimit ==
    ASSUME SessionsInv, LimitInv, Alone, NEW k \in Nat, SessionTtl = 2 * k + 1,
           NEW p \in SignIns, SignInPurge(p),
           NEW c \in Credentials, NEW i, cred[p].id = c, sess[p].id = i
    PROVE  LimitInv'
<1>1. /\ TypeOK /\ c \in Credentials /\ p \in Handlers
      /\ sessions' = sessions \ {s \in Of(c) : Expired(s)} /\ Then(p, "count")
      /\ UNCHANGED <<now, revived>>
  BY LimitType DEF SignInPurge, history
<1>2. pc'[p] = "count" /\ cred'[p].id = c /\ sess'[p].id = i
  BY <1>1 DEF Then, TypeOK
<1>3. Of(c)' \subseteq Active(c)
  <2>1. ASSUME NEW s \in Of(c)' PROVE s \in Active(c)
    <3>1. s \in Of(c) /\ ~Expired(s) /\ s.lastUsedAt \in Nat /\ now \in Nat
      BY <1>1 DEF Of, TypeOK, Session
    <3>2. Remaining(s) > 0
      BY <3>1 DEF Expired, Remaining
    <3>3. QED
      BY <3>1, <3>2 DEF Active
  <2>2. QED
    BY <2>1
<1>4. Cardinality(Of(c)') <= MaxSessions + revived'[c]
  BY <1>1, <1>3, LimitType, Finite, Smaller
<1>5. LimitOk(p)'
  BY <1>1, <1>2, <1>4, LimitNext
<1>6. QED
  BY <1>1, <1>5, AloneKeepsLimit

LEMMA CountKeepsLimit ==
    ASSUME SessionsInv, LimitInv, Alone, NEW p \in SignIns, SignInCount(p),
           NEW c \in Credentials, NEW i, cred[p].id = c, sess[p].id = i
    PROVE  LimitInv'
<1>1. /\ TypeOK /\ c \in Credentials /\ p \in Handlers /\ pc[p] = "count"
      /\ UNCHANGED <<now, sessions, revived>> /\ sessions' \subseteq sessions
      /\ cred'[p].id = c /\ sess'[p].id = i
      /\ pc'[p] = IF Cardinality(Active(c)) >= MaxSessions THEN "pick" ELSE "accounts"
  BY LimitType DEF SignInCount, history, tables, Then, TypeOK
<1>2. Of(c)' = Of(c) /\ Active(c)' = Active(c)
  BY <1>1 DEF Of, Active, Remaining
<1>3. Cardinality(Of(c)) <= MaxSessions + revived[c]
  BY <1>1, LimitType, LimitNow
<1>4. Cardinality(Active(c)) < MaxSessions => Cardinality(Active(c)) < MaxSessions + revived[c]
  BY <1>1, Numbers, LimitType, Finite
<1>5. LimitOk(p)'
  BY <1>1, <1>2, <1>3, <1>4, LimitNext, LimitType, Finite, Numbers
<1>6. QED
  BY <1>1, <1>5, AloneKeepsLimit

LEMMA PickKeepsLimit ==
    ASSUME SessionsInv, LimitInv, Alone, NEW p \in SignIns, SignInPick(p),
           NEW c \in Credentials, NEW i, cred[p].id = c, sess[p].id = i
    PROVE  LimitInv'
<1>1. /\ TypeOK /\ c \in Credentials /\ p \in Handlers /\ pc[p] = "pick"
      /\ UNCHANGED <<now, sessions, revived>> /\ sessions' \subseteq sessions
      /\ cred[p] \in Cred
  BY LimitType DEF SignInPick, history, tables, TypeOK
<1>2. Cardinality(Of(c)) <= MaxSessions + revived[c]
  BY <1>1, LimitType, LimitNow
<1>3. CASE Of(c) = {} /\ Then(p, "accounts")
  <2>1. pc'[p] = "accounts" /\ cred'[p].id = c /\ sess'[p].id = i
    BY <1>1, <1>3 DEF Then, TypeOK
  <2>2. Active(c)' = {}
    BY <1>1, <1>3 DEF Of, Active
  <2>3. Cardinality(Active(c)') < MaxSessions + revived'[c]
    BY <1>1, <2>2, FS_EmptySet, LimitType
  <2>4. LimitOk(p)'
    BY <1>1, <2>1, <2>3, LimitNext
  <2>5. QED
    BY <1>1, <2>4, AloneKeepsLimit
<1>4. ASSUME NEW s \in Oldest(c), Await(p, "evict", cred[p], s, 0)
      PROVE  LimitInv'
  <2>1. s \in Of(c) /\ s \in Session /\ "evict" \in Pc /\ 0 \in Nat
    BY <1>1 DEF Oldest, Of, TypeOK, Pc
  <2>2. pc'[p] = "evict" /\ cred'[p].id = c /\ sess'[p].id = s.id
    BY <1>1, <1>4, <2>1, AwaitEffect
  <2>3. Rest(c, s.id)' \subseteq Of(c) \ {s}
    BY <1>1 DEF Rest, Of
  <2>4. Cardinality(Rest(c, s.id)') < MaxSessions + revived'[c]
    BY <1>1, <1>2, <2>1, <2>3, OneLess, LimitType, Finite
  <2>5. LimitOk(p)'
    BY <1>1, <2>2, <2>4, LimitNext
  <2>6. QED
    BY <1>1, <2>5, AloneKeepsLimit
<1>5. QED
  BY <1>3, <1>4 DEF SignInPick

LEMMA EvictKeepsLimit ==
    ASSUME SessionsInv, LimitInv, Alone, NEW p \in SignIns, SignInEvict(p),
           NEW c \in Credentials, NEW i, cred[p].id = c, sess[p].id = i
    PROVE  LimitInv'
<1>1. /\ TypeOK /\ c \in Credentials /\ p \in Handlers /\ pc[p] = "evict"
      /\ sessions' = {s \in sessions : s.id # i}
      /\ UNCHANGED <<now, revived>> /\ sessions' \subseteq sessions
      /\ pc'[p] = "accounts" /\ cred'[p].id = c /\ sess'[p].id = i
  BY LimitType DEF SignInEvict, history, Then, TypeOK
<1>2. Cardinality(Rest(c, i)) < MaxSessions + revived[c]
  BY <1>1, LimitType, LimitNow
<1>3. Active(c)' \subseteq Rest(c, i)
  BY <1>1 DEF Active, Of, Rest
<1>4. Cardinality(Active(c)') < MaxSessions + revived'[c]
  BY <1>1, <1>2, <1>3, Smaller, Finite, LimitType
<1>5. LimitOk(p)'
  BY <1>1, <1>4, LimitNext
<1>6. QED
  BY <1>1, <1>5, AloneKeepsLimit

\* A sign-in that has not counted yet, or has returned, owes nothing.
LEMMA LimitIdle ==
    ASSUME NEW p \in SignIns, pc'[p] \in {"idle", "purge"}
    PROVE  LimitOk(p)'
BY DEF LimitOk

LEMMA CheckKeepsLimit ==
    ASSUME SessionsInv, LimitInv, Alone, NEW p \in SignIns, NEW d \in Credentials,
           SignInCheck(p, d)
    PROVE  LimitInv'
<1>1. UNCHANGED <<now, sessions, revived>> /\ sessions' \subseteq sessions /\ pc'[p] = "purge"
  BY LimitType DEF SignInCheck, tables, history, Await, TypeOK
<1>2. QED
  BY <1>1, LimitIdle, AloneKeepsLimit

LEMMA AccountsKeepLimit ==
    ASSUME SessionsInv, LimitInv, Alone, NEW p \in SignIns, SignInAccounts(p),
           NEW c \in Credentials, cred[p].id = c
    PROVE  LimitInv'
<1>1. /\ UNCHANGED <<now, sessions, revived>> /\ sessions' \subseteq sessions
      /\ pc[p] = "accounts" /\ pc'[p] = "store" /\ cred'[p].id = c
  BY LimitType DEF SignInAccounts, tables, history, Await, TypeOK
<1>2. Cardinality(Active(c)) < MaxSessions + revived[c]
  BY <1>1, LimitType, LimitNow
<1>3. Active(c)' = Active(c)
  BY <1>1 DEF Of, Active, Remaining
<1>4. LimitOk(p)'
  BY <1>1, <1>2, <1>3, LimitNext
<1>5. QED
  BY <1>1, <1>4, AloneKeepsLimit

\* The session that is stored is one more, and there was room for it.
LEMMA StoreKeepsLimit ==
    ASSUME SessionsInv, LimitInv, Alone, NEW p \in SignIns, SignInStore(p),
           NEW c \in Credentials, cred[p].id = c
    PROVE  LimitInv'
<1>1. /\ sessions' = Upsert(sess[p]) /\ UNCHANGED <<now, revived>> /\ pc[p] = "store"
      /\ pc'[p] = "idle" /\ sess[p].owner = c
  BY LimitType DEF SignInStore, Return, Await, TypeOK, SessionsInv, OwnersInv
<1>2. IsFiniteSet(sessions)'
  <2>1. sessions' \subseteq sessions \cup {sess[p]}
    BY <1>1 DEF Upsert
  <2>2. QED
    BY <2>1, LimitType, OneMore
<1>3. ASSUME NEW d \in Credentials
      PROVE  Cardinality(Active(d)') <= MaxSessions + revived'[d]
  <2>1. CASE d = c
    <3>1. Active(d)' \subseteq Active(d) \cup {sess[p]}
      BY <1>1, UpsertIs DEF Active, Of, Remaining
    <3>2. Cardinality(Active(d)) < MaxSessions + revived[d]
      BY <1>1, <2>1, LimitType, LimitNow
    <3>3. QED
      BY <1>1, <3>1, <3>2, OneMore, Finite, LimitType
  <2>2. CASE d # c
    <3>1. Active(d)' \subseteq Active(d)
      BY <1>1, <2>2, UpsertIs DEF Active, Of, Remaining
    <3>2. QED
      BY <1>1, <3>1, Smaller, Finite, LimitType
  <2>3. QED
    BY <2>1, <2>2
<1>4. \A q \in SignIns : LimitOk(q)'
  BY <1>1, LimitIdle DEF Alone
<1>5. QED
  BY <1>2, <1>3, <1>4 DEF LimitInv, SessionLimit

\* A refresh writes a row that is there and counts, or is counted as a revival.
LEMMA RefreshSaveRows ==
    ASSUME SessionsInv, LimitInv, NEW p \in Refreshers, RefreshSave(p),
           NEW c \in Credentials, NEW i
    PROVE  /\ Cardinality(Active(c)') - Cardinality(Active(c)) <= revived'[c] - revived[c]
           /\ Cardinality(Of(c)') - Cardinality(Of(c)) <= revived'[c] - revived[c]
           /\ Cardinality(Rest(c, i)') - Cardinality(Rest(c, i)) <= revived'[c] - revived[c]
           /\ Cardinality(Active(c)') \in Nat /\ Cardinality(Of(c)') \in Nat
           /\ Cardinality(Rest(c, i)') \in Nat
           /\ revived'[c] \in Nat
<1> DEFINE s == sess[p]
<1>1. /\ sessions' = Upsert(s) /\ UNCHANGED now
      /\ s.owner \in Credentials /\ TypeOK /\ p \in Refreshing
      /\ revived' = [revived EXCEPT ![s.owner] =
                        IF s.id \in Ids(Active(s.owner)) THEN @ ELSE @ + 1]
  BY LimitType, Kinds DEF RefreshSave, TypeOK, Session, Refreshing
<1>2. /\ IsFiniteSet(Active(c)) /\ IsFiniteSet(Of(c)) /\ IsFiniteSet(Rest(c, i))
      /\ revived[c] \in Nat
  BY LimitType, Finite
<1>3. \A t \in sessions' : t = s \/ (t \in sessions /\ t.id # s.id)
  BY <1>1, UpsertIs
<1>4. CASE s.owner = c /\ s.id \in Ids(Active(c))
  <2>1. PICK t \in Active(c) : t.id = s.id
    BY <1>4 DEF Ids
  <2>2. revived'[c] = revived[c]
    BY <1>1, <1>2, <1>4 DEF TypeOK
  <2>3. t \in Of(c)
    BY DEF Active
  <2>4. Active(c)' \subseteq (Active(c) \ {t}) \cup {s}
    BY <1>1, <1>3, <2>1 DEF Active, Of, Remaining
  <2>5. Of(c)' \subseteq (Of(c) \ {t}) \cup {s}
    BY <1>1, <1>3, <2>1 DEF Of
  <2>6. /\ Cardinality(Active(c)') <= Cardinality(Active(c))
        /\ Cardinality(Of(c)') <= Cardinality(Of(c))
        /\ Cardinality(Active(c)') \in Nat /\ Cardinality(Of(c)') \in Nat
    BY <1>2, <2>3, <2>4, <2>5, Swapped
  <2>7. Cardinality(Rest(c, i)') <= Cardinality(Rest(c, i)) /\ Cardinality(Rest(c, i)') \in Nat
    <3>1. CASE s.id = i
      <4>1. Rest(c, i)' \subseteq Rest(c, i)
        BY <1>3, <3>1 DEF Rest, Of
      <4>2. QED
        BY <1>2, <4>1, Smaller
    <3>2. CASE s.id # i
      <4>1. t \in Rest(c, i) /\ Rest(c, i)' \subseteq (Rest(c, i) \ {t}) \cup {s}
        BY <1>3, <2>1, <2>3, <3>2 DEF Rest, Of
      <4>2. QED
        BY <1>2, <4>1, Swapped
    <3>3. QED
      BY <3>1, <3>2
  <2>8. QED
    BY <1>2, <2>2, <2>6, <2>7, FS_CardinalityType
<1>5. CASE s.owner = c /\ s.id \notin Ids(Active(c))
  <2>1. revived'[c] = revived[c] + 1
    BY <1>1, <1>2, <1>5 DEF TypeOK
  <2>2. /\ Active(c)' \subseteq Active(c) \cup {s} /\ Of(c)' \subseteq Of(c) \cup {s}
        /\ Rest(c, i)' \subseteq Rest(c, i) \cup {s}
    BY <1>1, <1>3 DEF Active, Of, Rest, Remaining
  <2>3. /\ Cardinality(Active(c)') <= Cardinality(Active(c)) + 1
        /\ Cardinality(Active(c)') \in Nat /\ Cardinality(Active(c)) \in Nat
    BY <1>2, <2>2, OneMore
  <2>4. /\ Cardinality(Of(c)') <= Cardinality(Of(c)) + 1
        /\ Cardinality(Of(c)') \in Nat /\ Cardinality(Of(c)) \in Nat
    BY <1>2, <2>2, OneMore
  <2>5. /\ Cardinality(Rest(c, i)') <= Cardinality(Rest(c, i)) + 1
        /\ Cardinality(Rest(c, i)') \in Nat /\ Cardinality(Rest(c, i)) \in Nat
    BY <1>2, <2>2, OneMore
  <2>6. QED
    BY <1>2, <2>1, <2>3, <2>4, <2>5
<1>6. CASE s.owner # c
  <2>1. revived'[c] = revived[c]
    BY <1>1, <1>6 DEF TypeOK
  <2>2. /\ Active(c)' \subseteq Active(c) /\ Of(c)' \subseteq Of(c)
        /\ Rest(c, i)' \subseteq Rest(c, i)
    BY <1>1, <1>3, <1>6 DEF Active, Of, Rest, Remaining
  <2>3. QED
    BY <1>2, <2>1, <2>2, Smaller
<1>7. QED
  BY <1>4, <1>5, <1>6

LEMMA RefreshSaveKeepsLimit ==
    ASSUME SessionsInv, LimitInv, NEW p \in Refreshers, RefreshSave(p)
    PROVE  LimitInv'
<1>1. IsFiniteSet(sessions)'
  <2>1. sessions' \subseteq sessions \cup {sess[p]}
    BY DEF RefreshSave, Upsert
  <2>2. QED
    BY <2>1, LimitType, OneMore
<1>2. ASSUME NEW c \in Credentials
      PROVE  Cardinality(Active(c)') <= MaxSessions + revived'[c]
  BY Numbers, LimitType, Finite, RefreshSaveRows
<1>3. ASSUME NEW q \in SignIns, NEW c \in Credentials, NEW i, cred[q].id = c, sess[q].id = i
      PROVE  LimitOk(q)'
  <2>1. pc'[q] = pc[q] /\ cred'[q].id = c /\ sess'[q].id = i
    BY <1>3, LimitType, Kinds DEF RefreshSave, Return, Await, TypeOK
  <2>2. /\ Cardinality(Active(c)') - Cardinality(Active(c)) <= revived'[c] - revived[c]
        /\ Cardinality(Of(c)') - Cardinality(Of(c)) <= revived'[c] - revived[c]
        /\ Cardinality(Rest(c, i)') - Cardinality(Rest(c, i)) <= revived'[c] - revived[c]
        /\ Cardinality(Active(c)') \in Nat /\ Cardinality(Of(c)') \in Nat
        /\ Cardinality(Rest(c, i)') \in Nat /\ revived'[c] \in Nat
    BY RefreshSaveRows
  <2>3. /\ Cardinality(Active(c)) \in Nat /\ Cardinality(Of(c)) \in Nat
        /\ Cardinality(Rest(c, i)) \in Nat /\ revived[c] \in Nat /\ MaxSessions \in Nat
    BY LimitType, Finite, Numbers
  <2>4. LimitOk(q)
    BY LimitType
  <2>5. QED
    BY <1>3, <2>1, <2>2, <2>3, <2>4, LimitNow, LimitNext
<1>4. QED
  BY <1>1, <1>2, <1>3, LimitType DEF LimitInv, SessionLimit

\* A step of another handler, of a sign-out, a failure or the clock.
LEMMA OthersKeepLimit ==
    ASSUME SessionsInv, LimitInv, sessions' \subseteq sessions, UNCHANGED revived,
           now' \in Nat, now <= now',
           \A p \in SignIns : \/ pc'[p] = "idle"
                              \/ pc'[p] = pc[p] /\ cred'[p] = cred[p] /\ sess'[p] = sess[p]
    PROVE  LimitInv'
BY FewerKeepsLimit, LimitIdle DEF LimitInv

\* Await by another handler leaves a sign-in alone.
LEMMA AwaitByOther ==
    ASSUME TypeOK, NEW p \in Handlers \ SignIns,
           \/ \E call, r, s, sent : Await(p, call, r, s, sent)
           \/ \E call : Then(p, call)
    PROVE  \A q \in SignIns : pc'[q] = pc[q] /\ cred'[q] = cred[q] /\ sess'[q] = sess[q]
BY Kinds DEF Await, Then, TypeOK

LEMMA HandlersKeepLimit ==
    ASSUME SessionsInv, LimitInv, NEW p \in Handlers \ SignIns,
           \/ \E s \in sessions : RefreshFind(p, s)
           \/ RefreshRotate(p)
           \/ \E c \in Credentials, i \in {0} \cup DOMAIN auth : ChangePasswordCheck(p, c, i)
           \/ \E c \in Credentials : ResetPasswordFind(p, c)
           \/ SavePassword(p) \/ RevokeOthers(p)
           \/ \E c \in Credentials : RenameFind(p, c)
           \/ \E u \in Usernames : RenameCheck(p, u)
           \/ RenameSave(p)
    PROVE  LimitInv'
<1>1. sessions' \subseteq sessions /\ UNCHANGED <<revived, now>> /\ now \in Nat
  BY LimitType
  DEF TypeOK, tables, history, RefreshFind, RefreshRotate, ChangePasswordCheck, SavePassword,
      ResetPasswordFind, RevokeOthers, RenameFind, RenameCheck, RenameSave
<1>2. \/ \E call, r, s, sent : Await(p, call, r, s, sent)
      \/ \E call : Then(p, call)
  BY DEF RefreshFind, RefreshRotate, ChangePasswordCheck, SavePassword,
      ResetPasswordFind, RevokeOthers, RenameFind, RenameCheck, RenameSave, Return
<1>3. QED
  BY <1>1, <1>2, LimitType, AwaitByOther, OthersKeepLimit

LEMMA LimitStep ==
    ASSUME SessionsInv, LimitInv, [Next]_vars, Alone, NEW k \in Nat, SessionTtl = 2 * k + 1
    PROVE  LimitInv'
<1>1. TypeOK /\ now \in Nat
  BY LimitType DEF TypeOK
<1>2. CASE UNCHANGED vars \/ Tick \/ (\E i \in DOMAIN auth : SignOut(i))
           \/ (\E c \in Credentials : SignOutAll(c))
  <2>1. UNCHANGED <<revived, pc, cred, sess>> /\ sessions' \subseteq sessions
    BY <1>2 DEF vars, Tick, SignOut, SignOutAll, tables, local, history
  <2>2. now' = now \/ now' = now + 1
    BY <1>2 DEF vars, Tick, SignOut, SignOutAll
  <2>3. now' \in Nat /\ now <= now'
    BY <1>1, <2>2
  <2>4. QED
    BY <2>1, <2>3, OthersKeepLimit
<1>3. ASSUME NEW p \in SignIns, (\E c \in Credentials : SignInCheck(p, c)) \/ SignInStep(p)
      PROVE  LimitInv'
  <2>1. PICK c \in Credentials : cred[p].id = c
    BY LimitType
  <2>2. PICK i : sess[p].id = i
    OBVIOUS
  <2>3. CASE \E d \in Credentials : SignInCheck(p, d)
    BY <2>3, CheckKeepsLimit
  <2>4. CASE SignInStep(p)
    BY <2>1, <2>2, <2>4, PurgeKeepsLimit, CountKeepsLimit, PickKeepsLimit, EvictKeepsLimit,
       AccountsKeepLimit, StoreKeepsLimit DEF SignInStep
  <2>5. QED
    BY <1>3, <2>3, <2>4
<1>4. ASSUME NEW p \in Handlers, Fail(p) PROVE LimitInv'
  <2>1. sessions' \subseteq sessions /\ UNCHANGED <<revived, now>>
    BY <1>4 DEF Fail, tables, history
  <2>2. pc'[p] = "idle" /\ \A q \in Handlers \ {p} : pc'[q] = pc[q] /\ cred'[q] = cred[q]
                                                        /\ sess'[q] = sess[q]
    BY <1>1, <1>4, ReturnEffect DEF Fail
  <2>3. QED
    BY <1>1, <2>1, <2>2, Kinds, OthersKeepLimit
<1>5. ASSUME NEW p \in Refreshers, RefreshSave(p) PROVE LimitInv'
  BY <1>5, RefreshSaveKeepsLimit
<1>6. CASE Next
  BY <1>2, <1>3, <1>4, <1>5, <1>6, Kinds, HandlersKeepLimit DEF Next, PasswordStep
<1>7. QED
  BY <1>2, <1>6

\* The session limit, for one sign-in at a time.  Without that assumption two of them
\* count the same sessions, and with it a user has more than MAX_SESSIONS only by what
\* refreshes have brought back.  Lifetimes are odd numbers of half ticks: no row is read
\* at the instant at which it is neither expired nor active.
THEOREM SessionsAreLimited ==
    ASSUME \A p, q \in SignIns : p = q, NEW k \in Nat, SessionTtl = 2 * k + 1
    PROVE  Spec => []SessionLimit
<1>1. Init => LimitInv
  <2>1. SUFFICES ASSUME Init PROVE LimitInv
    OBVIOUS
  <2>2. \A c \in Credentials : Active(c) = {} /\ revived[c] = 0
    BY <2>1 DEF Init, Active, Of
  <2>3. \A c \in Credentials : Cardinality(Active(c)) <= MaxSessions + revived[c]
    BY <2>2, Numbers, FS_EmptySet
  <2>4. \A p \in SignIns : LimitOk(p)
    BY <2>1, Kinds DEF Init, LimitOk
  <2>5. QED
    BY <2>1, <2>3, <2>4, FS_EmptySet DEF Init, LimitInv, SessionLimit
<1>2. SessionsInv /\ LimitInv /\ [Next]_vars => LimitInv'
  BY LimitStep DEF Alone
<1>3. LimitInv => SessionLimit
  BY DEF LimitInv
<1>4. QED
  BY <1>1, <1>2, <1>3, SessionsInvariant, PTL DEF Spec
=============================================================================
