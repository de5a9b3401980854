------------------------- MODULE VerificationProofs -------------------------
(***************************************************************************)
(* Proofs about Verification: its type invariant, the inductive invariant  *)
(* of the table under every handler, and the one-time-code promises of the *)
(* row-locked protocol.                                                    *)
(***************************************************************************)
EXTENDS Verification, SequenceTheorems, FiniteSetTheorems, TLAPS

-----------------------------------------------------------------------------
(* The entity.                                                             *)

\* A new row, and the placeholder of an idle handler, are rows.
LEMMA NewRowType ==
    ASSUME NEW e \in Emails, NEW t \in Nat
    PROVE  NewRow(e, t) \in Row
BY DEF NewRow, Row, Status

LEMMA BlankType == Blank \in Row
<1>1. (CHOOSE e \in Emails : TRUE) \in Emails
  BY EmailsAssumption
<1>2. QED
  BY <1>1, NewRowType DEF Blank

\* expire() keeps the row a row of the same address, and does not count.
LEMMA ExpireFacts ==
    ASSUME NEW r \in Row
    PROVE  /\ Expire(r) \in Row
           /\ Expire(r).status = "EXPIRED"
           /\ Expire(r).email = r.email
           /\ Expire(r).attempts = r.attempts
BY DEF Expire, Row, Status

\* linkToIdentity() changes nothing else.
LEMMA LinkFacts ==
    ASSUME NEW r \in Row
    PROVE  /\ LinkToIdentity(r) \in Row
           /\ LinkToIdentity(r).status = r.status
           /\ LinkToIdentity(r).email = r.email
           /\ LinkToIdentity(r).attempts = r.attempts
BY DEF LinkToIdentity, Row

\* attempt() counts one, ends USED on a match, and otherwise BLOCKED exactly
\* when the count reaches MAX_ATTEMPTS.
LEMMA AttemptFacts ==
    ASSUME NEW r \in Row, NEW match \in BOOLEAN, now \in Nat
    PROVE  /\ Attempt(r, match) \in Row
           /\ Attempt(r, match).email = r.email
           /\ Attempt(r, match).attempts = r.attempts + 1
           /\ Attempt(r, match).status = Outcome(r.attempts + 1, match)
<1>1. r.attempts + 1 \in Nat
  BY DEF Row
<1>2. Outcome(r.attempts + 1, match) \in Status
  BY DEF Outcome, Status
<1>3. QED
  BY <1>1, <1>2 DEF Attempt, Row

\* What the read of VerifyEmail and ResetPassword leaves in memory.
LEMMA CheckedCopyFacts ==
    ASSUME NEW r \in Row, NEW match \in BOOLEAN, now \in Nat, r.status = "PENDING",
           NEW c, c = IF IsExpired(r) THEN Expire(r) ELSE Attempt(r, match)
    PROVE  /\ c \in Row
           /\ c.email = r.email
           /\ \/ c.status = "EXPIRED" /\ c.attempts = r.attempts
              \/ /\ c.attempts = r.attempts + 1
                 /\ \/ c.status = "USED"
                    \/ c.status = "BLOCKED" /\ c.attempts >= MaxAttempts
                    \/ c.status = "PENDING" /\ c.attempts < MaxAttempts
<1>1. CASE IsExpired(r)
  BY <1>1, ExpireFacts
<1>2. CASE ~IsExpired(r)
  <2>1. r.attempts + 1 \in Nat /\ MaxAttempts \in Nat
    BY LimitsAssumption DEF Row
  <2>2. QED
    BY <1>2, <2>1, AttemptFacts DEF Outcome
<1>3. QED
  BY <1>1, <1>2

-----------------------------------------------------------------------------
(* Three kinds of step.  Each lemma carries TableInv over one of them.      *)

Tally == [wrong: Nat, used: Nat, blockedAt: Nat]

\* Both sequences have the same indices, and their elements are rows and counts.
LEMMA TableTypes ==
    ASSUME TypeOK
    PROVE  /\ tally \in Seq(Tally)
           /\ DOMAIN rows = 1 .. Len(tally) /\ DOMAIN rows \subseteq Nat
           /\ \A j \in DOMAIN rows :
                /\ rows[j] \in Row /\ rows[j].attempts \in Nat
                /\ tally[j] \in Tally /\ tally[j].wrong \in Nat /\ tally[j].used \in Nat
                /\ Told(j) \in Nat
<1>1. tally \in Seq(Tally) /\ DOMAIN rows = 1 .. Len(tally) /\ DOMAIN rows \subseteq Nat
  BY LenProperties DEF TypeOK, Tally
<1>2. \A j \in DOMAIN rows : rows[j] \in Row
  BY <1>1, LenProperties, ElementOfSeq DEF TypeOK
<1>3. \A j \in DOMAIN rows : tally[j] \in Tally
  BY <1>1, ElementOfSeq
<1>4. \A j \in DOMAIN rows : rows[j].attempts \in Nat
  BY <1>2 DEF Row
<1>5. \A j \in DOMAIN rows : tally[j].wrong \in Nat /\ tally[j].used \in Nat
  BY <1>3 DEF Tally
<1>6. \A j \in DOMAIN rows : Told(j) \in Nat
  BY <1>5 DEF Told
<1>7. QED
  BY <1>1, <1>2, <1>3, <1>4, <1>5, <1>6

\* A handler goes on without writing: it may start to hold the row it has read,
\* provided its copy is what the read allows.
LEMMA ReadKeepsTableInv ==
    ASSUME TableInv, now' \in Nat, UNCHANGED <<rows, tally>>,
           NEW p \in Handlers, NEW call \in Pc, NEW i \in Nat, NEW r \in Row,
           Await(p, call, i, r),
           p \in Requesters => call \in {"idle", "expire", "count", "send", "insert"},
           p \in Verifiers  => call \in {"idle", "commit"},
           p \in Resetters  => call \in {"idle", "save"},
           p \in Linkers    => call \in {"idle", "link"},
           call \in {"count", "send", "insert"} => r.status = "PENDING" /\ r.attempts = 0,
           call \in {"expire", "commit", "save", "link"} =>
               /\ i \in DOMAIN rows
               /\ r.email = rows[i].email
               /\ r.attempts <= Told(i) + IF call \in {"expire", "link"} \/ r.status = "EXPIRED"
                                          THEN 0 ELSE 1,
           call = "expire" => r.status = "EXPIRED",
           call = "link" => r.status = "USED",
           call \in {"commit", "save"} /\ r.status = "PENDING" => r.attempts < MaxAttempts,
           call = "commit" => rows[i].status = "PENDING" /\ ~Locked(i)
    PROVE  TableInv'
<1> USE DEF TableInv
<1>1. /\ pc'[p] = call /\ on'[p] = i /\ copy'[p] = r
      /\ \A q \in Handlers \ {p} :
            pc'[q] = pc[q] /\ on'[q] = on[q] /\ copy'[q] = copy[q]
  BY DEF Await, TypeOK
<1>2. TypeOK'
  BY DEF TypeOK, Await
<1>3. KindInv'
  BY <1>1 DEF KindInv, Handlers
<1>4. HeldInv'
  BY <1>1 DEF HeldInv, HoldsRow
<1>5. CopyInv'
  BY <1>1 DEF CopyInv, CopyOk, HoldsRow, Told
<1>6. LockInv'
  BY <1>1 DEF LockInv, Locked, Handlers
<1>7. OnePendingPerEmail' /\ NoPhantomAttempts' /\ LiveCodeHasAttemptsLeft'
  BY DEF OnePendingPerEmail, NoPhantomAttempts, LiveCodeHasAttemptsLeft, Told
<1>8. QED
  BY <1>2, <1>3, <1>4, <1>5, <1>6, <1>7

\* What an UPDATE of row i does to the table.
LEMMA UpdateFacts ==
    ASSUME TypeOK, NEW i \in DOMAIN rows, NEW r \in Row, Update(i, r)
    PROVE  /\ rows' \in Seq(Row)
           /\ Len(rows') = Len(rows)
           /\ DOMAIN rows' = DOMAIN rows
           /\ rows'[i] = r
           /\ \A j \in DOMAIN rows \ {i} : rows'[j] = rows[j]
BY LenProperties, ExceptSeq DEF TypeOK, Update

\* An answer counts one wrong guess or one use, unless the code has expired.
LEMMA CountedFacts ==
    ASSUME NEW t \in Tally, NEW r \in Row
    PROVE  /\ Counted(t, r) \in Tally
           /\ r.status \in {"PENDING", "BLOCKED"} =>
                Counted(t, r).wrong = t.wrong + 1 /\ Counted(t, r).used = t.used
           /\ r.status = "USED" =>
                Counted(t, r).wrong = t.wrong /\ Counted(t, r).used = t.used + 1
           /\ r.status = "EXPIRED" =>
                Counted(t, r).wrong = t.wrong /\ Counted(t, r).used = t.used
BY DEF Counted, Tally, Row

\* What an answer about row i does to the history: the counts of the row never
\* go down, and grow by one unless the answer is that the code has expired.
LEMMA AnswerFacts ==
    ASSUME TypeOK, NEW i \in DOMAIN rows, NEW r \in Row, Answer(i, r)
    PROVE  /\ tally' \in Seq(Tally)
           /\ Len(tally') = Len(tally)
           /\ tally'[i] = Counted(tally[i], r)
           /\ \A j \in DOMAIN rows \ {i} : tally'[j] = tally[j]
           /\ \A j \in DOMAIN rows : Told(j) \in Nat /\ Told(j)' \in Nat
           /\ \A j \in DOMAIN rows : Told(j) <= Told(j)'
           /\ r.status # "EXPIRED" => Told(i)' = Told(i) + 1
<1>1. tally \in Seq(Tally) /\ i \in 1 .. Len(tally) /\ DOMAIN rows = 1 .. Len(tally)
  BY LenProperties DEF TypeOK, Tally
<1>2. \A j \in 1 .. Len(tally) : tally[j] \in Tally
  BY <1>1, ElementOfSeq
<1>3. Counted(tally[i], r) \in Tally
  BY <1>1, <1>2, CountedFacts
<1>4. /\ tally' \in Seq(Tally)
      /\ Len(tally') = Len(tally)
      /\ \A j \in 1 .. Len(tally) :
            tally'[j] = IF j = i THEN Counted(tally[i], r) ELSE tally[j]
  BY <1>1, <1>3, ExceptSeq DEF Answer
<1>5. \A j \in DOMAIN rows : Told(j) \in Nat
  BY <1>1, <1>2 DEF Told, Tally
<1>6. \A j \in DOMAIN rows \ {i} : Told(j)' = Told(j)
  BY <1>1, <1>4 DEF Told
<1>7. Told(i)' = Counted(tally[i], r).wrong + Counted(tally[i], r).used
  BY <1>1, <1>4 DEF Told
<1>8. /\ r.status # "EXPIRED" => Told(i)' = Told(i) + 1
      /\ r.status = "EXPIRED" => Told(i)' = Told(i)
  <2>1. r.status \in {"PENDING", "USED", "EXPIRED", "BLOCKED"}
    BY DEF Row, Status
  <2>2. tally[i] \in Tally /\ tally[i].wrong \in Nat /\ tally[i].used \in Nat
    BY <1>1, <1>2 DEF Tally
  <2>3. CASE r.status \in {"PENDING", "BLOCKED"}
    BY <1>7, <2>2, <2>3, CountedFacts DEF Told
  <2>4. CASE r.status = "USED"
    BY <1>7, <2>2, <2>4, CountedFacts DEF Told
  <2>5. CASE r.status = "EXPIRED"
    BY <1>7, <2>2, <2>5, CountedFacts DEF Told
  <2>6. QED
    BY <2>1, <2>3, <2>4, <2>5
<1>9. QED
  BY <1>1, <1>4, <1>5, <1>6, <1>7, <1>8

\* A handler overwrites row i from its copy r, and goes on without holding a row.
LEMMA WriteKeepsTableInv ==
    ASSUME TableInv, now' \in Nat,
           NEW i \in DOMAIN rows, NEW r \in Row, Update(i, r),
           r.email = rows[i].email,
           r.status = "PENDING" => r.attempts < MaxAttempts /\ Pending(r.email) \subseteq {i},
           tally' \in Seq(Tally), Len(tally') = Len(tally),
           \A j \in DOMAIN rows : Told(j) \in Nat /\ Told(j)' \in Nat /\ Told(j) <= Told(j)',
           r.attempts <= Told(i)',
           NEW p \in Handlers, NEW call \in {"idle", "count"}, NEW c \in Row,
           Await(p, call, 0, c),
           \A v \in Verifiers : pc[v] = "commit" /\ on[v] = i => v = p,
           call = "count" => p \in Requesters /\ c.status = "PENDING" /\ c.attempts = 0
    PROVE  TableInv'
<1> USE DEF TableInv
<1>1. /\ pc'[p] = call /\ on'[p] = 0 /\ copy'[p] = c
      /\ \A q \in Handlers \ {p} :
            pc'[q] = pc[q] /\ on'[q] = on[q] /\ copy'[q] = copy[q]
  BY DEF Await, TypeOK
<1>2. /\ rows' \in Seq(Row) /\ Len(rows') = Len(rows) /\ DOMAIN rows' = DOMAIN rows
      /\ rows'[i] = r
      /\ \A j \in DOMAIN rows \ {i} : rows'[j] = rows[j]
  BY UpdateFacts
<1>3. TypeOK'
  BY <1>2 DEF TypeOK, Await, Tally, Pc
<1>4. KindInv'
  BY <1>1, HandlersAssumption DEF KindInv, Handlers
<1>5. HeldInv'
  <2>1. SUFFICES ASSUME NEW q \in Handlers, HoldsRow(q)'
                 PROVE  on'[q] \in DOMAIN rows' /\ copy'[q].email = rows'[on'[q]].email
    BY DEF HeldInv
  <2>2. q # p
    BY <1>1, <2>1 DEF HoldsRow
  <2>3. HoldsRow(q) /\ on'[q] = on[q] /\ copy'[q] = copy[q]
    BY <1>1, <2>1, <2>2 DEF HoldsRow
  <2>4. on[q] \in DOMAIN rows /\ copy[q].email = rows[on[q]].email
    BY <2>3 DEF HeldInv
  <2>5. QED
    BY <1>2, <2>3, <2>4
<1>6. CopyInv'
  <2>1. SUFFICES ASSUME NEW q \in Handlers
                 PROVE  CopyOk(q)'
    BY DEF CopyInv
  <2>2. CASE q = p
    BY <1>1, <2>2 DEF CopyOk, HoldsRow
  <2>3. CASE q # p
    <3>1. pc'[q] = pc[q] /\ on'[q] = on[q] /\ copy'[q] = copy[q]
      BY <1>1, <2>3
    <3>2. CopyOk(q) /\ copy[q].attempts \in Nat
      BY DEF CopyInv, TypeOK, Row
    <3>3. CASE HoldsRow(q)
      <4>1. on[q] \in DOMAIN rows
        BY <3>3 DEF HeldInv
      <4>2. /\ Told(on[q]) \in Nat /\ (Told(on[q]))' \in Nat
            /\ Told(on[q]) <= (Told(on[q]))'
        BY <3>1, <4>1
      <4>3. QED
        BY <3>1, <3>2, <3>3, <4>2 DEF CopyOk, HoldsRow
    <3>4. CASE ~HoldsRow(q)
      BY <3>1, <3>2, <3>4 DEF CopyOk, HoldsRow
    <3>5. QED
      BY <3>3, <3>4
  <2>4. QED
    BY <2>2, <2>3
<1>7. LockInv'
  BY <1>1, <1>2 DEF LockInv, HeldInv, HoldsRow, Handlers
<1>8. OnePendingPerEmail'
  <2> SUFFICES ASSUME NEW j \in DOMAIN rows, NEW k \in DOMAIN rows, j # k,
                      rows'[j].status = "PENDING", rows'[k].status = "PENDING",
                      rows'[j].email = rows'[k].email
               PROVE  FALSE
    BY <1>2 DEF OnePendingPerEmail
  <2>1. CASE j # i /\ k # i
    BY <1>2, <2>1 DEF OnePendingPerEmail
  <2>2. CASE j = i
    BY <1>2, <2>2 DEF Pending, Of
  <2>3. CASE k = i
    BY <1>2, <2>3 DEF Pending, Of
  <2>4. QED
    BY <2>1, <2>2, <2>3
<1>9. NoPhantomAttempts'
  <2>1. \A j \in DOMAIN rows : rows[j].attempts \in Nat
    <3>1. \A j \in DOMAIN rows : rows[j] \in Row
      BY LenProperties, ElementOfSeq DEF TypeOK
    <3>2. QED
      BY <3>1 DEF Row
  <2>2. \A j \in DOMAIN rows : rows'[j].attempts <= Told(j)'
    BY <1>2, <2>1 DEF NoPhantomAttempts
  <2>3. QED
    BY <1>2, <2>2 DEF NoPhantomAttempts
<1>10. LiveCodeHasAttemptsLeft'
  BY <1>2 DEF LiveCodeHasAttemptsLeft
<1>11. QED
  BY <1>3, <1>4, <1>5, <1>6, <1>7, <1>8, <1>9, <1>10

\* A request inserts its row: the id is new, so no handler holds it.
LEMMA InsertKeepsTableInv ==
    ASSUME TableInv, NEW p \in Requesters, pc[p] = "insert", RequestInsert(p)
    PROVE  TableInv'
<1> USE DEF TableInv
<1>1. p \in Handlers /\ copy[p] \in Row /\ copy[p].status = "PENDING" /\ copy[p].attempts = 0
  BY DEF TypeOK, CopyInv, CopyOk, Handlers
<1>2. CASE Duplicate(copy[p], 0)
  <2>1. Await(p, "idle", 0, Blank) /\ UNCHANGED <<rows, tally, now>>
    BY <1>2 DEF RequestInsert, Return
  <2>2. p \notin Verifiers /\ p \notin Resetters /\ p \notin Linkers
    BY HandlersAssumption
  <2>3. "idle" \in Pc /\ now' \in Nat
    BY <2>1 DEF Pc, TypeOK
  <2>4. QED
    BY <1>1, <2>1, <2>2, <2>3, BlankType, ReadKeepsTableInv
<1>3. CASE ~Duplicate(copy[p], 0)
  <2> DEFINE new == [wrong |-> 0, used |-> 0, blockedAt |-> 0]
  <2>1. /\ rows' = Append(rows, copy[p]) /\ tally' = Append(tally, new)
        /\ Await(p, "idle", 0, Blank) /\ now' = now
    BY <1>3 DEF RequestInsert, Return
  <2>2. /\ pc'[p] = "idle" /\ on'[p] = 0 /\ copy'[p] = Blank
        /\ \A q \in Handlers \ {p} :
              pc'[q] = pc[q] /\ on'[q] = on[q] /\ copy'[q] = copy[q]
    BY <1>1, <2>1 DEF Await, TypeOK
  <2> DEFINE n == Len(rows) + 1
  <2>3. /\ Len(rows) \in Nat /\ DOMAIN rows = 1 .. Len(rows)
        /\ rows' \in Seq(Row) /\ Len(rows') = n /\ DOMAIN rows' = 1 .. n
        /\ rows'[n] = copy[p]
        /\ \A j \in DOMAIN rows : rows'[j] = rows[j]
    BY <1>1, <2>1 DEF TypeOK
  <2>4. /\ tally' \in Seq(Tally) /\ Len(tally') = n
        /\ tally'[n] = new
        /\ \A j \in DOMAIN rows : tally'[j] = tally[j]
    BY <2>1, <2>3 DEF TypeOK, Tally
  <2>5. TypeOK'
    BY <1>1, <2>1, <2>3, <2>4, BlankType DEF TypeOK, Await, Tally, Pc
  <2>6. KindInv'
    BY <2>2, HandlersAssumption DEF KindInv, Handlers
  <2>7. HeldInv'
    BY <2>2, <2>3 DEF HeldInv, HoldsRow
  <2>8. CopyInv'
    BY <2>2, <2>4 DEF CopyInv, CopyOk, HeldInv, HoldsRow, Told
  <2>9. LockInv'
    BY <2>2, <2>3 DEF LockInv, HeldInv, HoldsRow, Handlers
  <2>10. OnePendingPerEmail'
    <3> SUFFICES ASSUME NEW j \in 1 .. n, NEW k \in 1 .. n, j # k,
                        rows'[j].status = "PENDING", rows'[k].status = "PENDING",
                        rows'[j].email = rows'[k].email
                 PROVE  FALSE
      BY <2>3 DEF OnePendingPerEmail
    <3>1. \A l \in DOMAIN rows :
            rows[l].email = copy[p].email => rows[l].status # "PENDING"
      BY <1>1, <1>3, <2>3 DEF Duplicate, Pending, Of
    <3>2. CASE j \in DOMAIN rows /\ k \in DOMAIN rows
      BY <2>3, <3>2 DEF OnePendingPerEmail
    <3>3. CASE j = n \/ k = n
      BY <2>3, <3>1, <3>3
    <3>4. QED
      BY <2>3, <3>2, <3>3
  <2>11. NoPhantomAttempts'
    BY <1>1, <2>3, <2>4 DEF NoPhantomAttempts, Told
  <2>12. LiveCodeHasAttemptsLeft'
    BY <1>1, <2>3, LimitsAssumption DEF LiveCodeHasAttemptsLeft
  <2>13. QED
    BY <2>5, <2>6, <2>7, <2>8, <2>9, <2>10, <2>11, <2>12
<1>4. QED
  BY <1>2, <1>3

\* What VerifyEmail and ResetPassword may hold after reading a PENDING row.
LEMMA CheckedCopyOfRow ==
    ASSUME TableInv, NEW i \in DOMAIN rows, rows[i].status = "PENDING", NEW match \in BOOLEAN,
           NEW c, c = IF IsExpired(rows[i]) THEN Expire(rows[i]) ELSE Attempt(rows[i], match)
    PROVE  /\ c \in Row
           /\ c.email = rows[i].email
           /\ c.attempts <= Told(i) + IF c.status = "EXPIRED" THEN 0 ELSE 1
           /\ c.status = "PENDING" => c.attempts < MaxAttempts
<1>1. rows[i] \in Row /\ Told(i) \in Nat /\ rows[i].attempts \in Nat /\ now \in Nat
  BY TableTypes DEF TableInv, TypeOK
<1>2. rows[i].attempts <= Told(i)
  BY DEF TableInv, NoPhantomAttempts
<1>3. QED
  BY <1>1, <1>2, CheckedCopyFacts

\* What a handler that is about to save holds.
LEMMA HeldRowFacts ==
    ASSUME TableInv, NEW p \in Handlers, HoldsRow(p), NEW i, i = on[p], NEW r, r = copy[p]
    PROVE  /\ i \in DOMAIN rows /\ r \in Row /\ r.attempts \in Nat
           /\ r.email = rows[i].email
           /\ r.attempts <= Told(i) + IF pc[p] \in {"expire", "link"} \/ r.status = "EXPIRED"
                                      THEN 0 ELSE 1
<1>1. r \in Row
  BY DEF TableInv, TypeOK
<1>2. QED
  BY <1>1 DEF TableInv, HeldInv, CopyInv, CopyOk, Row

\* A save that ends the call and answers the client (VerifyEmail, ResetPassword).
LEMMA AnsweredSaveKeepsTableInv ==
    ASSUME TableInv, now' \in Nat, NEW p \in Handlers, pc[p] \in {"commit", "save"},
           NEW i, i = on[p], NEW r, r = copy[p],
           Update(i, r), Answer(i, r), Return(p),
           r.status = "PENDING" => Pending(r.email) \subseteq {i},
           \A v \in Verifiers : pc[v] = "commit" /\ on[v] = i => v = p
    PROVE  TableInv'
<1>1. /\ i \in DOMAIN rows /\ r \in Row /\ r.attempts \in Nat
      /\ r.email = rows[i].email
      /\ r.attempts <= Told(i) + IF r.status = "EXPIRED" THEN 0 ELSE 1
  BY HeldRowFacts DEF HoldsRow
<1>2. r.status = "PENDING" => r.attempts < MaxAttempts
  BY DEF TableInv, CopyInv, CopyOk
<1>3. /\ tally' \in Seq(Tally) /\ Len(tally') = Len(tally)
      /\ \A j \in DOMAIN rows :
            Told(j) \in Nat /\ Told(j)' \in Nat /\ Told(j) <= Told(j)'
      /\ r.status # "EXPIRED" => Told(i)' = Told(i) + 1
  BY <1>1, AnswerFacts DEF TableInv
<1>4. r.attempts <= Told(i)'
  BY <1>1, <1>3
<1>5. Await(p, "idle", 0, Blank)
  BY DEF Return
<1>6. QED
  BY <1>1, <1>2, <1>3, <1>4, <1>5, BlankType, WriteKeepsTableInv

\* A save that leaves the history alone: RequestExpire and LinkSave.
LEMMA SilentSaveKeepsTableInv ==
    ASSUME TableInv, now' \in Nat, NEW p \in Handlers, pc[p] \in {"expire", "link"},
           NEW i, i = on[p], NEW r, r = copy[p],
           Update(i, r), tally' = tally, ~Locked(i),
           NEW call \in {"idle", "count"}, NEW c \in Row, Await(p, call, 0, c),
           call = "count" => p \in Requesters /\ c.status = "PENDING" /\ c.attempts = 0
    PROVE  TableInv'
<1>1. /\ i \in DOMAIN rows /\ r \in Row /\ r.attempts \in Nat
      /\ r.email = rows[i].email /\ r.attempts <= Told(i)
  <2>1. Told(on[p]) \in Nat
    BY HeldRowFacts, TableTypes DEF TableInv, HoldsRow
  <2>2. QED
    BY <2>1, HeldRowFacts DEF HoldsRow
<1>2. r.status # "PENDING"
  BY DEF TableInv, CopyInv, CopyOk
<1>3. /\ tally' \in Seq(Tally) /\ Len(tally') = Len(tally)
      /\ \A j \in DOMAIN rows :
            Told(j) \in Nat /\ Told(j)' \in Nat /\ Told(j) <= Told(j)'
      /\ r.attempts <= Told(i)'
  <2>1. \A j \in DOMAIN rows : Told(j)' = Told(j)
    BY DEF Told
  <2>2. QED
    BY <1>1, <2>1, TableTypes DEF TableInv
<1>4. \A v \in Verifiers : pc[v] = "commit" /\ on[v] = i => v = p
  BY DEF Locked
<1>5. QED
  BY <1>1, <1>2, <1>3, <1>4, WriteKeepsTableInv

-----------------------------------------------------------------------------
(* Every step of every handler.                                            *)

LEMMA InitTableInv == Init => TableInv
<1> SUFFICES ASSUME Init PROVE TableInv
  OBVIOUS
<1>1. rows = <<>> /\ tally = <<>> /\ \A p \in Handlers : pc[p] = "idle"
  BY DEF Init
<1>2. TypeOK
  BY <1>1, BlankType DEF Init, TypeOK, Pc
<1>3. KindInv /\ HeldInv /\ CopyInv /\ LockInv
  BY <1>1 DEF KindInv, HeldInv, CopyInv, CopyOk, LockInv, HoldsRow, Handlers
<1>4. OnePendingPerEmail /\ NoPhantomAttempts /\ LiveCodeHasAttemptsLeft
  BY <1>1 DEF OnePendingPerEmail, NoPhantomAttempts, LiveCodeHasAttemptsLeft
<1>5. QED
  BY <1>2, <1>3, <1>4 DEF TableInv

\* RequestEmailVerification.
LEMMA RequestKeepsTableInv ==
    ASSUME TableInv, NEW p \in Requesters,
           \/ \E e \in Emails : RequestFindLatest(p, e)
           \/ RequestStep(p)
    PROVE  TableInv'
<1>1. /\ p \in Handlers /\ p \notin Verifiers /\ p \notin Resetters /\ p \notin Linkers
      /\ TypeOK /\ now \in Nat /\ copy[p] \in Row /\ copy[p].email \in Emails
  BY HandlersAssumption DEF TableInv, TypeOK, Handlers, Row
<1>2. \A e \in Emails, t \in Nat :
         /\ NewRow(e, t) \in Row
         /\ NewRow(e, t).status = "PENDING" /\ NewRow(e, t).attempts = 0
  BY NewRowType DEF NewRow
<1>3. ASSUME NEW e \in Emails, RequestFindLatest(p, e)  PROVE TableInv'
  <2>1. now' \in Nat /\ UNCHANGED <<rows, tally>>
    BY <1>1, <1>3 DEF RequestFindLatest
  <2>2. CASE Await(p, "count", 0, NewRow(e, 0))
    BY <1>1, <1>2, <2>1, <2>2, ReadKeepsTableInv DEF Pc
  <2>3. CASE \E i \in DOMAIN rows : Await(p, "expire", i, Expire(rows[i]))
    <3>1. PICK i \in DOMAIN rows : Await(p, "expire", i, Expire(rows[i]))
      BY <2>3
    <3>2. /\ rows[i] \in Row /\ i \in Nat /\ rows[i].attempts <= Told(i)
          /\ rows[i].attempts \in Nat /\ Told(i) \in Nat
      BY <1>1, TableTypes DEF TableInv, NoPhantomAttempts
    <3>3. PICK r \in Row : /\ r = Expire(rows[i]) /\ r.status = "EXPIRED"
                          /\ r.email = rows[i].email /\ r.attempts <= Told(i)
      BY <3>2, ExpireFacts
    <3>4. QED
      BY <1>1, <2>1, <3>1, <3>2, <3>3, ReadKeepsTableInv DEF Pc
  <2>4. QED
    BY <1>3, <2>2, <2>3 DEF RequestFindLatest, LatestIds, Of
<1>4. CASE RequestExpire(p)
  <2>1. PICK i, r : i = on[p] /\ r = copy[p]
    OBVIOUS
  <2>2. NewRow(r.email, 0) \in Row /\ now' \in Nat
    BY <1>1, <1>2, <1>4, <2>1 DEF RequestExpire
  <2>3. PICK c \in Row : c = NewRow(r.email, 0) /\ c.status = "PENDING" /\ c.attempts = 0
    BY <2>2 DEF NewRow
  <2>4. /\ pc[p] = "expire" /\ Update(i, r) /\ tally' = tally /\ ~Locked(i)
        /\ Await(p, "count", 0, c)
    BY <1>4, <2>1, <2>3 DEF RequestExpire
  <2>5. QED
    BY <1>1, <2>1, <2>2, <2>3, <2>4, SilentSaveKeepsTableInv
<1>5. CASE RequestCount(p)
  <2>1. copy[p].status = "PENDING" /\ copy[p].attempts = 0
    BY <1>1, <1>5 DEF RequestCount, TableInv, CopyInv, CopyOk
  <2>2. now' \in Nat /\ UNCHANGED <<rows, tally>>
    BY <1>1, <1>5 DEF RequestCount
  <2>3. CASE Await(p, "send", 0, copy[p])
    BY <1>1, <2>1, <2>2, <2>3, ReadKeepsTableInv DEF Pc
  <2>4. CASE Await(p, "idle", 0, Blank)
    BY <1>1, <2>2, <2>4, BlankType, ReadKeepsTableInv DEF Pc
  <2>5. QED
    BY <1>5, <2>3, <2>4 DEF RequestCount, Return
<1>6. CASE RequestSendOtp(p)
  <2>1. now' \in Nat /\ UNCHANGED <<rows, tally>>
        /\ Await(p, "insert", 0, NewRow(copy[p].email, now))
    BY <1>1, <1>6 DEF RequestSendOtp
  <2>2. QED
    BY <1>1, <1>2, <2>1, ReadKeepsTableInv DEF Pc
<1>7. CASE RequestInsert(p)
  BY <1>7, InsertKeepsTableInv DEF RequestInsert
<1>8. QED
  BY <1>3, <1>4, <1>5, <1>6, <1>7 DEF RequestStep

\* VerifyEmail: the row is locked from the read to the commit.
LEMMA VerifyKeepsTableInv ==
    ASSUME TableInv, NEW p \in Verifiers,
           \/ \E e \in Emails, match \in BOOLEAN : VerifyLock(p, e, match)
           \/ VerifyCommit(p)
    PROVE  TableInv'
<1>1. /\ p \in Handlers /\ p \notin Requesters /\ p \notin Resetters /\ p \notin Linkers
      /\ TypeOK /\ now \in Nat
  BY HandlersAssumption DEF TableInv, TypeOK, Handlers
<1>2. ASSUME NEW e \in Emails, NEW match \in BOOLEAN, VerifyLock(p, e, match)
      PROVE  TableInv'
  <2>1. PICK i \in DOMAIN rows :
          /\ rows[i].status = "PENDING" /\ ~Locked(i)
          /\ Await(p, "commit", i, IF IsExpired(rows[i]) THEN Expire(rows[i])
                                                         ELSE Attempt(rows[i], match))
    BY <1>2 DEF VerifyLock, Pending, Of
  <2>2. PICK c : c = IF IsExpired(rows[i]) THEN Expire(rows[i]) ELSE Attempt(rows[i], match)
    OBVIOUS
  <2>3. /\ i \in Nat /\ c \in Row /\ c.email = rows[i].email
        /\ c.attempts <= Told(i) + IF c.status = "EXPIRED" THEN 0 ELSE 1
        /\ c.status = "PENDING" => c.attempts < MaxAttempts
    BY <1>1, <2>1, <2>2, CheckedCopyOfRow, TableTypes
  <2>4. now' \in Nat /\ UNCHANGED <<rows, tally>>
    BY <1>1, <1>2 DEF VerifyLock
  <2>5. QED
    BY <1>1, <2>1, <2>2, <2>3, <2>4, ReadKeepsTableInv DEF Pc
<1>3. CASE VerifyCommit(p)
  <2>1. PICK i, r : i = on[p] /\ r = copy[p]
    OBVIOUS
  <2>2. /\ pc[p] = "commit" /\ Update(i, r) /\ Answer(i, r) /\ Return(p) /\ now' \in Nat
    BY <1>1, <1>3, <2>1 DEF VerifyCommit
  <2>3. \A v \in Verifiers : pc[v] = "commit" /\ on[v] = i => v = p
    BY <2>1, <2>2 DEF TableInv, LockInv
  <2>4. Pending(r.email) \subseteq {i}
    <3>1. i \in DOMAIN rows /\ r.email = rows[i].email
      BY <1>1, <2>1, <2>2, HeldRowFacts DEF HoldsRow
    <3>2. rows[i].status = "PENDING"
      BY <2>1, <2>2 DEF TableInv, LockInv
    <3>3. QED
      BY <3>1, <3>2 DEF TableInv, OnePendingPerEmail, Pending, Of
  <2>5. QED
    BY <1>1, <2>1, <2>2, <2>3, <2>4, AnsweredSaveKeepsTableInv
<1>4. QED
  BY <1>2, <1>3

\* ResetPassword: an unlocked read, and a save the unique index may refuse.
LEMMA ResetKeepsTableInv ==
    ASSUME TableInv, NEW p \in Resetters,
           \/ \E i \in 1 .. MaxRows, match \in BOOLEAN : ResetFind(p, i, match)
           \/ ResetSave(p)
    PROVE  TableInv'
<1>1. /\ p \in Handlers /\ p \notin Requesters /\ p \notin Verifiers /\ p \notin Linkers
      /\ TypeOK /\ now \in Nat
  BY HandlersAssumption DEF TableInv, TypeOK, Handlers
<1>2. ASSUME NEW i \in 1 .. MaxRows, NEW match \in BOOLEAN, ResetFind(p, i, match)
      PROVE  TableInv'
  <2>1. /\ i \in DOMAIN rows /\ rows[i].status = "PENDING"
        /\ Await(p, "save", i, IF IsExpired(rows[i]) THEN Expire(rows[i])
                                                     ELSE Attempt(rows[i], match))
        /\ now' \in Nat /\ UNCHANGED <<rows, tally>>
    BY <1>1, <1>2 DEF ResetFind
  <2>2. PICK c : c = IF IsExpired(rows[i]) THEN Expire(rows[i]) ELSE Attempt(rows[i], match)
    OBVIOUS
  <2>3. /\ i \in Nat /\ c \in Row /\ c.email = rows[i].email
        /\ c.attempts <= Told(i) + IF c.status = "EXPIRED" THEN 0 ELSE 1
        /\ c.status = "PENDING" => c.attempts < MaxAttempts
    BY <1>1, <2>1, <2>2, CheckedCopyOfRow, TableTypes
  <2>4. QED
    BY <1>1, <2>1, <2>2, <2>3, ReadKeepsTableInv DEF Pc
<1>3. CASE ResetSave(p)
  <2>1. PICK i, r : i = on[p] /\ r = copy[p]
    OBVIOUS
  <2>2. pc[p] = "save" /\ ~Locked(i) /\ Return(p) /\ now' \in Nat
    BY <1>1, <1>3, <2>1 DEF ResetSave
  <2>3. CASE Duplicate(r, i)
    <3>1. Await(p, "idle", 0, Blank) /\ UNCHANGED <<rows, tally>>
      BY <1>3, <2>1, <2>3 DEF ResetSave, Return
    <3>2. QED
      BY <1>1, <2>2, <3>1, BlankType, ReadKeepsTableInv DEF Pc
  <2>4. CASE ~Duplicate(r, i)
    <3>1. Update(i, r) /\ Answer(i, r)
      BY <1>3, <2>1, <2>4 DEF ResetSave
    <3>2. r.status = "PENDING" => Pending(r.email) \subseteq {i}
      BY <2>4 DEF Duplicate
    <3>3. \A v \in Verifiers : pc[v] = "commit" /\ on[v] = i => v = p
      BY <2>2 DEF Locked
    <3>4. QED
      BY <1>1, <2>1, <2>2, <3>1, <3>2, <3>3, AnsweredSaveKeepsTableInv
  <2>5. QED
    BY <2>3, <2>4
<1>4. QED
  BY <1>2, <1>3

\* RegisterSaga's guard and sub-step 1a.
LEMMA LinkKeepsTableInv ==
    ASSUME TableInv, NEW p \in Linkers,
           (\E i \in 1 .. MaxRows : LinkFind(p, i)) \/ LinkSave(p)
    PROVE  TableInv'
<1>1. /\ p \in Handlers /\ p \notin Requesters /\ p \notin Verifiers /\ p \notin Resetters
      /\ TypeOK /\ now \in Nat
  BY HandlersAssumption DEF TableInv, TypeOK, Handlers
<1>2. ASSUME NEW i \in 1 .. MaxRows, LinkFind(p, i)  PROVE TableInv'
  <2>1. /\ i \in DOMAIN rows /\ rows[i].status = "USED"
        /\ Await(p, "link", i, LinkToIdentity(rows[i]))
        /\ now' \in Nat /\ UNCHANGED <<rows, tally>>
    BY <1>1, <1>2 DEF LinkFind
  <2>2. /\ rows[i] \in Row /\ i \in Nat /\ rows[i].attempts <= Told(i)
        /\ rows[i].attempts \in Nat /\ Told(i) \in Nat
    BY <1>1, <2>1, TableTypes DEF TableInv, NoPhantomAttempts
  <2>3. PICK r \in Row : /\ r = LinkToIdentity(rows[i]) /\ r.status = "USED"
                        /\ r.email = rows[i].email /\ r.attempts <= Told(i)
    BY <2>1, <2>2, LinkFacts
  <2>4. QED
    BY <1>1, <2>1, <2>2, <2>3, ReadKeepsTableInv DEF Pc
<1>3. CASE LinkSave(p)
  <2>1. PICK i, r : i = on[p] /\ r = copy[p]
    OBVIOUS
  <2>2. /\ pc[p] = "link" /\ Update(i, r) /\ tally' = tally /\ ~Locked(i)
        /\ Await(p, "idle", 0, Blank) /\ now' \in Nat
    BY <1>1, <1>3, <2>1 DEF LinkSave, Return
  <2>3. QED
    BY <1>1, <2>1, <2>2, BlankType, SilentSaveKeepsTableInv
<1>4. QED
  BY <1>2, <1>3

\* The invariant of the table is inductive under every handler, failures and
\* the clock included.
LEMMA NextTableInv == TableInv /\ [Next]_vars => TableInv'
<1> SUFFICES ASSUME TableInv, [Next]_vars PROVE TableInv'
  OBVIOUS
<1>1. CASE \E p \in Requesters : (\E e \in Emails : RequestFindLatest(p, e)) \/ RequestStep(p)
  BY <1>1, RequestKeepsTableInv
<1>2. CASE \E p \in Verifiers :
        (\E e \in Emails, match \in BOOLEAN : VerifyLock(p, e, match)) \/ VerifyCommit(p)
  BY <1>2, VerifyKeepsTableInv
<1>3. CASE \E p \in Resetters :
        (\E i \in 1 .. MaxRows, match \in BOOLEAN : ResetFind(p, i, match)) \/ ResetSave(p)
  BY <1>3, ResetKeepsTableInv
<1>4. CASE \E p \in Linkers : (\E i \in 1 .. MaxRows : LinkFind(p, i)) \/ LinkSave(p)
  BY <1>4, LinkKeepsTableInv
<1>5. CASE \E p \in Handlers : Fail(p)
  <2>1. PICK p \in Handlers : Fail(p)
    BY <1>5
  <2>2. Await(p, "idle", 0, Blank) /\ now' \in Nat /\ UNCHANGED <<rows, tally>>
    BY <2>1 DEF Fail, Return, TableInv, TypeOK
  <2>3. QED
    BY <2>2, BlankType, ReadKeepsTableInv DEF Pc
<1>6. CASE Tick \/ UNCHANGED vars
  <2>1. now' \in Nat /\ UNCHANGED <<rows, tally, pc, on, copy>>
    BY <1>6 DEF Tick, vars, TableInv, TypeOK
  <2>2. QED
    BY <2>1 DEF TableInv, TypeOK, KindInv, HeldInv, CopyInv, CopyOk, LockInv, HoldsRow, Told,
                OnePendingPerEmail, NoPhantomAttempts, LiveCodeHasAttemptsLeft
<1>7. QED
  BY <1>1, <1>2, <1>3, <1>4, <1>5, <1>6 DEF Next

LEMMA TableInvariant == Spec => []TableInv
BY InitTableInv, NextTableInv, PTL DEF Spec

\* The variables keep their types.
THEOREM TypeCorrect == Spec => []TypeOK
BY TableInvariant, PTL DEF TableInv

\* For any number of addresses and concurrent handlers of every kind, an address
\* has at most one PENDING row: the unique partial index together with the row
\* lock leaves no save that could revive a second one.
THEOREM OnePending == Spec => []OnePendingPerEmail
BY TableInvariant, PTL DEF TableInv

\* No stale save, from any handler, charges more attempts than were answered.
THEOREM NoPhantoms == Spec => []NoPhantomAttempts
BY TableInvariant, PTL DEF TableInv

\* No save leaves a live code with its attempts exhausted.
THEOREM AttemptsLeft == Spec => []LiveCodeHasAttemptsLeft
BY TableInvariant, PTL DEF TableInv

-----------------------------------------------------------------------------
(* The row-locked protocol: without ResetPassword calls on the table.      *)

\* A step that writes no row keeps CodeInv, if what it takes in hand is right.
LEMMA ReadKeepsCodeInv ==
    ASSUME TableInv, CodeInv, UNCHANGED <<rows, tally>>,
           NEW p \in Handlers, NEW call, NEW i, NEW r, Await(p, call, i, r),
           p \in Verifiers /\ call = "commit" /\ r.status # "EXPIRED" =>
               /\ r.attempts = rows[i].attempts + 1
               /\ r.status = "BLOCKED" => r.attempts >= MaxAttempts,
           p \in Linkers /\ call = "link" => rows[i].status # "PENDING"
    PROVE  CodeInv'
<1>1. /\ pc'[p] = call /\ on'[p] = i /\ copy'[p] = r
      /\ \A q \in Handlers \ {p} :
            pc'[q] = pc[q] /\ on'[q] = on[q] /\ copy'[q] = copy[q]
  BY DEF Await, TableInv, TypeOK
<1>2. QED
  BY <1>1 DEF CodeInv, Handlers

\* A save of row i keeps CodeInv if no other transaction has locked it, the row
\* it leaves satisfies CodeInv, and it revives no dead code.
LEMMA WriteKeepsCodeInv ==
    ASSUME TableInv, CodeInv,
           NEW i \in DOMAIN rows, NEW r \in Row, Update(i, r),
           \A j \in DOMAIN rows \ {i} : tally'[j] = tally[j],
           rows[i].status # "PENDING" => r.status # "PENDING",
           IF r.status = "PENDING"
           THEN tally'[i].used = 0 /\ tally'[i].wrong = r.attempts
           ELSE /\ tally'[i].wrong <= MaxAttempts
                /\ tally'[i].used <= 1
                /\ tally'[i].used = 1 => tally'[i].wrong < MaxAttempts,
           NEW p \in Handlers, NEW call \in {"idle", "count"}, NEW c, Await(p, call, 0, c),
           \A v \in Verifiers : pc[v] = "commit" /\ on[v] = i => v = p
    PROVE  CodeInv'
<1>1. /\ pc'[p] = call
      /\ \A q \in Handlers \ {p} :
            pc'[q] = pc[q] /\ on'[q] = on[q] /\ copy'[q] = copy[q]
  BY DEF Await, TableInv, TypeOK
<1>2. /\ DOMAIN rows' = DOMAIN rows /\ rows'[i] = r
      /\ \A j \in DOMAIN rows \ {i} : rows'[j] = rows[j]
  BY UpdateFacts DEF TableInv
<1>3. \A j \in DOMAIN rows' :
         IF rows'[j].status = "PENDING"
         THEN tally'[j].used = 0 /\ tally'[j].wrong = rows'[j].attempts
         ELSE /\ tally'[j].wrong <= MaxAttempts
              /\ tally'[j].used <= 1
              /\ tally'[j].used = 1 => tally'[j].wrong < MaxAttempts
  <2> TAKE j \in DOMAIN rows'
  <2>1. CASE j = i
    BY <1>2, <2>1
  <2>2. CASE j # i
    BY <1>2, <2>2 DEF CodeInv
  <2>3. QED
    BY <2>1, <2>2
<1>4. \A v \in Verifiers :
         pc'[v] = "commit" /\ copy'[v].status # "EXPIRED" =>
            /\ copy'[v].attempts = rows'[on'[v]].attempts + 1
            /\ copy'[v].status = "BLOCKED" => copy'[v].attempts >= MaxAttempts
  <2> SUFFICES ASSUME NEW v \in Verifiers, pc'[v] = "commit"
               PROVE  /\ pc[v] = "commit" /\ on'[v] = on[v] /\ copy'[v] = copy[v]
                      /\ rows'[on[v]] = rows[on[v]]
    BY DEF CodeInv
  <2>1. v \in Handlers \ {p}
    BY <1>1 DEF Handlers
  <2>2. pc[v] = "commit" /\ on'[v] = on[v] /\ copy'[v] = copy[v]
    BY <1>1, <2>1
  <2>3. on[v] \in DOMAIN rows \ {i}
    BY <2>1, <2>2 DEF TableInv, HeldInv, HoldsRow
  <2>4. QED
    BY <1>2, <2>2, <2>3
<1>5. \A l \in Linkers : pc'[l] = "link" => rows'[on'[l]].status # "PENDING"
  <2> SUFFICES ASSUME NEW l \in Linkers, pc'[l] = "link"
               PROVE  rows'[on'[l]].status # "PENDING"
    OBVIOUS
  <2>1. l \in Handlers \ {p} /\ pc[l] = "link" /\ on'[l] = on[l]
    BY <1>1 DEF Handlers
  <2>2. on[l] \in DOMAIN rows /\ rows[on[l]].status # "PENDING"
    BY <2>1 DEF TableInv, HeldInv, HoldsRow, CodeInv
  <2>3. QED
    BY <1>2, <2>1, <2>2
<1>6. QED
  BY <1>3, <1>4, <1>5 DEF CodeInv

\* What CodeInv says of a dead row, for a row that dies with its counts as they are.
LEMMA DeadRowCounts ==
    ASSUME TableInv, CodeInv, NEW i \in DOMAIN rows
    PROVE  /\ tally[i].wrong <= MaxAttempts
           /\ tally[i].used <= 1
           /\ tally[i].used = 1 => tally[i].wrong < MaxAttempts
<1>1. /\ tally[i].wrong \in Nat /\ tally[i].used \in Nat /\ rows[i].attempts \in Nat
      /\ MaxAttempts \in Nat
  BY TableTypes, LimitsAssumption DEF TableInv
<1>2. rows[i].status = "PENDING" => rows[i].attempts < MaxAttempts
  BY DEF TableInv, LiveCodeHasAttemptsLeft
<1>3. QED
  BY <1>1, <1>2 DEF CodeInv

LEMMA VerifyCommitKeepsCodeInv ==
    ASSUME TableInv, CodeInv, NEW p \in Verifiers, VerifyCommit(p)
    PROVE  CodeInv'
<1>1. PICK i, r : i = on[p] /\ r = copy[p]
  OBVIOUS
<1>2. /\ p \in Handlers /\ pc[p] = "commit" /\ HoldsRow(p) /\ TypeOK
      /\ Update(i, r) /\ Answer(i, r) /\ Await(p, "idle", 0, Blank)
  BY <1>1 DEF VerifyCommit, Return, Handlers, HoldsRow, TableInv
<1>3. /\ i \in DOMAIN rows /\ r \in Row /\ rows[i].status = "PENDING"
      /\ r.attempts \in Nat /\ rows[i].attempts \in Nat
      /\ tally[i] \in Tally /\ tally[i].wrong = rows[i].attempts /\ tally[i].used = 0
      /\ rows[i].attempts < MaxAttempts /\ MaxAttempts \in Nat
  <2>1. i \in DOMAIN rows /\ r \in Row /\ r.attempts \in Nat
    BY <1>1, <1>2, HeldRowFacts
  <2>2. rows[i].status = "PENDING"
    BY <1>1, <1>2 DEF TableInv, LockInv
  <2>3. QED
    BY <1>2, <2>1, <2>2, TableTypes, LimitsAssumption
       DEF TableInv, CodeInv, LiveCodeHasAttemptsLeft
<1>4. /\ r.status # "EXPIRED" => r.attempts = rows[i].attempts + 1
      /\ r.status = "BLOCKED" => r.attempts >= MaxAttempts
      /\ r.status = "PENDING" => r.attempts < MaxAttempts
  BY <1>1, <1>2 DEF CodeInv, TableInv, CopyInv, CopyOk
<1>5. /\ tally'[i] = Counted(tally[i], r)
      /\ \A j \in DOMAIN rows \ {i} : tally'[j] = tally[j]
  BY <1>2, <1>3, AnswerFacts
<1>6. IF r.status = "PENDING"
      THEN tally'[i].used = 0 /\ tally'[i].wrong = r.attempts
      ELSE /\ tally'[i].wrong <= MaxAttempts
           /\ tally'[i].used <= 1
           /\ tally'[i].used = 1 => tally'[i].wrong < MaxAttempts
  <2>1. r.status \in {"PENDING", "USED", "EXPIRED", "BLOCKED"}
    BY <1>3 DEF Row, Status
  <2>2. CASE r.status \in {"PENDING", "BLOCKED"}
    BY <1>3, <1>4, <1>5, <2>2, CountedFacts
  <2>3. CASE r.status \in {"USED", "EXPIRED"}
    BY <1>3, <1>5, <2>3, CountedFacts
  <2>4. QED
    BY <2>1, <2>2, <2>3
<1>7. \A v \in Verifiers : pc[v] = "commit" /\ on[v] = i => v = p
  BY <1>1, <1>2 DEF TableInv, LockInv
<1>8. QED
  BY <1>2, <1>3, <1>5, <1>6, <1>7, WriteKeepsCodeInv

LEMMA RequestKeepsCodeInv ==
    ASSUME TableInv, CodeInv, NEW p \in Requesters,
           \/ \E e \in Emails : RequestFindLatest(p, e)
           \/ RequestStep(p)
    PROVE  CodeInv'
<1>1. p \in Handlers /\ p \notin Verifiers /\ p \notin Linkers /\ TypeOK
  BY HandlersAssumption DEF TableInv, Handlers
<1>2. CASE \/ \E e \in Emails : RequestFindLatest(p, e)
           \/ RequestCount(p) \/ RequestSendOtp(p)
  <2>1. UNCHANGED <<rows, tally>> /\ \E call, i, r : Await(p, call, i, r)
    BY <1>2 DEF RequestFindLatest, RequestCount, RequestSendOtp, Return
  <2>2. QED
    BY <1>1, <2>1, ReadKeepsCodeInv
<1>3. CASE RequestExpire(p)
  <2>1. PICK i, r : i = on[p] /\ r = copy[p]
    OBVIOUS
  <2>2. /\ pc[p] = "expire" /\ HoldsRow(p) /\ Update(i, r) /\ tally' = tally /\ ~Locked(i)
        /\ \E c : Await(p, "count", 0, c)
    BY <1>3, <2>1 DEF RequestExpire, HoldsRow
  <2>3. i \in DOMAIN rows /\ r \in Row /\ r.status = "EXPIRED"
    BY <1>1, <2>1, <2>2, HeldRowFacts DEF TableInv, CopyInv, CopyOk
  <2>4. \A v \in Verifiers : pc[v] = "commit" /\ on[v] = i => v = p
    BY <2>2 DEF Locked
  <2>5. QED
    BY <1>1, <2>2, <2>3, <2>4, DeadRowCounts, WriteKeepsCodeInv
<1>4. CASE RequestInsert(p)
  <2>1. Await(p, "idle", 0, Blank)
    BY <1>4 DEF RequestInsert, Return
  <2>2. CASE UNCHANGED <<rows, tally>>
    BY <1>1, <2>1, <2>2, ReadKeepsCodeInv
  <2>3. CASE /\ rows' = Append(rows, copy[p])
             /\ tally' = Append(tally, [wrong |-> 0, used |-> 0, blockedAt |-> 0])
    <3>1. copy[p] \in Row /\ copy[p].status = "PENDING" /\ copy[p].attempts = 0
      BY <1>1, <1>4 DEF RequestInsert, TableInv, CopyInv, CopyOk, TypeOK
    <3> DEFINE n == Len(rows) + 1
    <3>2. /\ Len(rows) \in Nat /\ DOMAIN rows = 1 .. Len(rows)
          /\ DOMAIN rows' = 1 .. n /\ rows'[n] = copy[p]
          /\ \A j \in DOMAIN rows : rows'[j] = rows[j]
      BY <1>1, <2>3, <3>1 DEF TypeOK
    <3>3. /\ tally'[n] = [wrong |-> 0, used |-> 0, blockedAt |-> 0]
          /\ \A j \in DOMAIN rows : tally'[j] = tally[j]
      BY <1>1, <2>3, <3>2 DEF TypeOK
    <3>4. /\ pc'[p] = "idle"
          /\ \A q \in Handlers \ {p} :
                pc'[q] = pc[q] /\ on'[q] = on[q] /\ copy'[q] = copy[q]
      BY <1>1, <2>1 DEF Await, TypeOK
    <3>5. \A q \in Handlers : HoldsRow(q) => on[q] \in DOMAIN rows
      BY DEF TableInv, HeldInv
    <3>6. \A j \in DOMAIN rows' :
             IF rows'[j].status = "PENDING"
             THEN tally'[j].used = 0 /\ tally'[j].wrong = rows'[j].attempts
             ELSE /\ tally'[j].wrong <= MaxAttempts
                  /\ tally'[j].used <= 1
                  /\ tally'[j].used = 1 => tally'[j].wrong < MaxAttempts
      BY <3>1, <3>2, <3>3 DEF CodeInv
    <3>7. \A v \in Verifiers :
             pc'[v] = "commit" /\ copy'[v].status # "EXPIRED" =>
                /\ copy'[v].attempts = rows'[on'[v]].attempts + 1
                /\ copy'[v].status = "BLOCKED" => copy'[v].attempts >= MaxAttempts
      BY <1>1, <3>2, <3>4, <3>5 DEF CodeInv, Handlers, HoldsRow
    <3>8. \A l \in Linkers : pc'[l] = "link" => rows'[on'[l]].status # "PENDING"
      BY <1>1, <3>2, <3>4, <3>5 DEF CodeInv, Handlers, HoldsRow
    <3>9. QED
      BY <3>6, <3>7, <3>8 DEF CodeInv
  <2>4. QED
    BY <1>4, <2>2, <2>3 DEF RequestInsert
<1>5. QED
  BY <1>2, <1>3, <1>4 DEF RequestStep

LEMMA NextCodeInv ==
    ASSUME Resetters = {}, TableInv, CodeInv, [Next]_vars
    PROVE  CodeInv'
<1>1. CASE \E p \in Requesters : (\E e \in Emails : RequestFindLatest(p, e)) \/ RequestStep(p)
  BY <1>1, RequestKeepsCodeInv
<1>2. ASSUME NEW p \in Verifiers, NEW e \in Emails, NEW match \in BOOLEAN, VerifyLock(p, e, match)
      PROVE  CodeInv'
  <2>1. PICK i \in DOMAIN rows :
          Await(p, "commit", i, IF IsExpired(rows[i]) THEN Expire(rows[i])
                                                     ELSE Attempt(rows[i], match))
    BY <1>2 DEF VerifyLock, Pending, Of
  <2>2. PICK c : c = IF IsExpired(rows[i]) THEN Expire(rows[i]) ELSE Attempt(rows[i], match)
    OBVIOUS
  <2>3. c.status # "EXPIRED" =>
          /\ c.attempts = rows[i].attempts + 1
          /\ c.status = "BLOCKED" => c.attempts >= MaxAttempts
    <3>1. rows[i] \in Row /\ now \in Nat
      BY TableTypes DEF TableInv, TypeOK
    <3>2. CASE IsExpired(rows[i])
      BY <2>2, <3>1, <3>2, ExpireFacts
    <3>3. CASE ~IsExpired(rows[i])
      BY <2>2, <3>1, <3>3, AttemptFacts DEF Outcome
    <3>4. QED
      BY <3>2, <3>3
  <2>4. p \in Handlers /\ p \notin Linkers /\ UNCHANGED <<rows, tally>>
    BY <1>2, HandlersAssumption DEF VerifyLock, Handlers
  <2>5. QED
    BY <2>1, <2>2, <2>3, <2>4, ReadKeepsCodeInv
<1>3. CASE \E p \in Verifiers : VerifyCommit(p)
  BY <1>3, VerifyCommitKeepsCodeInv
<1>4. ASSUME NEW p \in Linkers, NEW i \in 1 .. MaxRows, LinkFind(p, i)  PROVE CodeInv'
  <2>1. /\ p \in Handlers /\ p \notin Verifiers /\ UNCHANGED <<rows, tally>>
        /\ rows[i].status # "PENDING"
        /\ Await(p, "link", i, LinkToIdentity(rows[i]))
    BY <1>4, HandlersAssumption DEF LinkFind, Handlers
  <2>2. QED
    BY <2>1, ReadKeepsCodeInv
<1>5. ASSUME NEW p \in Linkers, LinkSave(p)  PROVE CodeInv'
  <2>1. PICK i, r : i = on[p] /\ r = copy[p]
    OBVIOUS
  <2>2. /\ p \in Handlers /\ pc[p] = "link" /\ HoldsRow(p) /\ Update(i, r) /\ tally' = tally
        /\ ~Locked(i) /\ Await(p, "idle", 0, Blank)
    BY <1>5, <2>1 DEF LinkSave, Return, HoldsRow, Handlers
  <2>3. i \in DOMAIN rows /\ r \in Row /\ r.status = "USED"
    BY <2>1, <2>2, HeldRowFacts DEF TableInv, CopyInv, CopyOk
  <2>4. \A v \in Verifiers : pc[v] = "commit" /\ on[v] = i => v = p
    BY <2>2 DEF Locked
  <2>5. QED
    BY <2>2, <2>3, <2>4, DeadRowCounts, WriteKeepsCodeInv
<1>6. CASE \E p \in Handlers : Fail(p)
  <2>1. PICK p \in Handlers : Await(p, "idle", 0, Blank) /\ UNCHANGED <<rows, tally>>
    BY <1>6 DEF Fail, Return
  <2>2. QED
    BY <2>1, ReadKeepsCodeInv
<1>7. CASE Tick \/ UNCHANGED vars
  BY <1>7 DEF Tick, vars, CodeInv
<1>8. QED
  BY <1>1, <1>2, <1>3, <1>4, <1>5, <1>6, <1>7 DEF Next

LEMMA CodeInvariant == ASSUME Resetters = {} PROVE Spec => [](TableInv /\ CodeInv)
<1>1. Init => TableInv /\ CodeInv
  <2>1. Init => CodeInv
    BY DEF Init, CodeInv, Handlers
  <2>2. QED
    BY <2>1, InitTableInv
<1>2. TableInv /\ CodeInv /\ [Next]_vars => (TableInv /\ CodeInv)'
  BY NextTableInv, NextCodeInv
<1>3. QED
  BY <1>1, <1>2, PTL DEF Spec

\* Without ResetPassword, no interleaving of requests, verifications and links
\* lets a code answer more than MAX_ATTEMPTS wrong guesses.
THEOREM GuessesLimited == ASSUME Resetters = {} PROVE Spec => []GuessLimit
<1>1. TableInv /\ CodeInv => GuessLimit
  BY DeadRowCounts DEF GuessLimit
<1>2. QED
  BY <1>1, CodeInvariant, PTL

\* ... nor open the door twice, nor after it was blocked.
THEOREM UsedOnce == ASSUME Resetters = {} PROVE Spec => []SingleUse
<1>1. TableInv /\ CodeInv => SingleUse
  BY DeadRowCounts DEF SingleUse
<1>2. QED
  BY <1>1, CodeInvariant, PTL

-----------------------------------------------------------------------------
(* The row-locked protocol implements OneTimeCode.                         *)

\* The codes are one for each row.
LEMMA CodesFacts ==
    ASSUME TypeOK
    PROVE  /\ AsCodes \in Seq([live: BOOLEAN, wrong: Nat, used: Nat])
           /\ DOMAIN AsCodes = DOMAIN rows
           /\ Len(AsCodes) = Len(rows)
           /\ \A i \in DOMAIN rows :
                /\ AsCodes[i].live <=> rows[i].status = "PENDING"
                /\ AsCodes[i].wrong = tally[i].wrong
                /\ AsCodes[i].used = tally[i].used
<1>1. \A i \in DOMAIN rows : tally[i].wrong \in Nat /\ tally[i].used \in Nat
  BY TableTypes
<1>2. Len(rows) \in Nat /\ DOMAIN rows = 1 .. Len(rows)
  BY DEF TypeOK
<1>3. AsCodes \in [1 .. Len(rows) -> [live: BOOLEAN, wrong: Nat, used: Nat]]
  BY <1>1, <1>2 DEF AsCodes
<1>4. DOMAIN AsCodes = DOMAIN rows
  BY DEF AsCodes
<1>5. \A i \in DOMAIN rows :
        /\ AsCodes[i].live <=> rows[i].status = "PENDING"
        /\ AsCodes[i].wrong = tally[i].wrong
        /\ AsCodes[i].used = tally[i].used
  BY DEF AsCodes
<1>6. AsCodes \in Seq([live: BOOLEAN, wrong: Nat, used: Nat])
  BY <1>2, <1>3, SeqDef
<1>7. Len(AsCodes) = Len(rows)
  BY <1>2, <1>4, <1>6
<1>8. QED
  BY <1>4, <1>5, <1>6, <1>7

\* A save of one row is seen as a change of one code.
LEMMA OneCodeMoves ==
    ASSUME TypeOK, NEW i \in DOMAIN rows, NEW r \in Row, Update(i, r),
           \A j \in DOMAIN rows \ {i} : tally'[j] = tally[j],
           NEW live \in BOOLEAN, live <=> r.status = "PENDING",
           NEW wrong, wrong = tally'[i].wrong, NEW used, used = tally'[i].used
    PROVE  AsCodes' = [AsCodes EXCEPT ![i] = [live |-> live, wrong |-> wrong, used |-> used]]
<1>1. DOMAIN rows' = DOMAIN rows /\ rows'[i] = r
  BY UpdateFacts
<1>2. \A j \in DOMAIN rows \ {i} : rows'[j] = rows[j] /\ tally'[j] = tally[j]
  BY UpdateFacts
<1>3. live = (r.status = "PENDING")
  OBVIOUS
<1>4. QED
  BY <1>1, <1>2, <1>3 DEF AsCodes

\* A code that keeps its life and its counts is the code it was.
LEMMA NoCodeMoves ==
    ASSUME TypeOK, NEW i \in DOMAIN rows, NEW r \in Row, Update(i, r), tally' = tally,
           r.status = "PENDING" <=> rows[i].status = "PENDING"
    PROVE  AsCodes' = AsCodes
<1>1. DOMAIN rows' = DOMAIN rows /\ rows'[i] = r
  BY UpdateFacts
<1>2. \A j \in DOMAIN rows \ {i} : rows'[j] = rows[j]
  BY UpdateFacts
<1>3. \A j \in DOMAIN rows :
        (rows'[j].status = "PENDING") = (rows[j].status = "PENDING")
  BY <1>1, <1>2
<1>4. QED
  BY <1>1, <1>3 DEF AsCodes

CodeStep == [Codes!Next]_AsCodes

LEMMA SilentSaveIsCodeStep ==
    ASSUME TypeOK, NEW i \in DOMAIN rows, NEW r \in Row, Update(i, r), tally' = tally,
           r.status # "PENDING"
    PROVE  CodeStep
<1>1. CASE rows[i].status # "PENDING"
  BY <1>1, NoCodeMoves DEF CodeStep
<1>2. CASE rows[i].status = "PENDING"
  <2>1. AsCodes' = [AsCodes EXCEPT ![i] =
                      [live |-> FALSE, wrong |-> tally[i].wrong, used |-> tally[i].used]]
    BY OneCodeMoves
  <2>2. Codes!Retire(i)
    BY <1>2, <2>1, CodesFacts DEF Codes!Retire, Codes!Becomes
  <2>3. i \in DOMAIN AsCodes
    BY CodesFacts
  <2>4. QED
    BY <2>2, <2>3 DEF CodeStep, Codes!Next
<1>3. QED
  BY <1>1, <1>2

LEMMA VerifyCommitIsCodeStep ==
    ASSUME TableInv, CodeInv, NEW p \in Verifiers, VerifyCommit(p)
    PROVE  CodeStep
<1>1. PICK i, r : i = on[p] /\ r = copy[p]
  OBVIOUS
<1>2. /\ p \in Handlers /\ pc[p] = "commit" /\ HoldsRow(p) /\ TypeOK
      /\ Update(i, r) /\ Answer(i, r)
  BY <1>1 DEF VerifyCommit, Handlers, HoldsRow, TableInv
<1>3. i \in DOMAIN rows /\ r \in Row /\ r.attempts \in Nat
  BY <1>1, <1>2, HeldRowFacts
<1>4. /\ rows[i].status = "PENDING" /\ rows[i].attempts \in Nat /\ MaxAttempts \in Nat
      /\ tally[i] \in Tally /\ tally[i].wrong = rows[i].attempts
      /\ tally[i].wrong \in Nat /\ tally[i].used \in Nat
  <2>1. rows[i].status = "PENDING"
    BY <1>1, <1>2 DEF TableInv, LockInv
  <2>2. QED
    BY <1>2, <1>3, <2>1, TableTypes, LimitsAssumption DEF TableInv, CodeInv
<1>5. /\ r.status # "EXPIRED" => r.attempts = rows[i].attempts + 1
      /\ r.status = "BLOCKED" => r.attempts >= MaxAttempts
      /\ r.status = "PENDING" => r.attempts < MaxAttempts
  BY <1>1, <1>2 DEF CodeInv, TableInv, CopyInv, CopyOk
<1>6. /\ tally'[i] = Counted(tally[i], r)
      /\ \A j \in DOMAIN rows \ {i} : tally'[j] = tally[j]
  BY <1>2, <1>3, AnswerFacts
<1>7. /\ i \in DOMAIN AsCodes /\ AsCodes[i].live
      /\ AsCodes[i].wrong = tally[i].wrong /\ AsCodes[i].used = tally[i].used
  BY <1>2, <1>3, <1>4, CodesFacts
<1>8. CASE r.status \in {"PENDING", "BLOCKED"}
  <2>1. tally'[i].wrong = tally[i].wrong + 1 /\ tally'[i].used = tally[i].used
    BY <1>3, <1>4, <1>6, <1>8, CountedFacts
  <2> DEFINE live == tally[i].wrong + 1 < MaxAttempts
  <2>2. live \in BOOLEAN /\ (live <=> r.status = "PENDING")
    BY <1>3, <1>4, <1>5, <1>8
  <2> HIDE DEF live
  <2>3. AsCodes' = [AsCodes EXCEPT ![i] =
                      [live |-> live, wrong |-> tally[i].wrong + 1, used |-> tally[i].used]]
    BY <1>2, <1>3, <1>6, <2>1, <2>2, OneCodeMoves
  <2>4. Codes!GuessWrong(i)
    BY <1>7, <2>3 DEF Codes!GuessWrong, Codes!Becomes, live
  <2>5. QED
    BY <1>7, <2>4 DEF CodeStep, Codes!Next
<1>9. CASE r.status = "USED"
  <2>1. tally'[i].wrong = tally[i].wrong /\ tally'[i].used = tally[i].used + 1
    BY <1>3, <1>4, <1>6, <1>9, CountedFacts
  <2>2. PICK live \in BOOLEAN : live = FALSE /\ (live <=> r.status = "PENDING")
    BY <1>9
  <2>3. AsCodes' = [AsCodes EXCEPT ![i] =
                      [live |-> live, wrong |-> tally[i].wrong, used |-> tally[i].used + 1]]
    BY <1>2, <1>3, <1>6, <2>1, <2>2, OneCodeMoves
  <2>4. Codes!GuessRight(i)
    BY <1>7, <2>2, <2>3 DEF Codes!GuessRight, Codes!Becomes
  <2>5. QED
    BY <1>7, <2>4 DEF CodeStep, Codes!Next
<1>10. CASE r.status = "EXPIRED"
  <2>1. tally'[i].wrong = tally[i].wrong /\ tally'[i].used = tally[i].used
    BY <1>3, <1>4, <1>6, <1>10, CountedFacts
  <2>2. PICK live \in BOOLEAN : live = FALSE /\ (live <=> r.status = "PENDING")
    BY <1>10
  <2>3. AsCodes' = [AsCodes EXCEPT ![i] =
                      [live |-> live, wrong |-> tally[i].wrong, used |-> tally[i].used]]
    BY <1>2, <1>3, <1>6, <2>1, <2>2, OneCodeMoves
  <2>4. Codes!Retire(i)
    BY <1>7, <2>2, <2>3 DEF Codes!Retire, Codes!Becomes
  <2>5. QED
    BY <1>7, <2>4 DEF CodeStep, Codes!Next
<1>11. QED
  BY <1>3, <1>8, <1>9, <1>10 DEF Row, Status

LEMMA InsertIsCodeStep ==
    ASSUME TableInv, NEW p \in Requesters, RequestInsert(p)
    PROVE  CodeStep
<1>1. CASE UNCHANGED <<rows, tally>>
  BY <1>1 DEF CodeStep, AsCodes
<1>2. CASE /\ rows' = Append(rows, copy[p])
           /\ tally' = Append(tally, [wrong |-> 0, used |-> 0, blockedAt |-> 0])
  <2> DEFINE n == Len(rows) + 1
             new == [live |-> TRUE, wrong |-> 0, used |-> 0]
  <2>1. copy[p] \in Row /\ copy[p].status = "PENDING" /\ TypeOK
    BY DEF RequestInsert, TableInv, CopyInv, CopyOk, TypeOK, Handlers
  <2>2. /\ Len(rows) \in Nat /\ DOMAIN rows = 1 .. Len(rows) /\ Len(tally) = Len(rows)
        /\ DOMAIN rows' = 1 .. n /\ rows'[n] = copy[p]
        /\ \A j \in DOMAIN rows : rows'[j] = rows[j]
    BY <1>2, <2>1 DEF TypeOK
  <2>3. /\ tally'[n] = [wrong |-> 0, used |-> 0, blockedAt |-> 0]
        /\ \A j \in DOMAIN rows : tally'[j] = tally[j]
    BY <1>2, <2>1, <2>2 DEF TypeOK
  <2>4. AsCodes' = [j \in 1 .. n |-> IF j = n THEN new ELSE AsCodes[j]]
    <3>1. \A j \in 1 .. n : j # n => j \in DOMAIN rows
      BY <2>2
    <3>2. [live |-> copy[p].status = "PENDING", wrong |-> 0, used |-> 0] = new
      BY <2>1
    <3>3. QED
      BY <2>2, <2>3, <3>1, <3>2 DEF AsCodes
  <2>5. AsCodes \in Seq([live: BOOLEAN, wrong: Nat, used: Nat]) /\ Len(AsCodes) = Len(rows)
    BY <2>1, CodesFacts
  <2>6. Append(AsCodes, new) = [j \in 1 .. n |-> IF j = n THEN new ELSE AsCodes[j]]
    BY <2>2, <2>5
  <2>7. Codes!Issue
    BY <2>4, <2>6 DEF Codes!Issue
  <2>8. QED
    BY <2>7 DEF CodeStep, Codes!Next
<1>3. QED
  BY <1>1, <1>2 DEF RequestInsert

LEMMA EveryStepIsCodeStep ==
    ASSUME Resetters = {}, TableInv, CodeInv, [Next]_vars
    PROVE  CodeStep
<1>1. CASE UNCHANGED <<rows, tally>>
  BY <1>1 DEF CodeStep, AsCodes
<1>2. ASSUME NEW p \in Requesters, RequestExpire(p) PROVE CodeStep
  <2>1. PICK i, r : i = on[p] /\ r = copy[p]
    OBVIOUS
  <2>2. p \in Handlers /\ HoldsRow(p) /\ Update(i, r) /\ tally' = tally /\ TypeOK
    BY <1>2, <2>1 DEF RequestExpire, HoldsRow, Handlers, TableInv
  <2>3. i \in DOMAIN rows /\ r \in Row
    BY <2>1, <2>2, HeldRowFacts
  <2>4. r.status # "PENDING"
    BY <1>2, <2>1, <2>2 DEF RequestExpire, TableInv, CopyInv, CopyOk
  <2>5. QED
    BY <2>2, <2>3, <2>4, SilentSaveIsCodeStep
<1>3. ASSUME NEW p \in Linkers, LinkSave(p) PROVE CodeStep
  <2>1. PICK i, r : i = on[p] /\ r = copy[p]
    OBVIOUS
  <2>2. p \in Handlers /\ HoldsRow(p) /\ Update(i, r) /\ tally' = tally /\ TypeOK
    BY <1>3, <2>1 DEF LinkSave, HoldsRow, Handlers, TableInv
  <2>3. i \in DOMAIN rows /\ r \in Row
    BY <2>1, <2>2, HeldRowFacts
  <2>4. r.status # "PENDING"
    BY <1>3, <2>1, <2>2 DEF LinkSave, TableInv, CopyInv, CopyOk
  <2>5. QED
    BY <2>2, <2>3, <2>4, SilentSaveIsCodeStep
<1>4. \/ UNCHANGED <<rows, tally>>
      \/ \E p \in Requesters : RequestExpire(p) \/ RequestInsert(p)
      \/ \E p \in Verifiers : VerifyCommit(p)
      \/ \E p \in Linkers : LinkSave(p)
  BY DEF Next, RequestStep, RequestFindLatest, RequestCount, RequestSendOtp, VerifyLock,
         LinkFind, Fail, Tick, vars
<1>5. QED
  BY <1>1, <1>2, <1>3, <1>4, InsertIsCodeStep, VerifyCommitIsCodeStep

\* Seen through what clients are told, and without ResetPassword, every step of the
\* handlers is one of a one-time code or none: a code dies once and answers no more.
THEOREM ImplementsCodes == ASSUME Resetters = {} PROVE Spec => ImplementsOneTimeCode
<1>1. Init => Codes!Init
  BY DEF Init, Codes!Init, AsCodes
<1>2. TableInv /\ CodeInv /\ [Next]_vars => [Codes!Next]_AsCodes
  BY EveryStepIsCodeStep DEF CodeStep
<1>3. QED
  BY <1>1, <1>2, CodeInvariant, PTL DEF Spec, ImplementsOneTimeCode, Codes!Spec

-----------------------------------------------------------------------------
(* The hourly limit, which requests that overlap overshoot.                *)

LEMMA RowsCounted ==
    ASSUME TypeOK, NEW e
    PROVE  /\ IsFiniteSet(InLastHour(e)) /\ Cardinality(InLastHour(e)) \in Nat
           /\ IsFiniteSet(PastCount(e)) /\ Cardinality(PastCount(e)) \in Nat
           /\ Cardinality(PastCount(e)) <= Cardinality(Requesters)
           /\ Cardinality(Requesters) \in Nat
<1>1. DOMAIN rows = 1 .. Len(rows) /\ Len(rows) \in Nat
  BY DEF TypeOK
<1>2. IsFiniteSet(DOMAIN rows)
  BY <1>1, FS_Interval
<1>3. InLastHour(e) \in SUBSET (DOMAIN rows) /\ PastCount(e) \in SUBSET Requesters
  BY DEF InLastHour, Of, PastCount
<1>4. IsFiniteSet(InLastHour(e)) /\ IsFiniteSet(PastCount(e)) /\ IsFiniteSet(Requesters)
  BY <1>2, <1>3, HandlersAssumption, FS_Subset
<1>5. QED
  BY <1>3, <1>4, HandlersAssumption, FS_Subset, FS_CardinalityType

\* No row comes, none gets another address or another time, the clock does not go back,
\* and nobody passes the count: the sum grows in no step of this kind.
LEMMA HourShrinks ==
    ASSUME TypeOK, TypeOK', HourlyOvershoot, now <= now',
           DOMAIN rows' = DOMAIN rows,
           \A j \in DOMAIN rows :
             rows'[j].email = rows[j].email /\ rows'[j].sentAt = rows[j].sentAt,
           \A e \in Emails : PastCount(e)' \subseteq PastCount(e)
    PROVE  HourlyOvershoot'
<1> SUFFICES ASSUME NEW e \in Emails
             PROVE  Cardinality(InLastHour(e)') + Cardinality(PastCount(e)')
                      < HourlyLimit + Cardinality(Requesters)
  BY DEF HourlyOvershoot
<1>1. \A j \in DOMAIN rows : rows[j].sentAt \in Nat /\ Hour \in Nat /\ now \in Nat /\ now' \in Nat
  BY TableTypes, TimesAssumption DEF TypeOK, Row
<1>2. InLastHour(e)' \subseteq InLastHour(e)
  BY <1>1 DEF InLastHour, Of
<1>3. /\ Cardinality(InLastHour(e)') <= Cardinality(InLastHour(e))
      /\ Cardinality(PastCount(e)') <= Cardinality(PastCount(e))
  BY <1>2, RowsCounted, FS_Subset
<1>4. /\ Cardinality(InLastHour(e)) \in Nat /\ Cardinality(PastCount(e)) \in Nat
      /\ Cardinality(InLastHour(e)') \in Nat /\ Cardinality(PastCount(e)') \in Nat
      /\ Cardinality(Requesters) \in Nat /\ HourlyLimit \in Nat
  <2>1. /\ Cardinality(InLastHour(e)) \in Nat /\ Cardinality(PastCount(e)) \in Nat
        /\ Cardinality(Requesters) \in Nat
    BY RowsCounted
  <2>2. Cardinality(InLastHour(e)') \in Nat /\ Cardinality(PastCount(e)') \in Nat
    <3>1. IsFiniteSet(InLastHour(e)') /\ IsFiniteSet(PastCount(e)')
      BY <1>2, RowsCounted, FS_Subset
    <3>2. QED
      BY <3>1, FS_CardinalityType
  <2>3. QED
    BY <2>1, <2>2, LimitsAssumption
<1>5. Cardinality(InLastHour(e)) + Cardinality(PastCount(e)) < HourlyLimit + Cardinality(Requesters)
  BY DEF HourlyOvershoot
<1>6. QED
  BY <1>3, <1>4, <1>5

\* A handler goes on and leaves every row its address and its time.
LEMMA StepKeepsHourInv ==
    ASSUME TableInv, TypeOK', HourInv, now <= now',
           DOMAIN rows' = DOMAIN rows,
           \A j \in DOMAIN rows :
             rows'[j].email = rows[j].email /\ rows'[j].sentAt = rows[j].sentAt,
           NEW p \in Handlers, NEW call, NEW i, NEW r, Await(p, call, i, r),
           call \in {"expire", "commit", "save", "link"} =>
             i \in DOMAIN rows /\ r.sentAt = rows[i].sentAt,
           call \in {"send", "insert"} => pc[p] \in {"send", "insert"} /\ r.email = copy[p].email
    PROVE  HourInv'
<1>1. /\ pc'[p] = call /\ on'[p] = i /\ copy'[p] = r
      /\ \A q \in Handlers \ {p} :
            pc'[q] = pc[q] /\ on'[q] = on[q] /\ copy'[q] = copy[q]
  BY DEF Await, TableInv, TypeOK
<1>2. SentInv'
  BY <1>1 DEF HourInv, SentInv, HoldsRow, TableInv, HeldInv
<1>3. \A e \in Emails : PastCount(e)' \subseteq PastCount(e)
  BY <1>1 DEF PastCount, Handlers
<1>4. HourlyOvershoot'
  BY <1>3, HourShrinks DEF TableInv, HourInv
<1>5. QED
  BY <1>2, <1>4 DEF HourInv

\* One more passes the count: the rows alone were below the limit.
LEMMA CountKeepsHourInv ==
    ASSUME TableInv, TypeOK', HourInv, NEW p \in Requesters, RequestCount(p)
    PROVE  HourInv'
<1>1. p \in Handlers /\ UNCHANGED <<now, rows, tally>> /\ now \in Nat
  BY DEF RequestCount, Handlers, TableInv, TypeOK
<1>2. CASE Return(p)
  BY <1>1, <1>2, StepKeepsHourInv DEF Return
<1>3. CASE Cardinality(InLastHour(copy[p].email)) < HourlyLimit /\ Await(p, "send", 0, copy[p])
  <2>1. /\ pc'[p] = "send" /\ on'[p] = 0 /\ copy'[p] = copy[p]
        /\ \A q \in Handlers \ {p} :
              pc'[q] = pc[q] /\ on'[q] = on[q] /\ copy'[q] = copy[q]
    BY <1>1, <1>3 DEF Await, TableInv, TypeOK
  <2>2. SentInv'
    BY <1>1, <2>1 DEF HourInv, SentInv, HoldsRow
  <2>3. ASSUME NEW e \in Emails
        PROVE  Cardinality(InLastHour(e)') + Cardinality(PastCount(e)')
                 < HourlyLimit + Cardinality(Requesters)
    <3>1. InLastHour(e)' = InLastHour(e)
      BY <1>1 DEF InLastHour, Of
    <3>2. /\ Cardinality(InLastHour(e)) \in Nat /\ Cardinality(PastCount(e)) \in Nat
          /\ Cardinality(Requesters) \in Nat /\ HourlyLimit \in Nat
      BY RowsCounted, LimitsAssumption DEF TableInv
    <3>3. CASE e = copy[p].email
      <4>1. PastCount(e)' \in SUBSET Requesters
        BY DEF PastCount
      <4>2. Cardinality(PastCount(e)') <= Cardinality(Requesters)
        BY <4>1, HandlersAssumption, FS_Subset
      <4>3. Cardinality(PastCount(e)') \in Nat
        BY <4>1, HandlersAssumption, FS_Subset, FS_CardinalityType
      <4>4. Cardinality(InLastHour(e)) < HourlyLimit
        BY <1>3, <3>3
      <4>5. QED
        BY <3>1, <3>2, <4>2, <4>3, <4>4
    <3>4. CASE e # copy[p].email
      <4>1. PastCount(e)' = PastCount(e)
        BY <2>1, <3>4 DEF PastCount, Handlers
      <4>2. QED
        BY <3>1, <4>1 DEF HourInv, HourlyOvershoot
    <3>5. QED
      BY <3>3, <3>4
  <2>4. QED
    BY <2>2, <2>3 DEF HourInv, HourlyOvershoot
<1>4. QED
  BY <1>2, <1>3 DEF RequestCount

\* One who is past the count turns into a row.
LEMMA InsertKeepsHourInv ==
    ASSUME TableInv, TypeOK', HourInv, NEW p \in Requesters, RequestInsert(p)
    PROVE  HourInv'
<1>1. p \in Handlers /\ UNCHANGED now /\ now \in Nat /\ TypeOK /\ pc[p] = "insert"
  BY DEF RequestInsert, Handlers, TableInv, TypeOK
<1>2. CASE UNCHANGED rows
  BY <1>1, <1>2, StepKeepsHourInv DEF RequestInsert, Return
<1>3. CASE rows' = Append(rows, copy[p])
  <2> DEFINE n == Len(rows) + 1
  <2>1. /\ Len(rows) \in Nat /\ DOMAIN rows = 1 .. Len(rows) /\ copy[p] \in Row
        /\ DOMAIN rows' = 1 .. n /\ rows'[n] = copy[p]
        /\ \A j \in DOMAIN rows : rows'[j] = rows[j]
    BY <1>1, <1>3 DEF TypeOK
  <2>2. /\ pc'[p] = "idle"
        /\ \A q \in Handlers \ {p} :
              pc'[q] = pc[q] /\ on'[q] = on[q] /\ copy'[q] = copy[q]
    BY <1>1 DEF RequestInsert, Return, Await, TypeOK
  <2>3. SentInv'
    BY <2>1, <2>2 DEF HourInv, SentInv, HoldsRow, TableInv, HeldInv
  <2>4. ASSUME NEW e \in Emails
        PROVE  Cardinality(InLastHour(e)') + Cardinality(PastCount(e)')
                 < HourlyLimit + Cardinality(Requesters)
    <3>1. /\ IsFiniteSet(InLastHour(e)) /\ Cardinality(InLastHour(e)) \in Nat
          /\ IsFiniteSet(PastCount(e)) /\ Cardinality(PastCount(e)) \in Nat
          /\ Cardinality(Requesters) \in Nat /\ HourlyLimit \in Nat
      BY <1>1, RowsCounted, LimitsAssumption
    <3>2. Cardinality(InLastHour(e)) + Cardinality(PastCount(e))
            < HourlyLimit + Cardinality(Requesters)
      BY DEF HourInv, HourlyOvershoot
    <3>3. CASE e = copy[p].email
      <4>1. p \in PastCount(e) /\ PastCount(e)' = PastCount(e) \ {p}
        BY <1>1, <2>2, <3>3 DEF PastCount, Handlers
      <4>2. Cardinality(PastCount(e)') = Cardinality(PastCount(e)) - 1
        BY <3>1, <4>1, FS_RemoveElement
      <4>3. InLastHour(e)' \in SUBSET (InLastHour(e) \cup {n})
        BY <1>1, <2>1 DEF InLastHour, Of
      <4>4. /\ IsFiniteSet(InLastHour(e) \cup {n})
            /\ Cardinality(InLastHour(e) \cup {n}) <= Cardinality(InLastHour(e)) + 1
            /\ Cardinality(InLastHour(e) \cup {n}) \in Nat
        <5>1. /\ IsFiniteSet(InLastHour(e) \cup {n})
              /\ Cardinality(InLastHour(e) \cup {n}) =
                   IF n \in InLastHour(e) THEN Cardinality(InLastHour(e))
                                          ELSE Cardinality(InLastHour(e)) + 1
          BY <3>1, FS_AddElement
        <5>2. QED
          BY <3>1, <5>1
      <4>5. /\ Cardinality(InLastHour(e)') <= Cardinality(InLastHour(e) \cup {n})
            /\ IsFiniteSet(InLastHour(e)')
        BY <4>3, <4>4, FS_Subset
      <4>6. Cardinality(InLastHour(e)') \in Nat
        BY <4>5, FS_CardinalityType
      <4>7. QED
        BY <3>1, <3>2, <4>2, <4>4, <4>5, <4>6
    <3>4. CASE e # copy[p].email
      <4>1. PastCount(e)' = PastCount(e)
        BY <1>1, <2>2, <3>4 DEF PastCount, Handlers
      <4>2. InLastHour(e)' = InLastHour(e)
        BY <1>1, <2>1, <3>4 DEF InLastHour, Of
      <4>3. QED
        BY <3>2, <4>1, <4>2
    <3>5. QED
      BY <3>3, <3>4
  <2>5. QED
    BY <2>3, <2>4 DEF HourInv, HourlyOvershoot
<1>4. QED
  BY <1>2, <1>3 DEF RequestInsert

\* The entity keeps the time of its row.
LEMMA SameSentAt ==
    ASSUME NEW r \in Row, NEW match \in BOOLEAN
    PROVE  /\ Expire(r).sentAt = r.sentAt
           /\ Attempt(r, match).sentAt = r.sentAt
           /\ LinkToIdentity(r).sentAt = r.sentAt
BY DEF Expire, Attempt, LinkToIdentity, Row

\* A save writes the row's own address and time over them.
LEMMA SaveKeepsSent ==
    ASSUME TableInv, SentInv, NEW p \in Handlers, HoldsRow(p),
           NEW i, i = on[p], NEW r, r = copy[p], Update(i, r)
    PROVE  /\ DOMAIN rows' = DOMAIN rows
           /\ \A j \in DOMAIN rows :
                rows'[j].email = rows[j].email /\ rows'[j].sentAt = rows[j].sentAt
<1>1. i \in DOMAIN rows /\ r \in Row /\ r.email = rows[i].email
  BY HeldRowFacts
<1>2. r.sentAt = rows[i].sentAt
  BY DEF SentInv
<1>3. QED
  BY <1>1, <1>2, UpdateFacts DEF TableInv

LEMMA NextHourInv ==
    ASSUME TableInv, TypeOK', HourInv, [Next]_vars
    PROVE  HourInv'
<1>1. TypeOK /\ now \in Nat
  BY DEF TableInv, TypeOK
<1>2. ASSUME NEW p \in Requesters,
             (\E e \in Emails : RequestFindLatest(p, e)) \/ RequestExpire(p) \/ RequestSendOtp(p)
      PROVE  HourInv'
  <2>1. p \in Handlers /\ UNCHANGED now
    BY <1>2 DEF Handlers, RequestFindLatest, RequestExpire, RequestSendOtp
  <2>2. CASE \E e \in Emails : RequestFindLatest(p, e)
    <3>1. PICK e \in Emails : RequestFindLatest(p, e)
      BY <2>2
    <3>2. CASE Await(p, "count", 0, NewRow(e, 0))
      BY <1>1, <2>1, <3>1, <3>2, StepKeepsHourInv DEF RequestFindLatest
    <3>3. CASE \E i \in DOMAIN rows : Await(p, "expire", i, Expire(rows[i]))
      <4>1. PICK i \in DOMAIN rows : Await(p, "expire", i, Expire(rows[i]))
        BY <3>3
      <4>2. Expire(rows[i]).sentAt = rows[i].sentAt
        BY <1>1, TableTypes, SameSentAt
      <4>3. QED
        BY <1>1, <2>1, <3>1, <4>1, <4>2, StepKeepsHourInv DEF RequestFindLatest
    <3>4. QED
      BY <3>1, <3>2, <3>3 DEF RequestFindLatest, LatestIds, Of
  <2>3. CASE RequestExpire(p)
    <3>1. PICK i, r : i = on[p] /\ r = copy[p]
      OBVIOUS
    <3>2. HoldsRow(p) /\ Update(i, r) /\ \E c : Await(p, "count", 0, c)
      BY <2>3, <3>1 DEF RequestExpire, HoldsRow
    <3>3. /\ DOMAIN rows' = DOMAIN rows
          /\ \A j \in DOMAIN rows :
               rows'[j].email = rows[j].email /\ rows'[j].sentAt = rows[j].sentAt
      BY <2>1, <3>1, <3>2, SaveKeepsSent DEF HourInv
    <3>4. QED
      BY <1>1, <2>1, <3>2, <3>3, StepKeepsHourInv
  <2>4. CASE RequestSendOtp(p)
    <3>1. /\ pc[p] = "send" /\ UNCHANGED rows
          /\ Await(p, "insert", 0, NewRow(copy[p].email, now))
          /\ NewRow(copy[p].email, now).email = copy[p].email
      BY <2>4 DEF RequestSendOtp, NewRow
    <3>2. QED
      BY <1>1, <2>1, <3>1, StepKeepsHourInv
  <2>5. QED
    BY <1>2, <2>2, <2>3, <2>4
<1>3. ASSUME NEW p \in Handlers, NEW i \in DOMAIN rows, NEW match \in BOOLEAN,
             NEW call \in {"commit", "save"},
             Await(p, call, i, IF IsExpired(rows[i]) THEN Expire(rows[i])
                                                    ELSE Attempt(rows[i], match)),
             UNCHANGED <<now, rows, tally>>
      PROVE  HourInv'
  <2>1. PICK c : c = IF IsExpired(rows[i]) THEN Expire(rows[i]) ELSE Attempt(rows[i], match)
    OBVIOUS
  <2>2. c.sentAt = rows[i].sentAt
    BY <1>1, <2>1, TableTypes, SameSentAt
  <2>3. Await(p, call, i, c)
    BY <1>3, <2>1
  <2>4. QED
    BY <1>1, <1>3, <2>2, <2>3, StepKeepsHourInv
<1>4. ASSUME NEW p \in Handlers, VerifyCommit(p) \/ ResetSave(p) \/ LinkSave(p)
      PROVE  HourInv'
  <2>1. PICK i, r : i = on[p] /\ r = copy[p]
    OBVIOUS
  <2>2. HoldsRow(p) /\ UNCHANGED now /\ Await(p, "idle", 0, Blank)
    BY <1>4 DEF VerifyCommit, ResetSave, LinkSave, Return, HoldsRow
  <2>3. Update(i, r) \/ UNCHANGED rows
    BY <1>4, <2>1 DEF VerifyCommit, ResetSave, LinkSave
  <2>4. /\ DOMAIN rows' = DOMAIN rows
        /\ \A j \in DOMAIN rows :
             rows'[j].email = rows[j].email /\ rows'[j].sentAt = rows[j].sentAt
    BY <2>1, <2>2, <2>3, SaveKeepsSent DEF HourInv
  <2>5. QED
    BY <1>1, <2>2, <2>4, StepKeepsHourInv
<1>5. ASSUME NEW p \in Linkers, NEW i \in 1 .. MaxRows, LinkFind(p, i) PROVE HourInv'
  <2>1. p \in Handlers /\ i \in DOMAIN rows /\ UNCHANGED <<now, rows>>
        /\ Await(p, "link", i, LinkToIdentity(rows[i]))
    BY <1>5 DEF LinkFind, Handlers
  <2>2. LinkToIdentity(rows[i]).sentAt = rows[i].sentAt
    BY <1>1, <2>1, TableTypes, SameSentAt
  <2>3. QED
    BY <1>1, <2>1, <2>2, StepKeepsHourInv
<1>6. ASSUME NEW p \in Handlers, Fail(p) PROVE HourInv'
  <2>1. UNCHANGED <<now, rows>> /\ Await(p, "idle", 0, Blank)
    BY <1>6 DEF Fail, Return
  <2>2. QED
    BY <1>1, <2>1, StepKeepsHourInv
<1>7. CASE Tick \/ UNCHANGED vars
  <2>1. now <= now' /\ UNCHANGED <<rows, pc, on, copy>>
    BY <1>1, <1>7 DEF Tick, vars
  <2>2. \A e \in Emails : PastCount(e)' = PastCount(e)
    BY <2>1 DEF PastCount
  <2>3. HourlyOvershoot'
    BY <1>1, <2>1, <2>2, HourShrinks DEF HourInv
  <2>4. SentInv'
    BY <2>1 DEF HourInv, SentInv, HoldsRow
  <2>5. QED
    BY <2>3, <2>4 DEF HourInv
<1>8. ASSUME NEW p \in Verifiers, NEW e \in Emails, NEW match \in BOOLEAN, VerifyLock(p, e, match)
      PROVE  HourInv'
  BY <1>3, <1>8 DEF VerifyLock, Pending, Of, Handlers
<1>9. ASSUME NEW p \in Resetters, NEW i \in 1 .. MaxRows, NEW match \in BOOLEAN,
             ResetFind(p, i, match)
      PROVE  HourInv'
  BY <1>3, <1>9 DEF ResetFind, Handlers
<1>10. QED
  BY <1>2, <1>4, <1>5, <1>6, <1>7, <1>8, <1>9, CountKeepsHourInv, InsertKeepsHourInv
     DEF Next, RequestStep, Handlers

-----------------------------------------------------------------------------
(* One request at a time.                                                  *)

LEMMA HourInvariant == Spec => []HourInv
<1>1. Init => HourInv
  <2> SUFFICES ASSUME Init PROVE HourInv
    OBVIOUS
  <2>1. SentInv
    BY DEF Init, SentInv, HoldsRow
  <2>2. ASSUME NEW e \in Emails
        PROVE  Cardinality(InLastHour(e)) + Cardinality(PastCount(e))
                 < HourlyLimit + Cardinality(Requesters)
    <3>1. InLastHour(e) = {} /\ PastCount(e) = {}
      BY DEF Init, InLastHour, Of, PastCount, Handlers
    <3>2. Cardinality(Requesters) \in Nat
      BY HandlersAssumption, FS_CardinalityType
    <3>3. QED
      BY <3>1, <3>2, FS_EmptySet, LimitsAssumption
  <2>3. QED
    BY <2>1, <2>2 DEF HourInv, HourlyOvershoot
<1>2. HourInv /\ TableInv /\ TableInv' /\ [Next]_vars => HourInv'
  BY NextHourInv DEF TableInv
<1>3. QED
  BY <1>1, <1>2, TableInvariant, PTL DEF Spec

\* However many requests overlap, an address has fewer than HOURLY_LIMIT plus one codes
\* stored for each of them in an hour: each passes the count once before its row is
\* there.  Mails whose insert is refused or fails are not counted, by the code or here.
THEOREM OvershootIsBounded == Spec => []HourlyOvershoot
<1>1. HourInv => HourlyOvershoot
  BY DEF HourInv
<1>2. QED
  BY <1>1, HourInvariant, PTL

\* Requests for codes that do not overlap keep the limit of the documentation
\* (ARCHITECTURE.md:1358, "5 OTPs / email / hora").
THEOREM OneAtATimeIsCapped ==
    ASSUME \A p, q \in Requesters : p = q
    PROVE  Spec => []HourlyCap
<1>1. ASSUME TypeOK, HourlyOvershoot, NEW e \in Emails
      PROVE  Cardinality(InLastHour(e)) <= HourlyLimit
  <2>1. Cardinality(Requesters) <= 1
    <3>1. CASE Requesters = {}
      BY <3>1, FS_EmptySet
    <3>2. CASE Requesters # {}
      <4>1. PICK p \in Requesters : Requesters = {p}
        BY <3>2
      <4>2. Cardinality({p}) = 1
        BY FS_Singleton
      <4>3. QED
        BY <4>1, <4>2
    <3>3. QED
      BY <3>1, <3>2
  <2>2. /\ Cardinality(InLastHour(e)) \in Nat /\ Cardinality(PastCount(e)) \in Nat
        /\ Cardinality(Requesters) \in Nat /\ HourlyLimit \in Nat
    BY <1>1, RowsCounted, LimitsAssumption
  <2>3. Cardinality(InLastHour(e)) + Cardinality(PastCount(e))
          < HourlyLimit + Cardinality(Requesters)
    BY <1>1 DEF HourlyOvershoot
  <2>4. QED
    BY <2>1, <2>2, <2>3
<1>2. TypeOK /\ HourlyOvershoot => HourlyCap
  BY <1>1 DEF HourlyCap
<1>3. QED
  BY <1>2, TypeCorrect, OvershootIsBounded, PTL

\* What a step other than an insert does to the rows, without ResetPassword.
LEMMA NoRowRevives ==
    ASSUME Resetters = {}, TableInv, CodeInv, SentInv, [Next]_vars,
           ~ \E p \in Requesters : RequestInsert(p)
    PROVE  /\ DOMAIN rows' = DOMAIN rows
           /\ \A j \in DOMAIN rows :
                /\ rows'[j].email = rows[j].email /\ rows'[j].sentAt = rows[j].sentAt
                /\ rows'[j].status = "PENDING" => rows[j].status = "PENDING"
<1>1. ASSUME NEW p \in Handlers,
             \/ p \in Requesters /\ RequestExpire(p)
             \/ p \in Linkers /\ LinkSave(p)
             \/ p \in Verifiers /\ VerifyCommit(p)
      PROVE  /\ DOMAIN rows' = DOMAIN rows
             /\ \A j \in DOMAIN rows :
                  /\ rows'[j].email = rows[j].email /\ rows'[j].sentAt = rows[j].sentAt
                  /\ rows'[j].status = "PENDING" => rows[j].status = "PENDING"
  <2>1. PICK i, r : i = on[p] /\ r = copy[p]
    OBVIOUS
  <2>2. HoldsRow(p) /\ Update(i, r) /\ TypeOK
    BY <1>1, <2>1 DEF RequestExpire, LinkSave, VerifyCommit, HoldsRow, TableInv
  <2>3. i \in DOMAIN rows /\ r \in Row
    BY <2>1, <2>2, HeldRowFacts
  <2>4. r.status = "PENDING" => rows[i].status = "PENDING"
    <3>1. CASE p \in Verifiers /\ VerifyCommit(p)
      BY <2>1, <3>1 DEF VerifyCommit, TableInv, LockInv
    <3>2. CASE (p \in Requesters /\ RequestExpire(p)) \/ (p \in Linkers /\ LinkSave(p))
      BY <2>1, <3>2 DEF RequestExpire, LinkSave, TableInv, CopyInv, CopyOk
    <3>3. QED
      BY <1>1, <3>1, <3>2
  <2>5. /\ DOMAIN rows' = DOMAIN rows
        /\ \A j \in DOMAIN rows :
             rows'[j].email = rows[j].email /\ rows'[j].sentAt = rows[j].sentAt
    BY <2>1, <2>2, SaveKeepsSent
  <2>6. rows'[i] = r /\ \A j \in DOMAIN rows \ {i} : rows'[j] = rows[j]
    BY <2>2, <2>3, UpdateFacts
  <2>7. QED
    BY <2>4, <2>5, <2>6
<1>2. \/ UNCHANGED rows
      \/ \E p \in Requesters : RequestExpire(p)
      \/ \E p \in Verifiers : VerifyCommit(p)
      \/ \E p \in Linkers : LinkSave(p)
  BY DEF Next, RequestStep, RequestFindLatest, RequestCount, RequestSendOtp, VerifyLock,
         LinkFind, Fail, Tick, vars
<1>3. QED
  BY <1>1, <1>2 DEF Handlers

\* A handler that awaits its insert has been there before, or has just sent its mail.
LEMMA WhoAwaitsInsert ==
    ASSUME TableInv, [Next]_vars, NEW p \in Requesters, pc'[p] = "insert"
    PROVE  \/ pc[p] = "insert" /\ copy'[p] = copy[p]
           \/ copy'[p].sentAt = now /\ UNCHANGED <<now, rows>>
<1>1. TypeOK /\ p \in Handlers
  BY DEF TableInv, Handlers
<1>2. ASSUME NEW q \in Handlers, NEW call, NEW i, NEW r, Await(q, call, i, r), call # "insert"
      PROVE  pc[p] = "insert" /\ copy'[p] = copy[p]
  BY <1>1, <1>2 DEF Await, TypeOK
<1>3. CASE \E q \in Requesters : RequestSendOtp(q)
  <2>1. PICK q \in Requesters : RequestSendOtp(q)
    BY <1>3
  <2>2. CASE q = p
    BY <1>1, <2>1, <2>2 DEF RequestSendOtp, Await, TypeOK, NewRow
  <2>3. CASE q # p
    BY <1>1, <2>1, <2>3 DEF RequestSendOtp, Await, TypeOK, Handlers
  <2>4. QED
    BY <2>2, <2>3
<1>4. CASE \E q \in Requesters :
             (\E e \in Emails : RequestFindLatest(q, e))
               \/ RequestExpire(q) \/ RequestCount(q) \/ RequestInsert(q)
  <2>1. \E q \in Handlers : \E call, i, r : Await(q, call, i, r) /\ call # "insert"
    BY <1>4 DEF RequestFindLatest, RequestExpire, RequestCount, RequestInsert, Return, Handlers
  <2>2. QED
    BY <1>2, <2>1
<1>5. CASE \E q \in Verifiers :
             (\E e \in Emails, match \in BOOLEAN : VerifyLock(q, e, match)) \/ VerifyCommit(q)
  <2>1. \E q \in Handlers : \E call, i, r : Await(q, call, i, r) /\ call # "insert"
    BY <1>5 DEF VerifyLock, VerifyCommit, Return, Handlers
  <2>2. QED
    BY <1>2, <2>1
<1>6. CASE \E q \in Resetters :
             (\E i \in 1 .. MaxRows, match \in BOOLEAN : ResetFind(q, i, match)) \/ ResetSave(q)
  <2>1. \E q \in Handlers : \E call, i, r : Await(q, call, i, r) /\ call # "insert"
    BY <1>6 DEF ResetFind, ResetSave, Return, Handlers
  <2>2. QED
    BY <1>2, <2>1
<1>7. CASE \E q \in Linkers : (\E i \in 1 .. MaxRows : LinkFind(q, i)) \/ LinkSave(q)
  <2>1. \E q \in Handlers : \E call, i, r : Await(q, call, i, r) /\ call # "insert"
    BY <1>7 DEF LinkFind, LinkSave, Return, Handlers
  <2>2. QED
    BY <1>2, <2>1
<1>8. CASE \E q \in Handlers : Fail(q)
  BY <1>2, <1>8 DEF Fail, Return
<1>9. CASE Tick \/ UNCHANGED vars
  BY <1>9 DEF Tick, vars
<1>10. QED
  BY <1>3, <1>4, <1>5, <1>6, <1>7, <1>8, <1>9 DEF Next, RequestStep

LEMMA NextOrderInv ==
    ASSUME Resetters = {}, \A p, q \in Requesters : p = q,
           TableInv, CodeInv, SentInv, OrderInv, [Next]_vars
    PROVE  OrderInv'
<1>1. TypeOK /\ now \in Nat /\ \A j \in DOMAIN rows : rows[j].sentAt \in Nat
  BY TableTypes DEF TableInv, TypeOK, Row
<1>2. now' \in Nat /\ now <= now'
  BY <1>1 DEF Next, RequestStep, RequestFindLatest, RequestExpire, RequestCount, RequestSendOtp,
              RequestInsert, VerifyLock, VerifyCommit, ResetFind, ResetSave, LinkFind, LinkSave,
              Fail, Tick, vars
<1>3. \A p \in Requesters : copy[p].sentAt \in Nat
  BY <1>1 DEF TypeOK, Row, Handlers
<1>4. CASE ~ \E p \in Requesters : RequestInsert(p)
  <2>1. /\ DOMAIN rows' = DOMAIN rows
        /\ \A j \in DOMAIN rows :
             /\ rows'[j].email = rows[j].email /\ rows'[j].sentAt = rows[j].sentAt
             /\ rows'[j].status = "PENDING" => rows[j].status = "PENDING"
    BY <1>4, NoRowRevives
  <2>2. \A j \in DOMAIN rows' : rows'[j].sentAt <= now'
    BY <1>1, <1>2, <2>1 DEF OrderInv
  <2>3. ASSUME NEW p \in Requesters, pc'[p] = "insert"
        PROVE  copy'[p].sentAt <= now' /\ \A j \in DOMAIN rows' : rows'[j].sentAt <= copy'[p].sentAt
    <3>1. CASE pc[p] = "insert" /\ copy'[p] = copy[p]
      BY <1>1, <1>2, <1>3, <2>1, <3>1 DEF OrderInv
    <3>2. CASE copy'[p].sentAt = now /\ UNCHANGED <<now, rows>>
      BY <1>1, <3>2 DEF OrderInv
    <3>3. QED
      BY <2>3, <3>1, <3>2, WhoAwaitsInsert
  <2>4. PendingIsLatest'
    BY <2>1 DEF OrderInv, PendingIsLatest, Pending, LatestIds, Of
  <2>5. QED
    BY <2>2, <2>3, <2>4 DEF OrderInv
<1>5. ASSUME NEW p \in Requesters, RequestInsert(p) PROVE OrderInv'
  <2>1. /\ pc[p] = "insert" /\ p \in Handlers /\ UNCHANGED now
        /\ pc'[p] = "idle"
    BY <1>1, <1>5 DEF RequestInsert, Return, Await, TypeOK, Handlers
  <2>2. \A q \in Requesters : pc'[q] # "insert"
    BY <2>1
  <2>3. CASE UNCHANGED rows
    <3>1. \A j \in DOMAIN rows' : rows'[j].sentAt <= now'
      BY <2>1, <2>3 DEF OrderInv
    <3>2. PendingIsLatest'
      BY <2>3 DEF OrderInv, PendingIsLatest, Pending, LatestIds, Of
    <3>3. QED
      BY <2>2, <3>1, <3>2 DEF OrderInv
  <2>4. CASE rows' = Append(rows, copy[p]) /\ ~Duplicate(copy[p], 0)
    <3> DEFINE n == Len(rows) + 1
    <3>1. /\ Len(rows) \in Nat /\ DOMAIN rows = 1 .. Len(rows) /\ copy[p] \in Row
          /\ DOMAIN rows' = 1 .. n /\ rows'[n] = copy[p]
          /\ \A j \in DOMAIN rows : rows'[j] = rows[j]
      BY <1>1, <2>1, <2>4 DEF TypeOK
    <3>2. /\ copy[p].sentAt <= now
          /\ \A j \in DOMAIN rows : rows[j].sentAt <= copy[p].sentAt
      BY <2>1 DEF OrderInv
    <3>3. copy[p].status = "PENDING"
      BY <2>1 DEF TableInv, CopyInv, CopyOk
    <3>4. \A j \in DOMAIN rows :
            rows[j].email = copy[p].email => rows[j].status # "PENDING"
      <4>1. \A j \in DOMAIN rows : j # 0
        BY <3>1
      <4>2. QED
        BY <2>4, <3>3, <4>1 DEF Duplicate, Pending, Of
    <3>5. \A j \in DOMAIN rows' : rows'[j].sentAt <= now'
      BY <1>1, <2>1, <3>1, <3>2 DEF OrderInv
    <3>6. PendingIsLatest'
      <4> SUFFICES ASSUME NEW i \in 1 .. n, NEW j \in 1 .. n,
                          rows'[i].status = "PENDING", rows'[j].email = rows'[i].email
                   PROVE  rows'[j].sentAt <= rows'[i].sentAt
        BY <3>1 DEF PendingIsLatest, Pending, LatestIds, Of
      <4>1. CASE i = n
        BY <1>3, <3>1, <3>2, <4>1
      <4>2. CASE i # n
        <5>1. i \in DOMAIN rows /\ rows[i].status = "PENDING"
          BY <3>1, <4>2
        <5>2. j # n
          BY <3>1, <3>4, <5>1
        <5>3. j \in DOMAIN rows /\ rows[j].email = rows[i].email /\ rows[i].email \in Emails
          <6>1. j \in DOMAIN rows /\ rows[j].email = rows[i].email
            BY <3>1, <5>1, <5>2
          <6>2. rows[i] \in Row
            BY <1>1, <5>1, TableTypes
          <6>3. QED
            BY <6>1, <6>2 DEF Row
        <5>4. QED
          BY <3>1, <5>1, <5>3 DEF OrderInv, PendingIsLatest, Pending, LatestIds, Of
      <4>3. QED
        BY <4>1, <4>2
    <3>7. QED
      BY <2>2, <3>5, <3>6 DEF OrderInv
  <2>5. QED
    BY <1>5, <2>3, <2>4 DEF RequestInsert
<1>6. QED
  BY <1>4, <1>5

\* Requests for codes that do not overlap, and no ResetPassword: no row of the address is
\* later by sent_at than the live code, so that findLatestByEmail (ORDER BY sent_at DESC)
\* puts no dead row before it.
THEOREM LiveCodeIsLatest ==
    ASSUME Resetters = {}, \A p, q \in Requesters : p = q
    PROVE  Spec => []PendingIsLatest
<1>1. Init => OrderInv
  BY DEF Init, OrderInv, PendingIsLatest, Pending, Of, Handlers
<1>2. TableInv /\ CodeInv /\ HourInv /\ OrderInv /\ [Next]_vars => OrderInv'
  BY NextOrderInv DEF HourInv
<1>3. OrderInv => PendingIsLatest
  BY DEF OrderInv
<1>4. QED
  BY <1>1, <1>2, <1>3, CodeInvariant, HourInvariant, PTL DEF Spec
=============================================================================
