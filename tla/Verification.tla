---------------------------- MODULE Verification ----------------------------
(***************************************************************************)
(* The e-mail verification (OTP) subdomain: the email_verifications table  *)
(* and the HTTP handlers that work on it at the same time.                 *)
(*                                                                         *)
(* A handler is an async function: each awaited repository or mail call is *)
(* one step, executed by the database (or the mail server) together with   *)
(* the synchronous code that follows it up to the next await.  Between two *)
(* steps any other handler may run.  Only VerifyEmail works in a database  *)
(* transaction (SELECT ... FOR UPDATE); every other save is an UPDATE of   *)
(* the whole row from the copy the handler read earlier.                   *)
(*                                                                         *)
(* A submitted code is abstracted to whether it matches the stored hash.   *)
(***************************************************************************)
EXTENDS Naturals, Sequences, FiniteSets

CONSTANTS
    Emails,            \* addresses
    Requesters,        \* slots for concurrent RequestEmailVerification calls
    Verifiers,         \* ... VerifyEmail calls
    Resetters,         \* ... ResetPassword calls (their OTP part)
    Linkers,           \* ... RegisterSaga calls (guard and sub-step 1a)
    RequestCooldown,   \* REQUEST_COOLDOWN_MS, in ticks
    BlockedCooldown,   \* BLOCKED_COOLDOWN_MS
    OtpTtl,            \* OTP_TTL_MS
    Hour,              \* the window of countByEmailInLastHour
    HourlyLimit,       \* HOURLY_LIMIT
    MaxAttempts,       \* MAX_ATTEMPTS
    MaxTime,           \* bound on the clock
    MaxRows,           \* bound on the rows of the table
    MaxAnswers         \* bound on the wrong codes answered per row

ASSUME EmailsAssumption == Emails # {}

ASSUME TimesAssumption ==
    /\ {RequestCooldown, BlockedCooldown, OtpTtl, Hour} \subseteq Nat
    /\ {MaxTime, MaxRows} \subseteq Nat

ASSUME LimitsAssumption ==
    /\ HourlyLimit \in Nat \ {0}
    /\ MaxAttempts \in Nat \ {0}
    /\ MaxAnswers \in Nat /\ MaxAnswers > MaxAttempts

ASSUME HandlersAssumption ==
    /\ IsFiniteSet(Requesters)
    /\ Requesters \cap (Verifiers \cup Resetters \cup Linkers) = {}
    /\ Verifiers \cap (Resetters \cup Linkers) = {}
    /\ Resetters \cap Linkers = {}

VARIABLES
    now,    \* the clock, shared by the application and the database
    rows,   \* email_verifications, in insertion order: the id is the index
    tally,  \* history: what the clients have been told about each row
    pc,     \* the call each handler is waiting for
    on,     \* the id of the row its entity came from (0: not stored yet)
    copy    \* its entity, an in-memory copy of the row

vars == <<now, rows, tally, pc, on, copy>>

Handlers == Requesters \cup Verifiers \cup Resetters \cup Linkers

Status == {"PENDING", "USED", "EXPIRED", "BLOCKED"}

\* blockedAt is getBlockedAt() ?? getSentAt(): equal to sentAt until blocked.
Row == [email: Emails, status: Status, attempts: Nat, sentAt: Nat,
        blockedAt: Nat, linked: BOOLEAN]

Pc == {"idle", "expire", "count", "send", "insert", "commit", "save", "link"}

TypeOK ==
    /\ now \in Nat
    /\ rows \in Seq(Row)
    /\ tally \in Seq([wrong: Nat, used: Nat, blockedAt: Nat])
    /\ Len(tally) = Len(rows)
    /\ pc \in [Handlers -> Pc]
    /\ on \in [Handlers -> Nat]
    /\ copy \in [Handlers -> Row]

-----------------------------------------------------------------------------
(* The entity.                                                             *)

NewRow(e, t) == [email |-> e, status |-> "PENDING", attempts |-> 0,
                 sentAt |-> t, blockedAt |-> t, linked |-> FALSE]

Blank == NewRow(CHOOSE e \in Emails : TRUE, 0)

IsExpired(r) == r.status = "PENDING" /\ r.sentAt + OtpTtl < now

\* Mutant: a status the CHECK constraint of the table does not list.
ExpireUnlisted(r) == [r EXCEPT !.status = "CANCELLED"]

Expire(r) == [r EXCEPT !.status = "EXPIRED"]

LinkToIdentity(r) == [r EXCEPT !.linked = TRUE]

\* The status after the n-th attempt: a right code wins whatever the count is.
\* Mutant: the count compared with > instead of >=.
OutcomeOffByOne(n, match) ==
    IF match THEN "USED" ELSE IF n > MaxAttempts THEN "BLOCKED" ELSE "PENDING"

Outcome(n, match) ==
    IF match THEN "USED" ELSE IF n >= MaxAttempts THEN "BLOCKED" ELSE "PENDING"

\* attempt() on a PENDING entity.  Mutant: the attempt is counted twice.
AttemptCountedTwice(r, match) ==
    [r EXCEPT !.attempts = @ + 2, !.status = Outcome(r.attempts + 2, match)]

Attempt(r, match) ==
    LET s == Outcome(r.attempts + 1, match)
    IN  [r EXCEPT !.attempts = @ + 1,
                  !.status = s,
                  !.blockedAt = IF s = "BLOCKED" THEN now ELSE @]

-----------------------------------------------------------------------------
(* The table.                                                              *)

Of(e) == {i \in DOMAIN rows : rows[i].email = e}

Pending(e) == {i \in Of(e) : rows[i].status = "PENDING"}

LatestIds(e) == {i \in Of(e) : \A j \in Of(e) : rows[j].sentAt <= rows[i].sentAt}

InLastHour(e) == {i \in Of(e) : rows[i].sentAt + Hour > now}

\* Mutant: findPendingByEmailForUpdate without FOR UPDATE.
LockedNever(i) == FALSE

\* The row lock of an open VerifyEmail transaction: other writers wait.
Locked(i) == \E v \in Verifiers : pc[v] = "commit" /\ on[v] = i

\* Mutant: a migration without the unique partial index.
DuplicateNever(r, i) == FALSE

\* uq_email_verifications_pending_email refuses r as the row with id i (23505).
Duplicate(r, i) == r.status = "PENDING" /\ Pending(r.email) \ {i} # {}

\* UPDATE ... WHERE id = i, from the handler's copy.
Update(i, r) == rows' = [rows EXCEPT ![i] = r]

-----------------------------------------------------------------------------
(* Handlers.                                                               *)

Await(p, call, i, r) ==
    /\ pc'   = [pc EXCEPT ![p] = call]
    /\ on'   = [on EXCEPT ![p] = i]
    /\ copy' = [copy EXCEPT ![p] = r]

Return(p) == Await(p, "idle", 0, Blank)

\* The history of a row once a client is told the outcome r of its attempt
\* (an expired code is not an answer to the guess).
Counted(t, r) ==
    [wrong     |-> IF r.status \in {"PENDING", "BLOCKED"} THEN t.wrong + 1 ELSE t.wrong,
     used      |-> IF r.status = "USED" THEN t.used + 1 ELSE t.used,
     blockedAt |-> IF r.status = "BLOCKED" THEN r.blockedAt ELSE t.blockedAt]

Answer(i, r) == tally' = [tally EXCEPT ![i] = Counted(tally[i], r)]

Init ==
    /\ now = 1
    /\ rows = <<>>
    /\ tally = <<>>
    /\ pc = [p \in Handlers |-> "idle"]
    /\ on = [p \in Handlers |-> 0]
    /\ copy = [p \in Handlers |-> Blank]

(* RequestEmailVerification *)

\* VerificationBlockedError and VerificationCooldownError.
Refused(r) ==
    \/ r.status = "BLOCKED" /\ now < r.blockedAt + BlockedCooldown
    \/ r.status = "PENDING" /\ ~IsExpired(r) /\ now < r.sentAt + RequestCooldown

\* MaxRows bounds the table: a slot is reserved for every request in flight.
RoomForRequest ==
    Len(rows) + Cardinality({q \in Requesters : pc[q] # "idle"}) < MaxRows

RequestFindLatest(p, e) ==
    /\ pc[p] = "idle"
    /\ RoomForRequest
    /\ \/ Of(e) = {} /\ Await(p, "count", 0, NewRow(e, 0))
       \/ \E i \in LatestIds(e) :
            /\ ~Refused(rows[i])
            /\ IF rows[i].status = "PENDING"
               THEN Await(p, "expire", i, Expire(rows[i]))
               ELSE Await(p, "count", 0, NewRow(e, 0))
    /\ UNCHANGED <<now, rows, tally>>

RequestExpire(p) ==
    /\ pc[p] = "expire"
    /\ ~Locked(on[p])
    /\ Update(on[p], copy[p])
    /\ Await(p, "count", 0, NewRow(copy[p].email, 0))
    /\ UNCHANGED <<now, tally>>

\* Mutant: > HOURLY_LIMIT instead of >=.
RequestCountOffByOne(p) ==
    /\ pc[p] = "count"
    /\ IF Cardinality(InLastHour(copy[p].email)) <= HourlyLimit
       THEN Await(p, "send", 0, copy[p])
       ELSE Return(p)
    /\ UNCHANGED <<now, rows, tally>>

RequestCount(p) ==
    /\ pc[p] = "count"
    /\ IF Cardinality(InLastHour(copy[p].email)) < HourlyLimit
       THEN Await(p, "send", 0, copy[p])
       ELSE Return(p)
    /\ UNCHANGED <<now, rows, tally>>

\* The mail is out; the entity is created from the clock only now.
RequestSendOtp(p) ==
    /\ pc[p] = "send"
    /\ Await(p, "insert", 0, NewRow(copy[p].email, now))
    /\ UNCHANGED <<now, rows, tally>>

RequestInsert(p) ==
    /\ pc[p] = "insert"
    /\ IF Duplicate(copy[p], 0)
       THEN UNCHANGED <<rows, tally>>
       ELSE /\ rows' = Append(rows, copy[p])
            /\ tally' = Append(tally, [wrong |-> 0, used |-> 0, blockedAt |-> 0])
    /\ Return(p)
    /\ UNCHANGED now

(* VerifyEmail: one transaction, committed before the client is answered. *)

VerifyLock(p, e, match) ==
    /\ pc[p] = "idle"
    /\ \E i \in Pending(e) :
        /\ ~Locked(i)
        /\ tally[i].wrong < MaxAnswers
        /\ Await(p, "commit", i, IF IsExpired(rows[i]) THEN Expire(rows[i])
                                                       ELSE Attempt(rows[i], match))
    /\ UNCHANGED <<now, rows, tally>>

\* Mutant: save(verification) without the tx argument runs on another pooled
\* connection and waits for the lock of its own transaction.
VerifyCommitOutsideTx(p) ==
    /\ pc[p] = "commit"
    /\ ~Locked(on[p])
    /\ Update(on[p], copy[p])
    /\ Answer(on[p], copy[p])
    /\ Return(p)
    /\ UNCHANGED now

VerifyCommit(p) ==
    /\ pc[p] = "commit"
    /\ Update(on[p], copy[p])
    /\ Answer(on[p], copy[p])
    /\ Return(p)
    /\ UNCHANGED now

(* ResetPassword: the same entity methods, without transaction or lock. *)

ResetFind(p, i, match) ==
    /\ pc[p] = "idle"
    /\ i \in DOMAIN rows
    /\ rows[i].status = "PENDING"      \* attempt() throws otherwise
    /\ tally[i].wrong < MaxAnswers
    /\ Await(p, "save", i, IF IsExpired(rows[i]) THEN Expire(rows[i])
                                                 ELSE Attempt(rows[i], match))
    /\ UNCHANGED <<now, rows, tally>>

ResetSave(p) ==
    /\ pc[p] = "save"
    /\ ~Locked(on[p])
    /\ IF Duplicate(copy[p], on[p])
       THEN UNCHANGED <<rows, tally>>
       ELSE Update(on[p], copy[p]) /\ Answer(on[p], copy[p])
    /\ Return(p)
    /\ UNCHANGED now

(* RegisterSaga: the guard, and the tolerated save of sub-step 1a. *)

LinkFind(p, i) ==
    /\ pc[p] = "idle"
    /\ i \in DOMAIN rows
    /\ rows[i].status = "USED"
    /\ ~rows[i].linked                 \* linkToIdentity() throws, tolerated
    /\ Await(p, "link", i, LinkToIdentity(rows[i]))
    /\ UNCHANGED <<now, rows, tally>>

LinkSave(p) ==
    /\ pc[p] = "link"
    /\ ~Locked(on[p])
    /\ Update(on[p], copy[p])
    /\ Return(p)
    /\ UNCHANGED <<now, tally>>

\* An awaited call rejects, or the process dies: an open transaction rolls
\* back, and what was saved before stays.
Fail(p) ==
    /\ pc[p] # "idle"
    /\ Return(p)
    /\ UNCHANGED <<now, rows, tally>>

Tick ==
    /\ now < MaxTime
    /\ now' = now + 1
    /\ UNCHANGED <<rows, tally, pc, on, copy>>

-----------------------------------------------------------------------------

RequestStep(p) == RequestExpire(p) \/ RequestCount(p) \/ RequestSendOtp(p) \/ RequestInsert(p)

Next ==
    \/ \E p \in Requesters : (\E e \in Emails : RequestFindLatest(p, e)) \/ RequestStep(p)
    \/ \E p \in Verifiers :
         (\E e \in Emails, match \in BOOLEAN : VerifyLock(p, e, match)) \/ VerifyCommit(p)
    \/ \E p \in Resetters :
         (\E i \in 1 .. MaxRows, match \in BOOLEAN : ResetFind(p, i, match)) \/ ResetSave(p)
    \/ \E p \in Linkers : (\E i \in 1 .. MaxRows : LinkFind(p, i)) \/ LinkSave(p)
    \/ \E p \in Handlers : Fail(p)
    \/ Tick

Spec == Init /\ [][Next]_vars

\* A started handler runs on: the event loop and the database are fair, and
\* the waiters of a row lock are served in order (hence SF for the saves).
Fairness ==
    /\ \A p \in Requesters : SF_vars(RequestStep(p))
    /\ \A p \in Verifiers : WF_vars(VerifyCommit(p))
    /\ \A p \in Resetters : SF_vars(ResetSave(p))
    /\ \A p \in Linkers : SF_vars(LinkSave(p))

FairSpec == Spec /\ Fairness

-----------------------------------------------------------------------------
(* Properties of the table that hold whatever handlers run.                *)

\* An address never has two live codes: no save, stale or not, leaves a second
\* PENDING row for an e-mail (the unique partial index and the 23505 path).
OnePendingPerEmail ==
    \A i, j \in DOMAIN rows :
        /\ rows[i].email = rows[j].email
        /\ rows[i].status = "PENDING" /\ rows[j].status = "PENDING"
        => i = j

\* The answers given to guesses of code i.
Told(i) == tally[i].wrong + tally[i].used

\* A user is never charged for a guess that was not made: the stored counter
\* stays at or below the answers given about the code, however stale the copy
\* that was saved last.
NoPhantomAttempts ==
    \A i \in DOMAIN rows : rows[i].attempts <= Told(i)

\* A live code always has an attempt left, so the next wrong guess cannot step
\* over the limit unnoticed (attempts >= maxAttempts blocks).
LiveCodeHasAttemptsLeft ==
    \A i \in DOMAIN rows : rows[i].status = "PENDING" => rows[i].attempts < MaxAttempts

\* Overlapping requests overshoot the hourly limit on stored codes by less than one
\* each: rows created in the window plus requests already past the count.  It does
\* not bound the mails: the code counts rows, and a mail whose insert is refused
\* (23505) or fails leaves none.
PastCount(e) ==
    {p \in Requesters : pc[p] \in {"send", "insert"} /\ copy[p].email = e}

HourlyOvershoot ==
    \A e \in Emails :
        Cardinality(InLastHour(e)) + Cardinality(PastCount(e))
            < HourlyLimit + Cardinality(Requesters)

(* The inductive strengthening: who waits where, and what a copy may say.   *)

HoldsRow(p) == pc[p] \in {"expire", "commit", "save", "link"}

KindInv ==
    /\ \A p \in Requesters : pc[p] \in {"idle", "expire", "count", "send", "insert"}
    /\ \A p \in Verifiers : pc[p] \in {"idle", "commit"}
    /\ \A p \in Resetters : pc[p] \in {"idle", "save"}
    /\ \A p \in Linkers : pc[p] \in {"idle", "link"}

HeldInv ==
    \A p \in Handlers :
        HoldsRow(p) => on[p] \in DOMAIN rows /\ copy[p].email = rows[on[p]].email

CopyOk(p) ==
    /\ pc[p] \in {"count", "send", "insert"} =>
           copy[p].status = "PENDING" /\ copy[p].attempts = 0
    /\ pc[p] = "expire" => copy[p].status = "EXPIRED"
    /\ pc[p] = "link" => copy[p].status = "USED"
    /\ HoldsRow(p) => copy[p].attempts <=
           Told(on[p]) + IF pc[p] \in {"expire", "link"} \/ copy[p].status = "EXPIRED"
                         THEN 0 ELSE 1
    /\ pc[p] \in {"commit", "save"} /\ copy[p].status = "PENDING" =>
           copy[p].attempts < MaxAttempts

CopyInv == \A p \in Handlers : CopyOk(p)

\* The row a transaction has locked stays PENDING, for that transaction alone.
LockInv ==
    \A v, w \in Verifiers :
        pc[v] = "commit" =>
            /\ rows[on[v]].status = "PENDING"
            /\ pc[w] = "commit" /\ on[w] = on[v] => w = v

\* A row keeps the time it was sent: no save carries another.
SentInv == \A p \in Handlers : HoldsRow(p) => copy[p].sentAt = rows[on[p]].sentAt

HourInv == SentInv /\ HourlyOvershoot

TableInv ==
    /\ TypeOK /\ KindInv /\ HeldInv /\ CopyInv /\ LockInv
    /\ OnePendingPerEmail /\ NoPhantomAttempts /\ LiveCodeHasAttemptsLeft

-----------------------------------------------------------------------------
(* Properties of the row-locked protocol: they hold when no ResetPassword   *)
(* call works on the table (Resetters = {}).                                *)

\* No code answers more than MAX_ATTEMPTS guesses, whatever races with the
\* verification transaction.
GuessLimit ==
    \A i \in DOMAIN rows : tally[i].wrong <= MaxAttempts

\* A code opens the door once, and never after it has been blocked.
SingleUse ==
    \A i \in DOMAIN rows :
        /\ tally[i].used <= 1
        /\ tally[i].used = 1 => tally[i].wrong < MaxAttempts

\* Seen through what clients are told, the table is a set of one-time codes: a
\* stale save may rename the way a code died but never changes that it is dead.
AsCodes == [i \in DOMAIN rows |-> [live  |-> rows[i].status = "PENDING",
                                   wrong |-> tally[i].wrong,
                                   used  |-> tally[i].used]]

Codes == INSTANCE OneTimeCode WITH codes <- AsCodes

ImplementsOneTimeCode == Codes!Spec

\* The inductive strengthening: while a code lives, its stored counter is exactly
\* the number of wrong answers given; the copy in a transaction is one attempt
\* ahead of the locked row; every other pending save is of a dead row's status.
CodeInv ==
    /\ \A i \in DOMAIN rows :
         IF rows[i].status = "PENDING"
         THEN tally[i].used = 0 /\ tally[i].wrong = rows[i].attempts
         ELSE /\ tally[i].wrong <= MaxAttempts
              /\ tally[i].used <= 1
              /\ tally[i].used = 1 => tally[i].wrong < MaxAttempts
    /\ \A v \in Verifiers :
         pc[v] = "commit" /\ copy[v].status # "EXPIRED" =>
            /\ copy[v].attempts = rows[on[v]].attempts + 1
            /\ copy[v].status = "BLOCKED" => copy[v].attempts >= MaxAttempts
    /\ \A p \in Linkers : pc[p] = "link" => rows[on[p]].status # "PENDING"

(* ... and when requests for codes do not overlap (one requester).          *)

\* No dead row of the address is later than the live code: findLatestByEmail puts
\* none before it, and the next request can apply the cooldown or expire it.
PendingIsLatest ==
    \A e \in Emails : Pending(e) \subseteq LatestIds(e)

\* The strengthening: nothing is older in the table than what comes next.
OrderInv ==
    /\ \A j \in DOMAIN rows : rows[j].sentAt <= now
    /\ \A p \in Requesters : pc[p] = "insert" =>
         copy[p].sentAt <= now /\ \A j \in DOMAIN rows : rows[j].sentAt <= copy[p].sentAt
    /\ PendingIsLatest

\* At most HOURLY_LIMIT codes per address in any hour.
HourlyCap ==
    \A e \in Emails : Cardinality(InLastHour(e)) <= HourlyLimit

-----------------------------------------------------------------------------
(* Liveness.                                                               *)

\* Every call returns: no handler waits for a row lock for ever.
HandlersReturn == \A p \in Handlers : pc[p] # "idle" ~> pc[p] = "idle"

-----------------------------------------------------------------------------
(* What the documentation says and the code does not keep.                 *)

\* "Una vez en USED, EXPIRED o BLOCKED - el status es terminal"
TerminalStatus ==
    [][\A i \in DOMAIN rows :
         rows[i].status # "PENDING" => rows'[i].status = rows[i].status]_rows

\* After a block the address waits BLOCKED_COOLDOWN before the next code.
BlockHonoured ==
    \A i, j \in DOMAIN rows :
        /\ rows[i].email = rows[j].email /\ i < j
        /\ tally[i].blockedAt # 0
        => rows[j].sentAt >= tally[i].blockedAt + BlockedCooldown

\* A duplicate-key refusal comes from a concurrent request only: with no
\* request in flight, the live code is the latest row.
QuietPendingIsLatest ==
    (\A p \in Requesters : pc[p] = "idle") => PendingIsLatest
=============================================================================
