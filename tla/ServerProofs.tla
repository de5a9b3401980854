---------------------------- MODULE ServerProofs ----------------------------
(***************************************************************************)
(* Proofs about Migrations and Server: for any number of servers and       *)
(* tools, of any releases, and any number of handlers and connections.     *)
(***************************************************************************)
EXTENDS Server, FiniteSetTheorems, TLAPS

-----------------------------------------------------------------------------
(* Files, the last of them on a table, and the next of a list.             *)

LEMMA SevenFiles == Len(Migration) = 7 /\ DOMAIN Migration = 1 .. 7
BY DEF Migration

LEMMA Greatest ==
    ASSUME NEW S \in SUBSET (0 .. 7), S # {}
    PROVE  Max(S) \in S /\ \A y \in S : Max(S) >= y
<1>1. \E x \in S : \A y \in S : x >= y
  <2>1. CASE 7 \in S
    BY <2>1
  <2>2. CASE 7 \notin S /\ 6 \in S
    BY <2>2
  <2>3. CASE 7 \notin S /\ 6 \notin S /\ 5 \in S
    BY <2>3
  <2>4. CASE 7 \notin S /\ 6 \notin S /\ 5 \notin S /\ 4 \in S
    BY <2>4
  <2>5. CASE S \subseteq 0 .. 3 /\ 3 \in S
    BY <2>5
  <2>6. CASE S \subseteq 0 .. 2 /\ 2 \in S
    BY <2>6
  <2>7. CASE S \subseteq 0 .. 1 /\ 1 \in S
    BY <2>7
  <2>8. CASE S \subseteq {0} /\ 0 \in S
    BY <2>8
  <2>9. 7 \notin S /\ 6 \notin S /\ 5 \notin S /\ 4 \notin S => S \subseteq 0 .. 3
    OBVIOUS
  <2>10. S \subseteq 0 .. 3 /\ 3 \notin S => S \subseteq 0 .. 2
    OBVIOUS
  <2>11. S \subseteq 0 .. 2 /\ 2 \notin S => S \subseteq 0 .. 1
    OBVIOUS
  <2>12. S \subseteq 0 .. 1 /\ 1 \notin S => S \subseteq {0}
    OBVIOUS
  <2>13. S \subseteq {0} => 0 \in S
    OBVIOUS
  <2>14. QED
    BY <2>1, <2>2, <2>3, <2>4, <2>5, <2>6, <2>7, <2>8, <2>9, <2>10, <2>11, <2>12, <2>13
<1>2. QED
  BY <1>1 DEF Max

\* The last file on a table, if there is one.
LEMMA LastOnIsGreatest ==
    ASSUME NEW t, NEW a \in 1 .. 8, NEW b \in 0 .. 7
    PROVE  /\ LastOn(t, a .. b) \in 0 .. 7
           /\ \A f \in a .. b : Migration[f].table = t => LastOn(t, a .. b) >= f
           /\ LastOn(t, a .. b) # 0 =>
                LastOn(t, a .. b) \in a .. b /\ Migration[LastOn(t, a .. b)].table = t
<1> DEFINE S == {0} \cup {f \in a .. b : Migration[f].table = t}
<1>1. S \in SUBSET (0 .. 7) /\ S # {}
  OBVIOUS
<1>2. Max(S) \in S /\ \A y \in S : Max(S) >= y
  BY <1>1, Greatest
<1>3. QED
  BY <1>1, <1>2 DEF LastOn

\* A transaction that applies the files n + 1 .. k makes version k of version n.
LEMMA LastOnAdds ==
    ASSUME NEW t, NEW n \in 0 .. 7, NEW k \in 0 .. 7, n < k
    PROVE  LastOn(t, 1 .. k) =
             IF \E f \in n + 1 .. k : Migration[f].table = t THEN LastOn(t, n + 1 .. k)
                                                             ELSE LastOn(t, 1 .. n)
<1> DEFINE all == LastOn(t, 1 .. k)
           new == LastOn(t, n + 1 .. k)
           old == LastOn(t, 1 .. n)
<1>0. 1 \in 1 .. 8 /\ n + 1 \in 1 .. 8
  OBVIOUS
<1>1. /\ all \in 0 .. 7 /\ \A f \in 1 .. k : Migration[f].table = t => all >= f
      /\ all # 0 => all \in 1 .. k /\ Migration[all].table = t
  BY <1>0, LastOnIsGreatest
<1>2. /\ new \in 0 .. 7 /\ \A f \in n + 1 .. k : Migration[f].table = t => new >= f
      /\ new # 0 => new \in n + 1 .. k /\ Migration[new].table = t
  BY <1>0, LastOnIsGreatest
<1>3. /\ old \in 0 .. 7 /\ \A f \in 1 .. n : Migration[f].table = t => old >= f
      /\ old # 0 => old \in 1 .. n /\ Migration[old].table = t
  BY <1>0, LastOnIsGreatest
<1> HIDE DEF all, new, old
<1>4. all = IF \E f \in n + 1 .. k : Migration[f].table = t THEN new ELSE old
  <2>1. CASE \E f \in n + 1 .. k : Migration[f].table = t
    <3>1. PICK f \in n + 1 .. k : Migration[f].table = t
      BY <2>1
    <3>2. all >= f /\ all \in n + 1 .. k
      BY <3>1, <1>1
    <3>3. new >= all /\ new \in 1 .. k
      BY <3>1, <3>2, <1>1, <1>2
    <3>4. all >= new
      BY <3>1, <3>3, <1>1, <1>2
    <3>5. QED
      BY <2>1, <3>3, <3>4, <1>1, <1>2
  <2>2. CASE ~ \E f \in n + 1 .. k : Migration[f].table = t
    <3>1. all # 0 => all \in 1 .. n
      BY <2>2, <1>1
    <3>2. old >= all
      BY <3>1, <1>1, <1>3
    <3>3. all >= old
      BY <1>1, <1>3
    <3>4. QED
      BY <2>2, <3>2, <3>3, <1>1, <1>3
  <2>3. QED
    BY <2>1, <2>2
<1>5. QED
  BY <1>4 DEF all, new, old

\* A list is applied in order.
LEMMA FirstOfTheRest ==
    ASSUME NEW k \in Nat, NEW m \in Nat, k < m
    PROVE  Min(k + 1 .. m) = k + 1
BY DEF Min

LEMMA Releases ==
    ASSUME NEW r \in Runners
    PROVE  Release[r] \in 1 .. 7
BY ReleaseAssumption, SevenFiles

-----------------------------------------------------------------------------
(* The invariant of the migrations.                                        *)

\* Over its version, the database has what the version has.
LEMMA VersionIs ==
    ASSUME NEW n \in Version, At(n)
    PROVE  schema = [t \in Tables |-> LastOn(t, 1 .. n)] /\ applied = 1 .. n
BY DEF At, Database

LEMMA VersionTypes ==
    ASSUME NEW n \in Version
    PROVE  /\ n \in 0 .. 7
           /\ [t \in Tables |-> LastOn(t, 1 .. n)] \in [Tables -> 0 .. Len(Migration)]
           /\ 1 .. n \subseteq DOMAIN Migration
<1>1. n \in 0 .. 7
  BY SevenFiles DEF Version
<1>2. \A t \in Tables : LastOn(t, 1 .. n) \in 0 .. 7
  <2>1. 1 \in 1 .. 8
    OBVIOUS
  <2>2. QED
    BY <1>1, <2>1, LastOnIsGreatest
<1>3. QED
  BY <1>1, <1>2, SevenFiles

\* What a move of one runner leaves of the invariant, when the database does not move.
LEMMA OneMoves ==
    ASSUME MigrationsInv, UNCHANGED <<schema, applied>>,
           NEW r \in Runners, NEW to \in Pc,
           NEW left \in SUBSET (DOMAIN Migration), NEW did \in SUBSET (DOMAIN Migration),
           Move(r, to, left, did),
           NEW n \in Version, At(n), \A q \in Runners : RunnerOk(q, n),
           RunnerOk(r, n)',
           did = {} \/ \A q \in Runners \ {r} : done[q] = {}
    PROVE  MigrationsInv'
<1>1. MigrationsTypeOK'
  BY DEF MigrationsInv, MigrationsTypeOK, Move
<1>2. \A q \in Runners \ {r} :
        pc'[q] = pc[q] /\ todo'[q] = todo[q] /\ done'[q] = done[q]
  BY DEF MigrationsInv, MigrationsTypeOK, Move
<1>3. done'[r] = did
  BY DEF MigrationsInv, MigrationsTypeOK, Move
<1>4. OneWriter'
  BY <1>2, <1>3 DEF MigrationsInv, OneWriter
<1>5. At(n)'
  BY DEF At
<1>6. \A q \in Runners : RunnerOk(q, n)'
  <2>1. SUFFICES ASSUME NEW q \in Runners, q # r PROVE RunnerOk(q, n)'
    OBVIOUS
  <2>2. QED
    BY <2>1, <1>2 DEF RunnerOk, Reached
<1>7. QED
  BY <1>1, <1>4, <1>5, <1>6 DEF MigrationsInv

LEMMA MovedTo ==
    ASSUME MigrationsTypeOK, NEW r \in Runners, NEW to, NEW left, NEW did,
           Move(r, to, left, did)
    PROVE  pc'[r] = to /\ todo'[r] = left /\ done'[r] = did
BY DEF MigrationsTypeOK, Move

\* A runner that has nothing in hand can be anywhere but where its files are missing.
LEMMA Rests ==
    ASSUME MigrationsInv, UNCHANGED <<schema, applied>>,
           NEW r \in Runners, NEW to \in {"down", "list"}, Move(r, to, {}, {})
    PROVE  MigrationsInv'
<1>1. PICK n \in Version : At(n) /\ \A q \in Runners : RunnerOk(q, n)
  BY DEF MigrationsInv
<1>2. RunnerOk(r, n)'
  BY MovedTo DEF MigrationsInv, RunnerOk
<1>3. to \in Pc /\ {} \in SUBSET (DOMAIN Migration)
  BY DEF Pc
<1>4. QED
  BY <1>1, <1>2, <1>3, OneMoves

LEMMA RollbackKeepsInv ==
    ASSUME MigrationsInv, UNCHANGED <<schema, applied>>, NEW r \in Runners, Rollback(r)
    PROVE  MigrationsInv'
BY Rests DEF Rollback

LEMMA ListKeepsInv == ASSUME MigrationsInv, NEW r \in Runners, List(r) PROVE MigrationsInv'
<1>1. PICK n \in Version : At(n) /\ \A q \in Runners : RunnerOk(q, n)
  BY DEF MigrationsInv
<1>2. applied = 1 .. n /\ n \in 0 .. 7 /\ Release[r] \in 1 .. 7
  BY <1>1, VersionIs, VersionTypes, Releases
<1>3. UNCHANGED <<schema, applied>> /\ MigrationsTypeOK
  BY DEF List, MigrationsInv
<1>4. CASE Files(r) \subseteq applied
  <2>1. Release[r] \in Files(r)
    BY <1>2 DEF Files
  <2>2. Release[r] <= n
    BY <1>2, <1>4, <2>1
  <2>3. Ready(r)
    BY <1>4 DEF List
  <2>4. CASE r \in Tools
    BY <1>3, <2>3, <2>4, Rests DEF Ready
  <2>5. CASE r \notin Tools
    <3>1. Move(r, "up", {}, {})
      BY <2>3, <2>5 DEF Ready
    <3>2. RunnerOk(r, n)'
      BY <1>3, <2>2, <3>1, MovedTo DEF RunnerOk
    <3>3. "up" \in Pc /\ {} \in SUBSET (DOMAIN Migration)
      BY DEF Pc
    <3>4. QED
      BY <1>1, <1>3, <3>1, <3>2, <3>3, OneMoves
  <2>6. QED
    BY <2>4, <2>5
<1>5. CASE ~(Files(r) \subseteq applied)
  <2>1. n < Release[r]
    BY <1>2, <1>5 DEF Files
  <2>2. Files(r) \ applied = n + 1 .. Release[r]
    BY <1>2, <2>1 DEF Files
  <2>3. Move(r, "apply", n + 1 .. Release[r], {})
    BY <1>5, <2>2 DEF List
  <2>4. Reached(r, n, n)'
    BY <1>2, <1>3, <2>1, <2>3, MovedTo DEF Reached
  <2>5. RunnerOk(r, n)'
    <3>1. pc'[r] = "apply" /\ n \in 0 .. Release[r]
      BY <1>2, <1>3, <2>1, <2>3, MovedTo
    <3>2. QED
      BY <3>1, <2>4 DEF RunnerOk
  <2>6. /\ "apply" \in Pc
        /\ n + 1 .. Release[r] \in SUBSET (DOMAIN Migration)
        /\ {} \in SUBSET (DOMAIN Migration)
    BY <1>2, SevenFiles DEF Pc
  <2>7. QED
    BY <1>1, <1>3, <2>3, <2>5, <2>6, OneMoves
<1>6. QED
  BY <1>4, <1>5

\* In hand, a runner has its next file and all that follow.
LEMMA NextIs ==
    ASSUME NEW r \in Runners, NEW n \in Version, RunnerOk(r, n), pc[r] \in {"apply", "record"}
    PROVE  \E k \in 0 .. Release[r] :
             /\ Reached(r, n, k)
             /\ k < Release[r]
             /\ NextFile(r) = k + 1
<1>1. PICK k \in 0 .. Release[r] : Reached(r, n, k)
  BY DEF RunnerOk
<1>2. k < Release[r] /\ todo[r] = k + 1 .. Release[r]
  BY <1>1 DEF Reached
<1>3. NextFile(r) = k + 1
  BY <1>2, Releases, FirstOfTheRest DEF NextFile
<1>4. QED
  BY <1>1, <1>2, <1>3

LEMMA ApplyKeepsInv == ASSUME MigrationsInv, NEW r \in Runners, Apply(r) PROVE MigrationsInv'
<1>1. PICK n \in Version : At(n) /\ \A q \in Runners : RunnerOk(q, n)
  BY DEF MigrationsInv
<1>2. UNCHANGED <<schema, applied>> /\ MigrationsTypeOK /\ pc[r] = "apply"
  BY DEF Apply, MigrationsInv
<1>3. CASE Rollback(r)
  BY <1>2, <1>3, RollbackKeepsInv
<1>4. CASE Move(r, "record", todo[r], done[r])
  <2>1. PICK k \in 0 .. Release[r] : Reached(r, n, k) /\ k < Release[r]
    BY <1>1, <1>2, NextIs
  <2>2. pc'[r] = "record" /\ todo'[r] = todo[r] /\ done'[r] = done[r]
    BY <1>2, <1>4, MovedTo
  <2>3. Reached(r, n, k)'
    BY <2>1, <2>2 DEF Reached
  <2>4. RunnerOk(r, n)'
    BY <2>2, <2>3 DEF RunnerOk
  <2>5. /\ "record" \in Pc
        /\ todo[r] \in SUBSET (DOMAIN Migration)
        /\ done[r] \in SUBSET (DOMAIN Migration)
    BY <1>2 DEF Pc, MigrationsTypeOK
  <2>6. done[r] = {} \/ \A q \in Runners \ {r} : done[q] = {}
    BY DEF MigrationsInv, OneWriter
  <2>7. QED
    BY <1>1, <1>2, <1>4, <2>4, <2>5, <2>6, OneMoves
<1>5. QED
  BY <1>3, <1>4 DEF Apply

\* Whose transaction has recorded anything has recorded the first name the version
\* lacks, and no other gets past that.
LEMMA FirstRecorded ==
    ASSUME NEW r \in Runners, NEW n \in Version, RunnerOk(r, n),
           MigrationsTypeOK, done[r] # {}
    PROVE  n + 1 \in done[r]
<1>1. pc[r] \in {"apply", "record", "commit"}
  BY DEF RunnerOk, MigrationsTypeOK, Pc
<1>2. PICK k \in 0 .. Release[r] : Reached(r, n, k)
  BY <1>1 DEF RunnerOk
<1>3. n < k /\ done[r] = n + 1 .. k
  BY <1>2 DEF Reached
<1>4. QED
  BY <1>3, VersionTypes, Releases

LEMMA RecordKeepsInv == ASSUME MigrationsInv, NEW r \in Runners, Record(r) PROVE MigrationsInv'
<1>1. PICK n \in Version : At(n) /\ \A q \in Runners : RunnerOk(q, n)
  BY DEF MigrationsInv
<1>2. UNCHANGED <<schema, applied>> /\ MigrationsTypeOK /\ pc[r] = "record"
  BY DEF Record, MigrationsInv
<1>3. CASE NextFile(r) \in applied
  BY <1>2, <1>3, RollbackKeepsInv DEF Record
<1>4. CASE NextFile(r) \notin applied
  <2>1. PICK k \in 0 .. Release[r] : Reached(r, n, k) /\ k < Release[r] /\ NextFile(r) = k + 1
    BY <1>1, <1>2, NextIs
  <2>2. n \in 0 .. 7 /\ Release[r] \in 1 .. 7 /\ k \in Nat
    BY <1>1, VersionTypes, Releases
  <2>3. n <= k
    BY <1>1, <1>4, <2>1, <2>2, VersionIs
  <2>4. done[r] \cup {k + 1} = n + 1 .. k + 1
    BY <2>1, <2>2, <2>3 DEF Reached
  <2>5. todo[r] \ {k + 1} = (k + 1) + 1 .. Release[r]
    BY <2>1, <2>2 DEF Reached
  <2>6. todo[r] = {k + 1} <=> k + 1 = Release[r]
    <3>1. todo[r] = k + 1 .. Release[r]
      BY <2>1 DEF Reached
    <3>2. Release[r] \in todo[r]
      BY <2>1, <2>2, <3>1
    <3>3. k + 1 .. k + 1 = {k + 1}
      BY <2>2
    <3>4. QED
      BY <3>1, <3>2, <3>3
  <2> DEFINE to == IF k + 1 = Release[r] THEN "commit" ELSE "apply"
  <2>7. Move(r, to, (k + 1) + 1 .. Release[r], n + 1 .. k + 1)
    BY <1>4, <2>1, <2>4, <2>5, <2>6 DEF Record, AfterRecord
  <2>8. pc'[r] = to /\ todo'[r] = (k + 1) + 1 .. Release[r] /\ done'[r] = n + 1 .. k + 1
    BY <1>2, <2>7, MovedTo
  <2>9. Reached(r, n, k + 1)'
    BY <2>1, <2>2, <2>3, <2>8 DEF Reached
  <2>10. RunnerOk(r, n)'
    <3>1. k + 1 \in 0 .. Release[r] /\ pc'[r] \in {"apply", "commit"}
      BY <2>1, <2>2, <2>8
    <3>2. QED
      BY <3>1, <2>9 DEF RunnerOk
  <2>11. \A q \in Runners \ {r} : done[q] = {}
    <3>1. SUFFICES ASSUME NEW q \in Runners \ {r}, done[q] # {} PROVE FALSE
      OBVIOUS
    <3>2. n + 1 \in done[q] /\ done[r] = {}
      BY <1>1, <1>2, <3>1, FirstRecorded DEF MigrationsInv, OneWriter
    <3>3. n = k
      BY <2>1, <2>2, <2>3, <3>2 DEF Reached
    <3>4. QED
      BY <2>1, <3>2, <3>3 DEF Record
  <2>12. /\ to \in Pc
         /\ (k + 1) + 1 .. Release[r] \in SUBSET (DOMAIN Migration)
         /\ n + 1 .. k + 1 \in SUBSET (DOMAIN Migration)
    BY <2>1, <2>2, SevenFiles DEF Pc
  <2> HIDE DEF to
  <2>13. QED
    BY <1>1, <1>2, <2>7, <2>10, <2>11, <2>12, OneMoves
<1>5. QED
  BY <1>3, <1>4

\* A commit takes the database to the version of the release that commits.
LEMMA CommitMoves ==
    ASSUME MigrationsInv, NEW r \in Runners, Commit(r),
           NEW n \in Version, At(n), \A q \in Runners : RunnerOk(q, n)
    PROVE  /\ n < Release[r] /\ Release[r] \in Version
           /\ At(Release[r])'
           /\ \A q \in Runners \ {r} : done[q] = {}
<1>1. PICK k \in 0 .. Release[r] : Reached(r, n, k)
  BY DEF Commit, RunnerOk
<1>2. k = Release[r] /\ n < k /\ done[r] = n + 1 .. k
  BY <1>1, VersionTypes, Releases DEF Reached, Commit
<1>3. n \in 0 .. 7 /\ k \in 1 .. 7 /\ k \in Version
  BY <1>2, VersionTypes, Releases, SevenFiles DEF Version
<1>4. schema = [t \in Tables |-> LastOn(t, 1 .. n)] /\ applied = 1 .. n
  BY VersionIs
<1>5. applied' = 1 .. k
  BY <1>2, <1>3, <1>4 DEF Commit
<1>6. LockedBy(r) = {Migration[f].table : f \in n + 1 .. k}
  BY <1>2 DEF LockedBy, Executed, Commit
<1>7. schema' = [t \in Tables |-> LastOn(t, 1 .. k)]
  <2>1. \A t \in Tables :
          LastOn(t, 1 .. k) =
            IF t \in LockedBy(r) THEN LastOn(t, n + 1 .. k) ELSE LastOn(t, 1 .. n)
    <3>1. SUFFICES ASSUME NEW t \in Tables
                   PROVE  LastOn(t, 1 .. k) = IF t \in LockedBy(r) THEN LastOn(t, n + 1 .. k)
                                                                  ELSE LastOn(t, 1 .. n)
      OBVIOUS
    <3>2. t \in LockedBy(r) <=> \E f \in n + 1 .. k : Migration[f].table = t
      BY <1>6
    <3>3. k \in 0 .. 7 /\ n < k
      BY <1>2, <1>3
    <3>4. LastOn(t, 1 .. k) =
            IF \E f \in n + 1 .. k : Migration[f].table = t THEN LastOn(t, n + 1 .. k)
                                                             ELSE LastOn(t, 1 .. n)
      BY <1>3, <3>3, LastOnAdds
    <3>5. QED
      BY <3>2, <3>4
  <2>2. schema' = [t \in Tables |-> IF t \in LockedBy(r) THEN LastOn(t, n + 1 .. k)
                                                        ELSE LastOn(t, 1 .. n)]
    BY <1>2, <1>4 DEF Commit
  <2>3. QED
    BY <2>1, <2>2
<1>8. At(k)'
  BY <1>5, <1>7 DEF At, Database
<1>9. done[r] # {}
  BY <1>2, <1>3
<1>10. QED
  BY <1>2, <1>3, <1>8, <1>9 DEF MigrationsInv, OneWriter

LEMMA CommitKeepsInv == ASSUME MigrationsInv, NEW r \in Runners, Commit(r) PROVE MigrationsInv'
<1>1. PICK n \in Version : At(n) /\ \A q \in Runners : RunnerOk(q, n)
  BY DEF MigrationsInv
<1>2. PICK m \in Version : /\ m = Release[r] /\ n < m /\ At(m)'
                           /\ \A q \in Runners \ {r} : done[q] = {}
  BY <1>1, CommitMoves
<1>3. PICK to \in {"down", "up"} : Move(r, to, {}, {})
  BY DEF Commit, Ready, Rollback
<1>4. MigrationsTypeOK
  BY DEF MigrationsInv
<1>5. pc'[r] = to /\ todo'[r] = {} /\ done'[r] = {}
  BY <1>3, <1>4, MovedTo
<1>6. \A q \in Runners \ {r} :
        pc'[q] = pc[q] /\ todo'[q] = todo[q] /\ done'[q] = done[q]
  BY <1>3, <1>4 DEF MigrationsTypeOK, Move
<1>7. MigrationsTypeOK'
  <2>1. schema' \in [Tables -> 0 .. Len(Migration)] /\ applied' \subseteq DOMAIN Migration
    BY <1>2, VersionTypes DEF At, Database
  <2>2. QED
    BY <1>3, <1>4, <2>1 DEF MigrationsTypeOK, Move, Pc
<1>8. OneWriter'
  BY <1>2, <1>5, <1>6 DEF OneWriter
<1>9. \A q \in Runners : RunnerOk(q, m)'
  <2>1. RunnerOk(r, m)'
    BY <1>2, <1>5, Releases DEF RunnerOk
  <2>2. ASSUME NEW q \in Runners, q # r PROVE RunnerOk(q, m)'
    <3>1. n \in 0 .. 7 /\ m \in 0 .. 7 /\ Release[q] \in 1 .. 7 /\ n < m
      BY <1>2, VersionTypes, Releases
    <3>2. RunnerOk(q, n) /\ done[q] = {}
      BY <1>1, <1>2, <2>2
    <3>3. \A k \in 0 .. Release[q] : Reached(q, n, k) => Reached(q, m, k)'
      BY <1>6, <2>2, <3>1, <3>2 DEF Reached
    <3>4. QED
      BY <1>6, <2>2, <3>1, <3>2, <3>3 DEF RunnerOk
  <2>3. QED
    BY <2>1, <2>2
<1>10. QED
  BY <1>2, <1>7, <1>8, <1>9 DEF MigrationsInv

-----------------------------------------------------------------------------
(* The invariant of the server: that of the migrations, and the pool's.    *)

LEMMA HandlersAreFinite ==
    ASSUME NEW S \in SUBSET Handlers
    PROVE  IsFiniteSet(S) /\ Cardinality(S) \in Nat
BY PoolAssumption, FS_Subset, FS_CardinalityType DEF Handlers

\* Nobody but r is anywhere else than before.
LEMMA OthersStay ==
    ASSUME MigrationsTypeOK, NEW r \in Runners, NEW to, NEW left, NEW did,
           Move(r, to, left, did)
    PROVE  \A q \in Runners \ {r} : pc'[q] = pc[q]
BY DEF MigrationsTypeOK, Move

\* A runner that has not finished its migrations is no server that serves.
LEMMA RunnerKeepsPool ==
    ASSUME TypeOK, MigrationsTypeOK', NEW r \in Runners, pc[r] # "up",
           NEW to, NEW left, NEW did, Move(r, to, left, did), UNCHANGED handlerVars
    PROVE  TypeOK'
<1>1. \A s \in Servers : pc[s] = "up" => pc'[s] = "up"
  BY OthersStay DEF TypeOK, Runners
<1>2. UNCHANGED <<stopping, at>>
  BY DEF handlerVars
<1>3. \A s \in Servers : Used(s)' = Used(s)
  BY <1>2 DEF Used
<1>4. stopping' \subseteq {s \in Servers : pc'[s] = "up"}
  BY <1>1, <1>2 DEF TypeOK
<1>5. \A s \in Servers, h \in Handlers : at'[s][h] # "idle" => pc'[s] = "up"
  BY <1>1, <1>2 DEF TypeOK
<1>6. \A s \in Servers : Used(s)' <= PoolMax
  BY <1>3 DEF TypeOK
<1>7. at' \in [Servers -> [Handlers -> {"idle"} \cup Waiting \cup Holding]]
  BY <1>2 DEF TypeOK
<1>8. QED
  BY <1>4, <1>5, <1>6, <1>7 DEF TypeOK

ServerInv == TypeOK /\ MigrationsInv

LEMMA ServerInitially == Init => ServerInv
<1> SUFFICES ASSUME Init PROVE ServerInv
  OBVIOUS
<1>1. PICK n \in Version : At(n)
  BY DEF Init, MigrationsInit, At, Version
<1>2. MigrationsTypeOK
  <2>1. schema \in [Tables -> 0 .. Len(Migration)] /\ applied \subseteq DOMAIN Migration
    BY <1>1, VersionIs, VersionTypes
  <2>2. QED
    BY <2>1 DEF Init, MigrationsInit, MigrationsTypeOK, Pc
<1>3. \A r \in Runners : RunnerOk(r, n)
  BY DEF Init, MigrationsInit, RunnerOk
<1>4. MigrationsInv
  BY <1>1, <1>2, <1>3 DEF Init, MigrationsInit, MigrationsInv, OneWriter
<1>5. \A s \in Servers, h \in Handlers : at[s][h] = "idle"
  BY DEF Init
<1>6. ASSUME NEW s \in Servers PROVE Used(s) <= PoolMax
  <2>1. {h \in Handlers : at[s][h] \in Holding} = {}
    BY <1>5, <1>6 DEF Holding
  <2>2. Used(s) = 0
    BY <2>1, FS_EmptySet DEF Used
  <2>3. QED
    BY <2>2, PoolAssumption
<1>7. at \in [Servers -> [Handlers -> {"idle"} \cup Waiting \cup Holding]]
  BY DEF Init
<1>8. QED
  BY <1>2, <1>4, <1>5, <1>6, <1>7 DEF Init, ServerInv, TypeOK

LEMMA RunnerKeepsInv ==
    ASSUME ServerInv, NEW r \in Runners,
           Start(r) \/ MigrationStep(r) \/ MigrationFails(r), UNCHANGED handlerVars
    PROVE  ServerInv'
<1> USE DEF ServerInv
<1>1. pc[r] # "up"
  BY DEF Start, MigrationStep, MigrationFails, List, Apply, Record, Commit
<1>2. MigrationsInv'
  <2>1. CASE Start(r)
    BY <2>1, Rests DEF Start
  <2>2. CASE MigrationStep(r)
    BY <2>2, ListKeepsInv, ApplyKeepsInv, RecordKeepsInv, CommitKeepsInv DEF MigrationStep
  <2>3. CASE MigrationFails(r)
    BY <2>3, RollbackKeepsInv DEF MigrationFails
  <2>4. QED
    BY <2>1, <2>2, <2>3
<1>3. MigrationsTypeOK'
  BY <1>2 DEF MigrationsInv
<1>4. \E to, left, did : Move(r, to, left, did)
  BY DEF Start, MigrationStep, MigrationFails, List, Apply, Record, Commit,
         AfterRecord, Ready, Rollback
<1>5. TypeOK'
  BY <1>1, <1>3, <1>4, RunnerKeepsPool
<1>6. QED
  BY <1>2, <1>5

LEMMA QuietMigrations ==
    ASSUME MigrationsInv, UNCHANGED migrationVars
    PROVE  MigrationsInv'
<1> USE DEF migrationVars
<1>1. MigrationsTypeOK' /\ OneWriter'
  BY DEF MigrationsInv, MigrationsTypeOK, OneWriter
<1>2. PICK n \in Version : At(n) /\ \A r \in Runners : RunnerOk(r, n)
  BY DEF MigrationsInv
<1>3. At(n)'
  BY <1>2 DEF At
<1>4. \A r \in Runners : RunnerOk(r, n)'
  BY <1>2 DEF RunnerOk, Reached
<1>5. QED
  BY <1>1, <1>3, <1>4 DEF MigrationsInv

\* A handler goes on: it may take a connection while there is one.
LEMMA ToKeepsInv ==
    ASSUME ServerInv, NEW s \in Servers, NEW h \in Handlers, pc[s] = "up",
           NEW next \in {"idle"} \cup Waiting \cup Holding, To(s, h, next),
           next \in Holding => at[s][h] \in Holding \/ Used(s) < PoolMax
    PROVE  ServerInv'
<1>1. UNCHANGED migrationVars /\ UNCHANGED stopping /\ at' = [at EXCEPT ![s][h] = next]
  BY DEF To
<1>2. MigrationsInv' /\ MigrationsTypeOK'
  BY <1>1, QuietMigrations DEF ServerInv, MigrationsInv
<1>3. UNCHANGED pc
  BY <1>1 DEF migrationVars
<1>4. at \in [Servers -> [Handlers -> {"idle"} \cup Waiting \cup Holding]]
  BY DEF ServerInv, TypeOK
<1>5. at' \in [Servers -> [Handlers -> {"idle"} \cup Waiting \cup Holding]]
  BY <1>1, <1>4
<1>6. \A q \in Servers, g \in Handlers :
        at'[q][g] = IF q = s /\ g = h THEN next ELSE at[q][g]
  BY <1>1, <1>4
<1>7. \A q \in Servers, g \in Handlers : at'[q][g] # "idle" => pc'[q] = "up"
  BY <1>3, <1>6 DEF ServerInv, TypeOK
<1>8. ASSUME NEW q \in Servers PROVE Used(q)' <= PoolMax
  <2> DEFINE H == {g \in Handlers : at[q][g] \in Holding}
             H2 == {g \in Handlers : at'[q][g] \in Holding}
  <2>1. IsFiniteSet(H) /\ IsFiniteSet(H2) /\ Cardinality(H) \in Nat /\ Cardinality(H2) \in Nat
    BY HandlersAreFinite
  <2>2. Cardinality(H) <= PoolMax /\ PoolMax \in Nat
    BY PoolAssumption DEF ServerInv, TypeOK, Used
  <2>3. CASE H2 \subseteq H
    <3>1. Cardinality(H2) <= Cardinality(H)
      BY <2>1, <2>3, FS_Subset
    <3>2. Cardinality(H2) <= PoolMax
      BY <2>1, <2>2, <3>1
    <3>3. QED
      BY <3>2 DEF Used
  <2>4. CASE ~(H2 \subseteq H)
    <3>1. q = s /\ next \in Holding /\ at[s][h] \notin Holding
      BY <2>4, <1>6
    <3>2. H2 = H \cup {h} /\ h \notin H
      BY <3>1, <1>6
    <3>3. Cardinality(H2) = Cardinality(H) + 1
      BY <2>1, <3>2, FS_AddElement
    <3>4. Cardinality(H) < PoolMax
      BY <3>1 DEF Used
    <3>5. Cardinality(H2) <= PoolMax
      BY <2>1, <2>2, <3>3, <3>4
    <3>6. QED
      BY <3>5 DEF Used
  <2>5. QED
    BY <2>3, <2>4
<1>9. stopping' \subseteq {q \in Servers : pc'[q] = "up"}
  BY <1>1, <1>3 DEF ServerInv, TypeOK
<1>10. QED
  BY <1>2, <1>5, <1>7, <1>8, <1>9 DEF ServerInv, TypeOK

LEMMA HandlerKeepsInv ==
    ASSUME ServerInv, NEW s \in Servers, NEW h \in Handlers,
           Request(s, h) \/ HandlerStep(s, h) \/ QueryFails(s, h) \/ ConnectRejects(s, h)
    PROVE  ServerInv'
<1> USE DEF Waiting, Holding
<1>1. at[s][h] # "idle" => pc[s] = "up"
  BY DEF ServerInv, TypeOK
<1>2. CASE Request(s, h)
  BY <1>2, ToKeepsInv DEF Request
<1>3. CASE \E next \in {"lockRow", "query1", "query2"} :
             at[s][h] # "idle" /\ Used(s) < PoolMax /\ To(s, h, next)
  BY <1>1, <1>3, ToKeepsInv
<1>4. CASE \E next \in {"update", "commitTx", "idle", "connect2"} :
             at[s][h] \in Holding /\ To(s, h, next)
  BY <1>1, <1>4, ToKeepsInv
<1>5. CASE at[s][h] # "idle" /\ To(s, h, "idle")
  BY <1>1, <1>5, ToKeepsInv
<1>6. QED
  BY <1>2, <1>3, <1>4, <1>5
     DEF HandlerStep, QueryFails, ConnectRejects, Connect, LockRow, Update, EndTx, Query

\* The process ends: its connections are gone, and all it had open.
LEMMA DownKeepsInv ==
    ASSUME ServerInv, NEW s \in Servers, Down(s)
    PROVE  ServerInv'
<1>1. s \in Runners
  BY DEF Runners
<1>2. UNCHANGED <<schema, applied>> /\ Move(s, "down", {}, {})
  BY DEF Down, Rollback
<1>3. MigrationsInv' /\ MigrationsTypeOK /\ MigrationsTypeOK'
  BY <1>1, <1>2, Rests DEF ServerInv, MigrationsInv
<1>4. \A q \in Servers \ {s} : pc'[q] = pc[q]
  BY <1>1, <1>2, <1>3, OthersStay DEF Runners
<1>5. at \in [Servers -> [Handlers -> {"idle"} \cup Waiting \cup Holding]]
  BY DEF ServerInv, TypeOK
<1>6. at' = [at EXCEPT ![s] = [h \in Handlers |-> "idle"]]
  BY DEF Down
<1>7. at' \in [Servers -> [Handlers -> {"idle"} \cup Waiting \cup Holding]]
  BY <1>5, <1>6
<1>8. \A q \in Servers, h \in Handlers : at'[q][h] = IF q = s THEN "idle" ELSE at[q][h]
  BY <1>5, <1>6
<1>9. \A q \in Servers, h \in Handlers : at'[q][h] # "idle" => pc'[q] = "up"
  BY <1>4, <1>8 DEF ServerInv, TypeOK
<1>10. stopping' \subseteq {q \in Servers : pc'[q] = "up"}
  BY <1>4 DEF Down, ServerInv, TypeOK
<1>11. ASSUME NEW q \in Servers PROVE Used(q)' <= PoolMax
  <2> DEFINE H == {h \in Handlers : at[q][h] \in Holding}
             H2 == {h \in Handlers : at'[q][h] \in Holding}
  <2>1. H2 \subseteq H
    BY <1>8 DEF Holding
  <2>2. /\ IsFiniteSet(H) /\ Cardinality(H) \in Nat /\ Cardinality(H2) \in Nat
        /\ Cardinality(H) <= PoolMax /\ PoolMax \in Nat
    BY HandlersAreFinite, PoolAssumption DEF ServerInv, TypeOK, Used
  <2>3. Cardinality(H2) <= Cardinality(H)
    BY <2>1, <2>2, FS_Subset
  <2>4. Cardinality(H2) <= PoolMax
    BY <2>2, <2>3
  <2>5. QED
    BY <2>4 DEF Used
<1>12. QED
  BY <1>3, <1>7, <1>9, <1>10, <1>11 DEF ServerInv, TypeOK

LEMMA NextKeepsInv == ServerInv /\ [Next]_vars => ServerInv'
<1> SUFFICES ASSUME ServerInv, [Next]_vars PROVE ServerInv'
  OBVIOUS
<1>1. ASSUME NEW r \in Runners,
             Start(r) \/ MigrationStep(r) \/ MigrationFails(r), UNCHANGED handlerVars
      PROVE  ServerInv'
  BY <1>1, RunnerKeepsInv
<1>2. ASSUME NEW s \in Servers, Shutdown(s) PROVE ServerInv'
  <2>1. MigrationsInv' /\ MigrationsTypeOK'
    BY <1>2, QuietMigrations DEF Shutdown, ServerInv, MigrationsInv
  <2>2. UNCHANGED <<pc, at>>
    BY <1>2 DEF Shutdown, migrationVars
  <2>3. \A q \in Servers : Used(q)' = Used(q)
    BY <2>2 DEF Used
  <2>4. QED
    BY <1>2, <2>1, <2>2, <2>3 DEF Shutdown, ServerInv, TypeOK
<1>3. ASSUME NEW s \in Servers, Exit(s) \/ Crash(s) PROVE ServerInv'
  BY <1>3, DownKeepsInv DEF Exit, Crash
<1>4. ASSUME NEW s \in Servers, NEW h \in Handlers,
             Request(s, h) \/ HandlerStep(s, h) \/ QueryFails(s, h) \/ ConnectRejects(s, h)
      PROVE  ServerInv'
  BY <1>4, HandlerKeepsInv
<1>5. ASSUME UNCHANGED vars PROVE ServerInv'
  <2>1. MigrationsInv' /\ MigrationsTypeOK'
    BY <1>5, QuietMigrations DEF ServerInv, MigrationsInv, vars
  <2>2. UNCHANGED <<pc, at, stopping>>
    BY <1>5 DEF vars, migrationVars, handlerVars
  <2>3. \A q \in Servers : Used(q)' = Used(q)
    BY <2>2 DEF Used
  <2>4. QED
    BY <2>1, <2>2, <2>3 DEF ServerInv, TypeOK
<1>6. QED
  BY <1>1, <1>2, <1>3, <1>4, <1>5 DEF Next

-----------------------------------------------------------------------------
(* The theorems.                                                           *)

LEMMA ServerInvariant == Spec => []ServerInv
<1>1. QED
  BY ServerInitially, NextKeepsInv, PTL DEF Spec

\* Runners and handlers are in the states the program knows, the pool gives out no
\* more connections than PG_POOL_MAX, and only a server that serves has handlers at work.
THEOREM ServerTypeCorrect == Spec => []TypeOK
<1>1. ServerInv => TypeOK
  BY DEF ServerInv
<1>2. QED
  BY <1>1, ServerInvariant, PTL

\* However many processes of whatever releases start, fail and migrate together, one
\* that serves has every table its release needs (index.ts migrates before it listens).
THEOREM ServersHaveTheirSchema == Spec => []ServesItsSchema
<1>1. ServerInv => ServesItsSchema
  <2> SUFFICES ASSUME ServerInv, NEW s \in Servers, pc[s] = "up"
               PROVE  Files(s) \subseteq applied
    BY DEF ServesItsSchema
  <2>1. PICK n \in Version : At(n) /\ \A r \in Runners : RunnerOk(r, n)
    BY DEF ServerInv, MigrationsInv
  <2>2. s \in Runners
    BY DEF Runners
  <2>3. Release[s] <= n
    BY <2>1, <2>2 DEF RunnerOk
  <2>4. applied = 1 .. n /\ n \in 0 .. 7 /\ Release[s] \in 1 .. 7
    BY <2>1, <2>2, VersionIs, VersionTypes, Releases
  <2>5. QED
    BY <2>3, <2>4 DEF Files
<1>2. QED
  BY <1>1, ServerInvariant, PTL

-----------------------------------------------------------------------------
(* The migrations implement SchemaUpgrade.                                 *)

LEMMA StartsWithAVersion == Init => Upgrade!Init
<1>1. SUFFICES ASSUME Init PROVE Upgrade!Init
  OBVIOUS
<1>2. PICK n \in Version : At(n)
  BY <1>1 DEF Init, MigrationsInit, At, Version
<1>3. [schema |-> schema, applied |-> applied] = Database(n)
  BY <1>2 DEF At, Database
<1>4. QED
  BY <1>2, <1>3 DEF Upgrade!Init

LEMMA DatabaseIs ==
    ASSUME NEW n \in Version, At(n)
    PROVE  [schema |-> schema, applied |-> applied] = Database(n)
BY DEF At, Database

LEMMA CommitUpgrades ==
    ASSUME MigrationsInv, NEW r \in Runners, Commit(r)
    PROVE  Upgrade!Upgrade
<1>1. PICK n \in Version : At(n) /\ \A q \in Runners : RunnerOk(q, n)
  BY DEF MigrationsInv
<1>2. PICK m \in Version : n < m /\ At(m)'
  BY <1>1, CommitMoves
<1>3. [schema |-> schema, applied |-> applied] = Database(n)
  BY <1>1, DatabaseIs
<1>4. [schema |-> schema', applied |-> applied'] = Database(m)
  BY <1>2 DEF At, Database
<1>5. QED
  BY <1>1, <1>2, <1>3, <1>4 DEF Upgrade!Upgrade

LEMMA OnlyCommitsWrite ==
    ASSUME Next, ~ \E r \in Runners : Commit(r)
    PROVE  UNCHANGED <<schema, applied>>
<1>1. ASSUME NEW r \in Runners, Start(r) \/ MigrationStep(r) \/ MigrationFails(r)
      PROVE  UNCHANGED <<schema, applied>>
  BY <1>1 DEF Start, MigrationStep, MigrationFails, List, Apply, Record
<1>2. ASSUME NEW s \in Servers, Shutdown(s) \/ Exit(s) \/ Crash(s)
      PROVE  UNCHANGED <<schema, applied>>
  BY <1>2 DEF Shutdown, Exit, Crash, Down, migrationVars
<1>3. ASSUME NEW s \in Servers, NEW h \in Handlers,
             Request(s, h) \/ HandlerStep(s, h) \/ QueryFails(s, h) \/ ConnectRejects(s, h)
      PROVE  UNCHANGED <<schema, applied>>
  BY <1>3 DEF Request, HandlerStep, QueryFails, ConnectRejects, Connect, LockRow, Update,
              EndTx, Query, To, migrationVars
<1>4. QED
  BY <1>1, <1>2, <1>3 DEF Next

\* The database always is one the migrations make, and a late runner of an older release
\* never takes it back: Record's unique name lets only the runner pass whose list starts
\* at the version of the database.
THEOREM MigrationsAreUpgrades == Spec => ImplementsSchemaUpgrade
<1>1. ServerInv /\ [Next]_vars
        => [Upgrade!Upgrade]_[schema |-> schema, applied |-> applied]
  <2> SUFFICES ASSUME ServerInv, [Next]_vars,
                      ~(UNCHANGED [schema |-> schema, applied |-> applied])
               PROVE  Upgrade!Upgrade
    OBVIOUS
  <2>1. ~(UNCHANGED <<schema, applied>>)
    OBVIOUS
  <2>2. Next
    BY <2>1 DEF vars, migrationVars
  <2>3. \E r \in Runners : Commit(r)
    BY <2>1, <2>2, OnlyCommitsWrite
  <2>4. QED
    BY <2>3, CommitUpgrades DEF ServerInv
<1>2. QED
  BY <1>1, StartsWithAVersion, ServerInvariant, PTL
     DEF Spec, ImplementsSchemaUpgrade, Upgrade!Spec
=============================================================================
