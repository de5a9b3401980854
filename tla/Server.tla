------------------------------- MODULE Server -------------------------------
(***************************************************************************)
(* The life of a server process: it migrates the database, serves, and on  *)
(* SIGTERM drains its pool and exits.  While it serves, its handlers share *)
(* PG_POOL_MAX database connections.  VerifyEmail keeps one for the whole  *)
(* of its transaction, which locks a row; every other handler takes one    *)
(* for each query, and may hold it while it waits for that row.  A saga    *)
(* makes several queries, one after another.                               *)
(*                                                                         *)
(* One row is enough to wait for.  Migrations started by other releases do *)
(* not wait for handlers here, nor handlers for them.                      *)
(***************************************************************************)
EXTENDS Migrations

CONSTANTS
    Verifiers,      \* per server: slots for VerifyEmail calls
    Sagas,          \* per server: slots for calls of several queries
    PoolMax         \* PG_POOL_MAX

ASSUME PoolAssumption ==
    /\ Verifiers \cap Sagas = {}
    /\ IsFiniteSet(Verifiers \cup Sagas)
    /\ PoolMax \in Nat \ {0}

VARIABLES
    stopping,       \* servers that have begun to shut down
    at              \* what each handler of each server waits for

handlerVars == <<stopping, at>>
vars == <<migrationVars, handlerVars>>

Handlers == Verifiers \cup Sagas

\* Waiting for a connection; and for an answer on the one they hold.
Waiting == {"txConnect", "connect1", "connect2"}
Holding == {"lockRow", "update", "commitTx", "query1", "query2"}

Used(s) == Cardinality({h \in Handlers : at[s][h] \in Holding})

TypeOK ==
    /\ MigrationsTypeOK
    /\ stopping \subseteq {s \in Servers : pc[s] = "up"}
    /\ at \in [Servers -> [Handlers -> {"idle"} \cup Waiting \cup Holding]]
    /\ \A s \in Servers : Used(s) <= PoolMax
    /\ \A s \in Servers, h \in Handlers : at[s][h] # "idle" => pc[s] = "up"

-----------------------------------------------------------------------------

Init ==
    /\ MigrationsInit
    /\ stopping = {}
    /\ at = [s \in Servers |-> [h \in Handlers |-> "idle"]]

To(s, h, next) ==
    /\ at' = [at EXCEPT ![s][h] = next]
    /\ UNCHANGED <<migrationVars, stopping>>

\* No handler of any server holds the lock of the row.
RowFree == \A s \in Servers, h \in Handlers : at[s][h] \notin {"update", "commitTx"}

\* A request; those of open connections still come in after server.close().
Request(s, h) ==
    /\ pc[s] = "up"
    /\ at[s][h] = "idle"
    /\ To(s, h, IF h \in Verifiers THEN "txConnect" ELSE "connect1")

\* Mutant: >= for >.
ConnectOverfull(s, h, wait, go) ==
    /\ at[s][h] = wait
    /\ s \notin stopping
    /\ Used(s) <= PoolMax
    /\ To(s, h, go)

\* pool.connect(): after end() the pool gives out no more connections.
Connect(s, h, wait, go) ==
    /\ at[s][h] = wait
    /\ s \notin stopping
    /\ Used(s) < PoolMax
    /\ To(s, h, go)

\* connectionTimeoutMillis is over, or the pool has been ended.
ConnectRejects(s, h) ==
    /\ at[s][h] \in Waiting
    /\ To(s, h, "idle")

\* BEGIN; SELECT ... FOR UPDATE.
LockRow(s, h) ==
    /\ at[s][h] = "lockRow"
    /\ RowFree
    /\ To(s, h, "update")

\* Mutant: save(verification) without the transaction's client: the UPDATE waits
\* for the lock of the transaction that waits for it.
UpdateOutsideTx(s, h) ==
    /\ at[s][h] = "update"
    /\ RowFree
    /\ To(s, h, "commitTx")

\* The UPDATE goes over the connection that has the lock.
Update(s, h) ==
    /\ at[s][h] = "update"
    /\ To(s, h, "commitTx")

\* COMMIT or, after an error, ROLLBACK; release().
EndTx(s, h) ==
    /\ at[s][h] = "commitTx"
    /\ To(s, h, "idle")

\* A query of its own on the row, and the next one of the saga.
Query(s, h, this, next) ==
    /\ at[s][h] = this
    /\ RowFree
    /\ To(s, h, next)

\* A query rejects: the transaction is rolled back, the connection is free.
QueryFails(s, h) ==
    /\ at[s][h] \in Holding
    /\ To(s, h, "idle")

HandlerStep(s, h) ==
    \/ Connect(s, h, "txConnect", "lockRow") \/ LockRow(s, h) \/ Update(s, h) \/ EndTx(s, h)
    \/ Connect(s, h, "connect1", "query1") \/ Query(s, h, "query1", "connect2")
    \/ Connect(s, h, "connect2", "query2") \/ Query(s, h, "query2", "idle")

\* SIGTERM or SIGINT; a second one finds shutdownInProgress.
Shutdown(s) ==
    /\ pc[s] = "up"
    /\ s \notin stopping
    /\ stopping' = stopping \cup {s}
    /\ UNCHANGED <<migrationVars, at>>

Down(s) ==
    /\ stopping' = stopping \ {s}
    /\ at' = [at EXCEPT ![s] = [h \in Handlers |-> "idle"]]
    /\ Rollback(s)
    /\ UNCHANGED <<schema, applied>>

\* pgPool.end() resolves once every connection is back; then process.exit(0).
Exit(s) ==
    /\ s \in stopping
    /\ Used(s) = 0
    /\ Down(s)

Crash(s) ==
    /\ pc[s] = "up"
    /\ Down(s)

-----------------------------------------------------------------------------

Next ==
    \/ \E r \in Runners :
         /\ Start(r) \/ MigrationStep(r) \/ MigrationFails(r)
         /\ UNCHANGED handlerVars
    \/ \E s \in Servers :
         \/ Shutdown(s) \/ Exit(s) \/ Crash(s)
         \/ \E h \in Handlers :
              Request(s, h) \/ HandlerStep(s, h) \/ QueryFails(s, h) \/ ConnectRejects(s, h)

Spec == Init /\ [][Next]_vars

\* A request that waits for a connection gets one or its time runs out; queries are
\* answered, and locks granted in turn.
Fairness ==
    /\ MigrationFairness
    /\ \A s \in Servers :
        /\ WF_vars(Exit(s))
        /\ \A h \in Handlers :
            /\ WF_vars(ConnectRejects(s, h))
            /\ WF_vars(Update(s, h) \/ EndTx(s, h))
            /\ SF_vars(LockRow(s, h) \/ Query(s, h, "query1", "connect2")
                                    \/ Query(s, h, "query2", "idle"))

FairSpec == Spec /\ Fairness

-----------------------------------------------------------------------------
(* Properties.                                                             *)

\* A server answers requests only over a database that has all its own migrations,
\* however many others migrated, failed or exited meanwhile.  It may have later ones
\* too, of a release the server does not know.
ServesItsSchema == \A s \in Servers : pc[s] = "up" => Files(s) \subseteq applied

\* Even with every connection in use, a handler returns: the one that holds the row
\* needs no other connection than its own.
HandlersReturn ==
    \A s \in Servers, h \in Handlers : at[s][h] # "idle" ~> at[s][h] = "idle"

\* A server that is told to stop does.
StopsWhenTold == \A s \in Servers : s \in stopping ~> s \notin stopping

-----------------------------------------------------------------------------
(* What the code's messages say and the code does not keep.                *)

\* "graceful shutdown": no request is left half done.
ShutdownFinishesRequests ==
    [][\A s \in Servers, h \in Sagas : Exit(s) => at[s][h] # "connect2"]_vars
=============================================================================
