----------------------------- MODULE AuditChain -----------------------------
(***************************************************************************)
(* The durable audit chain of packages/database/src/audit-store.ts, and    *)
(* the transactions that append to it.                                     *)
(*                                                                         *)
(* Every write of every repository runs inside withTransaction and ends    *)
(* with PostgresAuditStore.append.  An append is three steps, each a wait  *)
(* point of PostgreSQL at READ COMMITTED: the SELECT ... FOR UPDATE takes  *)
(* its snapshot and so fixes which row is the tail; it then waits for the  *)
(* lock on that row, and after the wait still returns that row, because    *)
(* the row itself did not change; the INSERT then waits while another      *)
(* transaction holds an uncommitted row with the same primary key.         *)
(***************************************************************************)
EXTENDS Integers, FiniteSets

CONSTANTS
    Txns,       \* calls of repository methods, each one transaction
    Payloads,   \* what an audit entry may carry
    Empty,      \* the payload '{}' an erasure leaves behind
    PoolSize    \* connections of the pool (client.ts: max)

ASSUME PoolAssumption == PoolSize \in Nat \ {0}

VARIABLES
    log,        \* the committed rows of audit_log
    effects,    \* the transactions whose business writes are committed
    pc,         \* where each transaction is
    input,      \* the payload each transaction will append
    tail,       \* the tail row each transaction read
    locked,     \* seq of the audit row each transaction holds locked, -1 for none
    pending,    \* the uncommitted row each transaction inserted
    answer      \* what the repository method returned to its caller

txnVars == <<pc, input, tail, locked, pending, answer>>
vars == <<log, effects, txnVars>>

\* SHA-256 is taken as collision free: a digest is the tuple of what it covers.
GenesisHash == <<"genesis">>
PayloadHash(p) == <<"payload", p>>
EntryHash(seq, by, payloadHash, prevHash) == <<seq, by, payloadHash, prevHash>>

NoTail == [seq |-> -1, hash |-> GenesisHash]

\* The row append() inserts for transaction t: actor, action and subject are
\* the identity of t, everything else follows from the tail it read.
NewRow(t) ==
    LET seq == tail[t].seq + 1
        payloadHash == PayloadHash(input[t])
    IN  [seq         |-> seq,
         by          |-> t,
         payload     |-> input[t],
         payloadHash |-> payloadHash,
         prevHash    |-> tail[t].hash,
         hash        |-> EntryHash(seq, t, payloadHash, tail[t].hash),
         tombstoned  |-> FALSE]

Open == {"work", "locking", "insert", "inserted", "failed", "collided"}
Connected == {t \in Txns : pc[t] \in Open}

Init ==
    /\ log = {}
    /\ effects = {}
    /\ pc = [t \in Txns |-> "idle"]
    /\ input = [t \in Txns |-> Empty]
    /\ tail = [t \in Txns |-> NoTail]
    /\ locked = [t \in Txns |-> -1]
    /\ pending = [t \in Txns |-> {}]
    /\ answer = [t \in Txns |-> "none"]

-----------------------------------------------------------------------------
(***************************************************************************)
(* withTransaction: BEGIN, and the ways a transaction ends.                *)
(***************************************************************************)

\* A connection is taken from the pool and BEGIN is sent.
Begin(t, p) ==
    /\ pc[t] = "idle"
    /\ Cardinality(Connected) < PoolSize
    /\ pc' = [pc EXCEPT ![t] = "work"]
    /\ input' = [input EXCEPT ![t] = p]
    /\ UNCHANGED <<log, effects, tail, locked, pending, answer>>

\* No connection within connectionTimeoutMillis: connect() rejects.
PoolTimeout(t) ==
    /\ pc[t] = "idle"
    /\ Cardinality(Connected) >= PoolSize
    /\ pc' = [pc EXCEPT ![t] = "done"]
    /\ answer' = [answer EXCEPT ![t] = "unreachable"]
    /\ UNCHANGED <<log, effects, input, tail, locked, pending>>

\* Mutant: the check comes after the write, and refuse() commits the write.
RefuseAfterWriting(t) ==
    /\ pc[t] = "work"
    /\ pc' = [pc EXCEPT ![t] = "done"]
    /\ effects' = effects \cup {t}
    /\ answer' = [answer EXCEPT ![t] = "refused"]
    /\ UNCHANGED <<log, input, tail, locked, pending>>

\* A check of the method fails: it returns refuse(...), which is not a throw,
\* so the transaction, which has written nothing, commits.
Refuse(t) ==
    /\ pc[t] = "work"
    /\ pc' = [pc EXCEPT ![t] = "done"]
    /\ answer' = [answer EXCEPT ![t] = "refused"]
    /\ UNCHANGED <<log, effects, input, tail, locked, pending>>

\* Any statement may fail, and so may the connection.
Fail(t) ==
    /\ pc[t] \in {"work", "locking", "insert", "inserted"}
    /\ pc' = [pc EXCEPT ![t] = "failed"]
    /\ UNCHANGED <<log, effects, input, tail, locked, pending, answer>>

\* The catch of withTransaction: everything uncommitted and every lock goes.
Rollback(t) ==
    /\ pc[t] \in {"failed", "collided"}
    /\ pc' = [pc EXCEPT ![t] = "done"]
    /\ pending' = [pending EXCEPT ![t] = {}]
    /\ locked' = [locked EXCEPT ![t] = -1]
    /\ answer' = [answer EXCEPT ![t] = "unreachable"]
    /\ UNCHANGED <<log, effects, input, tail>>

\* COMMIT publishes the business write and the audit row together.
Commit(t) ==
    /\ pc[t] = "inserted"
    /\ log' = log \cup pending[t]
    /\ effects' = effects \cup {t}
    /\ pending' = [pending EXCEPT ![t] = {}]
    /\ locked' = [locked EXCEPT ![t] = -1]
    /\ pc' = [pc EXCEPT ![t] = "committed"]
    /\ UNCHANGED <<input, tail, answer>>

\* The reply to COMMIT arrives, or the connection is lost before it does.
Reply(t) ==
    /\ pc[t] = "committed"
    /\ pc' = [pc EXCEPT ![t] = "done"]
    /\ \E a \in {"ok", "unreachable"} : answer' = [answer EXCEPT ![t] = a]
    /\ UNCHANGED <<log, effects, input, tail, locked, pending>>

-----------------------------------------------------------------------------
(***************************************************************************)
(* PostgresAuditStore.append                                               *)
(***************************************************************************)

\* The SELECT takes its snapshot: the tail is the highest committed seq.  An
\* empty table gives no row, and there is nothing to lock.
ReadTail(t) ==
    /\ pc[t] = "work"
    /\ \/ \E r \in log :
            /\ \A q \in log : q.seq <= r.seq
            /\ tail' = [tail EXCEPT ![t] = [seq |-> r.seq, hash |-> r.hash]]
            /\ pc' = [pc EXCEPT ![t] = "locking"]
       \/ /\ log = {}
          /\ tail' = [tail EXCEPT ![t] = NoTail]
          /\ pc' = [pc EXCEPT ![t] = "insert"]
    /\ UNCHANGED <<log, effects, input, locked, pending, answer>>

\* FOR UPDATE is granted once nobody else holds the row.
LockTail(t) ==
    /\ pc[t] = "locking"
    /\ \A u \in Txns : locked[u] # tail[t].seq
    /\ locked' = [locked EXCEPT ![t] = tail[t].seq]
    /\ pc' = [pc EXCEPT ![t] = "insert"]
    /\ UNCHANGED <<log, effects, input, tail, pending, answer>>

\* The primary key of audit_log, over committed and uncommitted rows.
KeyInFlight(seq) == \E u \in Txns : \E r \in pending[u] : r.seq = seq

\* Mutant: seq is not a key, and only UNIQUE(hash) is left.
KeyNeverTaken(seq) == FALSE

KeyTaken(seq) == \E r \in log : r.seq = seq

\* Mutant: the append runs on the pool and not in the caller's transaction.
InsertOutsideTransaction(t) ==
    /\ pc[t] = "insert"
    /\ ~KeyTaken(tail[t].seq + 1)
    /\ log' = log \cup {NewRow(t)}
    /\ pc' = [pc EXCEPT ![t] = "inserted"]
    /\ UNCHANGED <<effects, input, tail, locked, pending, answer>>

\* The INSERT succeeds: no row has the key, and no open transaction wrote one.
Insert(t) ==
    /\ pc[t] = "insert"
    /\ ~KeyTaken(tail[t].seq + 1)
    /\ ~KeyInFlight(tail[t].seq + 1)
    /\ pending' = [pending EXCEPT ![t] = {NewRow(t)}]
    /\ pc' = [pc EXCEPT ![t] = "inserted"]
    /\ UNCHANGED <<log, effects, input, tail, locked, answer>>

\* The INSERT meets a committed row with the key: unique violation, a throw.
Collide(t) ==
    /\ pc[t] = "insert"
    /\ KeyTaken(tail[t].seq + 1)
    /\ pc' = [pc EXCEPT ![t] = "collided"]
    /\ UNCHANGED <<log, effects, input, tail, locked, pending, answer>>

\* Mutant: the erasure recomputes the digest over what is left.
TombstoneRehashes(r) ==
    /\ r \in log
    /\ ~r.tombstoned
    /\ \A u \in Txns : locked[u] # r.seq
    /\ log' = (log \ {r}) \cup {[r EXCEPT !.payload = Empty,
                                         !.payloadHash = PayloadHash(Empty)]}
    /\ UNCHANGED <<effects, txnVars>>

\* PostgresAuditStore.tombstone, one UPDATE under the trigger of migration
\* 0004.  It needs the row lock, so it waits for whoever holds the row.
Tombstone(r) ==
    /\ r \in log
    /\ ~r.tombstoned
    /\ \A u \in Txns : locked[u] # r.seq
    /\ log' = (log \ {r}) \cup {[r EXCEPT !.payload = Empty, !.tombstoned = TRUE]}
    /\ UNCHANGED <<effects, txnVars>>

-----------------------------------------------------------------------------
Step(t) ==
    \/ Rollback(t) \/ Commit(t) \/ Reply(t)
    \/ ReadTail(t) \/ LockTail(t) \/ Insert(t) \/ Collide(t)

Start(t) == PoolTimeout(t) \/ \E p \in Payloads : Begin(t, p)

TxnNext(t) == Start(t) \/ Refuse(t) \/ Fail(t) \/ Step(t)

\* Every call has been answered: the modelled run is over.
Terminated == (\A t \in Txns : pc[t] = "done") /\ UNCHANGED vars

Next ==
    \/ \E t \in Txns : TxnNext(t)
    \/ \E r \in log : Tombstone(r)
    \/ Terminated

Spec == Init /\ [][Next]_vars

-----------------------------------------------------------------------------
(***************************************************************************)
(* Properties                                                              *)
(***************************************************************************)

\* A row of the table, whatever its two digests of the chain are.
IsRow(r) ==
    /\ DOMAIN r = {"seq", "by", "payload", "payloadHash", "prevHash", "hash", "tombstoned"}
    /\ r.seq \in Nat
    /\ r.by \in Txns
    /\ r.payload \in Payloads \cup {Empty}
    /\ r.tombstoned \in BOOLEAN

\* The type of every variable.
TypeOK ==
    /\ \A r \in log : IsRow(r)
    /\ effects \subseteq Txns
    /\ pc \in [Txns -> Open \cup {"idle", "committed", "done"}]
    /\ input \in [Txns -> Payloads \cup {Empty}]
    /\ DOMAIN tail = Txns
    /\ \A t \in Txns : tail[t].seq \in Nat \cup {-1}
    /\ locked \in [Txns -> Nat \cup {-1}]
    /\ DOMAIN pending = Txns
    /\ \A t \in Txns : \A r \in pending[t] : IsRow(r)
    /\ answer \in [Txns -> {"none", "ok", "refused", "unreachable"}]

\* What verify() recomputes, in sequence order, over rows of which those in
\* erasedRows are known to have lost their payload.
Contiguous(rows) ==
    /\ \A r, q \in rows : r.seq = q.seq => r = q
    /\ \A r \in rows : \A k \in 0 .. (r.seq - 1) : \E q \in rows : q.seq = k

Linked(rows) ==
    \A r \in rows :
        \/ r.seq = 0 /\ r.prevHash = GenesisHash
        \/ \E q \in rows : q.seq = r.seq - 1 /\ r.prevHash = q.hash

Verifies(rows, erasedRows) ==
    /\ Contiguous(rows)
    /\ Linked(rows)
    /\ \A r \in rows \ erasedRows : r.payloadHash = PayloadHash(r.payload)
    /\ \A r \in rows : r.hash = EntryHash(r.seq, r.by, r.payloadHash, r.prevHash)

\* PostgresAuditStore.verify: the tombstoned_at column says which are erased.
Verify == Verifies(log, {r \in log : r.tombstoned})

\* export() writes AuditEntry lines, which have no tombstone field, and
\* AuditChain.fromExport(...).verify() recomputes every payload digest.
VerifyExport == Verifies(log, {})

\* Whatever appends run concurrently and whichever of them fail, the table
\* holds one unbroken chain: no two rows continue the same row, no position
\* is missing and every digest is the one verify() recomputes.
ChainVerifies == Verify

\* A committed write has exactly one audit entry, and no entry exists for a
\* write that was rolled back or refused.
AuditedExactly ==
    /\ effects = {r.by : r \in log}
    /\ \A r, q \in log : r.by = q.by => r = q

\* A caller told "ok" has its write and its entry; a caller told that it was
\* refused has neither.
AnswersAreHonest ==
    \A t \in Txns :
        /\ answer[t] = "ok" => \E r \in log : r.by = t
        /\ answer[t] = "refused" => t \notin effects /\ \A r \in log : r.by # t

\* An append is only ever lost to an append that has committed: it cannot
\* happen that concurrent appends all fail one another.
CollisionHasWinner ==
    \A t \in Txns : pc[t] = "collided" =>
        \E r \in log : r.by # t /\ r.seq = tail[t].seq + 1 /\ r.prevHash = tail[t].hash

\* What a transaction was told is what happened: its write and its one entry
\* stand or fall together, and one that lost its position lost it to a commit.
OutcomesAreTrue == AuditedExactly /\ AnswersAreHonest /\ CollisionHasWinner

\* The identity of an entry: all that its position in the chain commits to.
Identity(r) == <<r.seq, r.by, r.payloadHash, r.prevHash, r.hash>>

\* No step removes or rewrites a committed entry; a step may only erase its
\* payload, and an erased entry never changes again.
HistoryIsFixed ==
    [][\A r \in log : \E q \in log' :
          /\ Identity(q) = Identity(r)
          /\ q = r \/ (~r.tombstoned /\ q.tombstoned /\ q.payload = Empty)]_vars

\* The comment on append(): FOR UPDATE on the tail means that two concurrent
\* appends cannot both link to the same predecessor.  Once a transaction holds
\* the lock on the row it will link to, no entry links to that row.
LockedTailIsLast ==
    \A t \in Txns : pc[t] = "insert" /\ locked[t] # -1 =>
        \A r \in log : r.prevHash # tail[t].hash

\* An export carries no tombstones, so whoever checks one finds the emptied
\* payloads altered: it verifies exactly while nothing it lost had content.
ExportVerifiesUntilErasure ==
    VerifyExport <=> \A r \in log : r.tombstoned => r.payloadHash = PayloadHash(Empty)

\* The abstract audit trail: an entry is its position, its author and the
\* fingerprint of what it carried.
Trail == INSTANCE AuditLog WITH
    record <- {[pos |-> r.seq, by |-> r.by, print |-> r.payloadHash] : r \in log},
    erased <- {r.seq : r \in {q \in log : q.tombstoned}},
    effects <- effects

\* The chain implements the abstract trail: every step of the transactions is
\* a whole write with its entry, an erasure, or nothing.
ImplementsTrail == Trail!Spec
=============================================================================
