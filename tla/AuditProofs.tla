---------------------------- MODULE AuditProofs ----------------------------
(*****************************************************************************)
(* Proofs about the audit chain and the transactions that append to it, for  *)
(* any transactions, payloads and rows and any size of the pool.             *)
(*****************************************************************************)
EXTENDS RepositoryWrite, FiniteSetTheorems, TLAPS


-----------------------------------------------------------------------------
(*****************************************************************************)
(* AuditChain.                                                               *)
(*****************************************************************************)

(***************************************************************************)
(* The inductive invariant.  The chain verifies; each transaction's tail   *)
(* is a committed row, or the empty table; an uncommitted row is the one   *)
(* its transaction's tail determines, under a key nobody else has; and a   *)
(* transaction's effect is committed exactly when its entry is.            *)
(***************************************************************************)
TailIsRow ==
    \A t \in Txns : tail[t] = NoTail \/
        \E r \in log : tail[t] = [seq |-> r.seq, hash |-> r.hash]

PendingIsNewRow ==
    \A t \in Txns :
        /\ pending[t] = {} \/ pending[t] = {NewRow(t)}
        /\ pending[t] # {} => pc[t] \in {"inserted", "failed"}
        /\ pc[t] = "inserted" => pending[t] # {}

KeysAreFree ==
    /\ \A t \in Txns : \A p \in pending[t] : \A r \in log : r.seq # p.seq
    /\ \A t, u \in Txns : \A p \in pending[t], q \in pending[u] :
           p.seq = q.seq => t = u

EffectsFollowEntries ==
    /\ AuditedExactly
    /\ \A t \in Txns : t \in effects => pc[t] \in {"committed", "done"}
    /\ \A t \in Txns : pc[t] = "committed" => t \in effects

AnswersFollowEffects ==
    \A t \in Txns :
        /\ answer[t] = "ok" => t \in effects
        /\ answer[t] = "refused" => t \notin effects /\ pc[t] = "done"

CollidedKeyIsTaken ==
    \A t \in Txns : pc[t] = "collided" => KeyTaken(tail[t].seq + 1)

IInv ==
    /\ TypeOK
    /\ Verify
    /\ TailIsRow
    /\ PendingIsNewRow
    /\ KeysAreFree
    /\ EffectsFollowEntries
    /\ AnswersFollowEffects
    /\ CollidedKeyIsTaken

-----------------------------------------------------------------------------
\* The row a transaction inserts has the type of a row.
LEMMA NewRowIsRow ==
    ASSUME NEW t \in Txns, input[t] \in Payloads \cup {Empty},
           tail[t].seq \in Nat \cup {-1}
    PROVE  IsRow(NewRow(t))
BY DEF IsRow, NewRow

\* Erasing a payload leaves a row, with every other field as it was.
LEMMA ErasedRow ==
    ASSUME NEW r, IsRow(r)
    PROVE  LET q == [r EXCEPT !.payload = Empty, !.tombstoned = TRUE] IN
           /\ IsRow(q)
           /\ q.seq = r.seq /\ q.by = r.by /\ q.payloadHash = r.payloadHash
           /\ q.prevHash = r.prevHash /\ q.hash = r.hash
           /\ q.tombstoned = TRUE /\ q.payload = Empty
BY DEF IsRow

\* The types hold at the start.
LEMMA TypeInit == Init => TypeOK
BY DEF Init, TypeOK, NoTail, Open

\* Every step keeps the types.
LEMMA TypeStep == TypeOK /\ [Next]_vars => TypeOK'
<1> SUFFICES ASSUME TypeOK, [Next]_vars PROVE TypeOK'
  OBVIOUS
<1>1. ASSUME NEW t \in Txns, NEW p \in Payloads, Begin(t, p) PROVE TypeOK'
  BY <1>1 DEF TypeOK, Begin, Open, IsRow
<1>2. ASSUME NEW t \in Txns, PoolTimeout(t) PROVE TypeOK'
  BY <1>2 DEF TypeOK, PoolTimeout, Open, IsRow
<1>3. ASSUME NEW t \in Txns, Refuse(t) PROVE TypeOK'
  BY <1>3 DEF TypeOK, Refuse, Open, IsRow
<1>4. ASSUME NEW t \in Txns, Fail(t) PROVE TypeOK'
  BY <1>4 DEF TypeOK, Fail, Open, IsRow
<1>5. ASSUME NEW t \in Txns, Rollback(t) PROVE TypeOK'
  BY <1>5 DEF TypeOK, Rollback, Open, IsRow
<1>6. ASSUME NEW t \in Txns, Commit(t) PROVE TypeOK'
  BY <1>6 DEF TypeOK, Commit, Open, IsRow
<1>7. ASSUME NEW t \in Txns, Reply(t) PROVE TypeOK'
  BY <1>7 DEF TypeOK, Reply, Open, IsRow
<1>8. ASSUME NEW t \in Txns, ReadTail(t) PROVE TypeOK'
  BY <1>8 DEF TypeOK, ReadTail, NoTail, Open, IsRow
<1>9. ASSUME NEW t \in Txns, LockTail(t) PROVE TypeOK'
  BY <1>9 DEF TypeOK, LockTail, Open, IsRow
<1>10. ASSUME NEW t \in Txns, Insert(t) PROVE TypeOK'
  <2>1. IsRow(NewRow(t))
    BY NewRowIsRow DEF TypeOK
  <2>2. IsRow(NewRow(t))'
    BY <1>10, <2>1 DEF Insert, NewRow, IsRow
  <2> QED
    BY <1>10, <2>1 DEF TypeOK, Insert, Open, IsRow
<1>11. ASSUME NEW t \in Txns, Collide(t) PROVE TypeOK'
  BY <1>11 DEF TypeOK, Collide, Open, IsRow
<1>12. ASSUME NEW r \in log, Tombstone(r) PROVE TypeOK'
  <2>1. IsRow([r EXCEPT !.payload = Empty, !.tombstoned = TRUE])
    BY ErasedRow DEF TypeOK
  <2>2. \A q \in log' : IsRow(q)
    BY <1>12, <2>1 DEF Tombstone, TypeOK
  <2> QED
    BY <1>12, <2>2 DEF Tombstone, TypeOK, txnVars, IsRow
<1>13. CASE UNCHANGED vars
  BY <1>13 DEF TypeOK, vars, txnVars, IsRow
<1> QED
  BY <1>1, <1>2, <1>3, <1>4, <1>5, <1>6, <1>7, <1>8, <1>9, <1>10, <1>11,
     <1>12, <1>13 DEF Next, TxnNext, Start, Step, Terminated

\* Every variable keeps its type.
THEOREM TypeCorrect == Spec => []TypeOK
BY TypeInit, TypeStep, PTL DEF Spec

-----------------------------------------------------------------------------
(***************************************************************************)
(* The chain.                                                              *)
(***************************************************************************)

\* Adding the row that a valid tail determines, under a free key, keeps the
\* table one verifying chain.
LEMMA ExtendedChainVerifies ==
    ASSUME NEW t \in Txns, TypeOK, Verify, TailIsRow,
           \A r \in log : r.seq # NewRow(t).seq,
           NEW rows, rows = log \cup {NewRow(t)}
    PROVE  Verifies(rows, {r \in rows : r.tombstoned})
<1> DEFINE n == NewRow(t)
<1>1. /\ n.seq = tail[t].seq + 1
      /\ n.by = t
      /\ n.payloadHash = PayloadHash(n.payload)
      /\ n.prevHash = tail[t].hash
      /\ n.hash = EntryHash(n.seq, n.by, n.payloadHash, n.prevHash)
      /\ n.tombstoned = FALSE
  BY DEF NewRow
<1>2. \A r \in log : r.seq \in Nat
  BY DEF TypeOK, IsRow
<1>3. CASE tail[t] = NoTail
  <2>1. n.seq = 0 /\ n.prevHash = GenesisHash
    BY <1>1, <1>3 DEF NoTail
  <2>2. Contiguous(rows)
    BY <2>1, <1>2 DEF Verify, Verifies, Contiguous
  <2>3. Linked(rows)
    BY <2>1 DEF Verify, Verifies, Linked
  <2> QED
    BY <2>2, <2>3, <1>1 DEF Verify, Verifies
<1>4. CASE \E r \in log : tail[t] = [seq |-> r.seq, hash |-> r.hash]
  <2>1. PICK r \in log : tail[t] = [seq |-> r.seq, hash |-> r.hash]
    BY <1>4
  <2>2. n.seq = r.seq + 1 /\ n.prevHash = r.hash /\ r.seq \in Nat
    BY <2>1, <1>1, <1>2
  <2>3. \A k \in 0 .. (n.seq - 1) : \E q \in log : q.seq = k
    BY <2>2 DEF Verify, Verifies, Contiguous
  <2>4. Contiguous(rows)
    BY <2>3, <1>2 DEF Verify, Verifies, Contiguous
  <2>5. n.seq - 1 = r.seq
    BY <2>2
  <2>6. Linked(rows)
    BY <2>2, <2>5 DEF Verify, Verifies, Linked
  <2> QED
    BY <2>4, <2>6, <1>1 DEF Verify, Verifies
<1> QED
  BY <1>3, <1>4 DEF TailIsRow

\* Erasing the payload of one row keeps the table one verifying chain.
LEMMA ErasedChainVerifies ==
    ASSUME TypeOK, Verify, NEW r \in log, Tombstone(r)
    PROVE  Verify'
<1> DEFINE n == [r EXCEPT !.payload = Empty, !.tombstoned = TRUE]
<1>1. /\ n.seq = r.seq /\ n.by = r.by /\ n.payloadHash = r.payloadHash
      /\ n.prevHash = r.prevHash /\ n.hash = r.hash /\ n.tombstoned = TRUE
  BY ErasedRow DEF TypeOK
<1>2. log' = (log \ {r}) \cup {n}
  BY DEF Tombstone
<1> HIDE DEF n
<1>3. Contiguous(log')
  BY <1>1, <1>2 DEF Verify, Verifies, Contiguous
<1>4. \A q \in log' : \E p \in log : /\ p.seq = q.seq /\ p.hash = q.hash
                                     /\ p.prevHash = q.prevHash
  BY <1>1, <1>2
<1>5. \A p \in log : \E q \in log' : p.seq = q.seq /\ p.hash = q.hash
  BY <1>1, <1>2
<1>6. Linked(log')
  BY <1>4, <1>5 DEF Verify, Verifies, Linked
<1>7. \A q \in log' \ {x \in log' : x.tombstoned} : q \in log /\ ~q.tombstoned
  BY <1>1, <1>2
<1>8. \A q \in log' : q.hash = EntryHash(q.seq, q.by, q.payloadHash, q.prevHash)
  BY <1>1, <1>2 DEF Verify, Verifies
<1> QED
  BY <1>3, <1>6, <1>7, <1>8 DEF Verify, Verifies

-----------------------------------------------------------------------------
\* An empty log satisfies the invariant.
LEMMA InvInit == Init => IInv
<1> SUFFICES ASSUME Init PROVE IInv
  OBVIOUS
<1>1. TypeOK
  BY TypeInit
<1>2. Verify
  BY DEF Init, Verify, Verifies, Contiguous, Linked
<1>3. TailIsRow /\ PendingIsNewRow /\ KeysAreFree
  BY DEF Init, TailIsRow, PendingIsNewRow, KeysAreFree
<1>4. EffectsFollowEntries
  BY DEF Init, EffectsFollowEntries, AuditedExactly
<1>5. AnswersFollowEffects /\ CollidedKeyIsTaken
  BY DEF Init, AnswersFollowEffects, CollidedKeyIsTaken
<1> QED
  BY <1>1, <1>2, <1>3, <1>4, <1>5 DEF IInv

\* The steps that change only where a transaction is, its input before it has
\* inserted, the lock it holds and its answer.
Quiet(t) ==
    \/ \E p \in Payloads : Begin(t, p)
    \/ PoolTimeout(t) \/ Refuse(t) \/ Fail(t) \/ Reply(t) \/ LockTail(t) \/ Collide(t)

\* A step that moves one call and leaves the log alone.
LEMMA QuietStep ==
    ASSUME IInv, NEW t \in Txns, Quiet(t)
    PROVE  IInv'
<1> USE DEF IInv
<1>1. UNCHANGED <<log, effects, tail, pending>>
  BY DEF Quiet, Begin, PoolTimeout, Refuse, Fail, Reply, LockTail, Collide
<1>2. TypeOK'
  BY TypeStep DEF Quiet, Next, TxnNext, Start, Step
<1>3. Verify'
  BY <1>1 DEF Verify
<1>4. TailIsRow'
  BY <1>1 DEF TailIsRow
<1>5. \A u \in Txns : pending[u] # {} => input'[u] = input[u]
  BY DEF Quiet, Begin, PoolTimeout, Refuse, Fail, Reply, LockTail, Collide,
         PendingIsNewRow, TypeOK
<1>6. \A u \in Txns : pending[u] # {} => NewRow(u)' = NewRow(u)
  BY <1>1, <1>5 DEF NewRow
<1>7. \A u \in Txns : pending[u] # {} => pc'[u] \in {"inserted", "failed"}
  BY DEF Quiet, Begin, PoolTimeout, Refuse, Fail, Reply, LockTail, Collide,
         PendingIsNewRow, TypeOK
<1>8. \A u \in Txns : pc'[u] = "inserted" => pc[u] = "inserted"
  BY DEF Quiet, Begin, PoolTimeout, Refuse, Fail, Reply, LockTail, Collide, TypeOK
<1>9. PendingIsNewRow'
  BY <1>1, <1>6, <1>7, <1>8 DEF PendingIsNewRow
<1>10. KeysAreFree'
  BY <1>1 DEF KeysAreFree
<1>11. \A u \in Txns : pc[u] \in {"committed", "done"} => pc'[u] \in {"committed", "done"}
  BY DEF Quiet, Begin, PoolTimeout, Refuse, Fail, Reply, LockTail, Collide, TypeOK
<1>12. \A u \in Txns : pc'[u] = "committed" => pc[u] = "committed"
  BY DEF Quiet, Begin, PoolTimeout, Refuse, Fail, Reply, LockTail, Collide, TypeOK
<1>13. EffectsFollowEntries'
  BY <1>1, <1>11, <1>12 DEF EffectsFollowEntries, AuditedExactly
<1>14. AnswersFollowEffects'
  BY <1>1 DEF Quiet, Begin, PoolTimeout, Refuse, Fail, Reply, LockTail, Collide,
              AnswersFollowEffects, EffectsFollowEntries, TypeOK
<1>15. CollidedKeyIsTaken'
  BY <1>1 DEF Quiet, Begin, PoolTimeout, Refuse, Fail, Reply, LockTail, Collide,
              CollidedKeyIsTaken, KeyTaken, TypeOK
<1> QED
  BY <1>2, <1>3, <1>4, <1>9, <1>10, <1>13, <1>14, <1>15

\* A transaction that goes away takes its entry with it.
LEMMA RollbackStep ==
    ASSUME IInv, NEW t \in Txns, Rollback(t)
    PROVE  IInv'
<1> USE DEF IInv
<1>1. TypeOK'
  BY TypeStep DEF Next, TxnNext, Step
<1>2. /\ UNCHANGED <<log, effects, tail, input>>
      /\ pending'[t] = {}
      /\ \A u \in Txns : u # t => pending'[u] = pending[u] /\ pc'[u] = pc[u]
      /\ pc[t] \in {"failed", "collided"} /\ pc'[t] = "done"
      /\ answer'[t] = "unreachable"
      /\ \A u \in Txns : u # t => answer'[u] = answer[u]
  BY DEF Rollback, TypeOK
<1>3. Verify' /\ TailIsRow'
  BY <1>2 DEF Verify, TailIsRow
<1>4. PendingIsNewRow'
  BY <1>2 DEF PendingIsNewRow, NewRow
<1>5. KeysAreFree'
  BY <1>2 DEF KeysAreFree
<1>6. EffectsFollowEntries'
  BY <1>2 DEF EffectsFollowEntries, AuditedExactly
<1>7. AnswersFollowEffects' /\ CollidedKeyIsTaken'
  BY <1>2 DEF AnswersFollowEffects, CollidedKeyIsTaken, KeyTaken
<1> QED
  BY <1>1, <1>3, <1>4, <1>5, <1>6, <1>7

\* The tail is read under the lock, so it is the tail of what is committed.
LEMMA ReadTailStep ==
    ASSUME IInv, NEW t \in Txns, ReadTail(t)
    PROVE  IInv'
<1> USE DEF IInv
<1>1. TypeOK'
  BY TypeStep DEF Next, TxnNext, Step
<1>2. /\ UNCHANGED <<log, effects, input, pending, answer>>
      /\ pc[t] = "work" /\ pc'[t] \in {"locking", "insert"}
      /\ \A u \in Txns : u # t => tail'[u] = tail[u] /\ pc'[u] = pc[u]
      /\ tail'[t] = NoTail \/ \E r \in log : tail'[t] = [seq |-> r.seq, hash |-> r.hash]
  BY DEF ReadTail, TypeOK
<1>3. Verify' /\ TailIsRow'
  BY <1>2 DEF Verify, TailIsRow
<1>4. PendingIsNewRow'
  BY <1>2 DEF PendingIsNewRow, NewRow
<1>5. KeysAreFree'
  BY <1>2 DEF KeysAreFree
<1>6. EffectsFollowEntries'
  BY <1>2 DEF EffectsFollowEntries, AuditedExactly
<1>7. AnswersFollowEffects' /\ CollidedKeyIsTaken'
  BY <1>2 DEF AnswersFollowEffects, CollidedKeyIsTaken, KeyTaken
<1> QED
  BY <1>1, <1>3, <1>4, <1>5, <1>6, <1>7

\* The new entry extends that tail.
LEMMA InsertStep ==
    ASSUME IInv, NEW t \in Txns, Insert(t)
    PROVE  IInv'
<1> USE DEF IInv
<1>1. TypeOK'
  BY TypeStep DEF Next, TxnNext, Step
<1>2. /\ UNCHANGED <<log, effects, input, tail, answer>>
      /\ pc[t] = "insert" /\ pc'[t] = "inserted"
      /\ pending'[t] = {NewRow(t)}
      /\ \A u \in Txns : u # t => pending'[u] = pending[u] /\ pc'[u] = pc[u]
  BY DEF Insert, TypeOK
<1>3. \A u \in Txns : NewRow(u)' = NewRow(u)
  BY <1>2 DEF NewRow
<1>4. Verify' /\ TailIsRow'
  BY <1>2 DEF Verify, TailIsRow
<1>5. PendingIsNewRow'
  BY <1>2, <1>3 DEF PendingIsNewRow
<1>6. NewRow(t).seq = tail[t].seq + 1
  BY DEF NewRow
<1>7. /\ \A r \in log : r.seq # NewRow(t).seq
      /\ \A u \in Txns : \A r \in pending[u] : r.seq # NewRow(t).seq
  BY <1>6 DEF Insert, KeyTaken, KeyInFlight
<1>8. KeysAreFree'
  BY <1>2, <1>7 DEF KeysAreFree
<1>9. EffectsFollowEntries'
  BY <1>2 DEF EffectsFollowEntries, AuditedExactly
<1>10. AnswersFollowEffects' /\ CollidedKeyIsTaken'
  BY <1>2 DEF AnswersFollowEffects, CollidedKeyIsTaken, KeyTaken
<1> QED
  BY <1>1, <1>4, <1>5, <1>8, <1>9, <1>10

\* What a commit adds, used by the invariant and by the refinement.
LEMMA CommitAdds ==
    ASSUME IInv, NEW t \in Txns, Commit(t)
    PROVE  /\ pending[t] = {NewRow(t)}
           /\ log' = log \cup {NewRow(t)}
           /\ \A r \in log : r.seq # NewRow(t).seq
           /\ NewRow(t).by = t
           /\ t \notin effects
           /\ effects' = effects \cup {t}
<1>1. pending[t] = {NewRow(t)}
  BY DEF IInv, PendingIsNewRow, Commit
<1>2. log' = log \cup {NewRow(t)} /\ effects' = effects \cup {t}
  BY <1>1 DEF Commit
<1>3. \A r \in log : r.seq # NewRow(t).seq
  BY <1>1 DEF IInv, KeysAreFree
<1>4. t \notin effects
  BY DEF IInv, EffectsFollowEntries, Commit
<1> QED
  BY <1>1, <1>2, <1>3, <1>4 DEF NewRow

\* Committing makes the entry the tail before the lock is free.
LEMMA CommitStep ==
    ASSUME IInv, NEW t \in Txns, Commit(t)
    PROVE  IInv'
<1> USE DEF IInv
<1>1. TypeOK'
  BY TypeStep DEF Next, TxnNext, Step
<1>2. /\ UNCHANGED <<input, tail, answer>>
      /\ pc[t] = "inserted" /\ pc'[t] = "committed"
      /\ pending'[t] = {}
      /\ \A u \in Txns : u # t => pending'[u] = pending[u] /\ pc'[u] = pc[u]
  BY DEF Commit, TypeOK
<1>3. /\ pending[t] = {NewRow(t)}
      /\ log' = log \cup {NewRow(t)}
      /\ \A r \in log : r.seq # NewRow(t).seq
      /\ NewRow(t).by = t
      /\ t \notin effects
      /\ effects' = effects \cup {t}
  BY CommitAdds
<1>4. Verifies(log', {r \in log' : r.tombstoned})
  BY <1>3, ExtendedChainVerifies
<1>5. Verify'
  BY <1>4 DEF Verify
<1>6. TailIsRow'
  BY <1>2, <1>3 DEF TailIsRow
<1>7. PendingIsNewRow'
  BY <1>2 DEF PendingIsNewRow, NewRow
<1>8. \A u \in Txns : \A p \in pending[u] : p.seq = NewRow(t).seq => u = t
  BY <1>3 DEF KeysAreFree
<1>9. KeysAreFree'
  BY <1>2, <1>3, <1>8 DEF KeysAreFree
<1>10. AuditedExactly'
  BY <1>3 DEF EffectsFollowEntries, AuditedExactly
<1>11. EffectsFollowEntries'
  BY <1>2, <1>3, <1>10 DEF EffectsFollowEntries
<1>12. AnswersFollowEffects'
  BY <1>2, <1>3 DEF AnswersFollowEffects
<1>13. CollidedKeyIsTaken'
  BY <1>2, <1>3 DEF CollidedKeyIsTaken, KeyTaken
<1> QED
  BY <1>1, <1>5, <1>6, <1>7, <1>9, <1>11, <1>12, <1>13

\* What an erasure leaves, used by the invariant and by the refinement.
LEMMA TombstoneKeeps ==
    ASSUME TypeOK, NEW r \in log, Tombstone(r)
    PROVE  \E q : /\ log' = (log \ {r}) \cup {q}
                  /\ q.seq = r.seq /\ q.by = r.by /\ q.payloadHash = r.payloadHash
                  /\ q.prevHash = r.prevHash /\ q.hash = r.hash
                  /\ q.tombstoned = TRUE /\ q.payload = Empty
BY ErasedRow DEF Tombstone, TypeOK

\* Erasing a payload leaves every hash alone.
LEMMA TombstoneStep ==
    ASSUME IInv, NEW r \in log, Tombstone(r)
    PROVE  IInv'
<1> USE DEF IInv
<1>1. TypeOK'
  BY TypeStep DEF Next
<1>2. Verify'
  BY ErasedChainVerifies
<1>3. UNCHANGED <<effects, pc, input, tail, locked, pending, answer>>
  BY DEF Tombstone, txnVars
<1>4. PICK q : /\ log' = (log \ {r}) \cup {q}
               /\ q.seq = r.seq /\ q.by = r.by /\ q.payloadHash = r.payloadHash
               /\ q.prevHash = r.prevHash /\ q.hash = r.hash
               /\ q.tombstoned = TRUE /\ q.payload = Empty
  BY TombstoneKeeps
<1>5. TailIsRow'
  BY <1>3, <1>4 DEF TailIsRow
<1>6. PendingIsNewRow'
  BY <1>3 DEF PendingIsNewRow, NewRow
<1>7. KeysAreFree'
  BY <1>3, <1>4 DEF KeysAreFree
<1>8. \A b : (\E x \in log : x.by = b) <=> (\E x \in log' : x.by = b)
  BY <1>4
<1>9. {x.by : x \in log'} = {x.by : x \in log}
  BY <1>8
<1>10. \A x, y \in log' : x.by = y.by => x = y
  BY <1>4 DEF EffectsFollowEntries, AuditedExactly
<1>11. EffectsFollowEntries'
  BY <1>3, <1>9, <1>10 DEF EffectsFollowEntries, AuditedExactly
<1>12. AnswersFollowEffects' /\ CollidedKeyIsTaken'
  BY <1>3, <1>4 DEF AnswersFollowEffects, CollidedKeyIsTaken, KeyTaken
<1> QED
  BY <1>1, <1>2, <1>5, <1>6, <1>7, <1>11, <1>12

\* Every step keeps the invariant.
LEMMA InvStep == IInv /\ [Next]_vars => IInv'
<1> SUFFICES ASSUME IInv, [Next]_vars PROVE IInv'
  OBVIOUS
<1>1. ASSUME NEW t \in Txns, TxnNext(t) PROVE IInv'
  BY <1>1, QuietStep, RollbackStep, ReadTailStep, InsertStep, CommitStep
     DEF TxnNext, Start, Step, Quiet
<1>2. ASSUME NEW r \in log, Tombstone(r) PROVE IInv'
  BY <1>2, TombstoneStep
<1>3. CASE UNCHANGED vars
  <2>1. TypeOK'
    BY TypeStep DEF IInv
  <2> QED
    BY <1>3, <2>1 DEF IInv, vars, txnVars, Verify, TailIsRow, PendingIsNewRow, NewRow,
       KeysAreFree, EffectsFollowEntries, AuditedExactly, AnswersFollowEffects,
       CollidedKeyIsTaken, KeyTaken
<1> QED
  BY <1>1, <1>2, <1>3 DEF Next, Terminated

\* The invariant holds throughout.
LEMMA InvAlways == Spec => []IInv
BY InvInit, InvStep, PTL DEF Spec

-----------------------------------------------------------------------------
\* The durable audit chain verifies in every reachable state, however many
\* transactions append concurrently and whichever of them fail.
THEOREM ChainAlwaysVerifies == Spec => []ChainVerifies
<1>1. IInv => ChainVerifies
  BY DEF IInv, ChainVerifies
<1> QED
  BY InvAlways, <1>1, PTL

\* A committed write has exactly one entry and no other entry exists.
THEOREM AlwaysAuditedExactly == Spec => []AuditedExactly
<1>1. IInv => AuditedExactly
  BY DEF IInv, EffectsFollowEntries
<1> QED
  BY InvAlways, <1>1, PTL

\* "ok" means written and recorded, "refused" means neither.
THEOREM AnswersAlwaysHonest == Spec => []AnswersAreHonest
<1>1. IInv => AnswersAreHonest
  BY DEF IInv, AnswersAreHonest, AnswersFollowEffects, EffectsFollowEntries, AuditedExactly
<1> QED
  BY InvAlways, <1>1, PTL

\* An append that fails on the key lost to one that has committed, and that
\* continues the very row the loser read as the tail.
THEOREM CollisionAlwaysHasWinner == Spec => []CollisionHasWinner
<1>1. ASSUME IInv, NEW t \in Txns, pc[t] = "collided"
      PROVE  \E r \in log : /\ r.by # t
                            /\ r.seq = tail[t].seq + 1
                            /\ r.prevHash = tail[t].hash
  <2>1. PICK r \in log : r.seq = tail[t].seq + 1
    BY <1>1 DEF IInv, CollidedKeyIsTaken, KeyTaken
  <2>2. r.by # t
    BY <1>1 DEF IInv, EffectsFollowEntries, AuditedExactly
  <2>3. \A q \in log : q.seq \in Nat
    BY <1>1 DEF IInv, TypeOK, IsRow
  <2>4. CASE tail[t] = NoTail
    <3>1. r.seq = 0
      BY <2>1, <2>4 DEF NoTail
    <3>2. r.prevHash = GenesisHash
      BY <1>1, <2>3, <3>1 DEF IInv, Verify, Verifies, Linked
    <3> QED
      BY <2>1, <2>2, <2>4, <3>2 DEF NoTail
  <2>5. CASE \E q \in log : tail[t] = [seq |-> q.seq, hash |-> q.hash]
    <3>1. PICK q \in log : tail[t] = [seq |-> q.seq, hash |-> q.hash]
      BY <2>5
    <3>2. tail[t].seq = q.seq /\ tail[t].hash = q.hash /\ q.seq \in Nat
      BY <2>3, <3>1
    <3>3. r.seq # 0 /\ r.seq - 1 = q.seq
      BY <2>1, <3>2
    <3>4. PICK p \in log : p.seq = r.seq - 1 /\ r.prevHash = p.hash
      BY <1>1, <3>3 DEF IInv, Verify, Verifies, Linked
    <3>5. p = q
      BY <1>1, <3>3, <3>4 DEF IInv, Verify, Verifies, Contiguous
    <3> QED
      BY <2>1, <2>2, <3>2, <3>4, <3>5
  <2> QED
    BY <1>1, <2>4, <2>5 DEF IInv, TailIsRow
<1>2. IInv => CollisionHasWinner
  BY <1>1 DEF CollisionHasWinner
<1> QED
  BY InvAlways, <1>2, PTL

\* What a transaction was told, and what failed it, is what happened.
THEOREM OutcomesAlwaysTrue == Spec => []OutcomesAreTrue
BY AlwaysAuditedExactly, AnswersAlwaysHonest, CollisionAlwaysHasWinner, PTL
   DEF OutcomesAreTrue

-----------------------------------------------------------------------------
(***************************************************************************)
(* What a step may do to the trail, and the refinement.                    *)
(***************************************************************************)

\* Every step but a commit and an erasure leaves the trail alone.
LEMMA TrailSteps ==
    ASSUME Next
    PROVE  \/ UNCHANGED <<log, effects>>
           \/ \E t \in Txns : Commit(t)
           \/ \E r \in log : Tombstone(r)
BY DEF Next, TxnNext, Start, Step, Terminated, vars, Begin, PoolTimeout, Refuse,
       Fail, Rollback, Reply, ReadTail, LockTail, Insert, Collide

\* An erased row has no payload left.
ErasedIsEmpty == \A r \in log : r.tombstoned => r.payload = Empty

\* Commits add rows with their payload, and an erasure empties the one it marks.
LEMMA ErasedStep == IInv /\ ErasedIsEmpty /\ [Next]_vars => ErasedIsEmpty'
<1> SUFFICES ASSUME IInv, ErasedIsEmpty, [Next]_vars PROVE ErasedIsEmpty'
  OBVIOUS
<1>1. CASE UNCHANGED log
  BY <1>1 DEF ErasedIsEmpty
<1>2. ASSUME NEW t \in Txns, Commit(t) PROVE ErasedIsEmpty'
  BY <1>2 DEF IInv, PendingIsNewRow, NewRow, Commit, ErasedIsEmpty
<1>3. ASSUME NEW r \in log, Tombstone(r) PROVE ErasedIsEmpty'
  <2>1. PICK q : log' = (log \ {r}) \cup {q} /\ q.payload = Empty
    BY <1>3, TombstoneKeeps DEF IInv
  <2> QED
    BY <2>1 DEF ErasedIsEmpty
<1> QED
  BY <1>1, <1>2, <1>3, TrailSteps DEF vars

\* An export verifies as long as no row it carries has lost anything.
THEOREM ExportAlwaysVerifiesUntilErasure == Spec => []ExportVerifiesUntilErasure
<1>1. Init => ErasedIsEmpty
  BY DEF Init, ErasedIsEmpty
<1>2. ASSUME IInv, ErasedIsEmpty PROVE ExportVerifiesUntilErasure
  <2>1. Verifies(log, {}) <=> \A r \in log : r.payloadHash = PayloadHash(r.payload)
    BY <1>2 DEF IInv, Verify, Verifies
  <2>2. \A r \in log : ~r.tombstoned => r.payloadHash = PayloadHash(r.payload)
    BY <1>2 DEF IInv, Verify, Verifies
  <2> QED
    BY <1>2, <2>1, <2>2 DEF ErasedIsEmpty, ExportVerifiesUntilErasure, VerifyExport
<1> QED
  BY <1>1, <1>2, InvAlways, ErasedStep, PTL DEF Spec

\* No committed entry is removed or rewritten; only its payload can go, once.
THEOREM HistoryAlwaysFixed == Spec => HistoryIsFixed
<1> DEFINE Kept(r, rows) ==
      \E q \in rows : /\ Identity(q) = Identity(r)
                      /\ q = r \/ (~r.tombstoned /\ q.tombstoned /\ q.payload = Empty)
<1>1. ASSUME IInv, Next, NEW r \in log PROVE Kept(r, log')
  <2>1. CASE UNCHANGED <<log, effects>>
    BY <2>1
  <2>2. CASE \E t \in Txns : Commit(t)
    BY <2>2, <1>1 DEF Commit
  <2>3. CASE \E x \in log : Tombstone(x)
    <3>1. PICK x \in log : Tombstone(x)
      BY <2>3
    <3>2. PICK q : /\ log' = (log \ {x}) \cup {q}
                   /\ q.seq = x.seq /\ q.by = x.by /\ q.payloadHash = x.payloadHash
                   /\ q.prevHash = x.prevHash /\ q.hash = x.hash
                   /\ q.tombstoned = TRUE /\ q.payload = Empty
      BY <1>1, <3>1, TombstoneKeeps DEF IInv
    <3>3. CASE r = x
      BY <3>1, <3>2, <3>3 DEF Tombstone, Identity
    <3>4. CASE r # x
      BY <3>2, <3>4
    <3> QED
      BY <3>3, <3>4
  <2> QED
    BY <1>1, <2>1, <2>2, <2>3, TrailSteps
<1>2. IInv /\ [Next]_vars => [\A r \in log : Kept(r, log')]_vars
  BY <1>1
<1> QED
  BY InvAlways, <1>2, PTL DEF Spec, HistoryIsFixed

\* The entries of the abstract trail that a table stands for.
Entry(r) == [pos |-> r.seq, by |-> r.by, print |-> r.payloadHash]
Entries(rows) == {Entry(r) : r \in rows}

\* Where each entry stands in the chain.
LEMMA EntryPositions ==
    ASSUME NEW rows
    PROVE  {x.pos : x \in Entries(rows)} = {r.seq : r \in rows}
<1>1. \A r : Entry(r).pos = r.seq
  BY DEF Entry
<1>2. \A p : p \in {x.pos : x \in Entries(rows)} <=> \E r \in rows : p = Entry(r).pos
  BY DEF Entries
<1> QED
  BY <1>1, <1>2

\* The initial states map to that of the trail.
LEMMA TrailInit == Init => Trail!Init
BY DEF Init, Trail!Init

\* A commit is one step of the abstract trail: the write takes effect and its
\* entry is recorded at the next position.
LEMMA CommitRecords ==
    ASSUME IInv, NEW t \in Txns, Commit(t)
    PROVE  Trail!Record
<1> DEFINE n == NewRow(t)
           e == Entry(n)
<1>1. /\ log' = log \cup {n}
      /\ \A r \in log : r.seq # n.seq
      /\ n.by = t /\ t \notin effects /\ effects' = effects \cup {t}
  BY CommitAdds
<1>2. n.seq = tail[t].seq + 1 /\ n.tombstoned = FALSE
  BY DEF NewRow
<1>3. e.pos = n.seq /\ e.by = t
  BY <1>1 DEF Entry
<1>4. \A r \in log : r.seq \in Nat
  BY DEF IInv, TypeOK, IsRow
<1>5. {r.seq : r \in log} = 0 .. (n.seq - 1)
  <2>1. n.seq = 0 \/ \E r \in log : n.seq = r.seq + 1
    <3>1. CASE tail[t] = NoTail
      BY <1>2, <3>1 DEF NoTail
    <3>2. CASE \E r \in log : tail[t] = [seq |-> r.seq, hash |-> r.hash]
      BY <1>2, <3>2
    <3> QED
      BY <3>1, <3>2 DEF IInv, TailIsRow
  <2>2. \A k \in 0 .. (n.seq - 1) : \E r \in log : r.seq = k
    BY <2>1, <1>4 DEF IInv, Verify, Verifies, Contiguous
  <2>3. n.seq \in Nat
    BY <2>1, <1>4
  <2>4. ASSUME NEW r \in log PROVE r.seq \in 0 .. (n.seq - 1)
    <3>1. ~(r.seq > n.seq)
      <4>1. SUFFICES ASSUME r.seq > n.seq PROVE FALSE
        OBVIOUS
      <4>2. n.seq \in 0 .. (r.seq - 1)
        BY <4>1, <1>4, <2>3
      <4>3. \E q \in log : q.seq = n.seq
        BY <4>2 DEF IInv, Verify, Verifies, Contiguous
      <4> QED
        BY <4>3, <1>1
    <3> QED
      BY <3>1, <1>1, <1>4, <2>3
  <2> QED
    BY <2>2, <2>4
<1>6. {x.pos : x \in Entries(log)} = 0 .. (e.pos - 1)
  BY <1>3, <1>5, EntryPositions
<1>7. Entries(log') = Entries(log) \cup {e}
  BY <1>1 DEF Entries
<1>8. {r.seq : r \in {q \in log : q.tombstoned}}'
        = {r.seq : r \in {q \in log : q.tombstoned}}
  BY <1>1, <1>2
<1> HIDE DEF n, e
<1>9. e \in Entries(log')
  BY <1>7
<1> QED
  BY <1>1, <1>3, <1>6, <1>7, <1>8, <1>9 DEF Trail!Record, Trail!Positions, Entries, Entry

\* Erasing a payload is the erasure of the abstract trail.
LEMMA TombstoneErases ==
    ASSUME IInv, NEW r \in log, Tombstone(r)
    PROVE  Trail!Erase
<1>1. PICK q : /\ log' = (log \ {r}) \cup {q}
               /\ q.seq = r.seq /\ q.by = r.by /\ q.payloadHash = r.payloadHash
               /\ q.prevHash = r.prevHash /\ q.hash = r.hash
               /\ q.tombstoned = TRUE /\ q.payload = Empty
  BY TombstoneKeeps DEF IInv
<1>2. Entry(q) = Entry(r)
  BY <1>1 DEF Entry
<1>3. Entries(log') = Entries(log)
  BY <1>1, <1>2 DEF Entries
<1>4. ~r.tombstoned /\ effects' = effects
  BY DEF Tombstone
<1>5. r.seq \notin {x.seq : x \in {y \in log : y.tombstoned}}
  BY <1>4 DEF IInv, Verify, Verifies, Contiguous
<1>6. {x.seq : x \in {y \in log : y.tombstoned}}'
        = {x.seq : x \in {y \in log : y.tombstoned}} \cup {r.seq}
  BY <1>1, <1>4
<1>7. r.seq \in {x.pos : x \in Entries(log)}
  BY EntryPositions
<1> QED
  BY <1>3, <1>4, <1>5, <1>6, <1>7 DEF Trail!Erase, Trail!Positions, Entries, Entry

\* The chain, with its transactions, locks and key violations, implements the
\* abstract trail.
THEOREM ChainImplementsTrail == Spec => ImplementsTrail
<1>1. ASSUME IInv, [Next]_vars PROVE [Trail!Next]_(Trail!vars)
  <2>1. CASE UNCHANGED <<log, effects>>
    BY <2>1 DEF Trail!vars
  <2>2. CASE \E t \in Txns : Commit(t)
    BY <2>2, <1>1, CommitRecords DEF Trail!Next
  <2>3. CASE \E r \in log : Tombstone(r)
    BY <2>3, <1>1, TombstoneErases DEF Trail!Next
  <2>4. CASE UNCHANGED vars
    BY <2>1, <2>4 DEF vars
  <2> QED
    BY <1>1, <2>1, <2>2, <2>3, <2>4, TrailSteps
<1>2. IInv /\ [Next]_vars => [Trail!Next]_(Trail!vars)
  BY <1>1
<1> QED
  BY InvAlways, TrailInit, <1>2, PTL DEF Spec, ImplementsTrail, Trail!Spec

-----------------------------------------------------------------------------
(*****************************************************************************)
(* RepositoryWrite.                                                          *)
(*****************************************************************************)

\* The shared shape of a write is a use of the audit chain: seen through the
\* variables of AuditChain, its behaviours are behaviours of AuditChain.
THEOREM WritesUseTheChain == RSpec => Spec
<1>1. RInit => Init
  BY DEF RInit
<1>2. ASSUME [RNext]_allVars PROVE [Next]_vars
  <2>1. ASSUME NEW t \in Txns, NEW r \in Rows, ReadRow(t, r) PROVE UNCHANGED vars
    BY <2>1 DEF ReadRow
  <2>2. ASSUME NEW t \in Txns,
               Call(t) \/ RefuseUnresolved(t) \/ FailOrReply(t)
        PROVE  TxnNext(t)
    BY <2>2 DEF Call, RefuseUnresolved, FailOrReply, TxnNext, Step
  <2>3. ASSUME NEW t \in Txns, LockRow(t) \/ UpdateRow(t) PROVE UNCHANGED vars
    BY <2>3 DEF LockRow, UpdateRow
  <2>4. ASSUME NEW t \in Txns,
               \/ RefuseStale(t) \/ AppendEntry(t) \/ CommitRow(t) \/ RollbackRow(t)
               \/ Reply(t) /\ UNCHANGED rowVars
        PROVE  TxnNext(t)
    BY <2>4 DEF RefuseStale, AppendEntry, CommitRow, RollbackRow, TxnNext, Step
  <2>5. CASE UNCHANGED allVars
    BY <2>5 DEF allVars
  <2> QED
    BY <1>2, <2>1, <2>2, <2>3, <2>4, <2>5 DEF RNext, RStep, Next, Terminated
<1> QED
  BY <1>1, <1>2, PTL DEF RSpec, Spec

\* So the audit chain verifies under the writes of the repositories.
THEOREM ChainVerifiesUnderWrites == RSpec => []ChainVerifies
BY WritesUseTheChain, ChainAlwaysVerifies, PTL

-----------------------------------------------------------------------------
(***************************************************************************)
(* The inductive invariant of the row protocol: a lock belongs to an open  *)
(* transaction on its own target, a transaction that has updated holds the *)
(* row at the version it expected, and every event carries a version the   *)
(* row has reached.                                                        *)
(***************************************************************************)
LocksAreTargets ==
    \A r \in Rows : \A t \in Txns : rowLock[r] = t =>
        target[t] = r /\ pc[t] \in Open

UpdatedHolds ==
    \A t \in Txns : \/ pc[t] \in {"locking", "insert", "inserted"}
                    \/ pc[t] = "work" /\ t \in updated
        => target[t] # NoRow /\ rowLock[target[t]] = t /\ version[target[t]] = expected[t]

EventsAreReached ==
    /\ \A e \in events : e.version \in Nat /\ e.row \in Rows /\ e.version <= version[e.row]
    /\ \A e, f \in events : e.row = f.row /\ e.version = f.version => e = f
    /\ \A t \in effects : \E e \in events : e.by = t

TargetChosen == \A t \in Txns : target[t] = NoRow => pc[t] = "idle"

UpdatedBegun == \A t \in Txns : pc[t] = "idle" => t \notin updated

RInv ==
    /\ RTypeOK
    /\ LocksAreTargets
    /\ UpdatedHolds
    /\ EventsAreReached
    /\ TargetChosen
    /\ UpdatedBegun

\* The invariant holds before any write.
LEMMA RInvInit == RInit => RInv
<1> SUFFICES ASSUME RInit PROVE RInv
  OBVIOUS
<1>1. RTypeOK
  BY TypeInit DEF RInit, RTypeOK
<1>2. LocksAreTargets /\ UpdatedHolds
  BY NamesDiffer DEF RInit, Init, LocksAreTargets, UpdatedHolds
<1>3. EventsAreReached /\ TargetChosen
  BY DEF RInit, Init, EventsAreReached, TargetChosen
<1>4. UpdatedBegun
  BY DEF RInit, UpdatedBegun
<1> QED
  BY <1>1, <1>2, <1>3, <1>4 DEF RInv

\* A step of the composition is a step of the chain or leaves it alone.
LEMMA ChainStep == [RNext]_allVars => [Next]_vars
BY DEF RNext, RStep, ReadRow, Call, RefuseUnresolved, FailOrReply, LockRow, UpdateRow,
       RefuseStale, AppendEntry, CommitRow, RollbackRow, Next, TxnNext, Step, Terminated,
       allVars

\* The steps of a call that leave every variable of the rows alone.
RowQuiet(t) ==
    /\ UNCHANGED rowVars
    /\ \/ target[t] # NoRow /\ Start(t)
       \/ ~Holds(t) /\ Refuse(t)
       \/ t \in updated /\ ReadTail(t)
       \/ LockTail(t) \/ Insert(t) \/ Collide(t) \/ Fail(t) \/ Reply(t)

\* A step that moves one write and leaves the row alone.
LEMMA RowQuietStep ==
    ASSUME RInv, TypeOK', NEW t \in Txns, RowQuiet(t)
    PROVE  RInv'
<1> USE DEF RInv
<1>1. UNCHANGED <<version, rowLock, target, expected, updated, events, stale, effects>>
  BY DEF RowQuiet, rowVars, Start, Begin, PoolTimeout, Refuse, ReadTail, LockTail,
         Insert, Collide, Fail, Reply
<1>2. RTypeOK'
  BY <1>1 DEF RTypeOK
<1>3. \A u \in Txns : u # t => pc'[u] = pc[u]
  BY DEF RowQuiet, Start, Begin, PoolTimeout, Refuse, ReadTail, LockTail,
         Insert, Collide, Fail, Reply, RTypeOK, TypeOK
<1>4. \/ pc'[t] \in Open
      \/ pc[t] \notin Open
      \/ ~Holds(t) /\ pc'[t] = "done"
  BY DEF RowQuiet, Start, Begin, PoolTimeout, Refuse, ReadTail, LockTail,
         Insert, Collide, Fail, Reply, RTypeOK, TypeOK, Open
<1>5. LocksAreTargets'
  <2> SUFFICES ASSUME NEW r \in Rows, NEW u \in Txns, rowLock[r] = u
               PROVE  target[u] = r /\ pc'[u] \in Open
    BY <1>1 DEF LocksAreTargets
  <2>1. target[u] = r /\ pc[u] \in Open
    BY DEF LocksAreTargets
  <2>2. Holds(u)
    BY <2>1, NamesDiffer DEF Holds
  <2> QED
    BY <1>3, <1>4, <2>1, <2>2
<1>6. \/ pc'[t] \notin {"work", "locking", "insert", "inserted"}
      \/ pc'[t] = "work" /\ pc[t] = "idle"
      \/ pc'[t] \in {"locking", "insert", "inserted"} /\
             (pc[t] \in {"locking", "insert"} \/ (pc[t] = "work" /\ t \in updated))
  <2>1. CASE Start(t)
    BY <2>1 DEF Start, Begin, PoolTimeout, RTypeOK, TypeOK
  <2>2. CASE Refuse(t) \/ Fail(t) \/ Reply(t) \/ Collide(t)
    BY <2>2 DEF Refuse, Fail, Reply, Collide, RTypeOK, TypeOK
  <2>3. CASE t \in updated /\ ReadTail(t)
    BY <2>3 DEF ReadTail, RTypeOK, TypeOK
  <2>4. CASE LockTail(t) \/ Insert(t)
    BY <2>4 DEF LockTail, Insert, RTypeOK, TypeOK
  <2> QED
    BY <2>1, <2>2, <2>3, <2>4 DEF RowQuiet
<1>7. pc[t] = "idle" => t \notin updated
  BY DEF UpdatedBegun
<1>8. UpdatedHolds'
  BY <1>1, <1>3, <1>6, <1>7 DEF UpdatedHolds
<1>9. EventsAreReached'
  BY <1>1 DEF EventsAreReached
<1>10. target[t] # NoRow \/ pc[t] # "idle"
  BY DEF RowQuiet, Start, Begin, PoolTimeout, Refuse, ReadTail, LockTail,
         Insert, Collide, Fail, Reply
<1>11. TargetChosen'
  BY <1>1, <1>3, <1>10 DEF TargetChosen
<1>12. pc'[t] # "idle"
  BY DEF RowQuiet, Start, Begin, PoolTimeout, Refuse, ReadTail, LockTail,
         Insert, Collide, Fail, Reply, RTypeOK, TypeOK
<1>13. UpdatedBegun'
  BY <1>1, <1>3, <1>12 DEF UpdatedBegun
<1> QED
  BY <1>2, <1>5, <1>8, <1>9, <1>11, <1>13

\* Reading the row outside any lock.
LEMMA ReadRowStep ==
    ASSUME RInv, TypeOK', NEW t \in Txns, NEW r \in Rows, ReadRow(t, r)
    PROVE  RInv'
<1> USE DEF RInv
<1>1. /\ UNCHANGED <<pc, effects, version, rowLock, updated, events, stale>>
      /\ target[t] = NoRow /\ target'[t] = r
      /\ \A u \in Txns : u # t => target'[u] = target[u] /\ expected'[u] = expected[u]
      /\ pc[t] = "idle"
  BY DEF ReadRow, vars, txnVars, RTypeOK, TargetChosen
<1>2. RTypeOK'
  BY <1>1 DEF ReadRow, RTypeOK
<1>3. \A x \in Rows : rowLock[x] # t
  BY <1>1 DEF LocksAreTargets, Open
<1>4. LocksAreTargets' /\ TargetChosen'
  BY <1>1, <1>3, NamesDiffer DEF LocksAreTargets, TargetChosen
<1>5. UpdatedHolds'
  BY <1>1 DEF UpdatedHolds
<1>6. EventsAreReached' /\ UpdatedBegun'
  BY <1>1 DEF EventsAreReached, UpdatedBegun
<1> QED
  BY <1>2, <1>4, <1>5, <1>6

\* Taking the lock of the row.
LEMMA LockRowStep ==
    ASSUME RInv, TypeOK', NEW t \in Txns, LockRow(t)
    PROVE  RInv'
<1> USE DEF RInv
<1>1. UNCHANGED <<pc, effects, version, target, expected, updated, events, stale>>
  BY DEF LockRow, vars, txnVars
<1>2. target[t] \in Rows /\ pc[t] = "work" /\ rowLock[target[t]] = NoTxn
  BY DEF LockRow, TargetChosen, RTypeOK
<1>3. /\ rowLock'[target[t]] = t
      /\ \A r \in Rows : r # target[t] => rowLock'[r] = rowLock[r]
  BY <1>2 DEF LockRow, RTypeOK
<1>4. RTypeOK'
  BY <1>1 DEF LockRow, RTypeOK
<1>5. LocksAreTargets'
  BY <1>1, <1>2, <1>3 DEF LocksAreTargets, Open
<1>6. \A u \in Txns : target[u] = target[t] => rowLock[target[u]] # u
  BY <1>2, NamesDiffer
<1>7. UpdatedHolds'
  BY <1>1, <1>3, <1>6 DEF UpdatedHolds, RTypeOK
<1>8. EventsAreReached' /\ TargetChosen' /\ UpdatedBegun'
  BY <1>1 DEF EventsAreReached, TargetChosen, UpdatedBegun
<1> QED
  BY <1>4, <1>5, <1>7, <1>8

\* The update happens only on the version that was read.
LEMMA UpdateRowStep ==
    ASSUME RInv, TypeOK', NEW t \in Txns, UpdateRow(t)
    PROVE  RInv'
<1> USE DEF RInv
<1>1. UNCHANGED <<pc, effects, version, rowLock, target, expected, events, stale>>
  BY DEF UpdateRow, vars, txnVars
<1>2. /\ target[t] # NoRow /\ rowLock[target[t]] = t /\ version[target[t]] = expected[t]
      /\ updated' = updated \cup {t} /\ pc[t] = "work"
  BY DEF UpdateRow, Holds, VersionIsExpected
<1>3. RTypeOK'
  BY <1>1, <1>2 DEF RTypeOK
<1>4. UpdatedHolds'
  BY <1>1, <1>2 DEF UpdatedHolds
<1>5. LocksAreTargets' /\ EventsAreReached' /\ TargetChosen' /\ UpdatedBegun'
  BY <1>1, <1>2 DEF LocksAreTargets, EventsAreReached, TargetChosen, UpdatedBegun
<1> QED
  BY <1>3, <1>4, <1>5

\* The two ways a transaction ends without its write: a refusal and a rollback.
LEMMA AbandonStep ==
    ASSUME RInv, TypeOK', NEW t \in Txns, RefuseStale(t) \/ RollbackRow(t)
    PROVE  RInv'
<1> USE DEF RInv
<1>1. /\ UNCHANGED <<effects, version, target, expected, events>>
      /\ pc[t] # "idle" /\ pc'[t] = "done"
      /\ \A u \in Txns : u # t => pc'[u] = pc[u]
      /\ updated' \subseteq updated
      /\ stale' \subseteq Txns
  BY DEF RefuseStale, RollbackRow, Refuse, Rollback, RTypeOK, TypeOK
<1>2. rowLock' = [r \in Rows |-> IF rowLock[r] = t THEN NoTxn ELSE rowLock[r]]
  BY DEF RefuseStale, RollbackRow, ReleaseRow
<1>3. RTypeOK'
  BY <1>1, <1>2 DEF RTypeOK
<1>4. LocksAreTargets'
  BY <1>1, <1>2, NamesDiffer DEF LocksAreTargets
<1>5. \A u \in Txns : u # t => (target[u] \in Rows /\ rowLock[target[u]] = u
                                  => rowLock'[target[u]] = u)
  BY <1>2
<1>6. UpdatedHolds'
  BY <1>1, <1>5 DEF UpdatedHolds, RTypeOK
<1>7. EventsAreReached' /\ TargetChosen' /\ UpdatedBegun'
  BY <1>1 DEF EventsAreReached, TargetChosen, UpdatedBegun
<1> QED
  BY <1>3, <1>4, <1>6, <1>7

\* The row and its entry become visible together.
LEMMA CommitRowStep ==
    ASSUME RInv, TypeOK', NEW t \in Txns, CommitRow(t)
    PROVE  RInv'
<1> USE DEF RInv
<1> DEFINE e == [row |-> target[t], version |-> expected[t] + 1, by |-> t]
<1>1. /\ UNCHANGED <<target, expected, updated, stale>>
      /\ effects' = effects \cup {t}
      /\ pc[t] = "inserted" /\ pc'[t] = "committed"
      /\ \A u \in Txns : u # t => pc'[u] = pc[u]
      /\ events' = events \cup {e}
  BY DEF CommitRow, Commit, RTypeOK, TypeOK
<1>2. /\ target[t] \in Rows /\ rowLock[target[t]] = t
      /\ version[target[t]] = expected[t] /\ expected[t] \in Nat
  BY <1>1 DEF UpdatedHolds, RTypeOK
<1>3. /\ version'[target[t]] = version[target[t]] + 1
      /\ \A r \in Rows : r # target[t] => version'[r] = version[r]
      /\ version' \in [Rows -> Nat \ {0}]
  BY <1>2 DEF CommitRow, RTypeOK
<1>4. rowLock' = [r \in Rows |-> IF rowLock[r] = t THEN NoTxn ELSE rowLock[r]]
  BY DEF CommitRow, ReleaseRow
<1>5. e.row = target[t] /\ e.version = version[target[t]] + 1 /\ e.by = t
  BY <1>2
<1>6. RTypeOK'
  BY <1>1, <1>2, <1>3, <1>4, <1>5 DEF RTypeOK
<1>7. LocksAreTargets'
  BY <1>1, <1>4, NamesDiffer DEF LocksAreTargets
<1>8. \A u \in Txns : u # t /\ target[u] \in Rows /\ rowLock[target[u]] = u
        => target[u] # target[t] /\ rowLock'[target[u]] = u
  BY <1>2, <1>4
<1>9. UpdatedHolds'
  BY <1>1, <1>3, <1>8 DEF UpdatedHolds, RTypeOK
<1>10. \A f \in events : f.row = target[t] => f.version # e.version
  BY <1>2, <1>5 DEF EventsAreReached, RTypeOK
<1>11. \A f \in events' : f.version \in Nat /\ f.row \in Rows /\ f.version <= version'[f.row]
  <2>1. e.version \in Nat /\ e.row \in Rows /\ e.version <= version'[e.row]
    BY <1>2, <1>3, <1>5
  <2>2. ASSUME NEW f \in events
        PROVE  f.version \in Nat /\ f.row \in Rows /\ f.version <= version'[f.row]
    <3>1. version[f.row] \in Nat /\ version'[f.row] \in Nat /\ version[f.row] <= version'[f.row]
      BY <1>2, <1>3 DEF EventsAreReached, RTypeOK
    <3> QED
      BY <3>1 DEF EventsAreReached
  <2> QED
    BY <1>1, <2>1, <2>2
<1> HIDE DEF e
<1>12. EventsAreReached'
  BY <1>1, <1>5, <1>10, <1>11 DEF EventsAreReached
<1>13. TargetChosen' /\ UpdatedBegun'
  BY <1>1 DEF TargetChosen, UpdatedBegun
<1> QED
  BY <1>6, <1>7, <1>9, <1>12, <1>13

\* Every step keeps the invariant.
LEMMA RInvStep == RInv /\ [RNext]_allVars => RInv'
<1> SUFFICES ASSUME RInv, [RNext]_allVars PROVE RInv'
  OBVIOUS
<1>1. TypeOK'
  BY TypeStep, ChainStep DEF RInv, RTypeOK
<1>2. ASSUME NEW t \in Txns, RowQuiet(t) PROVE RInv'
  BY <1>1, <1>2, RowQuietStep
<1>3. CASE UNCHANGED allVars
  BY <1>1, <1>3 DEF allVars, vars, txnVars, rowVars, RInv, RTypeOK, LocksAreTargets,
     UpdatedHolds, EventsAreReached, TargetChosen, UpdatedBegun
<1>4. ASSUME NEW t \in Txns, NEW r \in Rows, ReadRow(t, r) PROVE RInv'
  BY <1>1, <1>4, ReadRowStep
<1>5. ASSUME NEW t \in Txns, LockRow(t) \/ UpdateRow(t) PROVE RInv'
  BY <1>1, <1>5, LockRowStep, UpdateRowStep
<1>6. ASSUME NEW t \in Txns, RefuseStale(t) \/ RollbackRow(t) \/ CommitRow(t) PROVE RInv'
  BY <1>1, <1>6, AbandonStep, CommitRowStep
<1>7. CASE Terminated /\ UNCHANGED rowVars
  BY <1>3, <1>7 DEF Terminated, allVars
<1>8. ASSUME NEW t \in Txns, Call(t) \/ RefuseUnresolved(t) \/ FailOrReply(t)
      PROVE  RInv'
  BY <1>2, <1>8 DEF Call, RefuseUnresolved, FailOrReply, RowQuiet
<1>9. ASSUME NEW t \in Txns, RStep(t) PROVE RInv'
  <2>1. CASE AppendEntry(t) \/ (Reply(t) /\ UNCHANGED rowVars)
    BY <1>2, <2>1 DEF AppendEntry, RowQuiet
  <2> QED
    BY <1>5, <1>6, <1>9, <2>1 DEF RStep
<1> QED
  BY <1>3, <1>4, <1>7, <1>8, <1>9 DEF RNext

\* The invariant holds throughout.
LEMMA RInvAlways == RSpec => []RInv
BY RInvInit, RInvStep, PTL DEF RSpec

\* Two committed writes never replaced the same version of a row.
THEOREM NeverLostUpdate == RSpec => []NoLostUpdate
<1>1. RInv => NoLostUpdate
  BY DEF RInv, EventsAreReached, NoLostUpdate
<1> QED
  BY RInvAlways, <1>1, PTL

-----------------------------------------------------------------------------
(***************************************************************************)
(* That the committed writes of a row are serial: a version that has been  *)
(* left behind was left by a committed write that expected it, and every   *)
(* version counts its entries.  It rests on the invariants of the chain    *)
(* (an entry belongs to a committed write) and of the rows.                *)
(***************************************************************************)
VersionsWereWritten ==
    \A r \in Rows : \A v \in Nat \ {0} : v < version[r] =>
        \E u \in effects : target[u] = r /\ expected[u] = v

ReadsArePast ==
    \A t \in Txns : target[t] # NoRow =>
        expected[t] # 0 /\ expected[t] <= version[target[t]]

StaleHasTarget == \A t \in stale : target[t] # NoRow

EntriesOf(r) == {e \in log : target[e.by] = r}

EntriesAreCounted ==
    \A r \in Rows : /\ IsFiniteSet(EntriesOf(r))
                    /\ version[r] = 1 + Cardinality(EntriesOf(r))

SerialInv ==
    /\ VersionsWereWritten
    /\ ReadsArePast
    /\ StaleHasTarget
    /\ StaleMeansOvertaken
    /\ EntriesAreCounted

\* Nothing has been written yet.
LEMMA SerialInit == RInit => SerialInv
<1> SUFFICES ASSUME RInit PROVE SerialInv
  OBVIOUS
<1>1. VersionsWereWritten /\ ReadsArePast /\ StaleHasTarget /\ StaleMeansOvertaken
  BY DEF RInit, VersionsWereWritten, ReadsArePast, StaleHasTarget, StaleMeansOvertaken
<1>2. \A r \in Rows : EntriesOf(r) = {} /\ version[r] = 1
  BY DEF RInit, Init, EntriesOf
<1>3. EntriesAreCounted
  BY <1>2, FS_EmptySet DEF EntriesAreCounted
<1> QED
  BY <1>1, <1>3 DEF SerialInv

\* The steps that change neither what is committed nor what a caller knows.
Keeps == UNCHANGED <<log, effects, version, target, expected, stale>>

\* A step reads a row, is refused for a stale version, commits, or keeps all
\* that seriality speaks of.
LEMMA RowSteps ==
    ASSUME [RNext]_allVars
    PROVE  \/ Keeps
           \/ \E t \in Txns : \/ \E r \in Rows : ReadRow(t, r)
                              \/ RefuseStale(t)
                              \/ CommitRow(t)
<1>1. CASE UNCHANGED allVars
  BY <1>1 DEF allVars, vars, rowVars, Keeps
<1>2. CASE Terminated /\ UNCHANGED rowVars
  BY <1>2 DEF Terminated, vars, rowVars, Keeps
<1>3. ASSUME NEW t \in Txns, Call(t) \/ RefuseUnresolved(t) \/ FailOrReply(t)
      PROVE  Keeps
  BY <1>3 DEF Call, RefuseUnresolved, FailOrReply, Start, Begin, PoolTimeout, Refuse, Fail,
     Reply, rowVars, Keeps
<1>4. ASSUME NEW t \in Txns, LockRow(t) \/ UpdateRow(t) PROVE Keeps
  BY <1>4 DEF LockRow, UpdateRow, vars, Keeps
<1>5. ASSUME NEW t \in Txns, AppendEntry(t) PROVE Keeps
  BY <1>5 DEF AppendEntry, ReadTail, LockTail, Insert, Collide, rowVars, Keeps
<1>6. ASSUME NEW t \in Txns, RollbackRow(t) \/ (Reply(t) /\ UNCHANGED rowVars) PROVE Keeps
  BY <1>6 DEF RollbackRow, Rollback, Reply, rowVars, Keeps
<1> QED
  BY <1>1, <1>2, <1>3, <1>4, <1>5, <1>6 DEF RNext, RStep

\* A caller who reads a row has not written anything yet.
LEMMA SerialRead ==
    ASSUME IInv, RInv, SerialInv, NEW t \in Txns, NEW r \in Rows, ReadRow(t, r)
    PROVE  SerialInv'
<1> USE DEF SerialInv
<1>1. /\ UNCHANGED <<log, effects, version, stale>>
      /\ target[t] = NoRow /\ target'[t] = r /\ expected'[t] = version[r]
      /\ \A u \in Txns : u # t => target'[u] = target[u] /\ expected'[u] = expected[u]
  BY DEF ReadRow, vars, RInv, RTypeOK
<1>2. t \notin effects /\ t \notin stale
  BY <1>1 DEF RInv, TargetChosen, IInv, EffectsFollowEntries, StaleHasTarget
<1>3. effects \subseteq Txns /\ stale \subseteq Txns /\ version \in [Rows -> Nat \ {0}]
  BY DEF RInv, RTypeOK, TypeOK
<1>4. VersionsWereWritten'
  BY <1>1, <1>2, <1>3 DEF VersionsWereWritten
<1>5. ReadsArePast'
  BY <1>1, <1>3, NamesDiffer DEF ReadsArePast
<1>6. StaleHasTarget' /\ StaleMeansOvertaken'
  BY <1>1, <1>2, <1>3 DEF StaleHasTarget, StaleMeansOvertaken
<1>7. \A e \in log : e.by \in Txns /\ e.by # t
  BY <1>2 DEF IInv, EffectsFollowEntries, AuditedExactly, TypeOK, IsRow
<1>8. \A q \in Rows : EntriesOf(q)' = EntriesOf(q)
  BY <1>1, <1>7 DEF EntriesOf
<1>9. EntriesAreCounted'
  BY <1>1, <1>8 DEF EntriesAreCounted
<1> QED
  BY <1>4, <1>5, <1>6, <1>9

\* A version that is not the expected one is a later one, which somebody wrote.
LEMMA SerialRefusal ==
    ASSUME IInv, RInv, SerialInv, NEW t \in Txns, RefuseStale(t)
    PROVE  SerialInv'
<1> USE DEF SerialInv
<1>1. /\ UNCHANGED <<log, effects, version, target, expected>>
      /\ stale' = stale \cup {t}
      /\ pc[t] = "work" /\ target[t] # NoRow /\ version[target[t]] # expected[t]
  BY DEF RefuseStale, Refuse, Holds, VersionIsExpected
<1>2. /\ target[t] \in Rows /\ expected[t] \in Nat \ {0}
      /\ version[target[t]] \in Nat /\ expected[t] < version[target[t]]
  BY <1>1 DEF RInv, RTypeOK, ReadsArePast
<1>3. PICK u \in effects : target[u] = target[t] /\ expected[u] = expected[t]
  BY <1>2 DEF VersionsWereWritten
<1>4. u # t
  BY <1>1 DEF IInv, EffectsFollowEntries
<1>5. StaleMeansOvertaken' /\ StaleHasTarget'
  BY <1>1, <1>3, <1>4 DEF StaleMeansOvertaken, StaleHasTarget
<1>6. VersionsWereWritten' /\ ReadsArePast'
  BY <1>1 DEF VersionsWereWritten, ReadsArePast
<1>7. EntriesAreCounted'
  BY <1>1 DEF EntriesAreCounted, EntriesOf
<1> QED
  BY <1>5, <1>6, <1>7

\* A commit leaves the version it expected, with one more entry.
LEMMA SerialCommit ==
    ASSUME IInv, RInv, SerialInv, NEW t \in Txns, CommitRow(t)
    PROVE  SerialInv'
<1> USE DEF SerialInv
<1> DEFINE n == NewRow(t)
<1>1. /\ UNCHANGED <<target, expected, stale>>
      /\ effects' = effects \cup {t} /\ log' = log \cup pending[t]
      /\ pc[t] = "inserted"
  BY DEF CommitRow, Commit
<1>2. pending[t] = {n} /\ n.by = t
  BY <1>1 DEF IInv, PendingIsNewRow, NewRow
<1>3. /\ target[t] \in Rows /\ version[target[t]] = expected[t]
      /\ version \in [Rows -> Nat \ {0}] /\ expected[t] \in Nat \ {0}
  BY <1>1 DEF RInv, UpdatedHolds, RTypeOK
<1>4. /\ version'[target[t]] = version[target[t]] + 1
      /\ \A r \in Rows : r # target[t] => version'[r] = version[r]
  BY <1>3 DEF CommitRow
<1> HIDE DEF n
<1>5. VersionsWereWritten'
  <2> SUFFICES ASSUME NEW r \in Rows, NEW v \in Nat \ {0}, v < version'[r]
               PROVE  \E u \in effects' : target[u] = r /\ expected[u] = v
    BY <1>1 DEF VersionsWereWritten
  <2>1. CASE v < version[r]
    BY <1>1, <2>1 DEF VersionsWereWritten
  <2>2. CASE ~(v < version[r])
    <3>1. r = target[t]
      BY <1>4, <2>2
    <3>2. v = expected[t]
      BY <1>3, <1>4, <2>2, <3>1
    <3> QED
      BY <1>1, <3>1, <3>2
  <2> QED
    BY <2>1, <2>2
<1>6. \A r \in Rows : version'[r] \in Nat /\ version[r] \in Nat /\ version[r] <= version'[r]
  BY <1>3, <1>4
<1>7. ReadsArePast'
  <2> SUFFICES ASSUME NEW u \in Txns, target[u] # NoRow
               PROVE  expected[u] # 0 /\ expected[u] <= version'[target[u]]
    BY <1>1 DEF ReadsArePast
  <2>1. target[u] \in Rows /\ expected[u] \in Nat
    BY DEF RInv, RTypeOK
  <2> QED
    BY <1>6, <2>1 DEF ReadsArePast
<1>8. StaleHasTarget' /\ StaleMeansOvertaken'
  BY <1>1 DEF StaleHasTarget, StaleMeansOvertaken
<1>9. n \notin log
  BY <1>1, <1>2 DEF IInv, EffectsFollowEntries, AuditedExactly
<1>10. EntriesOf(target[t])' = EntriesOf(target[t]) \cup {n} /\ n \notin EntriesOf(target[t])
  BY <1>1, <1>2, <1>9 DEF EntriesOf
<1>11. \A r \in Rows : r # target[t] => EntriesOf(r)' = EntriesOf(r)
  BY <1>1, <1>2 DEF EntriesOf
<1>12. EntriesAreCounted'
  <2>1. ASSUME NEW r \in Rows
        PROVE  IsFiniteSet(EntriesOf(r)') /\ version'[r] = 1 + Cardinality(EntriesOf(r)')
    <3>1. IsFiniteSet(EntriesOf(r)) /\ version[r] = 1 + Cardinality(EntriesOf(r))
      BY DEF EntriesAreCounted
    <3>2. CASE r # target[t]
      BY <1>4, <1>11, <3>1, <3>2
    <3>3. CASE r = target[t]
      <4>1. EntriesOf(r)' = EntriesOf(r) \cup {n} /\ n \notin EntriesOf(r)
        BY <1>10, <3>3, <1>1
      <4>2. /\ IsFiniteSet(EntriesOf(r) \cup {n})
            /\ Cardinality(EntriesOf(r) \cup {n}) = Cardinality(EntriesOf(r)) + 1
        BY <3>1, <4>1, FS_AddElement
      <4>3. Cardinality(EntriesOf(r)) \in Nat /\ version'[r] = version[r] + 1
        BY <1>4, <3>1, <3>3, FS_CardinalityType
      <4> QED
        BY <3>1, <4>1, <4>2, <4>3
    <3> QED
      BY <3>2, <3>3
  <2> QED
    BY <2>1 DEF EntriesAreCounted
<1> QED
  BY <1>5, <1>7, <1>8, <1>12

\* Every step keeps the writes serial.
LEMMA SerialStep == IInv /\ RInv /\ SerialInv /\ [RNext]_allVars => SerialInv'
<1> SUFFICES ASSUME IInv, RInv, SerialInv, [RNext]_allVars PROVE SerialInv'
  OBVIOUS
<1>1. CASE Keeps
  BY <1>1 DEF Keeps, SerialInv, VersionsWereWritten, ReadsArePast, StaleHasTarget,
     StaleMeansOvertaken, EntriesAreCounted, EntriesOf
<1> QED
  BY <1>1, RowSteps, SerialRead, SerialRefusal, SerialCommit

\* A CONFLICT always has a committed write behind it, a version counts the
\* entries of its row, and no update is lost.
THEOREM WritesAlwaysSerial == RSpec => []WritesAreSerial
<1>1. RSpec => []IInv
  BY WritesUseTheChain, InvAlways, PTL
<1>2. SerialInv => VersionCountsEntries /\ StaleMeansOvertaken
  BY DEF SerialInv, EntriesAreCounted, EntriesOf, VersionCountsEntries
<1>3. RSpec => []SerialInv
  BY <1>1, RInvAlways, SerialInit, SerialStep, PTL DEF RSpec
<1> QED
  BY <1>2, <1>3, NeverLostUpdate, PTL DEF WritesAreSerial
=============================================================================
