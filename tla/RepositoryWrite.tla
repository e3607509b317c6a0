-------------------------- MODULE RepositoryWrite ---------------------------
(***************************************************************************)
(* The shape every versioned write of packages/repositories shares (the    *)
(* #transition methods of task.ts and review.ts, and the methods built the *)
(* same way): the row is locked, its version is compared with the one the  *)
(* caller read, the row is updated, an event is inserted, the audit entry  *)
(* is appended last, and COMMIT publishes all of it.                       *)
(*                                                                         *)
(* It composes the row protocol with AuditChain: a transaction here is a   *)
(* transaction there, which holds two locks at once, the row's and the     *)
(* audit tail's.                                                           *)
(***************************************************************************)
EXTENDS AuditChain

CONSTANTS
    Rows,       \* tasks or review requests
    NoRow, NoTxn

ASSUME NamesDiffer == NoRow \notin Rows /\ NoTxn \notin Txns

VARIABLES
    version,    \* committed version of each row
    rowLock,    \* the transaction holding each row FOR UPDATE
    target,     \* the row each call is about
    expected,   \* the version its caller had read
    updated,    \* transactions whose UPDATE and event INSERT are done
    events,     \* committed events: [row, version, by]
    stale       \* calls refused because the version had moved

rowVars == <<version, rowLock, target, expected, updated, events, stale>>
allVars == <<vars, rowVars>>

RInit ==
    /\ Init
    /\ version = [r \in Rows |-> 1]
    /\ rowLock = [r \in Rows |-> NoTxn]
    /\ target = [t \in Txns |-> NoRow]
    /\ expected = [t \in Txns |-> 0]
    /\ updated = {}
    /\ events = {}
    /\ stale = {}

Holds(t) == target[t] # NoRow /\ rowLock[target[t]] = t

\* Mutant: the end of a transaction leaves the row locked.
KeepRow(t) == UNCHANGED rowLock

ReleaseRow(t) ==
    rowLock' = [r \in Rows |-> IF rowLock[r] = t THEN NoTxn ELSE rowLock[r]]

\* The caller reads the row, in an earlier request, and keeps its version.
ReadRow(t, r) ==
    /\ target[t] = NoRow
    /\ target' = [target EXCEPT ![t] = r]
    /\ expected' = [expected EXCEPT ![t] = version[r]]
    /\ UNCHANGED <<vars, version, rowLock, updated, events, stale>>

\* The method is called: BEGIN, or no connection in time.
Call(t) ==
    /\ target[t] # NoRow
    /\ Start(t)
    /\ UNCHANGED rowVars

\* #resolve finds no case, no membership or no permitted role.
RefuseUnresolved(t) ==
    /\ ~Holds(t)
    /\ Refuse(t)
    /\ UNCHANGED rowVars

\* SELECT ... FOR UPDATE, granted once no other transaction holds the row.
LockRow(t) ==
    /\ pc[t] = "work"
    /\ rowLock[target[t]] = NoTxn
    /\ rowLock' = [rowLock EXCEPT ![target[t]] = t]
    /\ UNCHANGED <<vars, version, target, expected, updated, events, stale>>

\* Mutant: the version is not compared.
AnyVersion(t) == TRUE

VersionIsExpected(t) == version[target[t]] = expected[t]

\* The row moved on: CONFLICT, returned and not thrown.
RefuseStale(t) ==
    /\ Holds(t)
    /\ ~VersionIsExpected(t)
    /\ Refuse(t)
    /\ ReleaseRow(t)
    /\ stale' = stale \cup {t}
    /\ UNCHANGED <<version, target, expected, updated, events>>

\* UPDATE ... SET version = version + 1 WHERE version = expected, then the event.
UpdateRow(t) ==
    /\ pc[t] = "work"
    /\ Holds(t)
    /\ t \notin updated
    /\ VersionIsExpected(t)
    /\ updated' = updated \cup {t}
    /\ UNCHANGED <<vars, version, rowLock, target, expected, events, stale>>

\* The audit append, the last statements of the transaction.
AppendEntry(t) ==
    /\ \/ t \in updated /\ ReadTail(t)
       \/ LockTail(t) \/ Insert(t) \/ Collide(t)
    /\ UNCHANGED rowVars

CommitRow(t) ==
    /\ Commit(t)
    /\ ReleaseRow(t)
    /\ version' = [version EXCEPT ![target[t]] = @ + 1]
    /\ events' = events \cup {[row |-> target[t], version |-> expected[t] + 1, by |-> t]}
    /\ UNCHANGED <<target, expected, updated, stale>>

RollbackRow(t) ==
    /\ Rollback(t)
    /\ ReleaseRow(t)
    /\ updated' = updated \ {t}
    /\ UNCHANGED <<version, target, expected, events, stale>>

FailOrReply(t) ==
    /\ Fail(t) \/ Reply(t)
    /\ UNCHANGED rowVars

\* What a transaction that has begun does next, failures apart.
RStep(t) ==
    \/ LockRow(t) \/ RefuseStale(t) \/ UpdateRow(t)
    \/ AppendEntry(t) \/ CommitRow(t) \/ RollbackRow(t)
    \/ Reply(t) /\ UNCHANGED rowVars

RNext ==
    \/ \E t \in Txns :
        \/ \E r \in Rows : ReadRow(t, r)
        \/ Call(t) \/ RefuseUnresolved(t) \/ FailOrReply(t) \/ RStep(t)
    \/ Terminated /\ UNCHANGED rowVars

RSpec == RInit /\ [][RNext]_allVars

\* The server runs what it was sent; every call runs once, so a lock is not
\* taken by others for ever and weak fairness is enough for the waits.
RFairSpec == RSpec /\ \A t \in Txns : WF_allVars(RStep(t))

-----------------------------------------------------------------------------
RTypeOK ==
    /\ TypeOK
    /\ version \in [Rows -> Nat \ {0}]
    /\ rowLock \in [Rows -> Txns \cup {NoTxn}]
    /\ target \in [Txns -> Rows \cup {NoRow}]
    /\ expected \in [Txns -> Nat]
    /\ updated \subseteq Txns /\ stale \subseteq Txns
    /\ \A e \in events : e.row \in Rows /\ e.version \in Nat /\ e.by \in Txns

\* The version of a row is a count of its audit entries: no write is lost, and
\* none is recorded without the version having moved.
VersionCountsEntries ==
    \A r \in Rows : version[r] = 1 + Cardinality({e \in log : target[e.by] = r})

\* No two committed writes replaced the same version of a row: a write that
\* committed was based on the state it replaced.
NoLostUpdate ==
    /\ \A e, f \in events : e.row = f.row /\ e.version = f.version => e = f
    /\ \A t \in effects : \E e \in events : e.by = t

\* A CONFLICT for a moved version is only given to a caller whom a committed
\* write has overtaken.
StaleMeansOvertaken ==
    \A t \in stale : \E u \in effects \ {t} :
        target[u] = target[t] /\ expected[u] = expected[t]

\* The committed writes of a row replace one another in the order of its
\* versions, one audit entry each, and only their losers are told CONFLICT.
WritesAreSerial == NoLostUpdate /\ VersionCountsEntries /\ StaleMeansOvertaken

\* Whatever two locks the transactions hold, every call that began is answered.
EveryWriteEnds == \A t \in Txns : (pc[t] = "work") ~> (pc[t] = "done")
=============================================================================
