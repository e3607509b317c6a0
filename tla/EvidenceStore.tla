--------------------------- MODULE EvidenceStore ----------------------------
(***************************************************************************)
(* One evidence item of packages/repositories/src/evidence.ts: its row,    *)
(* its file versions in the database, and the objects in the storage of    *)
(* evidence-storage.ts, which no transaction spans.                        *)
(*                                                                         *)
(* attachFileVersion reads the next file version outside any transaction,  *)
(* puts the bytes under a key made of that version, writes the rows in one *)
(* transaction, and removes the key again if the transaction throws.       *)
(* verifyEvidence reads the row and the bytes outside any transaction and  *)
(* records its verdict with a conditional UPDATE.  Each of these is a step *)
(* here; a database transaction is one step, because its UPDATE ... WHERE  *)
(* version = expected waits for and re-evaluates the row.                  *)
(***************************************************************************)
EXTENDS Integers, FiniteSets

CONSTANTS
    Calls,      \* calls of the repository; an attached file's bytes are its call's
    Regulated,  \* the calls whose caller is a solicitor or an adviser
    NoBytes,    \* no object under the key
    TornBytes   \* an object whose write failed half way

ASSUME CallsAssumption ==
    /\ IsFiniteSet(Calls)
    /\ Regulated \subseteq Calls
    /\ NoBytes \notin Calls /\ TornBytes \notin Calls /\ NoBytes # TornBytes

VARIABLES
    item,       \* evidence_items: version, current file version (0: none), state
    files,      \* evidence_files: version, digest, available, supersededBy
    objects,    \* the storage, by key; a key is the file version it was made for
    call,       \* the state of each call
    verdicts,   \* evidence_events of verification, with the file each judged
    writes      \* calls whose transaction has committed

storeVars == <<item, files, objects, call, verdicts, writes>>

Kinds == {"attach", "digest", "source", "professional", "unavailable"}
States == {"unverified", "digest_verified", "source_verified",
           "professionally_verified", "disputed", "unavailable"}
Keys == 1 .. Cardinality(Calls)

Bytes == Calls \cup {NoBytes, TornBytes}

Idle == [pc |-> "idle", kind |-> "attach", expected |-> 0, next |-> 0,
         seenFile |-> 0, verdict |-> "unverified", answer |-> "none", fate |-> "none"]

StoreInit ==
    /\ item = [version |-> 1, current |-> 0, state |-> "unverified"]
    /\ files = {}
    /\ objects = [k \in Keys |-> NoBytes]
    /\ call = [c \in Calls |-> Idle]
    /\ verdicts = {}
    /\ writes = {}

At(c, where) == call[c].pc = where
Kind(c, kind) == call[c].kind = kind
CurrentFile(c) == item.version = call[c].expected
FileAt(v) == CHOOSE f \in files : f.version = v

\* The call returns, with an answer and what its caller cannot see of its end.
Ends(c, answer, fate) ==
    call' = [call EXCEPT ![c].pc = "done", ![c].answer = answer, ![c].fate = fate]

Goes(c, where) == call' = [call EXCEPT ![c].pc = where]

-----------------------------------------------------------------------------
\* The caller has read the item and calls one of the methods with its version.
OpenCall(c, kind) ==
    /\ At(c, "idle")
    /\ call' = [call EXCEPT ![c].pc = "called", ![c].kind = kind,
                            ![c].expected = item.version]
    /\ UNCHANGED <<item, files, objects, verdicts, writes>>

\* Any database or storage error before anything was written: UNREACHABLE.
FailEarly(c) ==
    /\ \/ At(c, "called") \/ At(c, "get") \/ At(c, "record")
    /\ Ends(c, "unreachable", "none")
    /\ UNCHANGED <<item, files, objects, verdicts, writes>>

-----------------------------------------------------------------------------
(***************************************************************************)
(* attachFileVersion                                                       *)
(***************************************************************************)

\* SELECT COALESCE(max(f.version), 0).
LastVersion ==
    CHOOSE v \in {f.version : f \in files} \cup {0} : \A f \in files : f.version <= v

\* The version is read on the pool, and fixes the storage key.
AttachReads(c) ==
    /\ At(c, "called") /\ Kind(c, "attach")
    /\ call' = [call EXCEPT ![c].pc = "put", ![c].next = LastVersion + 1]
    /\ UNCHANGED <<item, files, objects, verdicts, writes>>

\* storage.put succeeds, over whatever the key held.
Put(c) ==
    /\ At(c, "put")
    /\ objects' = [objects EXCEPT ![call[c].next] = c]
    /\ Goes(c, "write")
    /\ UNCHANGED <<item, files, verdicts, writes>>

\* storage.put throws, at once or half way; writtenKey is not set, so nothing
\* is removed.
PutFails(c) ==
    /\ At(c, "put")
    /\ \/ UNCHANGED objects
       \/ objects' = [objects EXCEPT ![call[c].next] = TornBytes]
    /\ Ends(c, "unreachable", "put failed")
    /\ UNCHANGED <<item, files, verdicts, writes>>

\* UNIQUE (evidence_id, version) of evidence_files.
VersionFree(v) == \A f \in files : f.version # v

SupersedeFile(fs, v) ==
    {IF f.version = v - 1 THEN [f EXCEPT !.available = FALSE, !.supersededBy = v]
                          ELSE f : f \in fs}

\* The rows one attachment writes: the file, the item, the file it supersedes.
AttachRows(c) ==
    /\ files' = SupersedeFile(files, call[c].next) \cup
           {[version |-> call[c].next, digest |-> c, available |-> TRUE, supersededBy |-> 0]}
    /\ item' = [item EXCEPT !.version = @ + 1, !.current = call[c].next]
    /\ writes' = writes \cup {c}

\* The transaction commits.  If the reply to COMMIT is lost, withTransaction
\* throws and the catch compensates for a write that did happen.
Write(c) ==
    /\ At(c, "write")
    /\ VersionFree(call[c].next)
    /\ CurrentFile(c)
    /\ AttachRows(c)
    /\ \/ Ends(c, "ok", "none")
       \/ call' = [call EXCEPT ![c].pc = "compensate", ![c].answer = "unreachable",
                               ![c].fate = "reply lost"]
    /\ UNCHANGED <<objects, verdicts>>

\* The transaction throws and the catch knows what to answer: CONFLICT when the
\* INSERT went through and the item had moved, UNREACHABLE after anything else.
WriteThrows(c) ==
    /\ At(c, "write")
    /\ \E a \in {"unreachable", "conflict"} :
        /\ a = "conflict" => VersionFree(call[c].next) /\ ~CurrentFile(c)
        /\ call' = [call EXCEPT ![c].pc = "compensate", ![c].answer = a]
    /\ UNCHANGED <<item, files, objects, verdicts, writes>>

\* Mutant: the catch has no storage.remove.
NothingRemoved(c) ==
    /\ At(c, "compensate")
    /\ Ends(c, call[c].answer, call[c].fate)
    /\ UNCHANGED <<item, files, objects, verdicts, writes>>

\* catch: storage.remove(writtenKey).
Compensate(c) ==
    /\ At(c, "compensate")
    /\ objects' = [objects EXCEPT ![call[c].next] = NoBytes]
    /\ Ends(c, call[c].answer, call[c].fate)
    /\ UNCHANGED <<item, files, verdicts, writes>>

\* The removal fails too, and its error is swallowed.
CompensationFails(c) ==
    /\ At(c, "compensate")
    /\ Ends(c, call[c].answer, "not removed")
    /\ UNCHANGED <<item, files, objects, verdicts, writes>>

\* The process dies between two steps of an attachment.
Crash(c) ==
    /\ At(c, "put") \/ At(c, "write") \/ At(c, "compensate")
    /\ Ends(c, "none", "crashed")
    /\ UNCHANGED <<item, files, objects, verdicts, writes>>

-----------------------------------------------------------------------------
(***************************************************************************)
(* verifyEvidence                                                          *)
(***************************************************************************)

\* The row is read on the pool.  With no file there is no digest to check.
ReadForDigest(c) ==
    /\ At(c, "called") /\ Kind(c, "digest")
    /\ IF item.current = 0
         THEN Ends(c, "conflict", "none")
         ELSE call' = [call EXCEPT ![c].pc = "get", ![c].seenFile = item.current]
    /\ UNCHANGED <<item, files, objects, verdicts, writes>>

DigestVerdict(bytes, digest) ==
    CASE bytes = NoBytes -> "unavailable"
      [] bytes = digest  -> "digest_verified"
      [] OTHER           -> "disputed"

\* storage.get of the key read before, and the digest recomputed over it.
GetBytes(c) ==
    /\ At(c, "get")
    /\ LET file == call[c].seenFile
       IN  call' = [call EXCEPT ![c].pc = "record",
                       ![c].verdict = DigestVerdict(objects[file], FileAt(file).digest)]
    /\ UNCHANGED <<item, files, objects, verdicts, writes>>

\* source and professional: refused while the state is 'unverified', and
\* professional also without a regulated role.
Judge(c) ==
    /\ At(c, "called") /\ call[c].kind \in {"source", "professional"}
    /\ IF item.state = "unverified"
         THEN Ends(c, "conflict", "none")
         ELSE IF Kind(c, "professional") /\ c \notin Regulated
         THEN Ends(c, "forbidden", "none")
         ELSE call' = [call EXCEPT ![c].pc = "record",
                  ![c].seenFile = item.current,
                  ![c].verdict = IF Kind(c, "source") THEN "source_verified"
                                                      ELSE "professionally_verified"]
    /\ UNCHANGED <<item, files, objects, verdicts, writes>>

\* Mutant: UPDATE ... WHERE id = $2, without AND version = $3.
RecordAnyVersion(c) ==
    /\ At(c, "record")
    /\ item' = [item EXCEPT !.version = @ + 1, !.state = call[c].verdict]
    /\ writes' = writes \cup {c}
    /\ verdicts' = verdicts \cup {[by |-> c, verdict |-> call[c].verdict,
                                   judged |-> call[c].seenFile, file |-> item.current]}
    /\ \E a \in {"ok", "unreachable"} : Ends(c, a, "none")
    /\ UNCHANGED <<files, objects>>

\* UPDATE ... SET verification_state WHERE version = expected, and the event.
Record(c) ==
    /\ At(c, "record")
    /\ CurrentFile(c)
    /\ item' = [item EXCEPT !.version = @ + 1, !.state = call[c].verdict]
    /\ writes' = writes \cup {c}
    /\ verdicts' = verdicts \cup {[by |-> c, verdict |-> call[c].verdict,
                                   judged |-> call[c].seenFile, file |-> item.current]}
    /\ \E a \in {"ok", "unreachable"} : Ends(c, a, "none")
    /\ UNCHANGED <<files, objects>>

RecordConflicts(c) ==
    /\ At(c, "record")
    /\ ~CurrentFile(c)
    /\ Ends(c, "conflict", "none")
    /\ UNCHANGED <<item, files, objects, verdicts, writes>>

-----------------------------------------------------------------------------
\* markEvidenceUnavailable: one transaction over the item and its current file.
MarkUnavailable(c) ==
    /\ At(c, "called") /\ Kind(c, "unavailable")
    /\ IF CurrentFile(c)
         THEN /\ item' = [item EXCEPT !.version = @ + 1, !.state = "unavailable"]
              /\ files' = {IF f.version = item.current
                             THEN [f EXCEPT !.available = FALSE] ELSE f : f \in files}
              /\ writes' = writes \cup {c}
              /\ \E a \in {"ok", "unreachable"} : Ends(c, a, "none")
         ELSE /\ Ends(c, "conflict", "none")
              /\ UNCHANGED <<item, files, writes>>
    /\ UNCHANGED <<objects, verdicts>>

StoreTerminated == (\A c \in Calls : At(c, "done")) /\ UNCHANGED storeVars

StoreNext ==
    \/ \E c \in Calls :
        \/ \E kind \in Kinds : OpenCall(c, kind)
        \/ FailEarly(c) \/ AttachReads(c) \/ Put(c) \/ PutFails(c) \/ Write(c)
        \/ WriteThrows(c) \/ Compensate(c) \/ CompensationFails(c) \/ Crash(c)
        \/ ReadForDigest(c) \/ GetBytes(c) \/ Judge(c) \/ Record(c)
        \/ RecordConflicts(c) \/ MarkUnavailable(c)
    \/ StoreTerminated

StoreSpec == StoreInit /\ [][StoreNext]_storeVars

-----------------------------------------------------------------------------
(***************************************************************************)
(* Properties                                                              *)
(***************************************************************************)

\* The type of every variable.
StoreTypeOK ==
    /\ item \in [version : Nat \ {0}, current : Nat, state : States]
    /\ files \subseteq [version : Keys, digest : Calls, available : BOOLEAN,
                        supersededBy : Keys \cup {0}]
    /\ objects \in [Keys -> Bytes]
    /\ call \in [Calls -> [pc : {"idle", "called", "put", "write", "compensate", "get",
                                 "record", "done"},
                           kind : Kinds, expected : Nat, next : Nat, seenFile : Nat,
                           verdict : States,
                           answer : {"none", "ok", "conflict", "forbidden", "unreachable"},
                           fate : {"none", "put failed", "reply lost", "not removed",
                                   "crashed"}]]
    /\ verdicts \subseteq [by : Calls, verdict : States, judged : Nat, file : Nat]
    /\ writes \subseteq Calls

\* Whatever attachments race, the file versions are numbered without a gap or a
\* duplicate, the item points at the last one, every earlier one is superseded
\* by its successor and none but the last is offered as available.
OneCurrentFile ==
    /\ \A f, g \in files : f.version = g.version => f = g
    /\ {f.version : f \in files} = 1 .. item.current
    /\ \A f \in files :
           IF f.version = item.current THEN f.supersededBy = 0
           ELSE f.supersededBy = f.version + 1 /\ ~f.available

\* Every committed write moved the version by one, so a version that has not
\* moved means that nothing was written.
VersionCountsWrites == item.version = 1 + Cardinality(writes)

\* A verdict is recorded about the very file it was formed on, although the
\* file was read outside the transaction that records it.
VerdictLandsOnWhatItJudged == \A v \in verdicts : v.judged = v.file

\* The bytes of a recorded file can only be missing or wrong when another
\* attachment was given the same storage key, or when the reply to its own
\* COMMIT was lost.
BytesLostOnlyToRace ==
    \A f \in files : objects[f.version] # f.digest =>
        \/ call[f.digest].fate = "reply lost"
        \/ \E c \in Calls \ {f.digest} : call[c].next = f.version

\* An object that no file row refers to belongs to an attachment in progress
\* or to one whose put, removal or process failed: a failed attachment that
\* could clean up after itself has.
OrphansAreExplained ==
    \A k \in Keys : objects[k] # NoBytes /\ VersionFree(k) =>
        \E c \in Calls : /\ call[c].next = k
                         /\ \/ call[c].pc \in {"write", "compensate"}
                            \/ call[c].fate \in {"put failed", "not removed", "crashed"}

\* The rows of an item and the verdicts on it are of one and the same file.
ItemIsSound == OneCurrentFile /\ VerdictLandsOnWhatItJudged

\* Between the rows and the storage, which no transaction spans, nothing is
\* missing and nothing is left over without a fault or a race that explains it.
BytesAreAccountedFor == BytesLostOnlyToRace /\ OrphansAreExplained

\* The comment on attachFileVersion (evidence.ts:609-613): its compensation can
\* leave an orphaned object and never a row that claims bytes which are not there.
\* An attachment that was told of its own COMMIT is held to it; one whose reply
\* was lost removes its own bytes, which BytesLostOnlyToRace already allows for.
AvailableFileHasBytes ==
    \A f \in files : f.available /\ call[f.digest].fate # "reply lost" =>
        objects[f.version] # NoBytes

\* What a person says of a file: verdicts in the two dimensions nothing computes.
PersonalVerdicts == {"source_verified", "professionally_verified"}

\* The comment on verifyEvidence (evidence.ts:729-732): neither a source nor a
\* professional verification may be recorded without the digest having been
\* checked first.  Of an item that nobody marked unavailable, this asks that a file
\* which is judged was itself checked before, whatever the check found.
JudgedFilesWereChecked ==
    (\A c \in writes : ~Kind(c, "unavailable")) =>
        \A v \in verdicts : v.verdict \in PersonalVerdicts /\ v.file # 0 =>
            \E w \in verdicts : w.file = v.file /\ w.verdict \notin PersonalVerdicts
=============================================================================
