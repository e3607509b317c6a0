------------------------ MODULE EvidenceStoreProofs -------------------------
(***************************************************************************)
(* Proofs about EvidenceStore: the file versions of an item stay in order, *)
(* a verdict lands on the file it judged, and bytes are lost or orphaned   *)
(* for the reasons given, for any number of calls.                         *)
(***************************************************************************)
EXTENDS EvidenceStore, FiniteSetTheorems, TLAPS

Records == [pc : {"idle", "called", "put", "write", "compensate", "get", "record", "done"},
            kind : Kinds, expected : Nat, next : Nat, seenFile : Nat, verdict : States,
            answer : {"none", "ok", "conflict", "forbidden", "unreachable"},
            fate : {"none", "put failed", "reply lost", "not removed", "crashed"}]

\* What a call may rely on, from the point it is at.
InOrder(c) ==
    LET r == call[c] IN
    /\ r.pc # "idle" => r.expected <= item.version
    /\ r.pc \in {"idle", "called"} => r.next = 0
    /\ r.pc \in {"put", "write", "compensate"} =>
           r.next \in Keys /\ r.next <= item.current + 1
    /\ r.pc \in {"get", "record"} /\ r.expected = item.version => r.seenFile = item.current
    /\ c \in writes => r.pc \in {"compensate", "done"}
    /\ r.pc \notin {"compensate", "done"} => r.fate = "none"

\* A file is what its call wrote.
FilesAreWrites ==
    \A f \in files :
        /\ f.digest \in writes /\ call[f.digest].next = f.version
        /\ At(f.digest, "compensate") => call[f.digest].fate = "reply lost"

Rival(c, k) == \E d \in Calls \ {c} : call[d].next = k

\* Until a call whose reply was lost has removed its key, its bytes are lost to
\* a rival only; and so are those of a call that has yet to write its rows.
LostToRival ==
    /\ \A f \in files : objects[f.version] # f.digest =>
           \/ call[f.digest].fate = "reply lost" /\ At(f.digest, "done")
           \/ Rival(f.digest, f.version)
    /\ \A c \in Calls : At(c, "write") /\ objects[call[c].next] # c => Rival(c, call[c].next)

EInv ==
    /\ StoreTypeOK
    /\ \A c \in Calls : InOrder(c)
    /\ OneCurrentFile
    /\ VersionCountsWrites
    /\ VerdictLandsOnWhatItJudged
    /\ FilesAreWrites
    /\ LostToRival
    /\ OrphansAreExplained

\* A step of c: what it leaves alone, and which way it moves the item.
OnlyOf(c) ==
    /\ \A d \in Calls \ {c} : call'[d] = call[d]
    /\ call'[c].next = call[c].next \/ call[c].next = 0
    /\ item.version <= item'.version /\ item.current <= item'.current
    /\ item'.version = item.version => item' = item
    /\ writes \subseteq writes' /\ writes' \subseteq writes \cup {c}

Unclean == {"put failed", "not removed", "crashed"}

-----------------------------------------------------------------------------
\* The keys are positive numbers.
LEMMA KeysAreNats == Keys \in SUBSET Nat /\ 0 \notin Keys /\ Cardinality(Calls) \in Nat
                     /\ Keys = 1 .. Cardinality(Calls)
BY CallsAssumption, FS_CardinalityType DEF Keys

\* The last version is the one the item points at.
LEMMA LastIsCurrent == ASSUME StoreTypeOK, OneCurrentFile PROVE LastVersion = item.current
<1> DEFINE S == {f.version : f \in files} \cup {0}
<1>1. item.current \in Nat /\ S = (1 .. item.current) \cup {0}
    BY DEF StoreTypeOK, OneCurrentFile
<1>2. \A f \in files : f.version \in 1 .. item.current
    BY DEF OneCurrentFile
<1>3. item.current \in S /\ \A f \in files : f.version <= item.current
    BY <1>1, <1>2
<1>4. ASSUME NEW v \in S, \A f \in files : f.version <= v PROVE v = item.current
    <2>1. v \in 0 .. item.current
        BY <1>1
    <2>2. item.current \in {f.version : f \in files} => item.current <= v
        BY <1>4
    <2>3. item.current # 0 => item.current \in {f.version : f \in files}
        BY <1>1 DEF OneCurrentFile
    <2> QED BY <2>1, <2>2, <2>3, <1>1
<1> HIDE DEF S
<1>5. LastVersion = CHOOSE v \in S : \A f \in files : f.version <= v
    BY DEF LastVersion, S
<1> QED BY <1>3, <1>4, <1>5

\* While a call has yet to attach its file there is a key left for it: every
\* file is the only one of a call that has written.
LEMMA RoomForOneMore ==
    ASSUME StoreTypeOK, OneCurrentFile, FilesAreWrites, NEW c \in Calls, c \notin writes
    PROVE  item.current + 1 \in Keys
<1> USE KeysAreNats
<1> DEFINE n == item.current
           Others == Calls \ {c}
           by == [v \in 1 .. n |-> FileAt(v).digest]
<1>1. n \in Nat
    BY DEF StoreTypeOK
<1>2. ASSUME NEW v \in 1 .. n PROVE FileAt(v) \in files /\ FileAt(v).version = v
    <2>1. \E f \in files : f.version = v
        BY DEF OneCurrentFile
    <2> QED BY <2>1 DEF FileAt
<1>3. ASSUME NEW v \in 1 .. n PROVE by[v] \in Others /\ call[by[v]].next = v
    <2>1. FileAt(v) \in files /\ FileAt(v).version = v /\ by[v] = FileAt(v).digest
        BY <1>2
    <2> QED BY <2>1 DEF FilesAreWrites, StoreTypeOK
<1>4. IsFiniteSet(Others) /\ Cardinality(Others) = Cardinality(Calls) - 1
    BY CallsAssumption, FS_RemoveElement
<1>5. IsFiniteSet(1 .. n) /\ Cardinality(1 .. n) = n
    <2>1. n \in Int /\ 1 \in Int
        BY <1>1
    <2>2. IsFiniteSet(1 .. n) /\ Cardinality(1 .. n) = IF 1 > n THEN 0 ELSE n - 1 + 1
        BY <2>1, FS_Interval
    <2> QED BY <1>1, <2>2
<1>6. by \in [1 .. n -> Others]
    BY <1>3
<1> HIDE DEF by, Others, n
<1>7. ~(Cardinality(Others) < Cardinality(1 .. n))
    <2> SUFFICES ASSUME Cardinality(Others) < Cardinality(1 .. n) PROVE FALSE
        OBVIOUS
    <2>1. PICK x, y \in 1 .. n : x # y /\ by[x] = by[y]
        BY <1>4, <1>5, <1>6, FS_PigeonHole
    <2> QED BY <2>1, <1>3
<1> QED BY <1>1, <1>4, <1>5, <1>7 DEF n

\* What assigning one call's state does.
LEMMA CallBecomes ==
    ASSUME call \in [Calls -> Records], NEW c \in Calls, NEW q \in Records,
           call' = [call EXCEPT ![c] = q]
    PROVE  /\ call' \in [Calls -> Records] /\ call'[c] = q
           /\ \A d \in Calls \ {c} : call'[d] = call[d]
OBVIOUS

\* The other calls may rely on what they relied on.
LEMMA OthersInOrder ==
    ASSUME StoreTypeOK, StoreTypeOK', NEW c \in Calls, OnlyOf(c),
           NEW d \in Calls, d # c, InOrder(d)
    PROVE  InOrder(d)'
<1>1. /\ call'[d] = call[d]
      /\ d \in writes' <=> d \in writes
      /\ item.version <= item'.version /\ item.current <= item'.current
      /\ item'.version = item.version => item' = item
      /\ item.version \in Nat /\ item'.version \in Nat
      /\ item.current \in Nat /\ item'.current \in Nat
      /\ call[d].expected \in Nat /\ call[d].next \in Nat
    BY DEF OnlyOf, StoreTypeOK
<1>2. call[d].pc # "idle" => call[d].expected <= item'.version
    BY <1>1 DEF InOrder
<1>3. call[d].pc \in {"put", "write", "compensate"} =>
          call[d].next \in Keys /\ call[d].next <= item'.current + 1
    BY <1>1 DEF InOrder
<1>4. call[d].pc \in {"get", "record"} /\ call[d].expected = item'.version =>
          call[d].seenFile = item'.current
    <2> SUFFICES ASSUME call[d].pc \in {"get", "record"}, call[d].expected = item'.version
                 PROVE  call[d].seenFile = item'.current
        OBVIOUS
    <2>1. call[d].expected <= item.version
        BY DEF InOrder
    <2>2. item'.version = item.version
        BY <1>1, <2>1
    <2> QED BY <1>1, <2>2 DEF InOrder
<1> QED BY <1>1, <1>2, <1>3, <1>4 DEF InOrder

\* A rival stays a rival: the version a call was given is never revised.
LEMMA RivalStays ==
    ASSUME StoreTypeOK, NEW c \in Calls, OnlyOf(c), NEW d, NEW k \in Keys, Rival(d, k)
    PROVE  \E e \in Calls \ {d} : call'[e].next = k
BY KeysAreNats DEF OnlyOf, Rival

-----------------------------------------------------------------------------
\* A step that changes nothing but where one call is.
LEMMA QuietKeeps ==
    ASSUME EInv, NEW c \in Calls, NEW q \in Records, call' = [call EXCEPT ![c] = q],
           UNCHANGED <<item, files, objects, verdicts, writes>>,
           q.next = call[c].next \/ call[c].next = 0,
           q.pc # "write",
           c \in writes => q.pc = "done" /\ q.next = call[c].next
                           /\ ~At(c, "done"),
           call[c].pc \in {"write", "compensate"} \/ call[c].fate \in Unclean =>
               q.next = call[c].next
               /\ (q.pc \in {"write", "compensate"} \/ q.fate \in Unclean),
           q.pc # "idle" => q.expected <= item.version,
           q.pc \in {"idle", "called"} => q.next = 0,
           q.pc \in {"put", "write", "compensate"} =>
               q.next \in Keys /\ q.next <= item.current + 1,
           q.pc \in {"get", "record"} /\ q.expected = item.version =>
               q.seenFile = item.current,
           q.pc \notin {"compensate", "done"} => q.fate = "none"
    PROVE  EInv'
<1>t. call \in [Calls -> Records] /\ StoreTypeOK
    BY DEF EInv, StoreTypeOK, Records
<1>1. call' \in [Calls -> Records] /\ call'[c] = q /\ \A d \in Calls \ {c} : call'[d] = call[d]
    BY <1>t, CallBecomes
<1>2. StoreTypeOK'
    BY <1>t, <1>1 DEF StoreTypeOK, Records
<1>3. OnlyOf(c)
    <2>1. item.version \in Nat /\ item.current \in Nat
        BY <1>t DEF StoreTypeOK
    <2> QED BY <1>1, <2>1 DEF OnlyOf
<1>4. ASSUME NEW d \in Calls PROVE InOrder(d)'
    <2>1. CASE d = c
        BY <1>1, <2>1 DEF InOrder
    <2>2. CASE d # c
        BY <1>t, <1>2, <1>3, <2>2, OthersInOrder DEF EInv
    <2> QED BY <2>1, <2>2
<1>5. OneCurrentFile' /\ VersionCountsWrites' /\ VerdictLandsOnWhatItJudged'
    BY DEF EInv, OneCurrentFile, VersionCountsWrites, VerdictLandsOnWhatItJudged
<1>6. FilesAreWrites'
    <2> SUFFICES ASSUME NEW f \in files
                 PROVE  /\ f.digest \in writes /\ call'[f.digest].next = f.version
                        /\ call'[f.digest].pc = "compensate" =>
                               call'[f.digest].fate = "reply lost"
        BY DEF FilesAreWrites, At
    <2>1. /\ f.digest \in writes /\ f.digest \in Calls /\ call[f.digest].next = f.version
          /\ At(f.digest, "compensate") => call[f.digest].fate = "reply lost"
        BY <1>t DEF EInv, FilesAreWrites, StoreTypeOK
    <2> QED BY <1>1, <2>1 DEF At
<1>7. LostToRival'
    <2>1. ASSUME NEW f \in files, objects[f.version] # f.digest
          PROVE  \/ call'[f.digest].fate = "reply lost" /\ call'[f.digest].pc = "done"
                 \/ \E e \in Calls \ {f.digest} : call'[e].next = f.version
        <3>1. f.digest \in writes /\ f.digest \in Calls /\ f.version \in Keys
            BY <1>t DEF EInv, FilesAreWrites, StoreTypeOK
        <3>2. CASE call[f.digest].fate = "reply lost" /\ At(f.digest, "done")
            BY <1>1, <3>1, <3>2 DEF At
        <3>3. CASE Rival(f.digest, f.version)
            BY <1>t, <1>3, <3>1, <3>3, RivalStays, ZenonT(60)
        <3> QED BY <2>1, <3>2, <3>3 DEF EInv, LostToRival
    <2>2. ASSUME NEW d \in Calls, call'[d].pc = "write", objects[call'[d].next] # d
          PROVE  \E e \in Calls \ {d} : call'[e].next = call'[d].next
        <3>1. d # c /\ call'[d] = call[d]
            BY <1>1, <2>2
        <3>2. call[d].next \in Keys
            BY <2>2, <3>1 DEF EInv, InOrder
        <3>3. Rival(d, call[d].next)
            BY <2>2, <3>1 DEF EInv, LostToRival, At
        <3> QED BY <1>t, <1>3, <3>1, <3>2, <3>3, RivalStays
    <2> QED BY <2>1, <2>2 DEF LostToRival, Rival, At
<1>8. OrphansAreExplained'
    <2> SUFFICES ASSUME NEW k \in Keys, objects[k] # NoBytes, VersionFree(k)
                 PROVE  \E d \in Calls : /\ call'[d].next = k
                                         /\ \/ call'[d].pc \in {"write", "compensate"}
                                            \/ call'[d].fate \in Unclean
        BY DEF OrphansAreExplained, VersionFree, Unclean
    <2>1. PICK d \in Calls : /\ call[d].next = k
                             /\ \/ call[d].pc \in {"write", "compensate"}
                                \/ call[d].fate \in Unclean
        BY DEF EInv, OrphansAreExplained, Unclean
    <2> QED BY <1>1, <2>1
<1> QED BY <1>2, <1>4, <1>5, <1>6, <1>7, <1>8 DEF EInv

\* A call that returns having changed nothing; an attachment says why its key stays.
LEMMA EndingKeeps ==
    ASSUME EInv, NEW c \in Calls,
           NEW a \in {"none", "ok", "conflict", "forbidden", "unreachable"},
           NEW x \in {"none", "put failed", "reply lost", "not removed", "crashed"},
           Ends(c, a, x), UNCHANGED <<item, files, objects, verdicts, writes>>,
           call[c].pc \notin {"idle", "done"},
           call[c].pc \in {"write", "compensate"} => x \in Unclean
    PROVE  EInv'
<1> DEFINE q == [call[c] EXCEPT !.pc = "done", !.answer = a, !.fate = x]
<1>1. call \in [Calls -> Records] /\ InOrder(c)
    BY DEF EInv, StoreTypeOK, Records
<1>2. q \in Records /\ call' = [call EXCEPT ![c] = q]
    BY <1>1 DEF Records, Ends
<1>3. q.pc = "done" /\ q.fate = x /\ q.next = call[c].next /\ q.expected = call[c].expected
    BY <1>1 DEF Records
<1> HIDE DEF q
<1>4. q.expected <= item.version
    BY <1>1, <1>3 DEF InOrder
<1>5. call[c].fate \in Unclean => call[c].pc = "compensate"
    BY <1>1 DEF InOrder, Unclean
<1> QED BY <1>2, <1>3, <1>4, <1>5, QuietKeeps DEF At

\* Opening a call, on the version its caller has read.
LEMMA OpenKeeps == ASSUME EInv, NEW c \in Calls, NEW kind \in Kinds, OpenCall(c, kind) PROVE EInv'
<1> DEFINE q == [call[c] EXCEPT !.pc = "called", !.kind = kind, !.expected = item.version]
<1>1. /\ call \in [Calls -> Records] /\ InOrder(c) /\ call[c].pc = "idle"
      /\ item.version \in Nat
    BY DEF EInv, StoreTypeOK, Records, OpenCall, At
<1>2. q \in Records /\ call' = [call EXCEPT ![c] = q]
    BY <1>1 DEF Records, OpenCall
<1>3. /\ q.pc = "called" /\ q.fate = call[c].fate /\ q.next = call[c].next
      /\ q.expected = item.version
    BY <1>1 DEF Records
<1> HIDE DEF q
<1>4. /\ call[c].next = 0 /\ c \notin writes /\ call[c].fate = "none"
      /\ item.version <= item.version
    BY <1>1 DEF InOrder
<1>5. UNCHANGED <<item, files, objects, verdicts, writes>>
    BY DEF OpenCall
<1> QED BY <1>1, <1>2, <1>3, <1>4, <1>5, QuietKeeps DEF Unclean

\* Reading the last file version, which is the current one.
LEMMA AttachReadsKeeps == ASSUME EInv, NEW c \in Calls, AttachReads(c) PROVE EInv'
<1> DEFINE n == item.current + 1
           q == [call[c] EXCEPT !.pc = "put", !.next = n]
<1>1. /\ call \in [Calls -> Records] /\ InOrder(c) /\ call[c].pc = "called"
      /\ item.current \in Nat
    BY DEF EInv, StoreTypeOK, Records, AttachReads, At
<1>2. n = LastVersion + 1 /\ n \in Nat
    BY <1>1, LastIsCurrent DEF EInv
<1> HIDE DEF n
<1>3. q \in Records /\ call' = [call EXCEPT ![c] = q]
    <2>1. q \in Records
        BY <1>1, <1>2 DEF Records
    <2>2. call' = [call EXCEPT ![c] = [@ EXCEPT !.pc = "put", !.next = LastVersion + 1]]
        BY DEF AttachReads
    <2> QED BY <1>2, <2>1, <2>2
<1>4. /\ q.pc = "put" /\ q.fate = call[c].fate /\ q.next = n
      /\ q.expected = call[c].expected
    BY <1>1 DEF Records
<1> HIDE DEF q
<1>5. /\ call[c].next = 0 /\ c \notin writes /\ call[c].fate = "none"
      /\ call[c].expected <= item.version
    BY <1>1 DEF InOrder
<1>6. q.next \in Keys /\ q.next <= item.current + 1
    BY <1>1, <1>4, <1>5, RoomForOneMore DEF EInv, n
<1>7. UNCHANGED <<item, files, objects, verdicts, writes>>
    BY DEF AttachReads
<1> QED BY <1>1, <1>3, <1>4, <1>5, <1>6, <1>7, QuietKeeps DEF Unclean

\* A transaction that threw has written nothing, and its key is to be removed.
LEMMA WriteThrowsKeeps == ASSUME EInv, NEW c \in Calls, WriteThrows(c) PROVE EInv'
<1>1. PICK a \in {"unreachable", "conflict"} :
          call' = [call EXCEPT ![c].pc = "compensate", ![c].answer = a]
    BY DEF WriteThrows
<1> DEFINE q == [call[c] EXCEPT !.pc = "compensate", !.answer = a]
<1>2. call \in [Calls -> Records] /\ InOrder(c) /\ call[c].pc = "write"
    BY DEF EInv, StoreTypeOK, Records, WriteThrows, At
<1>3. q \in Records /\ call' = [call EXCEPT ![c] = q]
    BY <1>1, <1>2 DEF Records
<1>4. q.pc = "compensate" /\ q.next = call[c].next /\ q.expected = call[c].expected
    BY <1>2 DEF Records
<1> HIDE DEF q
<1>5. /\ c \notin writes /\ call[c].expected <= item.version
      /\ call[c].next \in Keys /\ call[c].next <= item.current + 1
    BY <1>2 DEF InOrder
<1>6. UNCHANGED <<item, files, objects, verdicts, writes>>
    BY DEF WriteThrows
<1> QED BY <1>3, <1>4, <1>5, <1>6, QuietKeeps

\* Reading the file a verdict will be about, or the bytes under its key.
LEMMA LookingKeeps ==
    ASSUME EInv, NEW c \in Calls, NEW s \in Nat, NEW v \in States,
           NEW w \in {"get", "record"},
           call[c].pc \in {"called", "get"},
           call' = [call EXCEPT ![c].pc = w, ![c].seenFile = s, ![c].verdict = v],
           call[c].expected = item.version => s = item.current,
           UNCHANGED <<item, files, objects, verdicts, writes>>
    PROVE  EInv'
<1> DEFINE q == [call[c] EXCEPT !.pc = w, !.seenFile = s, !.verdict = v]
<1>1. call \in [Calls -> Records] /\ InOrder(c)
    BY DEF EInv, StoreTypeOK, Records
<1>2. q \in Records /\ call' = [call EXCEPT ![c] = q]
    BY <1>1 DEF Records
<1>3. /\ q.pc = w /\ q.seenFile = s /\ q.fate = call[c].fate /\ q.next = call[c].next
      /\ q.expected = call[c].expected
    BY <1>1 DEF Records
<1> HIDE DEF q
<1>4. /\ c \notin writes /\ call[c].fate = "none" /\ call[c].expected <= item.version
    BY <1>1 DEF InOrder
<1> QED BY <1>2, <1>3, <1>4, QuietKeeps DEF Unclean

\* Reading the row, whose file the digest will be checked of.
LEMMA ReadForDigestKeeps == ASSUME EInv, NEW c \in Calls, ReadForDigest(c) PROVE EInv'
<1>1. /\ call \in [Calls -> Records] /\ call[c].pc = "called" /\ item.current \in Nat
      /\ UNCHANGED <<item, files, objects, verdicts, writes>>
    BY DEF EInv, StoreTypeOK, Records, ReadForDigest, At
<1>2. CASE Ends(c, "conflict", "none")
    BY <1>1, <1>2, EndingKeeps
<1>3. CASE call' = [call EXCEPT ![c].pc = "get", ![c].seenFile = item.current]
    <2>1. call[c].verdict \in States
        BY <1>1 DEF Records
    <2>2. call' = [call EXCEPT ![c].pc = "get", ![c].seenFile = item.current,
                               ![c].verdict = call[c].verdict]
        BY <1>1, <1>3 DEF Records
    <2> QED BY <1>1, <2>1, <2>2, LookingKeeps
<1> QED BY <1>2, <1>3 DEF ReadForDigest

\* Recomputing the digest over what the key holds now.
LEMMA GetBytesKeeps == ASSUME EInv, NEW c \in Calls, GetBytes(c) PROVE EInv'
<1> DEFINE v == DigestVerdict(objects[call[c].seenFile], FileAt(call[c].seenFile).digest)
<1>1. /\ call \in [Calls -> Records] /\ call[c].pc = "get" /\ InOrder(c)
      /\ UNCHANGED <<item, files, objects, verdicts, writes>>
    BY DEF EInv, StoreTypeOK, Records, GetBytes, At
<1>2. v \in States
    BY DEF DigestVerdict, States
<1>3. call' = [call EXCEPT ![c].pc = "record", ![c].verdict = v]
    BY DEF GetBytes
<1> HIDE DEF v
<1>4. call' = [call EXCEPT ![c].pc = "record", ![c].seenFile = call[c].seenFile,
                           ![c].verdict = v]
    BY <1>1, <1>3 DEF Records
<1>5. call[c].seenFile \in Nat
    BY <1>1 DEF Records
<1>6. call[c].expected = item.version => call[c].seenFile = item.current
    BY <1>1 DEF InOrder
<1> QED BY <1>1, <1>2, <1>4, <1>5, <1>6, LookingKeeps

\* A judgement, refused or to be recorded.
LEMMA JudgeKeeps == ASSUME EInv, NEW c \in Calls, Judge(c) PROVE EInv'
<1>1. /\ call[c].pc = "called" /\ item.current \in Nat
      /\ UNCHANGED <<item, files, objects, verdicts, writes>>
    BY DEF EInv, StoreTypeOK, Judge, At
<1>2. CASE Ends(c, "conflict", "none") \/ Ends(c, "forbidden", "none")
    BY <1>1, <1>2, EndingKeeps
<1>3. ASSUME NEW v \in States,
             call' = [call EXCEPT ![c].pc = "record", ![c].seenFile = item.current,
                                  ![c].verdict = v]
      PROVE  EInv'
    BY <1>1, <1>3, LookingKeeps
<1>4. "source_verified" \in States /\ "professionally_verified" \in States
    BY DEF States
<1> QED BY <1>2, <1>3, <1>4 DEF Judge

\* Every other step that only ends a call.
LEMMA QuietEndsKeep ==
    ASSUME EInv, NEW c \in Calls,
           FailEarly(c) \/ CompensationFails(c) \/ Crash(c) \/ RecordConflicts(c)
    PROVE  EInv'
<1>1. CASE FailEarly(c)
    BY <1>1, EndingKeeps DEF FailEarly, At
<1>2. CASE CompensationFails(c)
    <2>1. call[c].answer \in {"none", "ok", "conflict", "forbidden", "unreachable"}
        BY DEF EInv, StoreTypeOK
    <2> QED BY <1>2, <2>1, EndingKeeps DEF CompensationFails, At, Unclean
<1>3. CASE Crash(c)
    BY <1>3, EndingKeeps DEF Crash, At, Unclean
<1>4. CASE RecordConflicts(c)
    BY <1>4, EndingKeeps DEF RecordConflicts, At
<1> QED BY <1>1, <1>2, <1>3, <1>4

-----------------------------------------------------------------------------
\* A step that puts something else under the key of the call that makes it.
LEMMA StoringKeeps ==
    ASSUME EInv, NEW c \in Calls, NEW q \in Records, call' = [call EXCEPT ![c] = q],
           NEW b \in Bytes, objects' = [objects EXCEPT ![call[c].next] = b],
           UNCHANGED <<item, files, verdicts, writes>>,
           call[c].pc \in {"put", "compensate"}, q.pc \in {"write", "done"},
           q.next = call[c].next, q.expected = call[c].expected,
           q.pc = "write" => b = c /\ q.fate = "none",
           q.pc = "done" /\ b # NoBytes => q.fate \in Unclean,
           c \in writes => q.pc = "done" /\ q.fate = call[c].fate
    PROVE  EInv'
<1> DEFINE k == call[c].next
<1>t. call \in [Calls -> Records] /\ StoreTypeOK /\ InOrder(c)
    BY DEF EInv, StoreTypeOK, Records
<1>1. call' \in [Calls -> Records] /\ call'[c] = q /\ \A d \in Calls \ {c} : call'[d] = call[d]
    BY <1>t, CallBecomes
<1>2. /\ k \in Keys /\ k <= item.current + 1 /\ call[c].expected <= item.version
      /\ objects' \in [Keys -> Bytes] /\ objects'[k] = b
      /\ \A j \in Keys \ {k} : objects'[j] = objects[j]
    BY <1>t DEF InOrder, StoreTypeOK
<1>3. StoreTypeOK'
    BY <1>t, <1>1, <1>2 DEF StoreTypeOK, Records
<1>4. OnlyOf(c)
    <2>1. item.version \in Nat /\ item.current \in Nat
        BY <1>t DEF StoreTypeOK
    <2> QED BY <1>1, <2>1 DEF OnlyOf
<1>5. ASSUME NEW d \in Calls PROVE InOrder(d)'
    <2>1. CASE d = c
        BY <1>1, <1>2, <2>1 DEF InOrder
    <2>2. CASE d # c
        BY <1>t, <1>3, <1>4, <2>2, OthersInOrder DEF EInv
    <2> QED BY <2>1, <2>2
<1>6. OneCurrentFile' /\ VersionCountsWrites' /\ VerdictLandsOnWhatItJudged'
    BY DEF EInv, OneCurrentFile, VersionCountsWrites, VerdictLandsOnWhatItJudged
<1>7. ASSUME NEW f \in files
      PROVE  /\ f.digest \in writes /\ f.digest \in Calls /\ f.version \in Keys
             /\ call[f.digest].next = f.version
             /\ At(f.digest, "compensate") => call[f.digest].fate = "reply lost"
    BY <1>t DEF EInv, FilesAreWrites, StoreTypeOK
<1>8. FilesAreWrites'
    BY <1>1, <1>7 DEF FilesAreWrites, At
<1>9. LostToRival'
    <2>1. ASSUME NEW f \in files, objects'[f.version] # f.digest
          PROVE  \/ call'[f.digest].fate = "reply lost" /\ call'[f.digest].pc = "done"
                 \/ \E e \in Calls \ {f.digest} : call'[e].next = f.version
        <3>1. CASE f.digest = c
            <4>1. c \in writes /\ call[c].pc = "compensate"
                BY <1>t, <1>7, <3>1 DEF InOrder
            <4> QED BY <1>1, <1>7, <3>1, <4>1 DEF At
        <3>2. CASE f.digest # c /\ f.version = k
            BY <1>1, <3>2
        <3>3. CASE f.digest # c /\ f.version # k
            <4>1. objects[f.version] # f.digest
                BY <1>2, <1>7, <2>1, <3>3
            <4>2. CASE call[f.digest].fate = "reply lost" /\ At(f.digest, "done")
                BY <1>1, <1>7, <3>3, <4>2 DEF At
            <4>3. CASE Rival(f.digest, f.version)
                <5>1. f.version \in Keys
                    BY <1>7
                <5> QED BY <1>t, <1>4, <4>3, <5>1, RivalStays
            <4> QED BY <4>1, <4>2, <4>3 DEF EInv, LostToRival
        <3> QED BY <3>1, <3>2, <3>3
    <2>2. ASSUME NEW d \in Calls, call'[d].pc = "write", objects'[call'[d].next] # d
          PROVE  \E e \in Calls \ {d} : call'[e].next = call'[d].next
        <3>1. d # c
            BY <1>1, <1>2, <2>2
        <3>2. call'[d] = call[d] /\ call[d].next \in Keys
            BY <1>1, <2>2, <3>1 DEF EInv, InOrder
        <3>3. CASE call[d].next = k
            BY <1>1, <3>1, <3>2, <3>3
        <3>4. CASE call[d].next # k
            <4>1. Rival(d, call[d].next)
                BY <1>2, <2>2, <3>2, <3>4 DEF EInv, LostToRival, At
            <4> QED BY <1>t, <1>4, <3>2, <4>1, RivalStays
        <3> QED BY <3>3, <3>4
    <2> QED BY <2>1, <2>2 DEF LostToRival, Rival, At
<1>10. OrphansAreExplained'
    <2> SUFFICES ASSUME NEW j \in Keys, objects'[j] # NoBytes, VersionFree(j)
                 PROVE  \E d \in Calls : /\ call'[d].next = j
                                         /\ \/ call'[d].pc \in {"write", "compensate"}
                                            \/ call'[d].fate \in Unclean
        BY DEF OrphansAreExplained, VersionFree, Unclean
    <2>1. CASE j = k
        BY <1>1, <1>2, <2>1
    <2>2. CASE j # k
        <3>1. PICK d \in Calls : /\ call[d].next = j
                                 /\ \/ call[d].pc \in {"write", "compensate"}
                                    \/ call[d].fate \in Unclean
            BY <1>2, <2>2 DEF EInv, OrphansAreExplained, Unclean
        <3> QED BY <1>1, <2>2, <3>1
    <2> QED BY <2>1, <2>2
<1> QED BY <1>3, <1>5, <1>6, <1>8, <1>9, <1>10 DEF EInv

\* The bytes are under the key, and they are the call's own.
LEMMA PutKeeps == ASSUME EInv, NEW c \in Calls, Put(c) PROVE EInv'
<1> DEFINE q == [call[c] EXCEPT !.pc = "write"]
<1>1. call \in [Calls -> Records] /\ InOrder(c) /\ call[c].pc = "put"
    BY DEF EInv, StoreTypeOK, Records, Put, At
<1>2. q \in Records /\ call' = [call EXCEPT ![c] = q]
    BY <1>1 DEF Records, Put, Goes
<1>3. /\ q.pc = "write" /\ q.fate = call[c].fate /\ q.next = call[c].next
      /\ q.expected = call[c].expected
    BY <1>1 DEF Records
<1> HIDE DEF q
<1>4. c \notin writes /\ call[c].fate = "none" /\ c \in Bytes
    BY <1>1 DEF InOrder, Bytes
<1>5. /\ objects' = [objects EXCEPT ![call[c].next] = c]
      /\ UNCHANGED <<item, files, verdicts, writes>>
    BY DEF Put
<1> QED BY <1>1, <1>2, <1>3, <1>4, <1>5, StoringKeeps

\* A put that fails leaves what was there, or a torn object.
LEMMA PutFailsKeeps == ASSUME EInv, NEW c \in Calls, PutFails(c) PROVE EInv'
<1> DEFINE q == [call[c] EXCEPT !.pc = "done", !.answer = "unreachable", !.fate = "put failed"]
<1>1. /\ call \in [Calls -> Records] /\ InOrder(c) /\ call[c].pc = "put"
      /\ objects \in [Keys -> Bytes]
    BY DEF EInv, StoreTypeOK, Records, PutFails, At
<1>2. q \in Records /\ call' = [call EXCEPT ![c] = q]
    BY <1>1 DEF Records, PutFails, Ends
<1>3. /\ q.pc = "done" /\ q.fate = "put failed" /\ q.next = call[c].next
      /\ q.expected = call[c].expected
    BY <1>1 DEF Records
<1> HIDE DEF q
<1>4. c \notin writes /\ call[c].next \in Keys
    BY <1>1 DEF InOrder
<1>5. \E b \in Bytes : objects' = [objects EXCEPT ![call[c].next] = b]
    <2>1. CASE UNCHANGED objects
        BY <1>1, <1>4, <2>1
    <2>2. CASE objects' = [objects EXCEPT ![call[c].next] = TornBytes]
        BY <2>2 DEF Bytes
    <2> QED BY <2>1, <2>2 DEF PutFails
<1>6. UNCHANGED <<item, files, verdicts, writes>>
    BY DEF PutFails
<1> QED BY <1>1, <1>2, <1>3, <1>4, <1>5, <1>6, StoringKeeps DEF Unclean

\* The removal, which takes the bytes of a committed file if the reply was lost.
LEMMA CompensateKeeps == ASSUME EInv, NEW c \in Calls, Compensate(c) PROVE EInv'
<1> DEFINE q == [call[c] EXCEPT !.pc = "done", !.answer = call[c].answer, !.fate = call[c].fate]
<1>1. call \in [Calls -> Records] /\ call[c].pc = "compensate"
    BY DEF EInv, StoreTypeOK, Records, Compensate, At
<1>2. q \in Records /\ call' = [call EXCEPT ![c] = q]
    BY <1>1 DEF Records, Compensate, Ends
<1>3. /\ q.pc = "done" /\ q.fate = call[c].fate /\ q.next = call[c].next
      /\ q.expected = call[c].expected
    BY <1>1 DEF Records
<1> HIDE DEF q
<1>4. /\ objects' = [objects EXCEPT ![call[c].next] = NoBytes] /\ NoBytes \in Bytes
      /\ UNCHANGED <<item, files, verdicts, writes>>
    BY DEF Compensate, Bytes
<1> QED BY <1>1, <1>2, <1>3, <1>4, StoringKeeps

-----------------------------------------------------------------------------
\* The files after a transaction of c: those there were, and one that c attached.
FilesFollow(c) ==
    /\ \A g \in files' :
        \/ g.digest = c /\ g.version = call[c].next /\ At(c, "write")
        \/ \E f \in files : f.version = g.version /\ f.digest = g.digest
    /\ \A f \in files : \E g \in files' : g.version = f.version
    /\ At(c, "write") => \E g \in files' : g.version = call[c].next

\* How a transaction of c leaves c, and the item.
Commits(c, q) ==
    /\ call' = [call EXCEPT ![c] = q]
    /\ c \notin writes /\ writes' = writes \cup {c}
    /\ item'.version = item.version + 1 /\ item.current <= item'.current
    /\ call[c].pc \notin {"idle", "compensate", "done"}
    /\ q.pc \in {"compensate", "done"}
    /\ q.next = call[c].next /\ q.expected = call[c].expected
    /\ q.pc = "compensate" => q.fate = "reply lost" /\ At(c, "write")

\* A transaction moves the item on, and its call with it.
LEMMA CommitMoves ==
    ASSUME StoreTypeOK, StoreTypeOK', NEW c \in Calls, NEW q \in Records, InOrder(c), Commits(c, q)
    PROVE  /\ call'[c] = q /\ \A d \in Calls \ {c} : call'[d] = call[d]
           /\ OnlyOf(c) /\ InOrder(c)'
<1>1. call \in [Calls -> Records]
    BY DEF StoreTypeOK, Records
<1>2. call'[c] = q /\ \A d \in Calls \ {c} : call'[d] = call[d]
    BY <1>1, CallBecomes DEF Commits
<1>3. /\ item.version \in Nat /\ item.current \in Nat /\ item'.current \in Nat
      /\ call[c].expected \in Nat /\ call[c].next \in Nat
    BY <1>1 DEF StoreTypeOK, Records
<1>4. item.version <= item'.version /\ item'.version # item.version
    <2>1. item'.version = item.version + 1
        BY DEF Commits
    <2> QED BY <1>3, <2>1
<1>5. OnlyOf(c)
    BY <1>2, <1>4 DEF OnlyOf, Commits
<1>6. call[c].expected <= item.version
    BY DEF InOrder, Commits
<1>7. q.expected <= item'.version
    <2>1. q.expected = call[c].expected /\ item'.version = item.version + 1
        BY DEF Commits
    <2> QED BY <1>3, <1>6, <2>1
<1>8. q.pc = "compensate" => q.next \in Keys /\ q.next <= item'.current + 1
    <2> SUFFICES ASSUME q.pc = "compensate"
                 PROVE  q.next \in Keys /\ q.next <= item'.current + 1
        OBVIOUS
    <2>1. call[c].next \in Keys /\ call[c].next <= item.current + 1
        BY DEF InOrder, Commits, At
    <2>2. q.next = call[c].next /\ item.current <= item'.current
        BY DEF Commits
    <2> QED BY <1>3, <2>1, <2>2
<1>9. q.pc \in {"compensate", "done"}
    BY DEF Commits
<1>10. InOrder(c)'
    BY <1>2, <1>7, <1>8, <1>9 DEF InOrder
<1> QED BY <1>2, <1>5, <1>10

\* A step that commits the one transaction of its call.
LEMMA CommitKeeps ==
    ASSUME EInv, NEW c \in Calls, NEW q \in Records, Commits(c, q), FilesFollow(c),
           StoreTypeOK', OneCurrentFile', VerdictLandsOnWhatItJudged', UNCHANGED objects
    PROVE  EInv'
<1>t. StoreTypeOK /\ InOrder(c)
    BY DEF EInv
<1>1. /\ call'[c] = q /\ \A d \in Calls \ {c} : call'[d] = call[d]
      /\ OnlyOf(c) /\ InOrder(c)'
    BY <1>t, CommitMoves
<1>2. /\ c \notin writes /\ writes' = writes \cup {c} /\ item'.version = item.version + 1
      /\ q.next = call[c].next /\ call[c].pc \notin {"idle", "compensate", "done"}
      /\ q.pc \in {"compensate", "done"}
      /\ q.pc = "compensate" => q.fate = "reply lost" /\ At(c, "write")
    BY DEF Commits
<1>3. ASSUME NEW d \in Calls PROVE InOrder(d)'
    <2>1. CASE d # c
        BY <1>t, <1>1, <2>1, OthersInOrder DEF EInv
    <2> QED BY <1>1, <2>1
<1>4. VersionCountsWrites'
    <2>1. IsFiniteSet(writes) /\ item.version \in Nat
        BY <1>t, CallsAssumption, FS_Subset DEF StoreTypeOK
    <2>2. Cardinality(writes \cup {c}) = Cardinality(writes) + 1
        BY <1>2, <2>1, FS_AddElement
    <2>3. Cardinality(writes) \in Nat
        BY <2>1, FS_CardinalityType
    <2>4. item.version = 1 + Cardinality(writes)
        BY DEF EInv, VersionCountsWrites
    <2>5. item'.version = 1 + (Cardinality(writes) + 1)
        <3>1. item'.version = item.version + 1
            BY <1>2
        <3> QED BY <2>3, <2>4, <3>1
    <2> QED BY <1>2, <2>2, <2>5 DEF VersionCountsWrites
\* The files that were there belong to other calls, which have not moved.
<1>5. ASSUME NEW f \in files
      PROVE  /\ f.digest \in writes /\ f.digest \in Calls \ {c} /\ f.version \in Keys
             /\ call'[f.digest] = call[f.digest] /\ call[f.digest].next = f.version
             /\ call[f.digest].pc = "compensate" => call[f.digest].fate = "reply lost"
    <2>1. /\ f.digest \in writes /\ f.digest \in Calls /\ f.version \in Keys
          /\ call[f.digest].next = f.version
          /\ call[f.digest].pc = "compensate" => call[f.digest].fate = "reply lost"
        BY <1>t DEF EInv, FilesAreWrites, StoreTypeOK, At
    <2> QED BY <1>1, <1>2, <2>1
<1>6. FilesAreWrites'
    <2> SUFFICES ASSUME NEW g \in files'
                 PROVE  /\ g.digest \in writes' /\ call'[g.digest].next = g.version
                        /\ call'[g.digest].pc = "compensate" =>
                               call'[g.digest].fate = "reply lost"
        BY DEF FilesAreWrites, At
    <2>1. CASE g.digest = c /\ g.version = call[c].next /\ At(c, "write")
        BY <1>1, <1>2, <2>1
    <2>2. CASE \E f \in files : f.version = g.version /\ f.digest = g.digest
        <3>1. PICK f \in files : f.version = g.version /\ f.digest = g.digest
            BY <2>2
        <3>2. /\ f.digest \in writes /\ call'[f.digest] = call[f.digest]
              /\ call[f.digest].next = f.version
              /\ call[f.digest].pc = "compensate" => call[f.digest].fate = "reply lost"
            BY <1>5
        <3> QED BY <1>2, <3>1, <3>2
    <2> QED BY <2>1, <2>2 DEF FilesFollow
<1>7. ASSUME NEW d, NEW k \in Keys, Rival(d, k) PROVE \E e \in Calls \ {d} : call'[e].next = k
    BY <1>t, <1>1, <1>7, RivalStays
<1>8. LostToRival'
    <2>1. ASSUME NEW g \in files', objects[g.version] # g.digest
          PROVE  \/ call'[g.digest].fate = "reply lost" /\ call'[g.digest].pc = "done"
                 \/ \E e \in Calls \ {g.digest} : call'[e].next = g.version
        <3>1. CASE g.digest = c /\ g.version = call[c].next /\ At(c, "write")
            <4>1. Rival(c, call[c].next)
                BY <2>1, <3>1 DEF EInv, LostToRival
            <4>2. call[c].next \in Keys
                BY <1>t, <3>1 DEF InOrder, At
            <4> QED BY <1>7, <3>1, <4>1, <4>2
        <3>2. CASE \E f \in files : f.version = g.version /\ f.digest = g.digest
            <4>1. PICK f \in files : f.version = g.version /\ f.digest = g.digest
                BY <3>2
            <4>2. f.version \in Keys /\ call'[f.digest] = call[f.digest]
                BY <1>5
            <4>3. CASE call[f.digest].fate = "reply lost" /\ At(f.digest, "done")
                BY <4>1, <4>2, <4>3 DEF At
            <4>4. CASE Rival(f.digest, f.version)
                <5>1. \E e \in Calls \ {f.digest} : call'[e].next = f.version
                    BY <1>7, <4>2, <4>4
                <5> QED BY <4>1, <5>1
            <4> QED BY <2>1, <4>1, <4>3, <4>4 DEF EInv, LostToRival
        <3> QED BY <3>1, <3>2 DEF FilesFollow
    <2>2. ASSUME NEW d \in Calls, call'[d].pc = "write", objects[call'[d].next] # d
          PROVE  \E e \in Calls \ {d} : call'[e].next = call'[d].next
        <3>1. call'[d] = call[d]
            BY <1>1, <1>2, <2>2
        <3>2. call[d].next \in Keys /\ Rival(d, call[d].next)
            BY <2>2, <3>1 DEF EInv, InOrder, LostToRival, At
        <3> QED BY <1>7, <3>1, <3>2
    <2> QED BY <2>1, <2>2 DEF LostToRival, Rival, At
<1>9. OrphansAreExplained'
    <2> SUFFICES ASSUME NEW k \in Keys, objects[k] # NoBytes, \A g \in files' : g.version # k
                 PROVE  \E d \in Calls : /\ call'[d].next = k
                                         /\ \/ call'[d].pc \in {"write", "compensate"}
                                            \/ call'[d].fate \in Unclean
        BY DEF OrphansAreExplained, VersionFree, Unclean
    <2>1. \A f \in files : f.version # k
        BY DEF FilesFollow
    <2>2. PICK d \in Calls : /\ call[d].next = k
                             /\ \/ call[d].pc \in {"write", "compensate"}
                                \/ call[d].fate \in Unclean
        BY <2>1 DEF EInv, OrphansAreExplained, VersionFree, Unclean
    <2>3. d # c
        <3>1. call[c].pc \notin {"compensate", "done"} /\ call[c].fate = "none"
            BY <1>t, <1>2 DEF InOrder
        <3>2. At(c, "write") => call[c].next # k
            BY DEF FilesFollow
        <3> QED BY <2>2, <3>1, <3>2 DEF At, Unclean
    <2> QED BY <1>1, <2>2, <2>3
<1> QED BY <1>3, <1>4, <1>6, <1>8, <1>9 DEF EInv

\* What a step of markEvidenceUnavailable or of a verdict leaves of the call.
LEMMA DoneIs ==
    ASSUME EInv, NEW c \in Calls, NEW a \in {"ok", "unreachable"}, Ends(c, a, "none")
    PROVE  \E q \in Records : /\ call' = [call EXCEPT ![c] = q] /\ q.pc = "done"
                              /\ q.next = call[c].next /\ q.expected = call[c].expected
<1> DEFINE q == [call[c] EXCEPT !.pc = "done", !.answer = a, !.fate = "none"]
<1>1. call \in [Calls -> Records]
    BY DEF EInv, StoreTypeOK, Records
<1>2. q \in Records /\ call' = [call EXCEPT ![c] = q]
    BY <1>1 DEF Records, Ends
<1>3. q.pc = "done" /\ q.next = call[c].next /\ q.expected = call[c].expected
    BY <1>1 DEF Records
<1> QED BY <1>2, <1>3

\* A verdict, on the version its call was given, is about the file it was formed on.
LEMMA RecordKeeps == ASSUME EInv, NEW c \in Calls, Record(c) PROVE EInv'
<1>1. /\ StoreTypeOK /\ InOrder(c) /\ call \in [Calls -> Records] /\ call[c].pc = "record"
      /\ item.version = call[c].expected /\ item.version \in Nat /\ item.current \in Nat
    BY DEF EInv, StoreTypeOK, Records, Record, At, CurrentFile
<1>2. c \notin writes /\ call[c].seenFile = item.current
    BY <1>1 DEF InOrder
<1>3. PICK a \in {"ok", "unreachable"} : Ends(c, a, "none")
    BY DEF Record
<1>4. PICK q \in Records : /\ call' = [call EXCEPT ![c] = q] /\ q.pc = "done"
                           /\ q.next = call[c].next /\ q.expected = call[c].expected
    BY <1>3, DoneIs
<1> DEFINE new == [by |-> c, verdict |-> call[c].verdict,
                   judged |-> call[c].seenFile, file |-> item.current]
<1>5. /\ item' = [item EXCEPT !.version = @ + 1, !.state = call[c].verdict]
      /\ UNCHANGED <<files, objects>> /\ writes' = writes \cup {c}
      /\ verdicts' = verdicts \cup {new}
    BY DEF Record
<1>6. /\ item'.version = item.version + 1 /\ item'.current = item.current
      /\ item' \in [version : Nat \ {0}, current : Nat, state : States]
    <2>1. call[c].verdict \in States
        BY <1>1 DEF Records
    <2>2. item \in [version : Nat \ {0}, current : Nat, state : States]
        BY <1>1 DEF StoreTypeOK
    <2>3. item.version + 1 \in Nat \ {0}
        BY <1>1
    <2> QED BY <1>5, <2>1, <2>2, <2>3
<1>7. call' \in [Calls -> Records]
    BY <1>1, <1>4, CallBecomes
<1>8. new \in [by : Calls, verdict : States, judged : Nat, file : Nat]
    BY <1>1 DEF Records
<1>9. new.judged = new.file
    BY <1>2
<1> HIDE DEF new
<1>10. StoreTypeOK'
    BY <1>1, <1>5, <1>6, <1>7, <1>8 DEF StoreTypeOK, Records
<1>11. OneCurrentFile'
    BY <1>5, <1>6 DEF EInv, OneCurrentFile
<1>12. VerdictLandsOnWhatItJudged'
    BY <1>5, <1>9 DEF EInv, VerdictLandsOnWhatItJudged
<1>13. Commits(c, q)
    BY <1>1, <1>2, <1>4, <1>5, <1>6 DEF Commits
<1>14. FilesFollow(c)
    BY <1>1, <1>5 DEF FilesFollow, At
<1> QED BY <1>4, <1>5, <1>10, <1>11, <1>12, <1>13, <1>14, CommitKeeps

\* Marking an item takes its current file out of use and touches no other.
LEMMA MarkUnavailableKeeps == ASSUME EInv, NEW c \in Calls, MarkUnavailable(c) PROVE EInv'
<1>1. /\ StoreTypeOK /\ InOrder(c) /\ call \in [Calls -> Records] /\ call[c].pc = "called"
      /\ item.version \in Nat /\ item.current \in Nat
    BY DEF EInv, StoreTypeOK, Records, MarkUnavailable, At
<1>2. CASE ~CurrentFile(c)
    BY <1>1, <1>2, EndingKeeps DEF MarkUnavailable
<1>3. CASE CurrentFile(c)
    <2> DEFINE Out(f) == IF f.version = item.current THEN [f EXCEPT !.available = FALSE] ELSE f
    <2>1. /\ item' = [item EXCEPT !.version = @ + 1, !.state = "unavailable"]
          /\ files' = {Out(f) : f \in files} /\ writes' = writes \cup {c}
          /\ UNCHANGED <<objects, verdicts>>
        BY <1>3 DEF MarkUnavailable
    <2>2. PICK a \in {"ok", "unreachable"} : Ends(c, a, "none")
        BY <1>3 DEF MarkUnavailable
    <2>3. PICK q \in Records : /\ call' = [call EXCEPT ![c] = q] /\ q.pc = "done"
                               /\ q.next = call[c].next /\ q.expected = call[c].expected
        BY <2>2, DoneIs
    <2>4. c \notin writes
        BY <1>1 DEF InOrder
    <2>5. /\ item'.version = item.version + 1 /\ item'.current = item.current
          /\ item' \in [version : Nat \ {0}, current : Nat, state : States]
        <3>1. item \in [version : Nat \ {0}, current : Nat, state : States]
            BY <1>1 DEF StoreTypeOK
        <3>2. item.version + 1 \in Nat \ {0} /\ "unavailable" \in States
            BY <1>1 DEF States
        <3> QED BY <2>1, <3>1, <3>2
    <2>6. ASSUME NEW f \in files
          PROVE  /\ Out(f) \in [version : Keys, digest : Calls, available : BOOLEAN,
                                supersededBy : Keys \cup {0}]
                 /\ Out(f).version = f.version /\ Out(f).digest = f.digest
                 /\ Out(f).supersededBy = f.supersededBy
                 /\ f.version # item.current => Out(f) = f
        BY <1>1 DEF StoreTypeOK
    <2> HIDE DEF Out
    <2>7. call' \in [Calls -> Records]
        BY <1>1, <2>3, CallBecomes
    <2>8. StoreTypeOK'
        <3>1. files' \subseteq [version : Keys, digest : Calls, available : BOOLEAN,
                                supersededBy : Keys \cup {0}]
            BY <2>1, <2>6
        <3> QED BY <1>1, <2>1, <2>5, <2>7, <3>1 DEF StoreTypeOK, Records
    <2>9. OneCurrentFile'
        <3>1. \A f, g \in files : f.version = g.version => f = g
            BY DEF EInv, OneCurrentFile
        <3>2. \A f, g \in files' : f.version = g.version => f = g
            BY <2>1, <2>6, <3>1
        <3>3. {f.version : f \in files'} = {f.version : f \in files}
            BY <2>1, <2>6
        <3>4. \A f \in files' : IF f.version = item.current THEN f.supersededBy = 0
                                ELSE f.supersededBy = f.version + 1 /\ ~f.available
            BY <2>1, <2>6 DEF EInv, OneCurrentFile
        <3>5. {f.version : f \in files} = 1 .. item.current
            BY DEF EInv, OneCurrentFile
        <3> QED BY <2>5, <3>2, <3>3, <3>4, <3>5 DEF OneCurrentFile
    <2>10. VerdictLandsOnWhatItJudged'
        BY <2>1 DEF EInv, VerdictLandsOnWhatItJudged
    <2>11. Commits(c, q)
        BY <1>1, <2>1, <2>3, <2>4, <2>5 DEF Commits
    <2>12. FilesFollow(c)
        BY <1>1, <2>1, <2>6 DEF FilesFollow, At
    <2> QED BY <2>1, <2>3, <2>8, <2>9, <2>10, <2>11, <2>12, CommitKeeps
<1> QED BY <1>2, <1>3

\* The next version follows the current one when it is free at the commit.
LEMMA NextFollows ==
    ASSUME EInv, NEW c \in Calls, Write(c)
    PROVE  call[c].next = item.current + 1 /\ call[c].next \in Keys
<1>1. /\ InOrder(c) /\ call[c].pc = "write" /\ item.current \in Nat
      /\ \A f \in files : f.version # call[c].next
    BY DEF EInv, StoreTypeOK, Write, At, VersionFree
<1>2. call[c].next \in Keys /\ call[c].next <= item.current + 1
    BY <1>1 DEF InOrder
<1>3. {f.version : f \in files} = 1 .. item.current
    BY DEF EInv, OneCurrentFile
<1>4. call[c].next \notin 1 .. item.current
    BY <1>1, <1>3
<1>5. call[c].next \in Nat /\ call[c].next # 0
    BY <1>2, KeysAreNats
<1> QED BY <1>1, <1>2, <1>4, <1>5

\* A new file continues the sequence and supersedes the one before it.
LEMMA WriteKeeps == ASSUME EInv, NEW c \in Calls, Write(c) PROVE EInv'
<1> DEFINE v == call[c].next
           new == [version |-> v, digest |-> c, available |-> TRUE, supersededBy |-> 0]
           Sup(f) == IF f.version = v - 1
                       THEN [f EXCEPT !.available = FALSE, !.supersededBy = v] ELSE f
           FileType == [version : Keys, digest : Calls, available : BOOLEAN,
                        supersededBy : Keys \cup {0}]
<1>1. /\ StoreTypeOK /\ InOrder(c) /\ call \in [Calls -> Records] /\ call[c].pc = "write"
      /\ item.version \in Nat /\ item.current \in Nat
    BY DEF EInv, StoreTypeOK, Records, Write, At
<1>2. v = item.current + 1 /\ v \in Keys
    BY NextFollows
<1>3. /\ files' = {Sup(f) : f \in files} \cup {new}
      /\ item' = [item EXCEPT !.version = @ + 1, !.current = v]
      /\ writes' = writes \cup {c} /\ UNCHANGED <<objects, verdicts>>
    BY DEF Write, AttachRows, SupersedeFile
<1>4. \E q \in Records : /\ call' = [call EXCEPT ![c] = q]
                         /\ q.pc \in {"compensate", "done"}
                         /\ q.next = call[c].next /\ q.expected = call[c].expected
                         /\ q.pc = "compensate" => q.fate = "reply lost"
    <2>1. CASE Ends(c, "ok", "none")
        <3>1. \E q \in Records : /\ call' = [call EXCEPT ![c] = q] /\ q.pc = "done"
                                 /\ q.next = call[c].next /\ q.expected = call[c].expected
            BY <2>1, DoneIs
        <3> QED BY <3>1
    <2>2. CASE call' = [call EXCEPT ![c].pc = "compensate", ![c].answer = "unreachable",
                                    ![c].fate = "reply lost"]
        <3> DEFINE q == [call[c] EXCEPT !.pc = "compensate", !.answer = "unreachable",
                                        !.fate = "reply lost"]
        <3>1. q \in Records /\ call' = [call EXCEPT ![c] = q]
            BY <1>1, <2>2 DEF Records
        <3>2. /\ q.pc = "compensate" /\ q.fate = "reply lost"
              /\ q.next = call[c].next /\ q.expected = call[c].expected
            BY <1>1 DEF Records
        <3> QED BY <3>1, <3>2
    <2> QED BY <2>1, <2>2 DEF Write
<1>5. PICK q \in Records : /\ call' = [call EXCEPT ![c] = q]
                           /\ q.pc \in {"compensate", "done"}
                           /\ q.next = call[c].next /\ q.expected = call[c].expected
                           /\ q.pc = "compensate" => q.fate = "reply lost"
    BY <1>4
<1>6. c \notin writes
    BY <1>1 DEF InOrder
<1>7. /\ item'.version = item.version + 1 /\ item'.current = v
      /\ item.current <= item'.current
      /\ item' \in [version : Nat \ {0}, current : Nat, state : States]
    <2>1. item \in [version : Nat \ {0}, current : Nat, state : States]
        BY <1>1 DEF StoreTypeOK
    <2>2. item.version + 1 \in Nat \ {0} /\ v \in Nat /\ item.current <= v
        BY <1>1, <1>2
    <2> QED BY <1>3, <2>1, <2>2
<1>8. ASSUME NEW f \in files
      PROVE  /\ Sup(f) \in FileType
             /\ Sup(f).version = f.version /\ Sup(f).digest = f.digest
             /\ f.version = v - 1 => ~Sup(f).available /\ Sup(f).supersededBy = v
             /\ f.version # v - 1 => Sup(f) = f
    <2>1. f \in FileType /\ v \in Keys
        BY <1>1, <1>2 DEF StoreTypeOK
    <2> HIDE DEF v
    <2> QED BY <2>1
<1>9. /\ new \in FileType /\ new.version = v /\ new.digest = c
      /\ new.supersededBy = 0
    BY <1>2
<1>10. ASSUME NEW f \in files
       PROVE  /\ f.version \in 1 .. item.current /\ f.version # v
              /\ f.version = v - 1 <=> f.version = item.current
    <2>1. f.version \in 1 .. item.current
        BY DEF EInv, OneCurrentFile
    <2> QED BY <1>1, <1>2, <2>1
<1> HIDE DEF new, Sup, FileType, v
<1>11. call' \in [Calls -> Records]
    BY <1>1, <1>5, CallBecomes
<1>12. StoreTypeOK'
    <2>1. files' \subseteq FileType
        BY <1>3, <1>8, <1>9
    <2> QED BY <1>1, <1>3, <1>7, <1>11, <2>1 DEF StoreTypeOK, Records, FileType
<1>13. OneCurrentFile'
    <2>1. \A f, g \in files : f.version = g.version => f = g
        BY DEF EInv, OneCurrentFile
    <2>2. \A f, g \in files' : f.version = g.version => f = g
        BY <1>3, <1>8, <1>9, <1>10, <2>1
    <2>3. {f.version : f \in files'} = {f.version : f \in files} \cup {v}
        BY <1>3, <1>8, <1>9
    <2>4. {f.version : f \in files} = 1 .. item.current
        BY DEF EInv, OneCurrentFile
    <2>5. 1 .. v = (1 .. item.current) \cup {v}
        BY <1>1, <1>2
    <2>6. ASSUME NEW g \in files'
          PROVE  IF g.version = v THEN g.supersededBy = 0
                 ELSE g.supersededBy = g.version + 1 /\ ~g.available
        <3>1. CASE g = new
            BY <1>9, <3>1
        <3>2. ASSUME NEW f \in files, g = Sup(f)
              PROVE  g.version # v /\ g.supersededBy = g.version + 1 /\ ~g.available
            <4>1. g.version = f.version /\ f.version # v /\ f.version \in 1 .. item.current
                BY <1>8, <1>10, <3>2
            <4>2. CASE f.version = item.current
                <5>1. ~g.available /\ g.supersededBy = v
                    BY <1>8, <1>10, <3>2, <4>2
                <5> QED BY <1>2, <4>1, <4>2, <5>1
            <4>3. CASE f.version # item.current
                <5>1. g = f
                    BY <1>8, <1>10, <3>2, <4>3
                <5> QED BY <4>1, <4>3, <5>1 DEF EInv, OneCurrentFile
            <4> QED BY <4>2, <4>3
        <3> QED BY <1>3, <3>1, <3>2
    <2> QED BY <1>7, <2>2, <2>3, <2>4, <2>5, <2>6 DEF OneCurrentFile
<1>14. VerdictLandsOnWhatItJudged'
    BY <1>3 DEF EInv, VerdictLandsOnWhatItJudged
<1>15. Commits(c, q)
    BY <1>1, <1>3, <1>5, <1>6, <1>7 DEF Commits, At
<1>16. FilesFollow(c)
    <2>1. \A g \in files' :
              \/ g.digest = c /\ g.version = call[c].next /\ At(c, "write")
              \/ \E f \in files : f.version = g.version /\ f.digest = g.digest
        BY <1>1, <1>3, <1>8, <1>9 DEF At, v
    <2>2. \A f \in files : \E g \in files' : g.version = f.version
        BY <1>3, <1>8
    <2>3. \E g \in files' : g.version = call[c].next
        BY <1>3, <1>9 DEF v
    <2> QED BY <2>1, <2>2, <2>3 DEF FilesFollow
<1> QED BY <1>3, <1>5, <1>12, <1>13, <1>14, <1>15, <1>16, CommitKeeps

-----------------------------------------------------------------------------
\* The invariant holds before any call.
LEMMA InitInv == StoreInit => EInv
<1> SUFFICES ASSUME StoreInit PROVE EInv
    OBVIOUS
<1>1. /\ item.version = 1 /\ item.current = 0 /\ item.state = "unverified"
      /\ item \in [version : Nat \ {0}, current : Nat, state : States]
      /\ files = {} /\ verdicts = {} /\ writes = {}
      /\ objects = [k \in Keys |-> NoBytes] /\ call = [c \in Calls |-> Idle]
    BY DEF StoreInit, States
<1>2. Idle \in Records
    BY DEF Idle, Records, Kinds, States
<1>3. StoreTypeOK
    BY <1>1, <1>2 DEF StoreTypeOK, Records, Bytes
<1>4. \A c \in Calls : InOrder(c)
    BY <1>1 DEF InOrder, Idle
<1>5. OneCurrentFile
    BY <1>1 DEF OneCurrentFile
<1>6. VersionCountsWrites
    BY <1>1, FS_EmptySet DEF VersionCountsWrites
<1>7. VerdictLandsOnWhatItJudged /\ FilesAreWrites
    BY <1>1 DEF VerdictLandsOnWhatItJudged, FilesAreWrites
<1>8. LostToRival
    BY <1>1 DEF LostToRival, At, Idle
<1>9. OrphansAreExplained
    BY <1>1 DEF OrphansAreExplained
<1> QED BY <1>3, <1>4, <1>5, <1>6, <1>7, <1>8, <1>9 DEF EInv

\* Every step keeps the invariant.
LEMMA NextInv == EInv /\ [StoreNext]_storeVars => EInv'
<1> SUFFICES ASSUME EInv, [StoreNext]_storeVars PROVE EInv'
    OBVIOUS
<1>1. CASE UNCHANGED storeVars
    <2>1. /\ item' = item /\ files' = files /\ objects' = objects /\ call' = call
          /\ verdicts' = verdicts /\ writes' = writes
        BY <1>1 DEF storeVars
    <2>2. StoreTypeOK'
        BY <2>1 DEF EInv, StoreTypeOK
    <2>3. \A c \in Calls : InOrder(c)'
        BY <2>1 DEF EInv, InOrder
    <2>4. OneCurrentFile'
        BY <2>1 DEF EInv, OneCurrentFile
    <2>5. VersionCountsWrites'
        BY <2>1 DEF EInv, VersionCountsWrites
    <2>6. VerdictLandsOnWhatItJudged' /\ FilesAreWrites'
        BY <2>1 DEF EInv, VerdictLandsOnWhatItJudged, FilesAreWrites, At
    <2>7. LostToRival'
        BY <2>1 DEF EInv, LostToRival, Rival, At
    <2>8. OrphansAreExplained'
        BY <2>1 DEF EInv, OrphansAreExplained, VersionFree
    <2> QED BY <2>2, <2>3, <2>4, <2>5, <2>6, <2>7, <2>8 DEF EInv
<1>2. ASSUME NEW c \in Calls, NEW kind \in Kinds, OpenCall(c, kind) PROVE EInv'
    BY <1>2, OpenKeeps
<1>3. ASSUME NEW c \in Calls,
             \/ FailEarly(c) \/ AttachReads(c) \/ Put(c) \/ PutFails(c) \/ Write(c)
             \/ WriteThrows(c) \/ Compensate(c) \/ CompensationFails(c) \/ Crash(c)
             \/ ReadForDigest(c) \/ GetBytes(c) \/ Judge(c) \/ Record(c)
             \/ RecordConflicts(c) \/ MarkUnavailable(c)
      PROVE  EInv'
    BY <1>3, QuietEndsKeep, AttachReadsKeeps, PutKeeps, PutFailsKeeps, WriteKeeps,
       WriteThrowsKeeps, CompensateKeeps, ReadForDigestKeeps, GetBytesKeeps,
       JudgeKeeps, RecordKeeps, MarkUnavailableKeeps
<1> QED BY <1>1, <1>2, <1>3 DEF StoreNext, StoreTerminated

\* The invariant holds throughout.
LEMMA InvAlways == StoreSpec => []EInv
BY InitInv, NextInv, PTL DEF StoreSpec

-----------------------------------------------------------------------------
(***************************************************************************)
(* What follows from it.                                                   *)
(***************************************************************************)

\* Every variable keeps its type; there is a key for every attachment.
THEOREM EvidenceTypeCorrect == StoreSpec => []StoreTypeOK
<1>1. EInv => StoreTypeOK
    BY DEF EInv
<1> QED BY <1>1, InvAlways, PTL

\* The file versions of an item are numbered without gap or duplicate, and only
\* the last is offered, whatever attachments race.
THEOREM AlwaysOneCurrentFile == StoreSpec => []OneCurrentFile
<1>1. EInv => OneCurrentFile
    BY DEF EInv
<1> QED BY <1>1, InvAlways, PTL

\* The version of an item counts its committed writes.
THEOREM VersionAlwaysCountsWrites == StoreSpec => []VersionCountsWrites
<1>1. EInv => VersionCountsWrites
    BY DEF EInv
<1> QED BY <1>1, InvAlways, PTL

\* A verdict is recorded about the file it was formed on.
THEOREM VerdictAlwaysLands == StoreSpec => []VerdictLandsOnWhatItJudged
<1>1. EInv => VerdictLandsOnWhatItJudged
    BY DEF EInv
<1> QED BY <1>1, InvAlways, PTL

\* The bytes of a recorded file are lost only to an attachment that was given
\* the same key, or to a lost reply.
THEOREM BytesAlwaysLostToRace == StoreSpec => []BytesLostOnlyToRace
<1>1. EInv => BytesLostOnlyToRace
    BY DEF EInv, LostToRival, Rival, BytesLostOnlyToRace
<1> QED BY <1>1, InvAlways, PTL

\* An orphaned object is accounted for by an attachment that is not over or
\* could not clean up.
THEOREM OrphansAlwaysExplained == StoreSpec => []OrphansAreExplained
<1>1. EInv => OrphansAreExplained
    BY DEF EInv
<1> QED BY <1>1, InvAlways, PTL

\* The rows of an item and the verdicts on it are always of one file.
THEOREM ItemAlwaysSound == StoreSpec => []ItemIsSound
<1>1. OneCurrentFile /\ VerdictLandsOnWhatItJudged => ItemIsSound
    BY DEF ItemIsSound
<1> QED BY <1>1, AlwaysOneCurrentFile, VerdictAlwaysLands, PTL

\* Whatever is missing from the storage, or left over in it, has its cause.
THEOREM BytesAlwaysAccountedFor == StoreSpec => []BytesAreAccountedFor
<1>1. BytesLostOnlyToRace /\ OrphansAreExplained => BytesAreAccountedFor
    BY DEF BytesAreAccountedFor
<1> QED BY <1>1, BytesAlwaysLostToRace, OrphansAlwaysExplained, PTL
=============================================================================
