--------------------------- MODULE JournalProofs ----------------------------
(* What Journal guarantees for every number of processes, every set of       *)
(* operations and every combination of faults; and AtomicFile, by which it    *)
(* replaces its file, for every number of writers inside file_mutex.          *)
EXTENDS Journal, AtomicFile, SequenceTheorems, TLAPS

Holding == {"read", "write", "sync", "release"}

\* Whoever is past file_mutex owns it: at most one process is.
OwnerHolds == \A p \in Processes : pc[p] \in Holding => mutex = p

\* The disk lags behind the file, never diverges from it.
DiskBehind == IsPrefix(disk, file)

\* What the owner read is still what the file says when it replaces it.
StagedIsCurrent ==
    \A p \in Processes :
        /\ pc[p] = "write" =>
             /\ staged[p] = Append(file, request[p].operation)
             /\ ~ HasKey(file, request[p].operation.key)
        /\ pc[p] = "sync" => staged[p] = file

\* What writers were told is recorded is on the disk.
AppendedOnDisk == \A e \in appended : IsPrefix(e, disk)

IInv ==
    /\ TypeOK
    /\ OwnerHolds
    /\ KeyRecordedOnce
    /\ DiskBehind
    /\ StagedIsCurrent
    /\ AppendedOnDisk

-----------------------------------------------------------------------------
\* IsPrefix read off the elements.
LEMMA PrefixElements ==
    ASSUME NEW S, NEW s \in Seq(S), NEW t \in Seq(S)
    PROVE  IsPrefix(s, t) <=> /\ Len(s) <= Len(t)
                              /\ \A i \in 1..Len(s) : s[i] = t[i]
<1>1. ASSUME Len(s) <= Len(t)
      PROVE  /\ SubSeq(s, 1, Len(s)) \in Seq(S)
             /\ SubSeq(t, 1, Len(s)) \in Seq(S)
             /\ Len(SubSeq(s, 1, Len(s))) = Len(s)
             /\ Len(SubSeq(t, 1, Len(s))) = Len(s)
             /\ \A i \in 1..Len(s) : SubSeq(s, 1, Len(s))[i] = s[i]
             /\ \A i \in 1..Len(s) : SubSeq(t, 1, Len(s))[i] = t[i]
  BY <1>1
<1>2. QED
  BY <1>1, SeqEqual DEF IsPrefix

LEMMA PrefixReflexive ==
    ASSUME NEW S, NEW s \in Seq(S) PROVE IsPrefix(s, s)
BY PrefixElements

LEMMA PrefixTransitive ==
    ASSUME NEW S, NEW r \in Seq(S), NEW s \in Seq(S), NEW t \in Seq(S),
           IsPrefix(r, s), IsPrefix(s, t)
    PROVE  IsPrefix(r, t)
<1>1. Len(r) <= Len(s) /\ \A i \in 1..Len(r) : r[i] = s[i]
  BY PrefixElements
<1>2. Len(s) <= Len(t) /\ \A i \in 1..Len(s) : s[i] = t[i]
  BY PrefixElements
<1>3. Len(r) <= Len(t) /\ \A i \in 1..Len(r) : r[i] = t[i]
  BY <1>1, <1>2, LenProperties
<1>4. QED
  BY <1>3, PrefixElements

LEMMA PrefixAppend ==
    ASSUME NEW S, NEW s \in Seq(S), NEW x \in S
    PROVE  Append(s, x) \in Seq(S) /\ IsPrefix(s, Append(s, x))
<1>1. /\ Append(s, x) \in Seq(S)
      /\ Len(Append(s, x)) = Len(s) + 1
      /\ \A i \in 1..Len(s) : Append(s, x)[i] = s[i]
  BY AppendProperties
<1>2. Len(s) \in Nat /\ Len(s) <= Len(Append(s, x))
  BY <1>1, LenProperties
<1>3. IsPrefix(s, Append(s, x)) <=>
        /\ Len(s) <= Len(Append(s, x))
        /\ \A i \in 1..Len(s) : s[i] = Append(s, x)[i]
  BY <1>1, PrefixElements
<1>4. QED
  BY <1>1, <1>2, <1>3

\* An operation under a new key keeps the keys unique.
LEMMA AppendKeepsKeysUnique ==
    ASSUME NEW S, NEW s \in Seq(S), NEW x \in S,
           KeysUnique(s), ~ HasKey(s, x.key)
    PROVE  KeysUnique(Append(s, x))
<1>1. /\ DOMAIN Append(s, x) = 1..(Len(s) + 1)
      /\ DOMAIN s = 1..Len(s)
      /\ Len(s) \in Nat
      /\ \A i \in 1..Len(s) : Append(s, x)[i] = s[i]
      /\ Append(s, x)[Len(s) + 1] = x
  BY AppendProperties, LenProperties
<1>2. SUFFICES ASSUME NEW i \in 1..(Len(s) + 1), NEW j \in 1..(Len(s) + 1),
                      Append(s, x)[i].key = Append(s, x)[j].key
               PROVE  i = j
  BY <1>1 DEF KeysUnique
<1>3. CASE i \in 1..Len(s) /\ j \in 1..Len(s)
  BY <1>1, <1>2, <1>3 DEF KeysUnique
<1>4. CASE i = Len(s) + 1 /\ j \in 1..Len(s)
  BY <1>1, <1>2, <1>4 DEF HasKey
<1>5. CASE i \in 1..Len(s) /\ j = Len(s) + 1
  BY <1>1, <1>2, <1>5 DEF HasKey
<1>6. QED
  BY <1>1, <1>3, <1>4, <1>5

-----------------------------------------------------------------------------
\* Each step keeps the types.
LEMMA TypeStep == TypeOK /\ [Next]_vars => TypeOK'
<1> SUFFICES ASSUME TypeOK, [Next]_vars PROVE TypeOK'
  OBVIOUS
<1>1. ASSUME NEW p \in Processes, NEW operation \in Operations,
             NEW expected \in {Unset, HeadOf(file)}, Call(p, operation, expected)
      PROVE  TypeOK'
  BY <1>1 DEF Call, TypeOK, Requests, HeadOf
<1>2. ASSUME NEW p \in Processes, Acquire(p) PROVE TypeOK'
  BY <1>2 DEF Acquire, TypeOK
<1>3. ASSUME NEW p \in Processes, Read(p) PROVE TypeOK'
  <2> DEFINE operation == request[p].operation
             verdict == Verdict(file, operation, request[p].expected)
  <2>1. operation \in Operations
    BY <1>3 DEF Read, TypeOK, Requests
  <2>2. CASE verdict = "append"
    <3>1. Append(file, operation) \in Seq(Operations)
      BY <2>1 DEF TypeOK
    <3>2. QED
      BY <1>3, <2>2, <3>1 DEF Read, TypeOK
  <2>3. CASE verdict # "append"
    <3>1. verdict \in Answers
      BY <2>3 DEF Verdict, Answers
    <3>2. QED
      BY <1>3, <2>3, <3>1 DEF Read, TypeOK
  <2>4. QED
    BY <2>2, <2>3
<1>4. ASSUME NEW p \in Processes, Write(p) PROVE TypeOK'
  BY <1>4 DEF Write, TypeOK
<1>5. ASSUME NEW p \in Processes, Sync(p) PROVE TypeOK'
  BY <1>5 DEF Sync, TypeOK, Answers
<1>6. ASSUME NEW p \in Processes, Release(p) PROVE TypeOK'
  BY <1>6 DEF Release, Forget, TypeOK, Answers
<1>7. ASSUME NEW p \in Processes, Die(p) PROVE TypeOK'
  BY <1>7 DEF Die, Forget, TypeOK, Answers
<1>8. CASE PowerLoss
  BY <1>8 DEF PowerLoss, Forget, TypeOK, Answers
<1>9. CASE UNCHANGED vars
  BY <1>9 DEF vars, TypeOK
<1>10. QED
  BY <1>1, <1>2, <1>3, <1>4, <1>5, <1>6, <1>7, <1>8, <1>9 DEF Next

\* The journal's variables stay in their types.
THEOREM TypeCorrect == Spec => []TypeOK
<1>1. Init => TypeOK
  BY DEF Init, TypeOK, Answers
<1>2. QED
  BY <1>1, TypeStep, PTL DEF Spec

-----------------------------------------------------------------------------
LEMMA InitIInv == Init => IInv
<1> SUFFICES ASSUME Init PROVE IInv
  OBVIOUS
<1>1. TypeOK
  BY DEF Init, TypeOK, Answers
<1>2. OwnerHolds /\ StagedIsCurrent /\ AppendedOnDisk
  BY DEF Init, OwnerHolds, Holding, StagedIsCurrent, AppendedOnDisk
<1>3. KeyRecordedOnce
  BY DEF Init, KeyRecordedOnce, KeysUnique
<1>4. DiskBehind
  <2>1. << >> \in Seq(Operations)
    OBVIOUS
  <2>2. QED
    BY <2>1, PrefixReflexive DEF Init, DiskBehind
<1>5. QED
  BY <1>1, <1>2, <1>3, <1>4 DEF IInv

\* The steps that leave file, disk and appended alone only have to respect the
\* ownership of the lock and what has been staged under it.
LEMMA QuietStep ==
    ASSUME IInv, [Next]_vars, UNCHANGED <<file, disk, appended>>,
           OwnerHolds', StagedIsCurrent'
    PROVE  IInv'
<1>1. TypeOK'
  BY TypeStep DEF IInv
<1>2. KeyRecordedOnce' /\ DiskBehind' /\ AppendedOnDisk'
  BY DEF IInv, KeyRecordedOnce, DiskBehind, AppendedOnDisk
<1>3. QED
  BY <1>1, <1>2 DEF IInv

LEMMA CallStep ==
    ASSUME IInv, NEW p \in Processes, NEW operation \in Operations,
           NEW expected \in {Unset, HeadOf(file)}, Call(p, operation, expected)
    PROVE  IInv'
<1>1. OwnerHolds'
  BY DEF IInv, Call, OwnerHolds, Holding, TypeOK
<1>2. StagedIsCurrent'
  BY DEF IInv, Call, StagedIsCurrent, TypeOK
<1>3. QED
  BY <1>1, <1>2, QuietStep DEF Call, Next

LEMMA AcquireStep ==
    ASSUME IInv, NEW p \in Processes, Acquire(p) PROVE IInv'
<1>1. OwnerHolds'
  BY ProcessesAssumption DEF IInv, Acquire, OwnerHolds, Holding, TypeOK
<1>2. StagedIsCurrent'
  BY DEF IInv, Acquire, StagedIsCurrent, TypeOK
<1>3. QED
  BY <1>1, <1>2, QuietStep DEF Acquire, Next

LEMMA ReadStep ==
    ASSUME IInv, NEW p \in Processes, Read(p) PROVE IInv'
<1>1. OwnerHolds'
  BY DEF IInv, Read, OwnerHolds, Holding, TypeOK
<1>2. StagedIsCurrent'
  <2> SUFFICES ASSUME NEW q \in Processes
               PROVE  StagedIsCurrent!(q)'
    BY DEF StagedIsCurrent
  <2>1. CASE q # p
    BY <2>1 DEF IInv, Read, StagedIsCurrent, TypeOK
  <2>2. CASE q = p
    <3> DEFINE operation == request[p].operation
               verdict == Verdict(file, operation, request[p].expected)
    <3>1. CASE verdict = "append"
      <4>1. ~ HasKey(file, operation.key)
        BY <3>1 DEF Verdict
      <4>2. /\ staged'[p] = Append(file, operation)
            /\ pc'[p] = "write"
            /\ file' = file /\ request' = request
        BY <3>1 DEF Read, IInv, TypeOK
      <4>3. QED
        BY <2>2, <4>1, <4>2 DEF HasKey
    <3>2. CASE verdict # "append"
      BY <2>2, <3>2 DEF Read, IInv, TypeOK
    <3>3. QED
      BY <3>1, <3>2
  <2>3. QED
    BY <2>1, <2>2
<1>3. QED
  BY <1>1, <1>2, QuietStep DEF Read, Next

LEMMA ReleaseStep ==
    ASSUME IInv, NEW p \in Processes, Release(p) \/ Die(p) PROVE IInv'
<1>1. OwnerHolds'
  BY ProcessesAssumption
     DEF IInv, Release, Die, Forget, OwnerHolds, Holding, TypeOK
<1>2. StagedIsCurrent'
  BY DEF IInv, Release, Die, Forget, StagedIsCurrent, TypeOK
<1>3. QED
  BY <1>1, <1>2, QuietStep DEF Release, Die, Next

LEMMA WriteStep ==
    ASSUME IInv, NEW p \in Processes, Write(p) PROVE IInv'
<1> DEFINE operation == request[p].operation
<1>1. /\ file' = Append(file, operation)
      /\ ~ HasKey(file, operation.key)
      /\ disk' = disk /\ appended' = appended
      /\ mutex' = mutex /\ request' = request /\ staged' = staged
      /\ pc' = [pc EXCEPT ![p] = "sync"]
      /\ mutex = p
  BY DEF IInv, Write, StagedIsCurrent, OwnerHolds, Holding
<1>2. operation \in Operations /\ file \in Seq(Operations) /\ disk \in Seq(Operations)
  BY DEF IInv, Write, TypeOK, Requests
<1>3. TypeOK'
  BY TypeStep DEF IInv, Next
<1>4. OwnerHolds'
  BY <1>1 DEF IInv, OwnerHolds, Holding, TypeOK
<1>5. KeyRecordedOnce'
  BY <1>1, <1>2, AppendKeepsKeysUnique DEF IInv, KeyRecordedOnce
<1>6. DiskBehind'
  <2>1. file' \in Seq(Operations) /\ IsPrefix(file, file')
    BY <1>1, <1>2, PrefixAppend
  <2>2. IsPrefix(disk, file)
    BY DEF IInv, DiskBehind
  <2>3. IsPrefix(disk, file')
    BY <1>2, <2>1, <2>2, PrefixTransitive
  <2>4. QED
    BY <1>1, <2>3 DEF DiskBehind
<1>7. StagedIsCurrent'
  <2> SUFFICES ASSUME NEW q \in Processes PROVE StagedIsCurrent!(q)'
    BY DEF StagedIsCurrent
  <2>1. CASE q = p
    BY <1>1, <2>1 DEF IInv, StagedIsCurrent, TypeOK, Write
  <2>2. CASE q # p
    BY <1>1, <2>2 DEF IInv, OwnerHolds, Holding, TypeOK
  <2>3. QED
    BY <2>1, <2>2
<1>8. AppendedOnDisk'
  BY <1>1 DEF IInv, AppendedOnDisk
<1>9. QED
  BY <1>3, <1>4, <1>5, <1>6, <1>7, <1>8 DEF IInv

LEMMA SyncStep ==
    ASSUME IInv, NEW p \in Processes, Sync(p) PROVE IInv'
<1>1. /\ file' = file /\ disk' = file /\ mutex' = mutex
      /\ request' = request /\ staged' = staged
      /\ appended' = appended \cup {file}
      /\ pc' = [pc EXCEPT ![p] = "release"]
      /\ mutex = p
  BY DEF IInv, Sync, StagedIsCurrent, OwnerHolds, Holding
<1>2. file \in Seq(Operations) /\ disk \in Seq(Operations) /\ appended \subseteq Seq(Operations)
  BY DEF IInv, TypeOK
<1>3. TypeOK'
  BY TypeStep DEF IInv, Next
<1>4. OwnerHolds'
  BY <1>1 DEF IInv, OwnerHolds, Holding, TypeOK
<1>5. KeyRecordedOnce'
  BY <1>1 DEF IInv, KeyRecordedOnce
<1>6. DiskBehind'
  BY <1>1, <1>2, PrefixReflexive DEF DiskBehind
<1>7. StagedIsCurrent'
  BY <1>1 DEF IInv, StagedIsCurrent, OwnerHolds, Holding, TypeOK
<1>8. AppendedOnDisk'
  <2> SUFFICES ASSUME NEW e \in appended \cup {file} PROVE IsPrefix(e, file)
    BY <1>1 DEF AppendedOnDisk
  <2>1. CASE e = file
    BY <1>2, <2>1, PrefixReflexive
  <2>2. CASE e \in appended
    <3>1. IsPrefix(e, disk) /\ IsPrefix(disk, file)
      BY <2>2 DEF IInv, AppendedOnDisk, DiskBehind
    <3>2. QED
      BY <1>2, <2>2, <3>1, PrefixTransitive
  <2>3. QED
    BY <2>1, <2>2
<1>9. QED
  BY <1>3, <1>4, <1>5, <1>6, <1>7, <1>8 DEF IInv

LEMMA PowerLossStep == IInv /\ PowerLoss => IInv'
<1> SUFFICES ASSUME IInv, PowerLoss PROVE IInv'
  OBVIOUS
<1>1. /\ file' \in {file, disk} /\ disk' = file' /\ appended' = appended
      /\ \A p \in Processes : pc'[p] = "idle"
  BY DEF PowerLoss, Forget
<1>2. file \in Seq(Operations) /\ disk \in Seq(Operations) /\ appended \subseteq Seq(Operations)
  BY DEF IInv, TypeOK
<1>3. TypeOK'
  BY TypeStep DEF IInv, Next
<1>4. OwnerHolds' /\ StagedIsCurrent'
  BY <1>1 DEF OwnerHolds, Holding, StagedIsCurrent
<1>5. KeyRecordedOnce'
  BY <1>1 DEF IInv, KeyRecordedOnce
<1>6. DiskBehind'
  BY <1>1, <1>2, PrefixReflexive DEF DiskBehind
<1>7. AppendedOnDisk'
  <2> SUFFICES ASSUME NEW e \in appended PROVE IsPrefix(e, disk')
    BY <1>1 DEF AppendedOnDisk
  <2>1. IsPrefix(e, disk) /\ IsPrefix(disk, file)
    BY DEF IInv, AppendedOnDisk, DiskBehind
  <2>2. IsPrefix(e, file)
    BY <1>2, <2>1, PrefixTransitive
  <2>3. QED
    BY <1>1, <2>1, <2>2
<1>8. QED
  BY <1>3, <1>4, <1>5, <1>6, <1>7 DEF IInv

LEMMA NextIInv == IInv /\ [Next]_vars => IInv'
<1> SUFFICES ASSUME IInv, [Next]_vars PROVE IInv'
  OBVIOUS
<1>1. CASE UNCHANGED vars
  <2>1. OwnerHolds' /\ StagedIsCurrent'
    BY <1>1 DEF vars, IInv, OwnerHolds, StagedIsCurrent
  <2>2. QED
    BY <1>1, <2>1, QuietStep DEF vars
<1>2. QED
  BY <1>1, CallStep, AcquireStep, ReadStep, WriteStep, SyncStep, ReleaseStep,
     PowerLossStep DEF Next

THEOREM Inductive == Spec => []IInv
BY InitIInv, NextIInv, PTL DEF Spec

\* Whatever crashes and retries do, no idempotency key is recorded twice.
THEOREM KeyRecordedOnceHolds == Spec => []KeyRecordedOnce
<1>1. IInv => KeyRecordedOnce
  BY DEF IInv
<1>2. QED
  BY <1>1, Inductive, PTL

\* An append that returned to the process that wrote it is never undone.
THEOREM AppendedSurvivesHolds == Spec => []AppendedSurvives
<1>1. IInv => AppendedSurvives
  <2> SUFFICES ASSUME IInv, NEW e \in appended
               PROVE  IsPrefix(e, file) /\ IsPrefix(e, disk)
    BY DEF AppendedSurvives
  <2>1. IsPrefix(e, disk) /\ IsPrefix(disk, file)
    BY DEF IInv, AppendedOnDisk, DiskBehind
  <2>2. e \in Seq(Operations) /\ file \in Seq(Operations) /\ disk \in Seq(Operations)
    BY DEF IInv, TypeOK
  <2>3. QED
    BY <2>1, <2>2, PrefixTransitive
<1>2. QED
  BY <1>1, Inductive, PTL

\* Only a power loss takes an event back, and then only one that was not on
\* the disk; every other step leaves a prefix of the file as it was.
THEOREM HistoryOnlyGrowsHolds == Spec => HistoryOnlyGrows
<1> DEFINE Grows == IsPrefix(file, file') \/ (file' = disk /\ mutex' = None)
<1>1. IInv /\ [Next]_vars => [Grows]_vars
  <2> SUFFICES ASSUME IInv, Next PROVE Grows
    OBVIOUS
  <2>1. file \in Seq(Operations)
    BY DEF IInv, TypeOK
  <2>2. CASE file' = file
    BY <2>1, <2>2, PrefixReflexive
  <2>3. ASSUME NEW p \in Processes, Write(p) PROVE Grows
    <3>1. file' = Append(file, request[p].operation) /\ request[p].operation \in Operations
      BY <2>3 DEF IInv, Write, StagedIsCurrent, TypeOK, Requests
    <3>2. QED
      BY <2>1, <3>1, PrefixAppend
  <2>4. CASE PowerLoss
    BY <2>1, <2>4, PrefixReflexive DEF PowerLoss
  <2>5. QED
    BY <2>2, <2>3, <2>4
       DEF Next, Call, Acquire, Read, Sync, Release, Die
<1>2. QED
  BY <1>1, Inductive, PTL DEF Spec, HistoryOnlyGrows

-----------------------------------------------------------------------------
\* Every step of the journal is a step of the durable log or leaves it alone.
LEMMA StepRefines ==
    IInv /\ [Next]_vars => [Durable!Next]_<<file, Len(disk)>>
<1> SUFFICES ASSUME IInv, [Next]_vars,
                    ~ UNCHANGED <<file, Len(disk)>>
             PROVE  Durable!Next
  OBVIOUS
<1>1. file \in Seq(Operations) /\ disk \in Seq(Operations) /\ IsPrefix(disk, file)
  BY DEF IInv, TypeOK, DiskBehind
<1>2. ASSUME NEW p \in Processes, Write(p) PROVE Durable!Next
  <2> DEFINE operation == request[p].operation
  <2>1. /\ file' = Append(file, operation) /\ disk' = disk
        /\ operation \in Operations
        /\ ~ HasKey(file, operation.key)
    BY <1>2 DEF IInv, Write, StagedIsCurrent, TypeOK, Requests
  <2>2. Durable!Fresh(operation)
    BY <1>1, <2>1, LenProperties DEF HasKey, Durable!Fresh
  <2>3. Durable!Record(operation)
    BY <2>1, <2>2 DEF Durable!Record
  <2>4. QED
    BY <2>1, <2>3 DEF Durable!Next
<1>3. ASSUME NEW p \in Processes, Sync(p) PROVE Durable!Next
  BY <1>3 DEF Sync, Durable!Next, Durable!Secure
<1>4. CASE PowerLoss
  <2>1. CASE file' = file
    BY <1>4, <2>1 DEF PowerLoss, Durable!Next, Durable!Secure
  <2>2. CASE file' = disk
    <3>1. SubSeq(disk, 1, Len(disk)) = disk
      BY <1>1
    <3>2. SubSeq(file, 1, Len(disk)) = disk
      BY <1>1, <3>1 DEF IsPrefix
    <3>3. QED
      BY <1>4, <2>2, <3>2 DEF PowerLoss, Durable!Next, Durable!Lose
  <2>3. QED
    BY <1>4, <2>1, <2>2 DEF PowerLoss
<1>5. QED
  BY <1>2, <1>3, <1>4
     DEF Next, vars, Call, Acquire, Read, Release, Die

\* Locking, staging, renaming and crashing implement the durable log.
THEOREM JournalImplementsDurableLog == Spec => ImplementsDurableLog
<1>1. Init => Durable!Init
  BY DEF Init, Durable!Init
<1>2. QED
  BY <1>1, StepRefines, Inductive, PTL DEF Spec, ImplementsDurableLog, Durable!Spec

-----------------------------------------------------------------------------
(* Under the journal: with every writer inside file_mutex, the shared temporary *)
(* name is harmless, for any number of writers, inodes and contents, and any    *)
(* crash.                                                                       *)

FileHeld == {"look", "open", "write", "replace", "release"}

FileOwnerHolds == \A w \in Writers : filePc[w] \in FileHeld => fileMutex = w

\* The temporary belongs to the owner of the mutex: it is the file the owner
\* has open, and once written it holds the owner's bytes.
OwnTemporary ==
    \A w \in Writers :
        /\ filePc[w] = "write" => /\ temporary # Nothing
                                  /\ descriptor[w] = temporary
                                  /\ content[temporary] = Empty
        /\ filePc[w] = "replace" => /\ temporary # Nothing
                                    /\ content[temporary] = value[w]
        /\ filePc[w] \in {"wait", "open", "write", "replace"} => outcome[w] = "none"

\* The file and its temporary never share an inode.
Apart == path # Nothing => path # temporary

FileInv ==
    /\ FileTypeOK
    /\ FileOwnerHolds
    /\ OwnTemporary
    /\ Apart
    /\ ReadersSeeWhole
    /\ TemporaryIsThere

-----------------------------------------------------------------------------
LEMMA FileTypeStep == FileTypeOK /\ [FileNext]_atomicVars => FileTypeOK'
<1> SUFFICES ASSUME FileTypeOK, [FileNext]_atomicVars PROVE FileTypeOK'
  OBVIOUS
<1> USE DEF FileTypeOK, PC, Outcomes, fileVars
<1>1. ASSUME NEW w \in Writers, NEW v \in Contents, Begin(w, v, "open")
      PROVE  FileTypeOK'
  BY <1>1 DEF Begin
<1>2. ASSUME NEW w \in Writers, LockFile(w, "open") PROVE FileTypeOK'
  BY <1>2 DEF LockFile
<1>3. ASSUME NEW w \in Writers, OpenTemporary(w) PROVE FileTypeOK'
  BY <1>3 DEF OpenTemporary
<1>4. ASSUME NEW w \in Writers, WriteTemporary(w) PROVE FileTypeOK'
  <2>1. PICK b \in Overlay(content[descriptor[w]], value[w]) :
             content' = [content EXCEPT ![descriptor[w]] = b]
    BY <1>4 DEF WriteTemporary
  <2>2. \A i \in Inodes : content'[i] \in Contents \cup {Empty, Mixed} 
    <3>1. b \in {value[w], Mixed} /\ value[w] \in Contents
      BY <1>4, <2>1 DEF Overlay, WriteTemporary
    <3>2. QED
      BY <2>1, <3>1
  <2>3. QED
    BY <1>4, <2>1, <2>2 DEF WriteTemporary
<1>5. ASSUME NEW w \in Writers, Replace(w) PROVE FileTypeOK'
  BY <1>5 DEF Replace, AfterWrite
<1>6. ASSUME NEW w \in Writers, UnlockFile(w) PROVE FileTypeOK'
  BY <1>6 DEF UnlockFile
<1>7. ASSUME NEW w \in Writers, Crash(w) PROVE FileTypeOK'
  BY <1>7 DEF Crash
<1>8. CASE UNCHANGED atomicVars
  BY <1>8 DEF atomicVars
<1>9. QED
  BY <1>1, <1>2, <1>3, <1>4, <1>5, <1>6, <1>7, <1>8 DEF FileNext, FileStep

-----------------------------------------------------------------------------
LEMMA FileInitInv == FileInit => FileInv
BY DEF FileInit, FileInv, FileTypeOK, PC, Outcomes, FileOwnerHolds, FileHeld, OwnTemporary,
       Apart, ReadersSeeWhole, TemporaryIsThere

\* The open and written file is the owner's: nobody else is between open and
\* replace, so only the owner's steps reach the temporary.
LEMMA OpenStep ==
    ASSUME FileInv, NEW w \in Writers, OpenTemporary(w) PROVE FileInv'
<1> USE DEF FileInv, FileTypeOK, PC
<1>1. PICK i \in Inodes :
           /\ IF temporary # Nothing THEN i = temporary ELSE Free(i)
           /\ temporary' = i
           /\ content' = [content EXCEPT ![i] = Empty]
           /\ descriptor' = [descriptor EXCEPT ![w] = i]
  BY DEF OpenTemporary
<1>2. /\ filePc[w] = "open" /\ filePc' = [filePc EXCEPT ![w] = "write"] /\ fileMutex = w
      /\ path' = path /\ fileMutex' = fileMutex /\ value' = value /\ outcome' = outcome
      /\ path # i
      /\ i # Nothing
  BY <1>1, NothingAssumption DEF OpenTemporary, FileOwnerHolds, FileHeld, Free, Apart
<1>3. FileTypeOK'
  BY FileTypeStep DEF FileNext, FileStep
<1>4. FileOwnerHolds'
  BY <1>2 DEF FileOwnerHolds, FileHeld
<1>5. OwnTemporary'
  BY <1>1, <1>2 DEF OwnTemporary, FileOwnerHolds, FileHeld
<1>6. Apart' /\ ReadersSeeWhole' /\ TemporaryIsThere'
  BY <1>1, <1>2 DEF Apart, ReadersSeeWhole, TemporaryIsThere
<1>7. QED
  BY <1>3, <1>4, <1>5, <1>6

LEMMA WriteTemporaryStep ==
    ASSUME FileInv, NEW w \in Writers, WriteTemporary(w) PROVE FileInv'
<1> USE DEF FileInv, FileTypeOK, PC
<1>1. /\ filePc[w] = "write" /\ filePc' = [filePc EXCEPT ![w] = "replace"] /\ fileMutex = w
      /\ temporary # Nothing /\ descriptor[w] = temporary
      /\ content' = [content EXCEPT ![temporary] = value[w]]
      /\ path' = path /\ temporary' = temporary /\ fileMutex' = fileMutex
      /\ value' = value /\ outcome' = outcome
  BY DEF WriteTemporary, FileOwnerHolds, FileHeld, OwnTemporary, Overlay
<1>2. FileTypeOK'
  BY FileTypeStep DEF FileNext, FileStep
<1>3. FileOwnerHolds'
  BY <1>1 DEF FileOwnerHolds, FileHeld
<1>4. OwnTemporary'
  BY <1>1 DEF OwnTemporary, FileOwnerHolds, FileHeld
<1>5. Apart' /\ ReadersSeeWhole' /\ TemporaryIsThere'
  BY <1>1 DEF Apart, ReadersSeeWhole, TemporaryIsThere
<1>6. QED
  BY <1>2, <1>3, <1>4, <1>5

LEMMA ReplaceStep ==
    ASSUME FileInv, Locked = Writers, NEW w \in Writers, Replace(w)
    PROVE  /\ FileInv'
           /\ path' = temporary
           /\ content'[path'] = value[w]
<1> USE DEF FileInv, FileTypeOK, PC
<1>1. /\ filePc[w] = "replace" /\ filePc' = [filePc EXCEPT ![w] = "release"] /\ fileMutex = w
      /\ temporary # Nothing /\ content[temporary] = value[w] /\ value[w] \in Contents
      /\ path' = temporary /\ temporary' = Nothing
      /\ outcome' = [outcome EXCEPT ![w] = "ok"]
      /\ content' = content /\ fileMutex' = fileMutex
      /\ descriptor' = descriptor /\ value' = value
  BY DEF Replace, AfterWrite, FileOwnerHolds, FileHeld, OwnTemporary
<1>2. FileTypeOK'
  BY FileTypeStep DEF FileNext, FileStep
<1>3. FileOwnerHolds'
  BY <1>1 DEF FileOwnerHolds, FileHeld
<1>4. OwnTemporary'
  BY <1>1 DEF OwnTemporary, FileOwnerHolds, FileHeld
<1>5. Apart' /\ ReadersSeeWhole' /\ TemporaryIsThere'
  BY <1>1 DEF Apart, ReadersSeeWhole, TemporaryIsThere
<1>6. QED
  BY <1>1, <1>2, <1>3, <1>4, <1>5

\* The remaining steps leave the file system alone.
LEMMA FileOtherStep ==
    ASSUME FileInv, Locked = Writers, NEW w \in Writers,
           \/ \E v \in Contents : Begin(w, v, "open")
           \/ LockFile(w, "open") \/ UnlockFile(w) \/ Crash(w)
    PROVE  FileInv'
<1> USE DEF FileInv, FileTypeOK, PC
<1>1. FileTypeOK'
  BY FileTypeStep DEF FileNext, FileStep
<1>2. FileOwnerHolds'
  BY NothingAssumption DEF Begin, LockFile, UnlockFile, Crash, FileOwnerHolds, FileHeld
<1>3. OwnTemporary'
  <2>1. CASE \E v \in Contents : Begin(w, v, "open")
    BY <2>1 DEF Begin, OwnTemporary, fileVars
  <2>2. CASE LockFile(w, "open")
    BY <2>2 DEF LockFile, OwnTemporary, fileVars
  <2>3. CASE UnlockFile(w)
    BY <2>3 DEF UnlockFile, OwnTemporary, fileVars
  <2>4. CASE Crash(w)
    BY <2>4 DEF Crash, OwnTemporary, fileVars
  <2>5. QED
    BY <2>1, <2>2, <2>3, <2>4
<1>4. Apart' /\ ReadersSeeWhole' /\ TemporaryIsThere'
  BY DEF Begin, LockFile, UnlockFile, Crash, fileVars,
         Apart, ReadersSeeWhole, TemporaryIsThere
<1>5. QED
  BY <1>1, <1>2, <1>3, <1>4

LEMMA FileNextInv ==
    ASSUME Locked = Writers PROVE FileInv /\ [FileNext]_atomicVars => FileInv'
<1> SUFFICES ASSUME FileInv, [FileNext]_atomicVars PROVE FileInv'
  OBVIOUS
<1>1. CASE UNCHANGED atomicVars
  BY <1>1 DEF atomicVars, FileInv, FileTypeOK, FileOwnerHolds, OwnTemporary, Apart,
              ReadersSeeWhole, TemporaryIsThere
<1>2. QED
  BY <1>1, OpenStep, WriteTemporaryStep, ReplaceStep, FileOtherStep DEF FileNext, FileStep

\* Writers inside file_mutex never show a reader a torn file, and never lose
\* the temporary they are about to rename.
THEOREM LockedWritesAreAtomic ==
    ASSUME Locked = Writers
    PROVE  FileSpec => [](ReadersSeeWhole /\ TemporaryIsThere)
<1>1. FileInv => ReadersSeeWhole /\ TemporaryIsThere
  BY DEF FileInv
<1>2. FileInv /\ [FileNext]_atomicVars => FileInv'
  BY FileNextInv
<1>3. QED
  BY <1>1, <1>2, FileInitInv, PTL DEF FileSpec

\* Inside file_mutex, a write that returns normally installed its own bytes.
THEOREM LockedWriteLands ==
    ASSUME Locked = Writers PROVE FileSpec => WriteLands
<1> DEFINE Lands == \A w \in Writers :
               filePc[w] = "replace" /\ outcome'[w] = "ok" => content'[path'] = value[w]
<1>1. FileInv /\ [FileNext]_atomicVars => [Lands]_atomicVars
  <2> SUFFICES ASSUME FileInv, FileNext, NEW w \in Writers,
                      filePc[w] = "replace", outcome'[w] = "ok"
               PROVE  content'[path'] = value[w]
    OBVIOUS
  <2>1. outcome[w] = "none"
    BY DEF FileInv, OwnTemporary
  <2>2. CASE Replace(w)
    BY <2>2, ReplaceStep
  <2>3. ASSUME NEW u \in Writers, u # w, Replace(u) PROVE FALSE
    BY <2>1, <2>3 DEF Replace, FileInv, FileTypeOK
  <2>4. ASSUME NEW u \in Writers,
               \/ \E v \in Contents : Begin(u, v, "open")
               \/ LockFile(u, "open") \/ OpenTemporary(u) \/ WriteTemporary(u)
               \/ UnlockFile(u) \/ Crash(u)
        PROVE  FALSE
    BY <2>1, <2>4
       DEF Begin, LockFile, OpenTemporary, WriteTemporary, UnlockFile, Crash, FileInv, FileTypeOK
  <2>5. QED
    BY <2>2, <2>3, <2>4 DEF FileNext, FileStep
<1>2. FileInv /\ [FileNext]_atomicVars => FileInv'
  BY FileNextInv
<1>3. QED
  BY <1>1, <1>2, FileInitInv, PTL DEF FileSpec, WriteLands
=============================================================================
