---------------------------- MODULE StoreProofs ----------------------------
(***************************************************************************)
(* Theorems about Store, for any numbers of goroutines and of changes: the *)
(* lock and the temporary file make an update of many steps atomic.  And   *)
(* one about Lifecycle, the process around it: its end is an orderly one.  *)
(***************************************************************************)
EXTENDS Store, Lifecycle, TLAPS, SequenceTheorems

-----------------------------------------------------------------------------
\* Facts about prefixes and snapshots.

\* A prefix, element by element.
LEMMA PrefixElements ==
    ASSUME NEW s \in Data, NEW t \in Data
    PROVE  IsPrefix(s, t) <=> Len(s) <= Len(t) /\ \A i \in 1 .. Len(s) : s[i] = t[i]
<1>1. CASE Len(s) <= Len(t)
  <2> DEFINE a == SubSeq(s, 1, Len(s))
             b == SubSeq(t, 1, Len(s))
  <2>1. /\ Len(s) \in Nat
        /\ \A i \in 1 .. Len(s) : s[i] \in 1 .. MaxChanges /\ t[i] \in 1 .. MaxChanges
    <3>1. Len(s) \in Nat /\ Len(t) \in Nat
      BY LenProperties DEF Data
    <3>2. \A i \in 1 .. Len(s) : i \in 1 .. Len(t)
      BY <1>1, <3>1
    <3>3. \A i \in 1 .. Len(s) : s[i] \in 1 .. MaxChanges
      BY ElementOfSeq DEF Data
    <3>4. \A i \in 1 .. Len(t) : t[i] \in 1 .. MaxChanges
      BY ElementOfSeq DEF Data
    <3> QED
      BY <3>1, <3>2, <3>3, <3>4
  <2>2. /\ a \in Data
        /\ Len(a) = Len(s)
        /\ \A i \in 1 .. Len(s) : a[i] = s[i]
    <3>1. /\ a \in Seq(1 .. MaxChanges)
          /\ Len(a) = IF 1 <= Len(s) THEN Len(s) - 1 + 1 ELSE 0
          /\ \A i \in 1 .. Len(s) - 1 + 1 : a[i] = s[1 + i - 1]
      BY <2>1, SubSeqProperties
    <3> HIDE DEF a
    <3> QED
      BY <2>1, <3>1 DEF Data
  <2>3. /\ b \in Data
        /\ Len(b) = Len(s)
        /\ \A i \in 1 .. Len(s) : b[i] = t[i]
    <3>1. /\ b \in Seq(1 .. MaxChanges)
          /\ Len(b) = IF 1 <= Len(s) THEN Len(s) - 1 + 1 ELSE 0
          /\ \A i \in 1 .. Len(s) - 1 + 1 : b[i] = t[1 + i - 1]
      BY <2>1, SubSeqProperties
    <3> HIDE DEF b
    <3> QED
      BY <2>1, <3>1 DEF Data
  <2>4. a = b <=> \A i \in 1 .. Len(s) : a[i] = b[i]
    BY <2>2, <2>3, SeqEqual DEF Data
  <2> HIDE DEF a, b
  <2>5. a = b <=> \A i \in 1 .. Len(s) : s[i] = t[i]
    BY <2>2, <2>3, <2>4
  <2> QED
    BY <1>1, <2>5 DEF IsPrefix, a, b
<1>2. CASE ~(Len(s) <= Len(t))
  BY <1>2 DEF IsPrefix
<1> QED
  BY <1>1, <1>2

\* What the proofs need of the order of prefixes.
LEMMA PrefixOrder ==
    ASSUME NEW s \in Data, NEW t \in Data, NEW r \in Data
    PROVE  /\ IsPrefix(<<>>, s)
           /\ IsPrefix(s, s)
           /\ IsPrefix(s, t) /\ IsPrefix(t, r) => IsPrefix(s, r)
<1>1. /\ <<>> \in Data
      /\ Len(<<>>) = 0
      /\ Len(s) \in Nat
      /\ Len(t) \in Nat
      /\ Len(r) \in Nat
  BY DEF Data
<1>2. IsPrefix(<<>>, s)
  BY <1>1, PrefixElements
<1>3. IsPrefix(s, s)
  BY <1>1, PrefixElements
<1>4. ASSUME IsPrefix(s, t), IsPrefix(t, r) PROVE IsPrefix(s, r)
  BY <1>1, <1>4, PrefixElements
<1> QED
  BY <1>2, <1>3, <1>4

LEMMA PrefixGrows ==
    ASSUME NEW s \in Data, NEW t \in Data, NEW c \in 1 .. MaxChanges, IsPrefix(s, t)
    PROVE  Append(t, c) \in Data /\ IsPrefix(s, Append(t, c))
<1>1. /\ Append(t, c) \in Data
      /\ Len(Append(t, c)) = Len(t) + 1
      /\ \A i \in 1 .. Len(t) : Append(t, c)[i] = t[i]
      /\ Len(s) \in Nat
      /\ Len(t) \in Nat
  BY DEF Data
<1>2. Len(s) <= Len(t) /\ \A i \in 1 .. Len(s) : s[i] = t[i]
  BY PrefixElements
<1>3. Len(s) <= Len(Append(t, c)) /\ \A i \in 1 .. Len(s) : s[i] = Append(t, c)[i]
  BY <1>1, <1>2
<1> QED
  BY <1>1, <1>3, PrefixElements

\* What load makes of a file is data; of a complete snapshot, that snapshot.
LEMMA LoadedIsData ==
    /\ \A f \in Contents : Loaded(f) \in Data
    /\ \A d \in Data : d \in Contents /\ Loaded(d) = d
    /\ Loaded(Absent) = <<>> /\ Loaded(Torn) = <<>>
    /\ <<>> \in Data
<1>1. <<>> \in Data
  BY DEF Data
<1> QED
  BY <1>1, ContentsAssumption DEF Contents, Loaded

-----------------------------------------------------------------------------
\* The invariant that induction needs.

\* One goroutine at a time writes, and nobody looks meanwhile.
OneWrites ==
    \A u \in Updater : pc[u] \in Writing =>
        \A g \in Goroutine : g # u => pc[g] \in {"idle", "waiting"}

DownIsIdle == ~up => \A g \in Goroutine : pc[g] = "idle"

\* What the steps of a saving have achieved so far.
SavingProceeds ==
    \A u \in Updater :
        /\ pc[u] \in Saving => \/ memory = base
                               \/ \E c \in 1 .. MaxChanges : memory = Append(base, c)
        /\ pc[u] = "written" => tmp = memory
        /\ pc[u] = "saved" => Loaded(file) = memory

\* The snapshot is a past of memory, even when it has been damaged: then it counts
\* as empty.
FileIsPast == up => IsPrefix(Loaded(file), memory)

FileIsWhole == file = Torn => damaged

SInv ==
    /\ StoreTypeOK
    /\ OneWrites
    /\ DownIsIdle
    /\ SavingProceeds
    /\ FileIsPast
    /\ FileIsWhole
    /\ AnsweredSurvives

-----------------------------------------------------------------------------
\* The steps.

LEMMA StoreInitInvariant == StoreInit => SInv
<1> SUFFICES ASSUME StoreInit PROVE SInv
  OBVIOUS
<1>1. StoreTypeOK
  <2>1. pc \in [Goroutine -> Phase]
    BY DEF StoreInit, Phase
  <2>2. \A g \in Goroutine : pc[g] \notin Writing /\ pc[g] # "viewing"
    BY DEF StoreInit, Writing, Ended, Saving
  <2>3. memory \in Data /\ base \in Data /\ acked \in Data
    BY LoadedIsData DEF StoreInit
  <2>4. tmp \in Contents /\ file \in Contents
    BY DEF StoreInit, Contents
  <2>5. changes \in 0 .. MaxChanges
    BY ChangeBoundAssumption DEF StoreInit
  <2>6. up \in BOOLEAN /\ damaged \in BOOLEAN
    BY DEF StoreInit
  <2> QED
    BY <2>1, <2>2, <2>3, <2>4, <2>5, <2>6 DEF StoreTypeOK, Goroutine
<1>2. OneWrites /\ DownIsIdle
  BY DEF StoreInit, OneWrites, DownIsIdle, Goroutine, Writing, Saving, Ended
<1>3. SavingProceeds
  BY DEF StoreInit, SavingProceeds, Goroutine, Saving
<1>4. FileIsPast /\ FileIsWhole /\ AnsweredSurvives
  <2>1. IsPrefix(<<>>, <<>>)
    BY DEF IsPrefix
  <2> QED
    BY <2>1, LoadedIsData, ContentsAssumption
       DEF StoreInit, FileIsPast, FileIsWhole, AnsweredSurvives
<1> QED
  BY <1>1, <1>2, <1>3, <1>4 DEF SInv

\* The lock lets a goroutine in, or out.
LEMMA LockingInvariant ==
    ASSUME SInv, NEW g \in Goroutine,
           \/ Call(g) \/ Unlock(g)
           \/ g \in Updater /\ Lock(g)
           \/ g \in Viewer /\ RLock(g)
    PROVE  SInv'
<1> USE DEF SInv, Move
<1>1. StoreTypeOK'
  BY LoadedIsData, GoroutineAssumption
     DEF StoreTypeOK, Call, Unlock, Lock, RLock, Phase, Writing, Ended, Saving, Goroutine
<1>2. OneWrites'
  BY GoroutineAssumption
     DEF StoreTypeOK, OneWrites, Call, Unlock, Lock, RLock, Phase, Writing, Ended, Saving, Goroutine
<1>3. DownIsIdle'
  BY DEF StoreTypeOK, DownIsIdle, Call, Unlock, Lock, RLock, Ended
<1>4. SavingProceeds'
  BY GoroutineAssumption
     DEF StoreTypeOK, SavingProceeds, Call, Unlock, Lock, RLock, Saving, Ended, Goroutine
<1>5. FileIsPast' /\ FileIsWhole'
  BY DEF FileIsPast, FileIsWhole, Call, Unlock, Lock, RLock
<1>6. AnsweredSurvives'
  <2>1. CASE Unlock(g) /\ pc[g] = "saved"
    <3>1. g \in Updater /\ acked' = memory /\ file' = file
      BY <2>1 DEF Unlock, StoreTypeOK, Goroutine, Writing, Ended
    <3>2. Loaded(file) = memory
      BY <2>1, <3>1 DEF SavingProceeds
    <3>3. IsPrefix(acked', Loaded(file'))
      BY <3>1, <3>2 DEF IsPrefix
    <3> QED
      BY <3>3 DEF AnsweredSurvives
  <2>2. CASE ~(Unlock(g) /\ pc[g] = "saved")
    BY <2>2 DEF AnsweredSurvives, Call, Unlock, Lock, RLock
  <2> QED
    BY <2>1, <2>2
<1> QED
  BY <1>1, <1>2, <1>3, <1>4, <1>5, <1>6

\* The function that an update passes changes memory or not.
LEMMA RunInvariant ==
    ASSUME SInv, NEW u \in Updater, Run(u)
    PROVE  SInv'
<1> USE DEF SInv, Move
<1>0. changes + 1 \in Nat
  BY ChangeBoundAssumption DEF StoreTypeOK
<1>1. \/ memory' = memory /\ changes' = changes
      \/ /\ changes + 1 \in 1 .. MaxChanges
         /\ changes' = changes + 1
         /\ memory' = Append(memory, changes + 1)
  BY ChangeBoundAssumption DEF Run, Change, StoreTypeOK
<1>2. memory' \in Data /\ changes' \in 0 .. MaxChanges
  <2>1. memory \in Data /\ changes \in 0 .. MaxChanges
    BY DEF StoreTypeOK
  <2>2. IsPrefix(memory, memory)
    BY <2>1, PrefixOrder
  <2>3. \A c \in 1 .. MaxChanges : Append(memory, c) \in Data
    BY <2>1, <2>2, PrefixGrows
  <2>4. memory' \in Data
    BY <1>1, <2>1, <2>3
  <2>5. changes' \in 0 .. MaxChanges
    BY <1>1, <2>1, ChangeBoundAssumption
  <2> QED
    BY <2>4, <2>5
<1>3. StoreTypeOK'
  BY <1>2, GoroutineAssumption
     DEF StoreTypeOK, Run, Phase, Writing, Ended, Saving, Goroutine
<1>4. OneWrites' /\ DownIsIdle'
  BY DEF StoreTypeOK, OneWrites, DownIsIdle, Run, Phase, Writing, Ended, Saving, Goroutine
<1>5. SavingProceeds'
  <2> SUFFICES ASSUME NEW w \in Updater
               PROVE  /\ pc'[w] \in Saving =>
                            \/ memory' = base'
                            \/ \E c \in 1 .. MaxChanges : memory' = Append(base', c)
                      /\ pc'[w] \notin {"written", "saved"}
    BY DEF SavingProceeds
  <2>1. \/ memory' = base'
        \/ \E c \in 1 .. MaxChanges : memory' = Append(base', c)
    BY <1>1 DEF Run
  <2>2. CASE w = u
    BY <2>1, <2>2 DEF StoreTypeOK, Run, Goroutine
  <2>3. CASE w # u
    BY <2>3 DEF StoreTypeOK, OneWrites, Run, Goroutine, Writing, Saving
  <2> QED
    BY <2>1, <2>2, <2>3
<1>6. FileIsPast'
  <2>1. up' = up /\ file' = file /\ Loaded(file) \in Data
    BY LoadedIsData DEF Run, StoreTypeOK
  <2>2. memory \in Data
    BY DEF StoreTypeOK
  <2> QED
    BY <1>1, <2>1, <2>2, PrefixGrows DEF FileIsPast
<1>7. AnsweredSurvives' /\ FileIsWhole'
  BY DEF AnsweredSurvives, FileIsWhole, Run
<1> QED
  BY <1>3, <1>4, <1>5, <1>6, <1>7

\* The temporary file is emptied and filled, or something fails.
LEMMA WriteInvariant ==
    ASSUME SInv, NEW u \in Updater, EmptyTmp(u) \/ FillTmp(u) \/ Fail(u)
    PROVE  SInv'
<1> USE DEF SInv, Move
<1>1. StoreTypeOK'
  BY LoadedIsData, GoroutineAssumption
     DEF StoreTypeOK, EmptyTmp, FillTmp, Fail, Phase, Writing, Ended, Saving, Goroutine, Contents
<1>2. OneWrites' /\ DownIsIdle'
  BY DEF StoreTypeOK, OneWrites, DownIsIdle, EmptyTmp, FillTmp, Fail,
         Phase, Writing, Ended, Saving, Goroutine
<1>3. SavingProceeds'
  <2> SUFFICES ASSUME NEW w \in Updater
               PROVE  /\ pc'[w] \in Saving =>
                            \/ memory' = base'
                            \/ \E c \in 1 .. MaxChanges : memory' = Append(base', c)
                      /\ pc'[w] = "written" => tmp' = memory'
                      /\ pc'[w] # "saved"
    BY DEF SavingProceeds
  <2>1. \/ memory' = base'
        \/ \E c \in 1 .. MaxChanges : memory' = Append(base', c)
    BY DEF SavingProceeds, EmptyTmp, FillTmp, Fail, Saving
  <2>2. CASE w = u
    BY <2>1, <2>2 DEF StoreTypeOK, EmptyTmp, FillTmp, Fail, Goroutine, Saving
  <2>3. CASE w # u
    BY <2>1, <2>3
       DEF StoreTypeOK, OneWrites, EmptyTmp, FillTmp, Fail, Goroutine, Writing, Saving
  <2> QED
    BY <2>2, <2>3
<1>4. FileIsPast' /\ FileIsWhole' /\ AnsweredSurvives'
  BY DEF FileIsPast, FileIsWhole, AnsweredSurvives, EmptyTmp, FillTmp, Fail
<1> QED
  BY <1>1, <1>2, <1>3, <1>4

\* The temporary file, which is complete, becomes the snapshot.
LEMMA RenameInvariant ==
    ASSUME SInv, NEW u \in Updater, Rename(u)
    PROVE  SInv'
<1> USE DEF SInv, Move
<1>1. /\ file' = memory
      /\ Loaded(file') = memory
      /\ memory \in Data
      /\ file' \in Contents
  BY LoadedIsData DEF Rename, SavingProceeds, StoreTypeOK
<1>2. StoreTypeOK'
  BY <1>1, GoroutineAssumption
     DEF StoreTypeOK, Rename, Phase, Writing, Ended, Saving, Goroutine, Contents
<1>3. OneWrites' /\ DownIsIdle'
  BY DEF StoreTypeOK, OneWrites, DownIsIdle, Rename, Phase, Writing, Ended, Saving, Goroutine
<1>4. SavingProceeds'
  <2> SUFFICES ASSUME NEW w \in Updater
               PROVE  pc'[w] \notin Saving
    BY <1>1 DEF SavingProceeds, Rename, Saving
  <2> QED
    BY DEF StoreTypeOK, OneWrites, Rename, Goroutine, Writing, Saving
<1>5. FileIsPast' /\ FileIsWhole'
  BY <1>1, PrefixOrder, ContentsAssumption DEF FileIsPast, FileIsWhole, Rename, IsPrefix
<1>6. AnsweredSurvives'
  <2>1. up
    BY DEF DownIsIdle, Rename, Goroutine
  <2>2. Loaded(file) \in Data /\ acked \in Data
    BY LoadedIsData DEF StoreTypeOK
  <2>3. IsPrefix(acked, memory)
    <3>1. IsPrefix(Loaded(file), memory)
      BY <2>1 DEF FileIsPast
    <3>2. IsPrefix(acked, Loaded(file))
      BY DEF AnsweredSurvives
    <3> QED
      BY <1>1, <2>2, <3>1, <3>2, PrefixElements DEF Data
  <2> QED
    BY <1>1, <2>3 DEF AnsweredSurvives, Rename
<1> QED
  BY <1>2, <1>3, <1>4, <1>5, <1>6

\* The process stops, starts again, or finds its snapshot damaged.
LEMMA RestartInvariant ==
    ASSUME SInv, Crash \/ Boot \/ Damage
    PROVE  SInv'
<1> USE DEF SInv
<1>1. StoreTypeOK'
  BY LoadedIsData
     DEF StoreTypeOK, Crash, Boot, Damage, Phase, Writing, Ended, Saving, Goroutine, Contents
<1>2. OneWrites' /\ DownIsIdle'
  BY DEF OneWrites, DownIsIdle, Crash, Boot, Damage, Goroutine
<1>3. SavingProceeds'
  <2>1. \A g \in Goroutine : pc'[g] = "idle"
    BY DEF DownIsIdle, Crash, Boot, Damage
  <2> QED
    BY <2>1 DEF SavingProceeds, Goroutine, Saving
<1>4. FileIsPast'
  <2>1. CASE Boot
    <3>1. memory' = Loaded(file') /\ Loaded(file) \in Data /\ file' = file
      BY <2>1, LoadedIsData DEF Boot, StoreTypeOK
    <3> QED
      BY <3>1, PrefixOrder DEF FileIsPast
  <2>2. CASE ~Boot
    BY <2>2 DEF FileIsPast, Crash, Damage
  <2> QED
    BY <2>1, <2>2
<1>5. AnsweredSurvives'
  <2>1. IsPrefix(<<>>, <<>>)
    BY LoadedIsData, PrefixOrder
  <2> QED
    BY <2>1, LoadedIsData DEF AnsweredSurvives, Crash, Boot, Damage
<1>6. FileIsWhole'
  BY DEF FileIsWhole, Crash, Boot, Damage
<1> QED
  BY <1>1, <1>2, <1>3, <1>4, <1>5, <1>6

LEMMA StoreStepInvariant == SInv /\ [StoreNext]_storeVars => SInv'
<1> SUFFICES ASSUME SInv, [StoreNext]_storeVars PROVE SInv'
  OBVIOUS
<1>1. ASSUME NEW g \in Goroutine, Call(g) \/ Unlock(g) PROVE SInv'
  BY <1>1, LockingInvariant
<1>2. ASSUME NEW u \in Updater, Lock(u) \/ UpdateStep(u) PROVE SInv'
  BY <1>2, LockingInvariant, RunInvariant, WriteInvariant, RenameInvariant
     DEF UpdateStep, Goroutine
<1>3. ASSUME NEW v \in Viewer, RLock(v) PROVE SInv'
  BY <1>3, LockingInvariant DEF Goroutine
<1>4. CASE Crash \/ Boot \/ Damage
  BY <1>4, RestartInvariant
<1>5. CASE UNCHANGED storeVars
  BY <1>5 DEF storeVars, SInv, StoreTypeOK, OneWrites, DownIsIdle, SavingProceeds,
              FileIsPast, FileIsWhole, AnsweredSurvives
<1> QED
  BY <1>1, <1>2, <1>3, <1>4, <1>5 DEF StoreNext

LEMMA StoreInvariant == StoreSpec => []SInv
BY StoreInitInvariant, StoreStepInvariant, PTL DEF StoreSpec

-----------------------------------------------------------------------------
\* The theorems.

\* Every variable of the store stays within its type.
THEOREM StoreTypeCorrect == StoreSpec => []StoreTypeOK
<1>1. SInv => StoreTypeOK
  BY DEF SInv
<1> QED
  BY <1>1, StoreInvariant, PTL

\* The snapshot holds whatever update was answered with success, since the file was
\* last damaged from outside: after any crash, at any step of any write.
THEOREM AnsweredAlwaysSurvives == StoreSpec => []AnsweredSurvives
<1>1. SInv => AnsweredSurvives
  BY DEF SInv
<1> QED
  BY <1>1, StoreInvariant, PTL

\* The snapshot is whole unless damaged from outside, and always a past of the running
\* process's memory.
THEOREM SnapshotAlwaysPast == StoreSpec => []SnapshotIsPast
<1>1. SInv => SnapshotIsPast
  BY DEF SInv, FileIsPast, FileIsWhole, SnapshotIsPast
<1> QED
  BY <1>1, StoreInvariant, PTL

-----------------------------------------------------------------------------
\* Store implements AtomicStore: of all its steps only those that rename the file,
\* give up a saving, run a function that fails, stop the process or damage the file
\* can be seen.

\* While someone is saving, nobody else is, so what can be seen is the data before
\* the update; in all other states of a running process it is memory.
SeenIs ==
    /\ ~up => Seen = Loaded(file)
    /\ \A u \in Updater : pc[u] \in Saving => Seen = base
    /\ \A u \in Updater : pc[u] \in {"locked"} \cup Ended => Seen = memory
    /\ up /\ (\A u \in Updater : pc[u] \notin Saving) => Seen = memory

LEMMA SeenFollows == SInv => SeenIs
<1> SUFFICES ASSUME SInv PROVE SeenIs
  OBVIOUS
<1>1. \A u \in Updater : pc[u] # "idle" => up
  BY DEF SInv, DownIsIdle, Goroutine
<1>2. ASSUME NEW u \in Updater, pc[u] \in {"locked"} \cup Ended, NEW w \in Updater
      PROVE  pc[w] \notin Saving
  BY <1>2 DEF SInv, OneWrites, Goroutine, Writing, Saving, Ended
<1> QED
  BY <1>1, <1>2 DEF SeenIs, Seen, Saving, Ended

LEMMA SeenFollowsNext == SInv' => SeenIs'
BY SeenFollows, PTL

LEMMA ImplementsInit == StoreInit => Atomic!StoreInit
<1> SUFFICES ASSUME StoreInit PROVE Seen = <<>> /\ Loaded(file) = <<>>
  BY DEF Atomic!StoreInit
<1>1. Seen = memory
  BY StoreInitInvariant, SeenFollows DEF SeenIs, StoreInit, Goroutine, Saving
<1> QED
  BY <1>1, LoadedIsData DEF StoreInit

LEMMA ImplementsStep ==
    SInv /\ [StoreNext]_storeVars => [Atomic!StoreNext]_<<Seen, Loaded(file)>>
<1> SUFFICES ASSUME SInv, [StoreNext]_storeVars
             PROVE  Atomic!StoreNext \/ UNCHANGED <<Seen, Loaded(file)>>
  OBVIOUS
<1>0. SeenIs /\ SeenIs'
  BY StoreStepInvariant, SeenFollows, SeenFollowsNext
<1> DEFINE Stutters == Seen' = Seen /\ Loaded(file)' = Loaded(file)
\* Whoever is not at u stays out of the saving.
<1>1. ASSUME NEW g \in Goroutine, Call(g) PROVE Stutters
  BY <1>1 DEF Call, Move, Seen, Loaded, Saving, SInv, StoreTypeOK
<1>1a. ASSUME NEW v \in Viewer, RLock(v) PROVE Stutters
  BY <1>1a, GoroutineAssumption
     DEF RLock, Move, Seen, Loaded, Saving, SInv, StoreTypeOK, Goroutine
<1>2. ASSUME NEW u \in Updater, Lock(u) PROVE Stutters
  BY <1>2 DEF Lock, Move, Seen, Loaded, Saving, SInv, StoreTypeOK, Goroutine
<1>3. ASSUME NEW g \in Goroutine, Unlock(g) PROVE Stutters
  BY <1>3 DEF Unlock, Move, Seen, Loaded, Saving, Ended, SInv, StoreTypeOK
<1>4. ASSUME NEW u \in Updater, Run(u), pc'[u] = "changed" PROVE Stutters
  <2>1. Seen = memory /\ Seen' = base'
    BY <1>0, <1>4 DEF SeenIs, Run, Move, Saving
  <2> QED
    BY <1>4, <2>1 DEF Run, Loaded
<1>5. ASSUME NEW u \in Updater, Run(u), pc'[u] = "refused" PROVE Atomic!Do
  <2>1. Seen = memory
    BY <1>0, <1>5 DEF SeenIs, Run, Move
  <2>3. Seen' = memory'
    BY <1>0, <1>5 DEF SeenIs, Ended
  <2> QED
    BY <1>5, <2>1, <2>3, ChangeBoundAssumption
       DEF Run, Change, Atomic!Do, Loaded, SInv, StoreTypeOK
<1>6. ASSUME NEW u \in Updater, EmptyTmp(u) \/ FillTmp(u) PROVE Stutters
  <2>1. Seen = base /\ Seen' = base'
    BY <1>0, <1>6 DEF SeenIs, EmptyTmp, FillTmp, Move, Saving, SInv, StoreTypeOK, Goroutine
  <2> QED
    BY <1>6, <2>1 DEF EmptyTmp, FillTmp, Loaded
<1>7. ASSUME NEW u \in Updater, Rename(u) \/ Fail(u) PROVE Atomic!Do
  <2>1. Seen = base /\ Seen' = memory' /\ memory' = memory
    BY <1>0, <1>7 DEF SeenIs, Rename, Fail, Move, Saving, Ended, SInv, StoreTypeOK, Goroutine
  <2>2. memory = base \/ \E c \in 1 .. MaxChanges : memory = Append(base, c)
    BY <1>7 DEF Rename, Fail, Move, Saving, SInv, SavingProceeds
  <2>3. Loaded(file)' \in {memory, Loaded(file)}
    BY <1>7, LoadedIsData DEF Rename, Fail, Move, Loaded, SInv, SavingProceeds, StoreTypeOK
  <2> QED
    BY <2>1, <2>2, <2>3 DEF Atomic!Do
<1>8. CASE Crash
  BY <1>0, <1>8 DEF SeenIs, Crash, Atomic!StoreNext, Atomic!Restart, Loaded
<1>9. CASE Boot
  <2>1. Seen' = memory'
    BY <1>0, <1>9 DEF SeenIs, Boot, SInv, DownIsIdle, Goroutine, Saving
  <2> QED
    BY <1>9, <2>1, <1>0 DEF SeenIs, Boot, Loaded
<1>10. CASE Damage
  <2>1. Seen' = <<>> /\ Loaded(file)' = <<>>
    BY <1>0, <1>10, LoadedIsData DEF SeenIs, Damage
  <2> QED
    BY <2>1 DEF Atomic!StoreNext, Atomic!Lose
<1>11. CASE UNCHANGED storeVars
  BY <1>11 DEF storeVars, Seen, Loaded
<1> HIDE DEF Stutters
<1>12. ASSUME NEW u \in Updater, Run(u) PROVE pc'[u] \in {"changed", "refused"}
  BY <1>12 DEF Run, Move, SInv, StoreTypeOK, Goroutine
<1>13. ASSUME NEW u \in Updater, Lock(u) \/ UpdateStep(u) PROVE Stutters \/ Atomic!Do
  BY <1>2, <1>4, <1>5, <1>6, <1>7, <1>12, <1>13 DEF UpdateStep
<1>14. Stutters => UNCHANGED <<Seen, Loaded(file)>>
  BY DEF Stutters
<1>15. Atomic!Do => Atomic!StoreNext
  BY DEF Atomic!StoreNext
<1>16. CASE StoreNext
  <2>1. ASSUME NEW g \in Goroutine, Call(g) \/ Unlock(g) PROVE Stutters
    <3>1. CASE Call(g)
      BY <1>1, <3>1
    <3>2. CASE Unlock(g)
      BY <1>3, <3>2
    <3> QED
      BY <2>1, <3>1, <3>2
  <2>2. CASE Crash \/ Boot \/ Damage
    BY <1>8, <1>9, <1>10, <2>2
  <2> QED
    BY <1>1a, <1>13, <1>14, <1>15, <1>16, <2>1, <2>2 DEF StoreNext
<1> QED
  BY <1>11, <1>16

\* The store keeps the promise of AtomicStore to the services.
THEOREM StoreImplementsAtomicStore == StoreSpec => ImplementsAtomicStore
BY ImplementsInit, ImplementsStep, StoreInvariant, PTL
   DEF StoreSpec, ImplementsAtomicStore, Atomic!StoreSpec, Atomic!storeVars

-----------------------------------------------------------------------------
\* The life of the process.

\* A pass is under way at boot or in the loop only, and the loop runs from the boot
\* until it is told to stop; after Shutdown nothing runs that was counted.
PassHasItsPlace == half # "none" => main \in {"booting", "killed"} \/ loop = "passing"

LoopFollowsBoot == main = "booting" => loop = "none"

RequestsAreOver ==
    main \in {"stopping", "returned"} => expired \/ \A q \in Request : requests[q] # "running"

LInv ==
    /\ requests \in [Request -> {"none", "running", "late", "over"}]
    /\ PassHasItsPlace /\ LoopFollowsBoot /\ RequestsAreOver
    /\ main = "returned" => loop = "ended"

\* When main returns, no pass is half done, and every request that the server counts,
\* which one timed out before is not, is over, unless Shutdown gave up waiting.
THEOREM EndIsAlwaysOrderly == LifeSpec => []OrderlyEnd
<1> USE DEF PassHasItsPlace, LoopFollowsBoot, RequestsAreOver
<1>1. LifeInit => LInv
  BY DEF LifeInit, LInv
<1>2. LInv /\ [LifeNext]_lifeVars => LInv'
  <2> SUFFICES ASSUME LInv, [LifeNext]_lifeVars PROVE LInv'
    OBVIOUS
  <2>1. CASE UNCHANGED lifeVars
    BY <2>1 DEF LInv, lifeVars
  <2>2. CASE NextHalf
    BY <2>2 DEF LInv, NextHalf, Running
  <2>3. CASE BootEnds
    BY <2>3 DEF LInv, BootEnds
  <2>4. CASE TickerFires
    BY <2>4 DEF LInv, TickerFires
  <2>5. CASE PassBegins
    BY <2>5 DEF LInv, PassBegins, Running
  <2>6. CASE PassEnds
    BY <2>6 DEF LInv, PassEnds, Running
  <2>7. CASE LoopEnds
    BY <2>7 DEF LInv, LoopEnds, Running
  <2>8. ASSUME NEW q \in Request, Accept(q) \/ TimeOut(q) \/ Finish(q) PROVE LInv'
    BY <2>8 DEF LInv, Accept, TimeOut, Finish, Running
  <2>9. CASE Signal
    BY <2>9 DEF LInv, Signal
  <2>10. CASE Die
    BY <2>10 DEF LInv, Die
  <2>11. CASE Drain
    BY <2>11 DEF LInv, Drain
  <2>12. CASE Drained
    BY <2>12 DEF LInv, Drained
  <2>13. CASE Return
    BY <2>13 DEF LInv, Return
  <2> QED
    BY <2>1, <2>2, <2>3, <2>4, <2>5, <2>6, <2>7, <2>8, <2>9, <2>10, <2>11, <2>12, <2>13
       DEF LifeNext, LoopStep
<1>3. LInv => OrderlyEnd
  BY DEF LInv, OrderlyEnd
<1> QED
  BY <1>1, <1>2, <1>3, PTL DEF LifeSpec
=============================================================================
