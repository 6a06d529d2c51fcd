------------------------------- MODULE Store -------------------------------
(***************************************************************************)
(* internal/store step by step: the goroutines that call Update and View,  *)
(* the reader-writer lock, the temporary file and its renaming, and what a *)
(* crash of the process leaves behind.  The other modules take an update   *)
(* for one atomic action; here it is shown to be one.                      *)
(***************************************************************************)
EXTENDS Naturals, Sequences, SequencesExt

CONSTANTS
    Updater,    \* goroutines that call Update: handlers, and the scheduler
    Viewer,     \* goroutines that call View
    Absent,     \* there is no such file
    Torn,       \* the file holds a part of a snapshot
    MaxChanges  \* bound: changes ever made

ASSUME GoroutineAssumption == Updater \cap Viewer = {}
ASSUME ChangeBoundAssumption == MaxChanges \in Nat

VARIABLES
    pc,      \* where each goroutine is
    memory,  \* Store.data, as the sequence of the changes made to it
    tmp,     \* the temporary file
    file,    \* the snapshot file
    up,      \* the process is running
    changes, \* history: changes ever made
    base,    \* history: memory before the update that holds the lock changed it
    acked,   \* history: what was last answered with success, if not damaged since
    damaged  \* history: the snapshot was damaged from outside, and not written since

storeVars == <<pc, memory, tmp, file, up, changes, base, acked, damaged>>

Goroutine == Updater \cup Viewer

\* "changed": the function has returned without error; "emptied": the temporary
\* file has been opened and truncated; "written": it is complete.
Saving  == {"changed", "emptied", "written"}
Ended   == {"saved", "unsaved", "refused"}
Writing == {"locked"} \cup Saving \cup Ended
Phase   == {"idle", "waiting", "viewing"} \cup Writing

Data     == Seq(1 .. MaxChanges)
Contents == Data \cup {Absent, Torn}

ASSUME ContentsAssumption == Absent # Torn /\ Absent \notin Data /\ Torn \notin Data

StoreInit ==
    /\ pc = [g \in Goroutine |-> "idle"]
    /\ memory = <<>>
    /\ tmp = Absent
    /\ file = Absent
    /\ up = TRUE
    /\ changes = 0
    /\ base = <<>>
    /\ acked = <<>>
    /\ damaged = FALSE

Move(g, from, to) == pc[g] \in from /\ pc' = [pc EXCEPT ![g] = to]

-----------------------------------------------------------------------------
\* The lock.

Call(g) ==
    /\ up
    /\ Move(g, {"idle"}, "waiting")
    /\ UNCHANGED <<memory, tmp, file, up, changes, base, acked, damaged>>

Lock(u) ==
    /\ \A g \in Goroutine : pc[g] \in {"idle", "waiting"}
    /\ Move(u, {"waiting"}, "locked")
    /\ UNCHANGED <<memory, tmp, file, up, changes, base, acked, damaged>>

RLock(v) ==
    /\ \A u \in Updater : pc[u] \notin Writing
    /\ Move(v, {"waiting"}, "viewing")
    /\ UNCHANGED <<memory, tmp, file, up, changes, base, acked, damaged>>

\* Faulty variant: an error path that returns without unlocking.
UnlockUnlessRefused(g) ==
    /\ Move(g, {"saved", "unsaved", "viewing"}, "idle")
    /\ acked' = IF pc[g] = "saved" THEN memory ELSE acked
    /\ UNCHANGED <<memory, tmp, file, up, changes, base, damaged>>

\* The deferred unlock; the caller learns whether the update was saved.  A caller of
\* View is done with the lock, not with the data: the pointers it was given are read
\* after this step, beside updates, and no property here is about what it reads.
Unlock(g) ==
    /\ Move(g, Ended \cup {"viewing"}, "idle")
    /\ acked' = IF pc[g] = "saved" THEN memory ELSE acked
    /\ UNCHANGED <<memory, tmp, file, up, changes, base, damaged>>

-----------------------------------------------------------------------------
\* Update: the function, then persist.

Change ==
    /\ changes < MaxChanges
    /\ changes' = changes + 1
    /\ memory' = Append(memory, changes + 1)

\* The function passed to Update runs to its end; it may have changed the data,
\* and also when it returns an error.
Run(u) ==
    /\ \/ Move(u, {"locked"}, "changed")
       \/ Move(u, {"locked"}, "refused")
    /\ Change \/ UNCHANGED <<memory, changes>>
    /\ base' = memory
    /\ UNCHANGED <<tmp, file, up, acked, damaged>>

\* Faulty variant: the snapshot is written in place, without a temporary file.
EmptyFile(u) ==
    /\ Move(u, {"changed"}, "emptied")
    /\ file' = Torn
    /\ UNCHANGED <<memory, tmp, up, changes, base, acked, damaged>>

\* os.WriteFile truncates the temporary file, then fills it.
EmptyTmp(u) ==
    /\ Move(u, {"changed"}, "emptied")
    /\ tmp' = Torn
    /\ UNCHANGED <<memory, file, up, changes, base, acked, damaged>>

FillTmp(u) ==
    /\ Move(u, {"emptied"}, "written")
    /\ tmp' = memory
    /\ UNCHANGED <<memory, file, up, changes, base, acked, damaged>>

\* os.Rename puts the complete file in place of the snapshot.
Rename(u) ==
    /\ Move(u, {"written"}, "saved")
    /\ file' = tmp
    /\ tmp' = Absent
    /\ damaged' = FALSE
    /\ UNCHANGED <<memory, up, changes, base, acked>>

\* Faulty variant: a failure is not passed on to the caller.
FailSilently(u) ==
    /\ Move(u, Saving, "saved")
    /\ UNCHANGED <<memory, tmp, file, up, changes, base, acked, damaged>>

\* Encoding, making the directory, writing or renaming fails.
Fail(u) ==
    /\ Move(u, Saving, "unsaved")
    /\ UNCHANGED <<memory, tmp, file, up, changes, base, acked, damaged>>

-----------------------------------------------------------------------------
\* Crash and boot.

Crash ==
    /\ up
    /\ up' = FALSE
    /\ pc' = [g \in Goroutine |-> "idle"]
    /\ UNCHANGED <<memory, tmp, file, changes, base, acked, damaged>>

\* load: a missing or unreadable snapshot is an empty store.
Loaded(f) == IF f \in {Absent, Torn} THEN <<>> ELSE f

\* Faulty variants: what the file holds is taken as it is; a temporary file left
\* behind by a crash is taken for a sign of corruption.
BootRaw ==
    /\ ~up
    /\ up' = TRUE
    /\ memory' = file
    /\ UNCHANGED <<pc, tmp, file, changes, base, acked, damaged>>

BootFresh ==
    /\ ~up
    /\ up' = TRUE
    /\ memory' = IF tmp = Absent THEN Loaded(file) ELSE <<>>
    /\ UNCHANGED <<pc, tmp, file, changes, base, acked, damaged>>

Boot ==
    /\ ~up
    /\ up' = TRUE
    /\ memory' = Loaded(file)
    /\ UNCHANGED <<pc, tmp, file, changes, base, acked, damaged>>

\* From outside, while the process is down: a disk error, an editor, a power cut
\* after a write that was not synced.
Damage ==
    /\ ~up
    /\ file' = Torn
    /\ damaged' = TRUE
    /\ acked' = <<>>
    /\ UNCHANGED <<pc, memory, tmp, up, changes, base>>

UpdateStep(u) == Run(u) \/ EmptyTmp(u) \/ FillTmp(u) \/ Rename(u) \/ Fail(u)

StoreNext ==
    \/ \E g \in Goroutine : Call(g) \/ Unlock(g)
    \/ \E u \in Updater : Lock(u) \/ UpdateStep(u)
    \/ \E v \in Viewer : RLock(v)
    \/ Crash \/ Boot \/ Damage

\* A goroutine that runs goes on, and one that waits for the lock gets it if it is
\* free again and again (sync.RWMutex lets nobody starve).
StoreFairness ==
    /\ \A g \in Goroutine : WF_storeVars(Unlock(g))
    /\ \A u \in Updater : WF_storeVars(UpdateStep(u)) /\ SF_storeVars(Lock(u))
    /\ \A v \in Viewer : SF_storeVars(RLock(v))

StoreSpec == StoreInit /\ [][StoreNext]_storeVars /\ StoreFairness

-----------------------------------------------------------------------------
\* Properties.

StoreTypeOK ==
    /\ pc \in [Goroutine -> Phase]
    /\ \A v \in Viewer : pc[v] \notin Writing
    /\ \A u \in Updater : pc[u] # "viewing"
    /\ memory \in Data
    /\ tmp \in Contents
    /\ file \in Contents
    /\ up \in BOOLEAN
    /\ changes \in 0 .. MaxChanges
    /\ base \in Data
    /\ acked \in Data
    /\ damaged \in BOOLEAN

\* What an update answered with success has made of the data is in the snapshot,
\* unless that was damaged since: the process may stop at any moment, in the middle
\* of a write too, and other writes may fail, and the next start finds it.
AnsweredSurvives == IsPrefix(acked, Loaded(file))

\* The store never tears its snapshot: one that load takes for empty because it cannot
\* be parsed was damaged from outside.  And while the process runs the snapshot is a
\* past of its memory: a failed write leaves it behind, not different.
SnapshotIsPast ==
    /\ file = Torn => damaged
    /\ up => IsPrefix(Loaded(file), memory)

\* The data as the calls under the lock find it: while an update is being saved none
\* can begin, and it has not happened yet.
Seen ==
    IF ~up THEN Loaded(file)
    ELSE IF \E u \in Updater : pc[u] \in Saving THEN base ELSE memory

Atomic == INSTANCE AtomicStore
            WITH Change <- 1 .. MaxChanges, mem <- Seen, disk <- Loaded(file)

\* An update of many steps, under the lock and through the temporary file, is one
\* atomic step of memory and snapshot; a crash between any two of them is a
\* restart from the old snapshot or from the new one.
ImplementsAtomicStore == Atomic!StoreSpec

\* Whatever became of those before it, every call gets the lock and ends: the
\* scheduler's pass too is never kept out for ever.
EveryCallEnds == \A g \in Goroutine : pc[g] = "waiting" ~> pc[g] = "idle"
=============================================================================
