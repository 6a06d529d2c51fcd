---------------------------- MODULE AtomicStore ----------------------------
(***************************************************************************)
(* What the store promises to the services: an update happens at once, in  *)
(* memory and, unless saving fails, in the snapshot; and a restart brings  *)
(* back the snapshot.  The data is the sequence of the changes made to it. *)
(***************************************************************************)
EXTENDS Naturals, Sequences

CONSTANT Change \* the changes updates make

VARIABLES mem, disk

storeVars == <<mem, disk>>

StoreInit == mem = <<>> /\ disk = <<>>

\* An update that changes the data or not, and is saved or not.
Do ==
    /\ \/ mem' = mem
       \/ \E c \in Change : mem' = Append(mem, c)
    /\ disk' \in {mem', disk}

Restart == mem' = disk /\ UNCHANGED disk

\* From outside: the snapshot becomes unreadable, and the data starts anew.
Lose == mem' = <<>> /\ disk' = <<>>

StoreNext == Do \/ Restart \/ Lose

StoreSpec == StoreInit /\ [][StoreNext]_storeVars
=============================================================================
