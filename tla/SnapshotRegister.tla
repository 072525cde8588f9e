-------------------------- MODULE SnapshotRegister --------------------------
(***************************************************************************)
(* What the two-tree mirror of scripts/data_sync.py promises its users: a  *)
(* register that holds one snapshot of the trees, numbered by a            *)
(* generation, which a working copy replaces only if it holds the current  *)
(* generation, and never so that an edit somebody published disappears     *)
(* without a user having deleted the file.                                 *)
(***************************************************************************)
EXTENDS Integers

CONSTANTS
    Machines,      \* the working copies
    Keys,          \* the files
    Contents,      \* what a file can hold: sets of edits, {}: no file
    Discardable    \* the files a user may delete

VARIABLES
    generation,    \* the number of the current snapshot, 0: there is none
    snapshot,      \* the current snapshot
    base           \* the generation each working copy holds, 0: none

rvars == <<generation, snapshot, base>>

RInit ==
    /\ generation \in {0, 1}
    /\ snapshot \in [Keys -> Contents]
    /\ base = [m \in Machines |-> 0]

Keeps(files) == \A k \in Keys \ Discardable : snapshot[k] \subseteq files[k]

Publish(m) ==
    /\ generation = 0 \/ base[m] = generation
    /\ generation' = generation + 1
    /\ snapshot' \in [Keys -> Contents]
    /\ Keeps(snapshot')
    /\ UNCHANGED base

Adopt(m) ==
    /\ base' = [base EXCEPT ![m] = generation]
    /\ UNCHANGED <<generation, snapshot>>

Forget(m) ==
    /\ base' = [base EXCEPT ![m] = 0]
    /\ UNCHANGED <<generation, snapshot>>

RNext == \E m \in Machines : Publish(m) \/ Adopt(m) \/ Forget(m)

RSpec == RInit /\ [][RNext]_rvars

=============================================================================
