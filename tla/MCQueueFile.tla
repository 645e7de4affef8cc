---------------------------- MODULE MCQueueFile -----------------------------
(***************************************************************************)
(* Small instances of QueueFile for TLC.  Every pull request closes every  *)
(* issue and names no seat.                                                *)
(***************************************************************************)
EXTENDS QueueFile, TLC

CONSTANTS
    Loners,         \* seats that are the one seat of their machine
    BeginBound      \* bound of the runs: messages, commands and webhooks

VARIABLE begun

MCMachineOf == [n \in Nick |-> IF n \in Loners THEN n ELSE "shared"]
MCLinksOf   == [p \in Pull |-> Issue]
MCAuthorOf  == [p \in Pull |-> {}]

BoundedInit == Init /\ begun = 0

BoundedNext ==
    \/ begun < BeginBound /\ begun' = begun + 1 /\ Begin
    \/ Continue /\ UNCHANGED begun

BoundedSpec == BoundedInit /\ [][BoundedNext]_<<vars, begun>>

Symmetry == Permutations(Loners) \cup Permutations(Nick \ Loners)
=============================================================================
