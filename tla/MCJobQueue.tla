----------------------------- MODULE MCJobQueue -----------------------------
(***************************************************************************)
(* Small instances of JobQueue for TLC.  Every pull request closes every   *)
(* issue and names no seat; each of the Loners is the one seat of its      *)
(* machine, the other seats share a machine.                               *)
(***************************************************************************)
EXTENDS JobQueue, TLC

CONSTANT Loners

MCMachineOf == [n \in Nick |-> IF n \in Loners THEN n ELSE "shared"]
MCLinksOf   == [p \in Pull |-> Issue]
MCAuthorOf  == [p \in Pull |-> {}]

Symmetry ==
    Permutations(Loners) \cup Permutations(Nick \ Loners) \cup Permutations(Pull)

\* The bound of the runs: a row names at most one seat that wrote, reviewed or
\* gave it up.  No rule of JobQueue reads these fields, it only copies them.
OneNamedSeat ==
    \A r \in Open(queue) \cup DoneRows(queue) : Cardinality(r.gaveup \cup r.seats) <= 1
=============================================================================
