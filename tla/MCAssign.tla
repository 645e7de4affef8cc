------------------------------ MODULE MCAssign ------------------------------
(***************************************************************************)
(* Small instances of Assign for TLC.  Each of the Loners is the one seat  *)
(* of its machine, the other seats share a machine.                        *)
(***************************************************************************)
EXTENDS Assign, TLC

CONSTANTS
    Loners,
    RowBound,       \* bound of the runs: open rows at once
    TimeoutBound    \* bound of the runs: timed-out offers remembered at once

MCMachineOf == [n \in Nick |-> IF n \in Loners THEN n ELSE "shared"]
MCLinksOf   == [p \in Pull |-> Issue]
MCAuthorOf  == [p \in Pull |-> {}]

Timeouts == {t \in Nick \X Job : attempts[t[1]][t[2]] # 0}

Symmetry == Permutations(Loners) \cup Permutations(Nick \ Loners)

Bounded ==
    /\ Cardinality(Open(queue)) <= RowBound
    /\ Cardinality(Timeouts) <= TimeoutBound
    /\ \A r \in Open(queue) \cup DoneRows(queue) : Cardinality(r.gaveup \cup r.seats) <= 1
=============================================================================
