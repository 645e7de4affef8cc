---------------------------- MODULE ReviewLease ----------------------------
(***************************************************************************)
(* What the queue promises about the review of a pull request: it is not   *)
(* asked for, or it waits, or exactly one seat has it.  A seat gets it     *)
(* only when it waits, or from another seat of its own machine that it     *)
(* replaces; it never passes from one machine to another directly.  One    *)
(* step may end, requeue or hand on several reviews (a seat that leaves).  *)
(***************************************************************************)
CONSTANTS
    Pull, Nick, MachineOf,
    Absent, Queued      \* two values that are not nicks

VARIABLE lease      \* who has the review of each pull request

TypeOK == lease \in [Pull -> Nick \cup {Absent, Queued}]

Init == lease = [p \in Pull |-> Absent]

MayFollow(old, new) ==
    \/ new \in {old, Absent, Queued}
    \/ old = Queued /\ new \in Nick
    \/ old \in Nick /\ new \in Nick /\ MachineOf[old] = MachineOf[new]

Next == /\ lease' \in [Pull -> Nick \cup {Absent, Queued}]
        /\ \A p \in Pull : MayFollow(lease[p], lease'[p])

Spec == Init /\ [][Next]_lease
=============================================================================
