---------------------------- MODULE MCPeriphery -----------------------------
(***************************************************************************)
(* The components around the queue in one run: the values of their         *)
(* constants.                                                              *)
(***************************************************************************)
EXTENDS Periphery

CONSTANTS fi, fp        \* an issue, and the pull request that closes it

MCMachineOfSeat == [s \in Seat |-> "m"]

MCSucceeds == [i \in Item |-> IF i = fp THEN {fi} ELSE {}]

MCTroubleOf == [r \in ErrorReport |-> "t"]

MCMachineNamed ==
    [n \in MachineName |-> CASE n = "dev1" -> "dev" [] n = "dev" -> "dev" [] n = "all" -> Fleet
                             [] OTHER -> NoMachine]
=============================================================================
