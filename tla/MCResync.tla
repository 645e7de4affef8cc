------------------------------ MODULE MCResync ------------------------------
(***************************************************************************)
(* Small instances of Resync for TLC.  Every pull request closes every     *)
(* issue; all seats are of one machine.                                    *)
(***************************************************************************)
EXTENDS Resync

MCMachineOf == [n \in Nick |-> "shared"]
MCLinksOf   == [p \in Pull |-> Issue]
=============================================================================
