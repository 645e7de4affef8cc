----------------------------- MODULE MCAuthors ------------------------------
(***************************************************************************)
(* MCAssign with the memory the program does not keep: which seats said    *)
(* DONE FR with the url of which pull request.                             *)
(***************************************************************************)
EXTENDS MCAssign

VARIABLE wrote      \* the seats that wrote a pull request

WroteInit == AssignInit /\ wrote = [p \in Pull |-> {}]

\* A DONE of an FR the seat holds, with a pull request's url
Writes(n, task, id, pull) ==
    /\ pull # NoPull
    /\ MineRows(queue, n, task, id) # {}
    /\ task = "FR"

WroteDone(n, task, id, result, pull) ==
    /\ DoneJob(n, task, id, result, pull)
    /\ IF Writes(n, task, id, pull)
       THEN wrote' = [wrote EXCEPT ![pull] = @ \cup {n}]
       ELSE UNCHANGED wrote

WroteNext ==
    \/ \E n \in Nick, task \in Task, id \in Ident, result \in {"pass", "fail"},
          pull \in Pull \cup {NoPull} : WroteDone(n, task, id, result, pull)
    \/ /\ \/ \E n \in Nick : Bored(n)
          \/ AckJobSome
          \/ SweepSome
          \/ QueueOnly
       /\ UNCHANGED wrote

WroteSpec == WroteInit /\ [][WroteNext]_<<assignVars, wrote>>

\* The review of a pull request is not offered to the seat that wrote it.
\* tests/test_mrb_same_seat_fr224.py:1: "never offer MRB of a PR to the seat
\* that just DONE FR'd it."
AuthorNeverReviews ==
    \A n \in Nick, p \in Pull : offers[n] = [task |-> "MRB", id |-> p] => n \notin wrote[p]
=============================================================================
