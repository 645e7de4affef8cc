------------------------------ MODULE JobQueue ------------------------------
(***************************************************************************)
(* The work queue of Jeeves when every operation on queue.json is atomic:  *)
(* GitHub's webhooks and the seats' ACK, NACK, DONE and departures change  *)
(* one document.  This is what queue_lock is there to give the code;       *)
(* QueueFile models the threads that load, change and save the file, and   *)
(* where the lock is not taken.                                            *)
(*                                                                         *)
(* Webhooks come in any order and any number of times: GitHub delivers     *)
(* again what was not answered, does not order deliveries, and people open *)
(* and close what they like.  A seat may ACK, NACK or DONE any job it can  *)
(* name; the chair does not require that it was offered.                   *)
(***************************************************************************)
EXTENDS QueueDoc

CONSTANTS
    LinksOf,        \* the issues a pull request's title and body close
    AuthorOf,       \* the seat its "Agent:" trailer names, as a set
    FixPull         \* pull requests titled as the fix of a failed MRB

ASSUME PullAssumption ==
    /\ LinksOf \in [Pull -> SUBSET Issue]
    /\ AuthorOf \in [Pull -> SUBSET Nick]
    /\ FixPull \subseteq Pull

\* No seat is called like a state of ReviewLease.
ASSUME NickAssumption == "absent" \notin Nick /\ "queued" \notin Nick

VARIABLES
    queue,          \* queue.json
    ignored         \* the repository is on the !ignore list

vars == <<queue, ignored>>

TypeOK == queue \in Doc /\ ignored \in BOOLEAN

Init == queue = EmptyQueue /\ ignored = FALSE

-----------------------------------------------------------------------------
(* Webhooks: claim_from_payload and apply_queue_event.  An ignored         *)
(* repository's claims change nothing.                                     *)

\* The variant that does not ask the !ignore list.
WebhookUnasked(doc) == queue' = doc /\ UNCHANGED ignored

Webhook(doc) == ~ignored /\ queue' = doc /\ UNCHANGED ignored

IssueOpened(i) == Webhook(AfterFr(queue, i))

IssueClosed(i) == Webhook(AfterClose(queue, i))

PullPushed(p) == p \notin FixPull /\ Webhook(AfterMrb(queue, p, LinksOf[p], AuthorOf[p]))

PullMerged(p) == p \notin FixPull /\ Webhook(AfterUat(queue, p, LinksOf[p]))

PullClosed(p) == Webhook(AfterUnmerged(queue, p, LinksOf[p]))

-----------------------------------------------------------------------------
(* Seats: the queue's share of the shop's ACK, NACK and DONE handlers.     *)

\* The handler posts the accepted row back as a report, which may fail.
Ack(n, task, id) ==
    \E res \in AckResults(queue, n, task, id) :
        /\ \/ queue' = res.queue
           \/ \E r \in res.row : queue' = AfterQueueAccept(res.queue, r)
        /\ UNCHANGED ignored

Nack(n, task, id) == queue' \in AfterNack(queue, n, task, id) /\ UNCHANGED ignored

\* An ignored repository's pull request is not queued by the DONE of its FR.
Done(n, task, id, result, pull) ==
    /\ ignored => pull = NoPull
    /\ queue' \in AfterDone(queue, n, task, id, result, pull)
    /\ UNCHANGED ignored

\* A seat that quit or went stale: release_worker.
Release(n) == queue' = AfterRelease(queue, n) /\ UNCHANGED ignored

\* ChairAssignState.decide, as far as it changes the queue: MRB rows that are
\* merged or done go, and the done FR rows it comes to before its pick.
OfferScan ==
    /\ LET q == AfterPurgeDeadMrb(AfterPurgeStaleMrb(queue))
       IN  \E rows \in SUBSET DeadFrs(q) : queue' = AfterPurgeRows(q, rows)
    /\ UNCHANGED ignored

\* !ignore and !unignore
Ignore == ignored' = TRUE /\ queue' = AfterIgnore(queue)

Unignore == ignored /\ ignored' = FALSE /\ UNCHANGED queue

-----------------------------------------------------------------------------

AckSome == \E n \in Nick, task \in Task, id \in Ident : Ack(n, task, id)

NackSome == \E n \in Nick, task \in Task, id \in Ident : Nack(n, task, id)

DoneSome ==
    \E n \in Nick, task \in Task, id \in Ident, result \in {"pass", "fail"},
       pull \in Pull \cup {NoPull} : Done(n, task, id, result, pull)

ReleaseSome == \E n \in Nick : Release(n)

Next ==
    \/ \E i \in Issue : IssueOpened(i) \/ IssueClosed(i)
    \/ \E p \in Pull : PullPushed(p) \/ PullMerged(p) \/ PullClosed(p)
    \/ AckSome
    \/ NackSome
    \/ DoneSome
    \/ ReleaseSome
    \/ OfferScan
    \/ Ignore
    \/ Unignore

Spec == Init /\ [][Next]_vars

-----------------------------------------------------------------------------
(* Properties.                                                             *)

\* A review has one row: the code drops the earlier MRB or UAT row of the same
\* pull request or issue from both buckets whenever it queues one, and every
\* move between the buckets takes the row out of the other, so no review is
\* offered twice or offered while somebody holds it.
OneReviewRow == ReviewsOnce(queue)

\* K15: while an issue is held because the MRB of its pull request failed, no
\* UAT of it is queued or in work, whatever merges, closes and retries follow.
HeldIssueHasNoUat == HeldHaveNoUat(queue)

\* Two seats of one machine never hold the same job: a second seat's ACK takes
\* the row over instead of adding one.
OneSeatPerMachine == MachinesHoldOnce(queue)

\* An ignored repository has no open row: nothing that happens after !ignore
\* (a webhook, a late DONE, a departure) brings one back.
IgnoredHasNoRow == ignored => Open(queue) = {}

\* Taking a job, giving it up and leaving never lose a job from the queue, as
\* long as the accepted rows stay below their cap.
SeatsKeepJobs ==
    [][(AckSome \/ NackSome \/ ReleaseSome) /\ Cardinality(queue.accepted) < AcceptedCap
         => Jobs(queue) \subseteq Jobs(queue')]_vars

-----------------------------------------------------------------------------
(* What the repository says of the queue and the code does not do.         *)

\* An FR whose issue has an open MRB is not in the offerable queue.
\* src/jeeves/queue.py:839: "FR #134: open MRB that links this issue keeps FR
\* out of the offerable queue."
OpenMrbKeepsFrOut ==
    \A r \in queue.unaccepted : r.task = "FR" => ~SupersededByMrb(queue, r.id)

\* K15: the FR that a failed MRB restored is still queued after an offer.
\* docs/functional-spec.md:26: "FAIL one fix PR, merge both, FR stays open".
OffersKeepHeldFrs ==
    [][OfferScan => \A r \in queue.unaccepted :
                      r.task = "FR" /\ r.id \in queue.hold => r \in queue'.unaccepted]_vars

-----------------------------------------------------------------------------
(* The queue implements ReviewLease.                                       *)

MrbHolders(q, p) == {r.nick : r \in {a \in q.accepted : IsJob(a, "MRB", p)}}

MrbQueued(q, p) == \E r \in q.unaccepted : IsJob(r, "MRB", p)

LeaseOf(q, p) ==
    IF MrbHolders(q, p) # {} THEN CHOOSE n \in MrbHolders(q, p) : TRUE
    ELSE IF MrbQueued(q, p) THEN "queued" ELSE "absent"

lease == [p \in Pull |-> LeaseOf(queue, p)]

Lease == INSTANCE ReviewLease WITH Absent <- "absent", Queued <- "queued"

\* The review of a pull request is with one seat at a time and never jumps from
\* machine to machine: what ACK, takeover, NACK, departure, merge, failure and a
\* new push do to MRB rows are steps of ReviewLease.
ImplementsLease == Lease!Spec

=============================================================================
