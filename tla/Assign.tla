------------------------------- MODULE Assign -------------------------------
(***************************************************************************)
(* The chair's assignment of jobs: a seat says !bored and is offered one   *)
(* waiting row; it ACKs in time or the offer runs out.  offers.json        *)
(* (ChairAssignState) on top of JobQueue, whose operations it embeds.      *)
(*                                                                         *)
(* Time is left out: an open offer may be found due at any moment, and a   *)
(* give-up cooldown, like a pull request GitHub does not confirm or a job  *)
(* for the chair's machine, is a row the pick may pass over.  The order of *)
(* the rows is what people's !focus makes it, so any row may come first    *)
(* and a strict focus may hide them all.                                   *)
(*                                                                         *)
(* A crash of the chair changes nothing here by itself: offers.json is     *)
(* saved with every change and loaded at start.  It can come between the   *)
(* queue's save and the offers' save, which AckJob and DoneJob allow.      *)
(***************************************************************************)
EXTENDS JobQueue

CONSTANTS
    MaxOfferAttempts,       \* DEFAULT_MAX_OFFER_ATTEMPTS
    NoJob                   \* no open offer

Job == [task : Task, id : Ident]

ASSUME OfferAssumption ==
    /\ MaxOfferAttempts \in Nat \ {0}
    /\ NoJob \notin Job

VARIABLES
    offers,         \* the job each seat was offered: open
    attempts        \* offers of a job to a seat that ran out: attempts

offerVars == <<offers, attempts>>

assignVars == <<queue, ignored, offers, attempts>>

AssignTypeOK ==
    /\ TypeOK
    /\ offers \in [Nick -> Job \cup {NoJob}]
    /\ attempts \in [Nick -> [Job -> 0 .. MaxOfferAttempts]]

NoAttempts == [j \in Job |-> 0]

AssignInit ==
    /\ Init
    /\ offers = [n \in Nick |-> NoJob]
    /\ attempts = [n \in Nick |-> NoAttempts]

-----------------------------------------------------------------------------
(* Offers.                                                                 *)

JobOf(r) == [task |-> r.task, id |-> r.id]

OfferedTo(n) == offers[n] # NoJob

\* expire_timed_out, for the seats whose offers are due
OffersWithout(due) == [n \in Nick |-> IF n \in due THEN NoJob ELSE offers[n]]

\* The variant that counts a timed-out offer twice, on sweep and on !bored.
AttemptsTwice(due) ==
    [n \in Nick |-> [j \in Job |-> IF n \in due /\ offers[n] = j
                                   THEN attempts[n][j] + 2
                                   ELSE attempts[n][j]]]

AttemptsAfter(due) ==
    [n \in Nick |-> [j \in Job |-> IF n \in due /\ offers[n] = j
                                   THEN attempts[n][j] + 1
                                   ELSE attempts[n][j]]]

\* clear
Clear(n) ==
    /\ offers' = [offers EXCEPT ![n] = NoJob]
    /\ attempts' = [attempts EXCEPT ![n] = NoAttempts]

\* review_blocked_for_author
AuthorBlocked(r, n, live) ==
    /\ r.task \in {"MRB", "UAT"}
    /\ \E a \in r.seats :
          \/ a = n /\ (r.task = "MRB" \/ live \ {n} # {})
          \/ /\ a # n
             /\ MachineOf[a] = MachineOf[n]
             /\ \E m \in live : MachineOf[m] # MachineOf[n]

Busy(n) == \E r \in queue.accepted : r.nick = n

\* The variant that lets a second seat have a job that is on offer.
OfferableAgain(q, open, tried, n, live) ==
    {r \in q.unaccepted :
        /\ \A a \in q.accepted : ~SameJob(a, r)
        /\ r.task = "FR" => ~FrAlreadyDone(q, r.id)
        /\ ~AuthorBlocked(r, n, live)
        /\ r.giveups < NeedsHumanCount
        /\ tried[n][JobOf(r)] < MaxOfferAttempts}

\* The rows decide may pick for seat n, live being the seats it sees online.
Offerable(q, open, tried, n, live) ==
    {r \in q.unaccepted :
        /\ \A m \in Nick : open[m] # JobOf(r)
        /\ \A a \in q.accepted : ~SameJob(a, r)
        /\ r.task = "FR" => ~FrAlreadyDone(q, r.id)
        /\ ~AuthorBlocked(r, n, live)
        /\ r.giveups < NeedsHumanCount
        /\ tried[n][JobOf(r)] < MaxOfferAttempts}

-----------------------------------------------------------------------------
(* Actions.                                                                *)

\* decide, for a seat that is busy or has an open offer, which is said again
BoredAgain(n, due) ==
    /\ Busy(n) \/ OffersWithout(due)[n] # NoJob
    /\ offers' = OffersWithout(due)
    /\ attempts' = AttemptsAfter(due)
    /\ UNCHANGED <<queue, ignored>>

\* The variant that picks before the purge of merged and done MRB rows.
BoredPickStale(n, due) ==
    LET open  == OffersWithout(due)
        tried == AttemptsAfter(due)
    IN  /\ ~Busy(n)
        /\ open[n] = NoJob
        /\ OfferScan
        /\ attempts' = tried
        /\ ~ignored
        /\ \E live \in SUBSET Nick : \E r \in Offerable(queue, open, tried, n, live \cup {n}) :
              offers' = [open EXCEPT ![n] = JobOf(r)]

\* decide, for a free seat: the purges, then an offer or "nothing queued"
BoredPick(n, due) ==
    LET open  == OffersWithout(due)
        tried == AttemptsAfter(due)
        q     == AfterPurgeDeadMrb(AfterPurgeStaleMrb(queue))
    IN  /\ ~Busy(n)
        /\ open[n] = NoJob
        /\ OfferScan
        /\ attempts' = tried
        /\ \/ offers' = open
           \/ /\ ~ignored
              /\ \E live \in SUBSET Nick : \E r \in Offerable(q, open, tried, n, live \cup {n}) :
                    offers' = [open EXCEPT ![n] = JobOf(r)]

Bored(n) ==
    \E due \in SUBSET {m \in Nick : OfferedTo(m)} : BoredAgain(n, due) \/ BoredPick(n, due)

\* The variant that leaves the offers of busy seats to their DONE.
SweepOffersIdle(due) ==
    /\ offers' = OffersWithout({n \in due : ~Busy(n)})
    /\ attempts' = AttemptsAfter({n \in due : ~Busy(n)})
    /\ UNCHANGED <<queue, ignored>>

\* The offer timeout of the chair's sweep.
SweepOffers(due) ==
    /\ offers' = OffersWithout(due)
    /\ attempts' = AttemptsAfter(due)
    /\ UNCHANGED <<queue, ignored>>

\* accept_job knows the job: accepted by the seat or its machine, or waiting.
Matched(n, task, id) ==
    MineRows(queue, n, task, id) \cup SiblingRows(queue, n, task, id)
        \cup WaitingRows(queue, task, id) # {}

\* Only an ACK that matched closes the offer.
AckJob(n, task, id) ==
    /\ Ack(n, task, id)
    /\ \/ Matched(n, task, id) /\ Clear(n)
       \/ UNCHANGED offerVars

\* Any DONE does, unless a report of it fails first.
DoneJob(n, task, id, result, pull) ==
    /\ Done(n, task, id, result, pull)
    /\ \/ Clear(n)
       \/ UNCHANGED offerVars

-----------------------------------------------------------------------------

AckJobSome == \E n \in Nick, task \in Task, id \in Ident : AckJob(n, task, id)

DoneJobSome ==
    \E n \in Nick, task \in Task, id \in Ident, result \in {"pass", "fail"},
       pull \in Pull \cup {NoPull} : DoneJob(n, task, id, result, pull)

\* What leaves the offers alone.
QueueOnly ==
    /\ \/ \E i \in Issue : IssueOpened(i) \/ IssueClosed(i)
       \/ \E p \in Pull : PullPushed(p) \/ PullMerged(p) \/ PullClosed(p)
       \/ NackSome
       \/ ReleaseSome
       \/ Ignore
       \/ Unignore
    /\ UNCHANGED offerVars

SweepSome == \E due \in SUBSET {n \in Nick : OfferedTo(n)} : due # {} /\ SweepOffers(due)

AssignNext ==
    \/ \E n \in Nick : Bored(n)
    \/ AckJobSome
    \/ DoneJobSome
    \/ SweepSome
    \/ QueueOnly

AssignSpec == AssignInit /\ [][AssignNext]_assignVars

\* The chair's loop sweeps every minute and every offer is due after 90 s.
Fairness ==
    \A n \in Nick :
        WF_assignVars(\E due \in SUBSET {m \in Nick : OfferedTo(m)} : n \in due /\ SweepOffers(due))

FairAssignSpec == AssignSpec /\ Fairness

-----------------------------------------------------------------------------
(* Properties.                                                             *)

\* Two seats never have an open offer of the same job, whatever timeouts, late
\* ACKs, requeues and departures come between the offers.
OneOfferPerJob ==
    \A m, n \in Nick : m # n /\ OfferedTo(m) => offers[m] # offers[n]

\* A new offer names a row that still waits when decide is through with its
\* purges, that nobody holds, and goes to a seat that holds nothing.
FreshOffersWait ==
    [][\A n \in Nick : offers'[n] \notin {NoJob, offers[n]} =>
          /\ \E r \in queue'.unaccepted : JobOf(r) = offers'[n]
          /\ \A a \in queue'.accepted : JobOf(a) # offers'[n] /\ a.nick # n]_assignVars

\* An open offer does not stay open, whatever its seat does meanwhile: the job
\* becomes free for others.
OffersClose == \A n \in Nick : OfferedTo(n) ~> ~OfferedTo(n)
=============================================================================
