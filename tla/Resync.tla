------------------------------- MODULE Resync -------------------------------
(***************************************************************************)
(* The queue against GitHub: webhooks that come late, out of order or not  *)
(* at all, and the resync that rebuilds the queue from three GETs made one *)
(* after the other.  Two threads run it: the scheduler's own, and the      *)
(* chair's for !resync; nothing keeps them apart but queue_lock.  When a   *)
(* seat that left is released is the business of QuitGrace; here it may    *)
(* happen at any time.                                                     *)
(*                                                                         *)
(* One repository, not ignored, below the one page that the client reads.  *)
(* A pull request that was merged counts as waiting for its UAT until it   *)
(* is stamped: the list of closed ones is taken to say which were merged.  *)
(* Each handler of queue.json is atomic here, as in JobQueue.              *)
(***************************************************************************)
EXTENDS QueueDoc

CONSTANTS
    LinksOf,        \* the issues a pull request's title and body close
    MaxHub,         \* bound: changes on GitHub
    MaxResyncCmds,  \* bound: !resync
    NoFetch         \* no resync is running

ASSUME ResyncAssumption ==
    /\ LinksOf \in [Pull -> SUBSET Issue]
    /\ MaxHub \in Nat /\ MaxResyncCmds \in Nat

Runner == {"scheduler", "chair"}

VARIABLES
    queue,          \* queue.json
    issue, pull,    \* GitHub: the state of each issue and pull request
    wire,           \* webhooks on their way
    fetch,          \* the resyncs in progress: what each has read so far
    ready,          \* orphan_release_allowed: NAMES were read and 600 s passed
    moded,          \* the nicks ModeGrants has seen a mode of: mode_grants.state.modes
    hubSteps, resyncCmds

resyncVars == <<queue, issue, pull, wire, fetch, ready, moded, hubSteps, resyncCmds>>

hubVars  == <<issue, pull, wire, hubSteps>>
seatVars == <<ready, moded>>

Event == ({"opened", "closed"} \X Issue) \cup ({"pushed", "merged", "unmerged"} \X Pull)

Fetch == [issues : (SUBSET Issue) \cup {NoFetch}, pulls : (SUBSET Pull) \cup {NoFetch},
          merged : (SUBSET Pull) \cup {NoFetch}, release : BOOLEAN, nicks : SUBSET Nick]

ResyncTypeOK ==
    /\ queue \in Doc
    /\ \A r \in queue.accepted : r.nick # NoNick
    /\ \A r \in queue.unaccepted : r.nick = NoNick
    /\ issue \in [Issue -> {"open", "closed"}]
    /\ pull \in [Pull -> {"none", "open", "closed", "merged", "stamped"}]
    /\ wire \subseteq Event
    /\ fetch \in [Runner -> Fetch \cup {NoFetch}]
    /\ ready \in BOOLEAN /\ moded \subseteq Nick
    /\ hubSteps \in 0 .. MaxHub /\ resyncCmds \in 0 .. MaxResyncCmds

\* Jeeves starts with an empty queue and a repository that has a history.
ResyncInit ==
    /\ queue = EmptyQueue
    /\ issue \in [Issue -> {"open", "closed"}]
    /\ pull \in [Pull -> {"none", "open", "merged"}]
    /\ wire = {}
    /\ fetch = [t \in Runner |-> NoFetch]
    /\ ready = FALSE
    /\ moded = {}
    /\ hubSteps = 0 /\ resyncCmds = 0

-----------------------------------------------------------------------------
(* What GitHub shows, and the queue made of it.                            *)

OpenIssues  == {i \in Issue : issue[i] = "open"}
OpenPulls   == {p \in Pull : pull[p] = "open"}
AwaitingUat == {p \in Pull : pull[p] = "merged"}

UatId(p) == IF LinksOf[p] = {} THEN p ELSE CHOOSE i \in LinksOf[p] : TRUE

\* build_outstanding: rows without the links and seats a webhook's row has.
Outstanding(issues, pulls, merged) ==
    {NewRow("MRB", p) : p \in pulls}
        \cup {NewRow("FR", i) : i \in issues \ UNION {LinksOf[p] : p \in pulls}}
        \cup {NewRow("UAT", UatId(p)) : p \in merged}

Found(f) == Outstanding(f.issues, f.pulls, f.merged)

\* desired_by_ident: a UAT, whose seq is the later one, hides an FR of its id.
Shapes(f, r) ==
    LET same == {d \in Found(f) : d.id = r.id}
        uat  == {d \in same : d.task = "UAT"}
    IN  IF uat # {} THEN uat ELSE same

\* The variant that takes every seat the resync did not see for gone.
KeepsUnready(f, r) == r.nick \in f.nicks /\ Shapes(f, r) # {}

\* An accepted row stays: always before orphans may be released, else when its
\* seat was connected as the fetch began and GitHub has a job of its id.
Keeps(f, r) == ~f.release \/ (r.nick \in f.nicks /\ Shapes(f, r) # {})

Retyped(f, r) == IF Shapes(f, r) = {} THEN {r} ELSE {[r EXCEPT !.task = d.task] : d \in Shapes(f, r)}

\* The variant that adds what is missing and removes nothing.
ReconciledAdds(q, f) ==
    [q EXCEPT !.unaccepted = @ \cup {d \in Found(f) : \A r \in Open(q) : r.id # d.id}]

\* The variant that queues all GitHub shows, also what is in work.
ReconciledDoubles(q, f) ==
    [q EXCEPT !.accepted   = {r \in @ : Keeps(f, r)},
              !.unaccepted = Found(f)]

\* The variant that puts a released row back as its seat held it.
ReconciledAsHeld(q, f) ==
    LET kept == {r \in q.accepted : Keeps(f, r)}
    IN  [q EXCEPT !.accepted   = kept,
                  !.unaccepted = (q.accepted \ kept)
                                    \cup {d \in Found(f) : \A a \in q.accepted : a.id # d.id}]

\* _reconcile_queue_locked: what waits is rebuilt, what is accepted is kept,
\* retyped, released or dropped.
Reconciled(q, f) ==
    LET kept     == {r \in q.accepted : Keeps(f, r)}
        accepted == UNION {Retyped(f, r) : r \in kept}
        released == UNION {Shapes(f, r) : r \in {s \in q.accepted \ kept : s.nick \notin f.nicks}}
    IN  [q EXCEPT !.accepted   = accepted,
                  !.unaccepted = released \cup {d \in Found(f) : \A a \in accepted : a.id # d.id}]

-----------------------------------------------------------------------------
(* GitHub and its webhooks.                                                *)

HubChange(newIssue, newPull, events) ==
    /\ hubSteps < MaxHub
    /\ hubSteps' = hubSteps + 1
    /\ issue' = newIssue
    /\ pull' = newPull
    /\ wire' = wire \cup events
    /\ UNCHANGED <<queue, fetch, seatVars, resyncCmds>>

OpenIssue(i) ==
    /\ issue[i] = "closed"
    /\ HubChange([issue EXCEPT ![i] = "open"], pull, {<<"opened", i>>})

CloseIssue(i) ==
    /\ issue[i] = "open"
    /\ HubChange([issue EXCEPT ![i] = "closed"], pull, {<<"closed", i>>})

OpenPull(p) ==
    /\ pull[p] \in {"none", "closed"}
    /\ HubChange(issue, [pull EXCEPT ![p] = "open"], {<<"pushed", p>>})

ClosePull(p) ==
    /\ pull[p] = "open"
    /\ HubChange(issue, [pull EXCEPT ![p] = "closed"], {<<"unmerged", p>>})

\* GitHub closes the issues a merged pull request links.
MergePull(p) ==
    /\ pull[p] = "open"
    /\ LET shut == LinksOf[p] \cap OpenIssues
       IN  HubChange([i \in Issue |-> IF i \in shut THEN "closed" ELSE issue[i]],
                     [pull EXCEPT ![p] = "merged"],
                     {<<"merged", p>>} \cup ({"closed"} \X shut))

Stamp(p) ==
    /\ pull[p] = "merged"
    /\ HubChange(issue, [pull EXCEPT ![p] = "stamped"], {})

\* apply_queue_event, while a resync runs or not
Applied(e) ==
    CASE e[1] = "opened"   -> AfterFr(queue, e[2])
      [] e[1] = "closed"   -> AfterClose(queue, e[2])
      [] e[1] = "pushed"   -> AfterMrb(queue, e[2], LinksOf[e[2]], {})
      [] e[1] = "merged"   -> AfterUat(queue, e[2], LinksOf[e[2]])
      [] e[1] = "unmerged" -> AfterUnmerged(queue, e[2], LinksOf[e[2]])

Deliver(e) ==
    /\ e \in wire
    /\ wire' = wire \ {e}
    /\ queue' = Applied(e)
    /\ UNCHANGED <<issue, pull, fetch, hubSteps, seatVars, resyncCmds>>

-----------------------------------------------------------------------------
(* A resync: ResyncScheduler.run_once.                                     *)

\* connected_worker_nicks is read before GitHub is, and only if orphans may be
\* released: every nick that ever had a mode, here or not.
StartResync(t) ==
    /\ fetch[t] = NoFetch
    /\ fetch' = [fetch EXCEPT ![t] =
                    [issues |-> NoFetch, pulls |-> NoFetch, merged |-> NoFetch,
                     release |-> ready, nicks |-> IF ready THEN moded ELSE {}]]
    /\ UNCHANGED <<queue, hubVars, seatVars>>

\* !resync: the chair reads no line until its resync is done.
ResyncCommand ==
    /\ resyncCmds < MaxResyncCmds
    /\ resyncCmds' = resyncCmds + 1
    /\ StartResync("chair")

GetIssues(t) ==
    /\ fetch[t] # NoFetch /\ fetch[t].issues = NoFetch
    /\ fetch' = [fetch EXCEPT ![t].issues = OpenIssues]
    /\ UNCHANGED <<queue, hubVars, seatVars, resyncCmds>>

GetPulls(t) ==
    /\ fetch[t] # NoFetch /\ fetch[t].issues # NoFetch /\ fetch[t].pulls = NoFetch
    /\ fetch' = [fetch EXCEPT ![t].pulls = OpenPulls]
    /\ UNCHANGED <<queue, hubVars, seatVars, resyncCmds>>

GetClosedPulls(t) ==
    /\ fetch[t] # NoFetch /\ fetch[t].pulls # NoFetch /\ fetch[t].merged = NoFetch
    /\ fetch' = [fetch EXCEPT ![t].merged = AwaitingUat]
    /\ UNCHANGED <<queue, hubVars, seatVars, resyncCmds>>

\* GitHub is down: the queue stays as it is.
FetchFails(t) ==
    /\ fetch[t] # NoFetch /\ fetch[t].merged = NoFetch
    /\ fetch' = [fetch EXCEPT ![t] = NoFetch]
    /\ UNCHANGED <<queue, hubVars, seatVars, resyncCmds>>

Reconcile(t) ==
    /\ fetch[t] # NoFetch /\ fetch[t].merged # NoFetch
    /\ queue' = Reconciled(queue, fetch[t])
    /\ fetch' = [fetch EXCEPT ![t] = NoFetch]
    /\ UNCHANGED <<hubVars, seatVars, resyncCmds>>

-----------------------------------------------------------------------------
(* Seats.                                                                  *)

AckJob(n, r) ==
    /\ r \in queue.unaccepted
    /\ \E res \in AckResults(queue, n, r.task, r.id) : queue' = res.queue
    /\ UNCHANGED <<fetch, hubVars, seatVars, resyncCmds>>

DoneJob(n, r, result) ==
    /\ r \in queue.accepted /\ r.nick = n
    /\ queue' \in AfterDone(queue, n, r.task, r.id, result, NoPull)
    /\ UNCHANGED <<fetch, hubVars, seatVars, resyncCmds>>

\* note_names_complete and the grace time since the start
BecomesReady ==
    /\ ~ready
    /\ ready' = TRUE
    /\ UNCHANGED <<queue, fetch, hubVars, moded, resyncCmds>>

\* A MODE line, or a prefix in NAMES, for a seat that is on IRC.  No QUIT takes
\* it back, so whether a seat is still there makes no difference here.
NoteMode(n) ==
    /\ n \notin moded
    /\ moded' = moded \cup {n}
    /\ UNCHANGED <<queue, fetch, hubVars, ready, resyncCmds>>

\* A seat gone for longer than its grace, or not heard of for its time to live.
ReleaseSeat(n) ==
    /\ \E r \in queue.accepted : r.nick = n
    /\ queue' = AfterRelease(queue, n)
    /\ UNCHANGED <<fetch, hubVars, seatVars, resyncCmds>>

\* The process stops and starts again: queue.json stays; resyncs in progress and
\* what was known of the seats are gone, and the grace begins anew.
Restart ==
    /\ fetch' = [t \in Runner |-> NoFetch]
    /\ ready' = FALSE /\ moded' = {}
    /\ UNCHANGED <<queue, hubVars, resyncCmds>>

-----------------------------------------------------------------------------

HubNext ==
    \/ \E i \in Issue : OpenIssue(i) \/ CloseIssue(i)
    \/ \E p \in Pull : OpenPull(p) \/ ClosePull(p) \/ MergePull(p) \/ Stamp(p)

ResyncStep ==
    \/ StartResync("scheduler") /\ UNCHANGED resyncCmds
    \/ ResyncCommand
    \/ \E t \in Runner : GetIssues(t) \/ GetPulls(t) \/ GetClosedPulls(t) \/ FetchFails(t) \/ Reconcile(t)

\* The chair's thread, when it runs no resync itself.
SeatNext ==
    /\ fetch["chair"] = NoFetch
    /\ \/ BecomesReady
       \/ \E n \in Nick :
           \/ NoteMode(n) \/ ReleaseSeat(n)
           \/ \E r \in queue.unaccepted : AckJob(n, r)
           \/ \E r \in queue.accepted, result \in {"pass", "fail"} : DoneJob(n, r, result)

ResyncNext ==
    \/ HubNext
    \/ \E e \in wire : Deliver(e)
    \/ ResyncStep
    \/ SeatNext
    \/ Restart

ResyncSpec == ResyncInit /\ [][ResyncNext]_resyncVars

\* The scheduler's thread runs every interval_s and GitHub answers again and
\* again, also between restarts.  A webhook may never arrive: Deliver has no
\* fairness.
FairResyncSpec ==
    /\ ResyncSpec
    /\ WF_resyncVars(StartResync("scheduler") /\ UNCHANGED resyncCmds)
    /\ SF_resyncVars(GetIssues("scheduler"))
    /\ SF_resyncVars(GetPulls("scheduler"))
    /\ SF_resyncVars(GetClosedPulls("scheduler"))
    /\ SF_resyncVars(Reconcile("scheduler"))

-----------------------------------------------------------------------------
\* What waits and what is in work is what GitHub shows.
Converged ==
    LET now == Outstanding(OpenIssues, OpenPulls, AwaitingUat)
    IN  /\ \A d \in now : \E r \in Open(queue) : r.id = d.id
        /\ \A r \in queue.unaccepted : \E d \in now : SameJob(d, r)

\* Whatever webhooks were lost or came in the wrong order, and whatever the
\* seats do, the resync brings the queue back to what GitHub shows, again and
\* again (README, FR #25; run_resync).
ResyncConverges == []<>Converged

\* A resync of however stale a snapshot leaves every review one row, in work or
\* waiting, while no two seats are at work on the same number.
OneSeatPerId(q) == \A r, s \in q.accepted : r.id = s.id => r = s

ResyncKeepsReviewsSingle ==
    [][(\E t \in Runner : Reconcile(t)) /\ OneSeatPerId(queue) => ReviewsOnce(queue')]_resyncVars

\* FR #105: until membership is known and the grace is over, no resync takes a
\* job from the seat that has it.
BootKeepsSeats ==
    [][~ready /\ (\E t \in Runner : Reconcile(t)) =>
         \A r \in queue.accepted : \E s \in queue'.accepted : s.nick = r.nick /\ s.id = r.id]_resyncVars
=============================================================================
