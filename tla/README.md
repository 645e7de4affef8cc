# Jeeves: a verification of its work queue and of what surrounds it

Jeeves watches GitHub through webhooks, announces what happens on IRC, and hands the work it calls for to
worker seats (IRC nicks of the form `{machine}-{pid}`) that say `!bored`. It is a deterministic service: no
language model decides anything in it. The heart of it is one JSON document, `queue.json`, that two threads
and a periodic resync change by rules that have grown issue by issue; a second document, `offers.json`, says
which seat was offered what. Around it stand small stores and protocols of their own: the outbox of
announcements, the IRC connection, mode grants, the quit grace, the focus list, the digest, intake, exception
reports. This directory models them, checks the models with TLC on small instances, and proves the main
results with TLAPS for all instances.

All paths below are under `src/jeeves/` unless they say otherwise.

## 1. Inventory

| Component | Code | State | Operations | Talks to |
|---|---|---|---|---|
| Queue engine | `queue.py` | `queue.json`: unaccepted, accepted, done rows, `mrb_fail_hold`, workers | `apply_queue_event`, `accept_job`, `nack_job`, `complete_job`, `release_worker`, `expire_stale_workers`, purges | called by the chair, the receiver and the resync thread |
| Assignment | `assign.py`, `offer.py`, `capability.py` | `offers.json`: open offers, attempt counters | `decide`, `expire_timed_out`, `clear` | reads and purges the queue |
| Shop handlers | `roles.py`, `wire.py`, `commands.py`, `nicks.py` | pending quits, stale sweep clock | ACK, NACK, DONE, `!bored`, `!ignore`, quits, sweep | queue, offers, posts reports to the receiver |
| Receiver | `receiver.py`, `prod_receiver.py`, `jira_webhook.py` | its lock, announce lists | GIT webhook, report, intake | queue, digest, outbox |
| Digest | `digest.py` | `digest.json`: machines, their workers and tiles | `apply_report`, `public_digest_snapshot` | saves the queue as well; reads focus |
| Ignore list | `ignore.py` | `ignored.json` | ignore, unignore, purge | queue |
| Resync | `resync.py` | snapshot of GitHub, last run, boot time | `build_outstanding`, `reconcile_queue`, scheduler, `!resync` | queue, under `queue_lock` |
| Outbox, flood queue | `outbox_pos.py`, `flood_queue.py`, `announce.py`, `length_safe.py` | outbox file, position file, FIFO | append, drain, save position, lay out a line | receiver writes, chair reads |
| Focus | `focus.py` | `focus.json` | focus, strict, unfocus, retarget, purge | order of offers; written by chair and receiver |
| IRC connection | `tls_irc.py`, `channel_join.py`, `backoff.py`, `guard.py` | socket, join state, kick counts | connect, LIST, join, kick, reconnect | IRC server |
| Mode grants | `mode_grants.py`, `simon_auto_auth.py` | who has which mode, whose account is known | MODE, JOIN, ACCOUNT, NAMES, WHO lines, `!sweep` | IRC server; read by resync |
| Recycle | `recycle.py` | cooldowns | recycle machine, fleet | local seats |
| Intake, exceptions | `intake.py`, `exception_report.py`, `auth_secret.py` | idempotency files, outbox; index, spool | file a submission, drain; report, spool, drain | GitHub |
| Gates | `mrb_gate.py`, `cast_iron.py` | none | CI checks of texts | |
| Service | `__main__.py`, `singleton.py`, `health.py`, `versioning.py`, installers | pid file | start, health | |
| Tools, skills | `queue_tool.py`, `*_tool.py`, `tools/watch_jeeves_handoff.py`, `skills/` | none | reports for people | read the files and the log |

How they interact. In the usual deployment ("all") one process runs a receiver thread, the chair's loop, a
resync thread and some helpers. A webhook is answered by the receiver, which appends the announcement to the
outbox file and then applies its claim to the queue. The chair's loop drains the outbox, sweeps (offers after
90 s, quits after 120 s, stale seats after 30 min), and handles one IRC message at a time. After an ACK, NACK,
DONE or departure it POSTs reports to the receiver of its own process and waits up to 5 s for each; the
receiver serves them through `apply_report`, some of which save the queue again. The resync rebuilds the
waiting rows from what GitHub shows and asks the mode grants which seats are on IRC.

What is hard:

- **Order and repetition.** Webhooks come in any order and again. Rules about one issue are spread over the
  rows of its FR (the work), its MRB (the review of a pull request that closes it) and its UAT (the
  acceptance), and over the hold that a failed review puts on it. IRC shows one bob entering a channel in four
  kinds of lines.
- **Two actors, one job.** Seats ACK without an offer, late, twice, around a restart under another pid; two
  seats of one machine count as one worker; offers time out while the ACK is on its way.
- **Half-locked files.** `queue_lock` is taken by webhooks, ACK, DONE and the resync, not by NACK, releases,
  purges or reports. All of them write the same `queue.tmp`. `focus.json` and `digest.json` have two writers
  and no lock.
- **Stale views.** A resync applies three GETs made one after the other; an ear sends the rows it knew; a
  report arrives after the job moved on.
- **Partial failure.** A report may fail, or be given up and served later; a handler ends at the first failed
  report; the process may stop between any two saves, or between a call to GitHub and the note of it.
- **Absence.** A seat that quits may come back, under its nick or another one of its machine, while the chair
  itself is off IRC and hears neither.
- **Limits.** Accepted and done rows are capped, give-ups are counted up to a mark that asks for a human,
  timed-out offers are counted per seat and job; an IRC line has 512 bytes.

What makes each component correct: the *queue* offers and holds a review once, keeps the UAT of a failed
review out, loses no job between seats, holds a job once per machine and keeps nothing of an ignored
repository; the *assignment* offers a job to one seat at a time, offers only what waits, closes every offer
and does not let authors review themselves; the *file* keeps these under its two threads; *resync* brings the
queue back to what GitHub shows and takes no job from a seat right after a restart; the *outbox* loses and
replays no line; the *quit grace* takes a job only from a seat that stayed away, and does take it then; the
*connection* is in every channel, does not insist where it is refused and backs off; *grants* are sent once;
*focus* keeps its order and forgets finished items; *digest* shows what the table says; *intake* and
*exception reports* lose nothing and make nothing twice, save for named faults; the *singleton* admits one instance.

## 2. Plan

Most important first.

| Module | Models | Composes | Abstract specification | Theorems |
|---|---|---|---|---|
| `QueueDoc` | what each operation makes of the document | | | lemmas |
| `JobQueue` | operations as atomic actions | `QueueDoc` | `ReviewLease` | invariants, refinement, no job lost |
| `Assign` | offers on top of the queue | `JobQueue` | `JobQueue` | invariants, action property, refinement |
| `QueueFile` | two threads on the file | `QueueDoc` | serial saves (refuted) | the four invariants |
| `Resync` | stale snapshots beside webhooks and seats | `QueueDoc` | what GitHub shows (`Converged`) | type, two action properties |
| `FleetDigest` | table, digest, ears, late saves | | the table, in `TilesTrue` | `TilesTrue` |
| `QuitGrace` | quit, rejoin, deaf chair, stale sweep | | | `GraceKeepsSeats` |
| `ModeGrants` | modes learnt and granted | | | `GrantsOnce` |
| `ChairLink` | connection, LIST, JOIN, kicks | | | `RefusedStaysOut`, `StormBacksOff` |
| `Focus` | two writers of `focus.json` | | | `RanksInOrder` |
| `Outbox` | file, position, flood queue, crashes | | | `LinesAccounted`, `NoReplay` |
| `Intake` | submissions, key files, drain | | | `ToldIsKept`, `MadeOnce` |
| `Exceptions` | reports, index, spool, errors that escape | | | `ReportsKept`, `RateKept`, `OneIssuePerTrouble` |
| `Singleton` | check and write of the pid file | | | `OneInstance` |
| `HandoffWatch` | the scan of the service log | | the whole log, in `FindsOpenAcks` | `FindsOpenAcks`, `FindsDualAssigns` |
| `Recycle`, `LengthSafe` | cooldowns; layout of a line | | | `FewRecycles`, `LineReadsBack` |
| `Periphery` | the components around the queue, side by side | the twelve above | each component's own specification | `PeripheryTypeOK`, the safety of all of them |

All of this is written, and every invariant and safety property that a run checks is also a theorem. Left for
later: a `queue.tmp` that is renamed while it is written (section 7).

## 3. The modules and the code

### The queue

**`QueueDoc.tla`** has one pure operator per rule of `queue.py`, from a document to the next one (or to the
set of possible ones, where the code takes the first match of a list whose order the model leaves out).
`AfterFr`, `AfterMrb`, `AfterUat`, `AfterClose` and `AfterUnmerged` are the branches of
`_apply_queue_event_locked`; `AckResults`, `AfterNack`, `AfterDone`, `AfterRelease` are `accept_job`,
`nack_job`, `complete_job`, `release_worker`; the purges are those of `decide` and of `!ignore`. A row keeps
the fields some rule reads. One repository is modelled: no rule relates rows of two, except `!ignore`, which
purges the rows of its own. `done` is a sequence because its cap drops the oldest and because the author rule
takes the first; a done row keeps only what rules read of it. The count of give-ups goes on in the code;
`GivenUp` stops it at `NeedsHumanCount`, since every rule asks only whether that many are reached. The
variants whose comment says so (`SeatsAndNobody` and the like, here and in the other modules) are plausible
slips of the code that a check must notice.

**`JobQueue.tla`** makes each operation an atomic action of a state machine with the variables `queue` and
`ignored`. `Webhook` is `apply_queue_event` (an ignored repository's claim changes nothing). `Ack` may or may
not be followed by its own `queue_accept` report, which puts the row in again. Webhooks come in any order and
any number of times, and any seat may ACK, NACK, DONE any job: the chair asks only that the nick is a worker
in its own shop.

**`ReviewLease.tla`** is the promise about reviews: absent, queued, or with one seat, and from seat to seat
only within a machine. `JobQueue` maps its state to it (`LeaseOf`).

**`Assign.tla`** adds `offers` and `attempts` (`ChairAssignState.open`, `.attempts`). `Bored` is `decide`:
offers that are due run out first; a seat that is busy or has an open offer gets nothing new (`BoredAgain`);
else the purges and a pick (`BoredPick`). `Offerable` is the body of the loop over `ordered_unaccepted`, with
the author rule in `AuthorBlocked`. `SweepOffers` is the chair's periodic timeout. `AckJob` and `DoneJob` are
the queue's operation and then `on_ack`, which only a matched ACK reaches, or `on_done`; the process may stop
between the two. Everything else leaves offers alone (`QueueOnly`), so an offer may name a job that is gone,
held by somebody, or queued again.

**`QueueFile.tla`** takes the atomicity away. Two threads have a `draft` each: `Load` reads `queue.json` and
changes the copy, `Write` puts it in `queue.tmp`, `Rename` installs *whatever* `queue.tmp` holds, and
`RenameFails` ends the handler when the other thread has renamed it away. `Lock` is taken where the code takes
`queue_lock`. `todo` is the rest of a chair's handler: the second save of a DONE, still under the re-entrant
lock, the purges, the reports. `ChairGivesUp` leaves a report behind (`late`) that `ServeLate` may serve at
any later time. `Crash` drops all but the files. `overtaken` is a history variable: what others saved since a
thread loaded.

**`Resync.tla`** puts GitHub beside the queue: `issue` and `pull` are the states GitHub has, `wire` the
webhooks on their way, which may come late, in any order, or never. `StartResync` reads which seats are on IRC
(before the fetch, as `run_once` does), `GetIssues`, `GetPulls` and `GetClosedPulls` are the three GETs, each
of which may find a GitHub that has changed, `FetchFails` ends a run without a trace, and `Reconcile` is
`_reconcile_queue_locked`: waiting rows are rebuilt, accepted ones kept, retyped, released or dropped
(`Keeps`, `Retyped`). The scheduler and the chair's `!resync` are two `Runner`s; nothing but the lock of the
last step keeps them apart. While the chair's own runs, the chair handles nothing else. `moded` is what
`connected_worker_nicks` returns: every nick that ever had a mode. `Restart` keeps only the queue.

### Around the queue

**`FleetDigest.tla`**: `table` is the `workers` entry of `queue.json`, `digest` the rows and the tile of one
machine in `digest.json`, `unsaved` a document that the receiver or the chair has computed and not yet saved.
`ServeState` (`worker_state`, `queue_accept`, `queue_done`), `ServeMerge` (the heartbeat of an ear, with rows
under nicks or pids and a tile of its own), `ServeShopDown`, `ServeDelete` and `ServeExternal` are the
branches of `apply_report`; `Expire` is the chair's save in `expire_stale_workers`, which takes no lock;
`ChairSets` is what ACK, DONE and releases do to the table. `Shown` is what a GET answers after its heal.

**`QuitGrace.tla`**: `Quit` starts a hold (`HoldFor`), `Join` ends the holds of the seat and of its machine's
others, `FlushHolds` and `SweepStale` take jobs; `JoinUnheard` and `LinkUpOrDown` are what a deaf chair
misses. `goneFor` is history.

**`ChairLink.tla`**: `sock` and `alive` are the client's and the server's idea of the connection.
`RecoverInPlace` is the reconnect inside `_drain_until`, `Reconnect` the one of the chair's loop, which is
followed by `note_reconnect`. `ListReply`, `JoinOk`, `JoinRefused`, `Kicked` and the `Rejoin` threads are
`AutoJoinController`. Waits are milliseconds at three points of the jitter.

**`ModeGrants.tla`**: the server's `members`, `hasMode` and `login`, and the chair's `tracked`, `accounts`,
`pendingSweep`. `GrantDue` is `maybe_grant`, whatever line led to it.

**`Focus.tla`**: `edit` is the document a thread has loaded, changed and not yet saved. `Retarget` is the
receiver's, one item at a time after an MRB row came; `Purge` is either thread's.

**`Outbox.tla`**: the outbox file by its length, the saved offset (`posFile`, `legacyPos`), the drain between
reading, putting lines and saving, the flood queue and its thread. `Resolved` is `resolve_outbox_start`.

**`LengthSafe.tla`**: how a line of an announcement is made from fields of given byte lengths, with the check
by the workers' own parser, the compact form and the actor added afterwards. `Parse` folds `ReadToken` over the
tokens after the ref, in the order of the `if`s of `parse_announce`; a token in the title is read as nothing
else, which the model says first since the alternatives of a TLA+ `CASE` have no order.

**`Intake.tla`**: a submission step by step (call to GitHub, outbox, record, key file), with a crash between
any two or an answer that is lost, and the drain. It is `intake.py` behind its filer interface: the receiver
of this commit wires a filer that only pretends (`receiver.py:49`) and never drains, so the results are about
the code that a real filer would run in, not about posts the shipped service makes.

**`Exceptions.tla`**: a report step by step (index, post, index or spool), the drain, and the clock. A post
(`PostReport`) is answered, or ends in `GitHubDown`, and then GitHub has not made it, or has and the answer was
lost: the record goes to the spool without a stamp in the index, and the drain posts it again. Everything else
the filer may raise, and an `OSError` of the index or the spool, is `ReportFails`: `report()` logs it, a drain
ends with it. `Killed` may hit any step. Both leave what the step has done so far (`CutOff`): a post, half a
spool file, or the record of a rate-limited report whose index was not saved. `reportFaults` and `reportKills`
count these, so that the properties can say what each may cost.

**`Recycle.tla`**, **`Singleton.tla`**, **`HandoffWatch.tla`**: the cooldown gate; the check, the empty file
and the write of the pid file; the pairing of log lines of `tools/watch_jeeves_handoff.py`, compared with what
a reader of the whole log would call open.

### Instances and proofs

**`MCJobQueue`, `MCAssign`, `MCQueueFile`, `MCResync`** give the constants their values and the bounds their
definitions. **`MCAuthors`** adds to `MCAssign` what the program does not remember: who finished an FR with
which pull request. **`Periphery`** puts the twelve components around the queue side by side. They share no
state, so an initial choice (`part`) says which of them acts, and their state spaces lie beside each other
instead of being multiplied; **`MCPeriphery`** gives their constants the values.

The theorems and their lemmas are in modules of their own: **`QueueDocProofs`** (the lemmas on the document's
operators, which the next four build on), **`JobQueueProofs`**, **`AssignProofs`**, **`QueueFileProofs`**,
**`ResyncProofs`**; **`StoreProofs`** (what is kept in files: digest, focus, outbox, intake; and the lines of
announcements), **`ServiceProofs`** (the service and its chair on IRC: pid file, exception reports, watch,
grace, grants, connection, recycling) and, on top of these two, **`PeripheryProofs`**.

## 4. What the runs check

| Run | Instance | Shows |
|---|---|---|
| `seats` | three seats on two machines, one issue, one pull request | `OneSeatPerMachine`: takeover by a sibling never doubles a job. `SeatsKeepJobs`: ACK, NACK and departure lose no job below the cap. `ImplementsLease`: every step is a step of `ReviewLease`. |
| `pulls` | two seats, two pull requests of one issue | `OneReviewRow`: redelivered and reordered webhooks never double a review. `HeldIssueHasNoUat`: rule K15. `IgnoredHasNoRow`: nothing comes back after `!ignore`. |
| `assign` | two seats on two machines, one issue, one pull request | `OneOfferPerJob` and `FreshOffersWait` under timeouts, late ACKs, requeues, crashes. |
| `assign_live` | one seat | `OffersClose`: the sweep closes every offer. |
| `file` | two seats of one machine | `FileReviewsOnce`, `FileMachinesHoldOnce`: what the half-locked file keeps whatever overtakes what. `SerializedInOrder`: what the lock gives. |
| `resync` | one seat, one issue, one pull request, any history, one change on GitHub, one `!resync`, any restarts | `ResyncConverges`: the queue comes back to what GitHub shows, again and again, although webhooks are lost. `BootKeepsSeats`: before NAMES and the grace, no resync takes a job from a seat. `ResyncKeepsReviewsSingle`: no resync of a stale snapshot doubles a review, as long as no two seats are at work on one number (section 6). |
| `periphery` | see below | the properties of the twelve components |
| `open_mrb`, `held_fr`, `author`, `serial`, `rejoins` | one or two seats; three channels | findings, see section 6 |

What `periphery` shows, per component:

- *Outbox*: `LinesAccounted`, no line is passed over by the drain, whatever crashes; `NoReplay`, no line is
  put into the flood queue twice, save from a legacy position file that is still there when the own one is torn.
- *Length*: `LineReadsBack`, every announced line fits IRC and the workers' parser reads its fields.
- *Link*: `RefusedStaysOut`, no JOIN goes again to a channel that refused; `StormBacksOff`, the wait before an
  attempt grows with the failures before it.
- *Modes*: `GrantsOnce`.
- *Grace*: `GraceKeepsSeats`, and `GoneSeatsRelease` (liveness): a seat that is gone for good loses its job.
- *Focus*: `RanksInOrder`, and `GhostsGo` (liveness): the focus of a finished item goes in the end.
- *Digest*: `TilesTrue`, a GET agrees with the table, whatever is saved over what.
- *Intake*: `ToldIsKept`, `MadeOnce`.
- *Exceptions*: `ReportsKept`, GitHub down, the rate limit and interrupted drains lose no report, and an error
  that escapes or a kill loses one at most; `RateKept`, GitHub gets no more posts in a window than the limit,
  and one more for each error, lost answer and kill; `OneIssuePerTrouble`, without any of these a repeat within
  the window is a comment.
- *Singleton*: `OneInstance`, as long as no process checked the file while another was about to write it
  (section 6). *Recycle*: `FewRecycles`.
- *Watch*: `FindsOpenAcks`; `FindsDualAssigns`, in the run for assigns of the same tick only (`AssignWindow` 0),
  in the theorem for any window.

Some hazards come out well. That two saves outside the lock may overwrite each other never doubles a review or
a machine's job: a save installs a whole document, every operation keeps the conditions of the document it
loaded, and a `queue_accept` that comes late replaces what it finds of its job. What such a save does lose is
an update (`serial`). The same holds of `focus.json`: an old document saved over a new one loses a command,
never the order. And `digest.json` may be stale in any way: the GET mends it from the table.

Bounds, and why they are enough:

- *Constants.* Rules compare a row with rows of the same job, of the same pull request, of linked issues, and
  with seats of the same or another machine. One issue with two pull requests, or three seats on two machines,
  make every such comparison come out both ways. `DoneCap` 1 and `AcceptedCap` 2 make the caps bite.
  `NeedsHumanCount` 1 and `MaxOfferAttempts` 1 make the counters reach their limits (2 and 3 in the code).
  No run asks whether an accepted row is lost at `AcceptedCap`: the code drops the oldest, and `SeatsKeepJobs`
  speaks of what is below the cap.
- *`OneNamedSeat`* (`seats`, `pulls`, `open_mrb`, `held_fr`): a row names at most one seat as author, reviewer
  or as having given it up. No rule of `JobQueue` reads these fields, so no step depends on them.
- *`RowBound`, `TimeoutBound`* (`assign`): two open rows and one remembered timeout at once. An offer and
  a second row of the job, or an offer and the row of a competing job, are what the properties are about.
  `assign_live` has no constraint: its bounds are above what the instance can reach, since a constraint could
  hide a cycle.
- *`BeginBound`* (`file`, `serial`): messages, commands and webhooks in a behaviour: 5 and 3. Reports, saves
  and crashes are not counted. Five suffice for a webhook, an ACK, its late report, a release or NACK, and a
  second seat.
- *`LateBound`*: one report waits to be served late. Several late reports are served one after the other and
  each replaces the rows of its job.
- *`MaxHub`, `MaxResyncCmds`* (`resync`): one change on GitHub, which a fetch may see in one GET and miss in
  another, and one `!resync` beside the scheduler's runs, which are not bounded, nor are restarts. GitHub starts in any state,
  so what a second change would lead to is mostly an initial state of another behaviour. No constraint.
- *`periphery`*: two drops and two kicks, two faults of the outbox, one fault of intake, two reports of one
  trouble with one error or lost answer and one kill, and numbers for four posts in a window (the limit of
  two, and one for each of these, so that a number is always free), five bob and operator steps, a grace and a
  time to live of two ticks, a cooldown of two, three log lines, two numbered focus commands, four starts of
  two processes with three pids. Each is the least that lets a fault meet the recovery from an earlier one;
  ages stop at the age that matters. The byte lengths of `LengthSafe` are the ends and the thresholds of each
  field's range. The bounds are in guards of actions, so the liveness properties speak of behaviours that stop
  changing on their own, which their premises ask anyhow.
- *Symmetry* is used over seats of equal standing, and over pull requests, in runs without liveness. The
  definitions of `MachineOf` and `LinksOf` do not tell them apart.

Deadlock is checked in every run but `periphery`, where a component may come to rest at its bounds.

Fairness, only where the code's own loops provide it:

- *Offers* (`Fairness`): weak fairness of the offer sweep for each seat's offer. The loop in `_run` calls
  `_sweep_stale_workers` in every turn, which runs the timeout once a minute, and an offer becomes due after
  90 s by the passing of time alone.
- *Resync* (`FairResyncSpec`): the scheduler's thread starts a run every interval; its GETs and its last step are
  strongly fair, which says that GitHub is not down for ever and that restarts do not hit every run in the
  middle. Webhooks have no fairness. Nothing is assumed of seats.
- *Grace and focus* (`PeripheryFairness`): the clock ticks, the chair's loop flushes holds and sweeps, each
  thread ends what it has begun, and the receiver serves a digest, which purges, again and again (`SF`, since
  another save may make the purge impossible for a moment).
- *Link* (`LinkFairness`, in `rejoins`): the chair reads and retries, LIST is asked at its interval, the
  server answers and comes back. The counterexample holds even so.

## 5. What is proved

For any sets of issues, pull requests, seats and machines, any links and authors, any bobs and channels, items,
processes and pids, and any positive caps and counts. The assumptions are those of the modules: issue and pull
request numbers are distinct (`IdentAssumption`), absent values and the two words of `ReviewLease` are not
names, caps and counts are positive (`CapAssumption`, `OfferAssumption`), links and authors are sets of known
names (`PullAssumption`), `NoReport` is no report, a compact line fits (`LengthAssumption`, which is what
`UrlMax` is chosen for), and the like. TLC evaluates each of them in the passing runs.

`JobQueueProofs`:

- `TypeCorrect`, `ReviewsAreSingle`, `HeldIssuesHaveNoUat`, `MachinesHoldJobsOnce`, `IgnoredStaysEmpty` are
  parts of one inductive invariant, `Inv`: the document is of its type, accepted rows have holders
  (`RowsHeld`), and `ReviewsOnce`, `HeldHaveNoUat`, `MachinesHoldOnce`, `IgnoredHasNoRow` hold. None of
  the parts is inductive by itself: that a release returns rows without de-duplication is harmless
  to a review only because nobody else holds one, and that of a machine's seats one holds a job needs the
  holders' names. There is a lemma per operation of the document, which says that a sound document stays
  sound, and on the operators they share: `FewerSound` (dropping rows), `EnqueueSound`, `HoldSound`.
- `Refinement`: `Spec => ImplementsLease`. Each step is shown to hand on the row of a review as
  `ReviewLease!MayFollow` allows. `LeaseOf` chooses a holder, so the proof needs `ReviewsOnce`.
- `NoJobLost`: `Spec => SeatsKeepJobs`.

`AssignProofs`:

- `AssignImplementsJobQueue`: `AssignSpec => Spec`; every step of the assignment is a step of the queue or
  leaves it alone. The theorems about the queue carry over.
- `OffersAreExclusive` and `AssignTypeCorrect` from the invariant `AssignInv`: the queue is sound, no two
  seats have an open offer of one job, and the counter of a seat's *open* offer is still below
  `MaxOfferAttempts`. The last part is the strengthening: without it the timeout could push a counter past its
  limit. It holds because only a job below the limit is offered and the counter moves only when the offer
  closes.
- `FreshOffersAreReal`: the action property `FreshOffersWait`. The pick is from the purged queue, minus the
  rows `decide` drops because their FR is done, and `Offerable` has none of those.

`QueueFileProofs`: `FileReviewsAreSingle`, `FileMachinesHoldJobsOnce`, `FileTypeCorrect` and
`LockedSavesAreInOrder` are parts of `FileInv`. A statement about the saved file alone is not inductive, since a
rename installs whatever `queue.tmp` holds; `FileType` therefore says of *every* version of the document that
is somewhere (the file, `queue.tmp`, the drafts of both threads, the document that `complete_job` keeps for its
second save) that it is sound. Sound here is the document's invariant without the hold: a stale save may bring
a held UAT back. `QueueDocProofs` states its lemmas once for both meanings of sound (`Sound(q, how)`). For the
order of the locked saves the invariant adds that a serialized draft owns the lock (`DraftsOwned`), and that the
chair keeps the re-entrant lock between the two saves of a DONE (`NestedLocked`), which only the *first* step
of its plan can be (`Plan`).

`ResyncProofs`: `ResyncInv` is the type, the order of a run's three GETs (`GetsInOrder`), and that no run begun
before the grace was over releases orphans (`NoEarlyRelease`); a restart ends every run and begins the grace
anew. `BootLeavesSeats` follows from the last part. `ResyncLeavesReviewsSingle` is about
one reconcile and any queue it finds, so it does not depend on the earlier history being good.

`StoreProofs`:

- `TilesStayTrue`: the invariant speaks not only of the saved document but of every document on its way to the
  file (`DigestInv`): it has no blank tile over a busy seat (`TileStands`). That makes the order of the two
  writers' saves irrelevant. What a GET shows follows from the heal alone (`HealedStands`), which is why no
  history of heartbeats can falsify it.
- `RanksStayInOrder`: again the documents that the threads hold are in order one by one (`FocusInv`), each with
  the counter it was loaded with, so a save of an old one goes back to an older order and never mixes two.
- `LinesStayAccounted`, `LinesAreNotReplayed`: `OutboxInv` relates the three offsets. After the first start the
  home has an offset unless a failed save tore it (`OffsetIsKnown`), the drain works between the saved offset
  and the end of what it read (`DrainIsWithin`), and what was settled once is never in front of either, save
  when the legacy file is read again (`SavedIsBehind`).
- `ToldStaysKept`: what a clerk writes down has happened already (`ClerkIsRight`), so the sender's answer, the
  record and the key file each imply that the submission is held; and held submissions stay held (`HeldGrows`),
  because the drain takes an entry away only for one that is on GitHub.
- `SubmissionsMadeOnce`: a ledger for each key (`LedgerInv`). What GitHub has under the key, plus what may still
  be made of it (`Owed`: entries that wait, the submission in hand, and one while the key is not known), is at
  most one plus two for each fault. That GitHub has little is not inductive; that it is owed little more is.
  A lemma per kind of step shows how it moves the two columns (`Shift`), and one that such a move balances
  (`ShiftBalances`).
- `LinesReadBack` needs no induction over lines. `Takes` and `Reads` say of a line that a prefix function counts
  its bytes, or reads its tokens, up to the end; one lemma extends such a function by a token (`LineGrows`),
  and the lines are built from the ref on, field by field, title and actor last, with what the parser holds
  after each. Its first attempt showed that two guards of `ReadToken` overlapped: TLC took the first, the
  proof could take any. The definition now says which one the code takes.

`ServiceProofs`:

- `InstanceIsSingle`: unless a check was overtaken, one process has passed it, and the file names the one that
  runs (`OneActive`). Pids of existing processes are distinct, but may be those of processes that were killed.
- `NoReportIsLost`, `TroubleIsOneIssue`, `RateIsBounded`: the spool holds what the drain has still to do
  (`SpoolHolds`), and a record gets lost only in a step that costs an error or a kill (`FewMissing`). As long as
  nothing has cost anything, the index forgets no post but the one it is about to save (`IndexKnows`). The rate
  is a count of sets: the posts on GitHub within the window are those the index counts, the one about to be
  saved, and those the index will never know of, one at most for each error, lost answer and kill
  (`RateHolds`).
- `OpenAcksAreFound`, `DoubleAssignsAreFound` hold of *any* log. The pass over the log is a recursive function;
  its closed form (`OpenAfter`: the ACKs that no later line closes) is shown to satisfy the recursion, so
  that its value is that form for every length. It is enough that
  the watch compares neighbours of its sorted list: between two assigns to different seats there is a first one
  to another seat than the earlier, and the one just before it is no further away (`NeighboursDiffer`, by the
  least-number principle).
- `GraceIsKept`: a hold is never older than the absence the chair knows of (`HoldsAreAbsences`), because a QUIT
  starts both and every JOIN that is heard ends both.
- `GrantsAreSentOnce`: what was given and not seen taken back is tracked (`GivenIsTracked`); `DueIsNew` is the
  one lemma for all the lines that lead to `maybe_grant`.
- `RefusalsStand`: every way to a JOIN (LIST reply, rejoin thread, reconnect) leaves the refused channels out.
- `StormsBackOff`: the counter that the wait is computed from counts every failure since the last success,
  whichever of the two places retried (`LinkCounts`: `failed = retries`), and a client with failures behind it
  has no connection (`LinkEnds`), so no attempt forgets them. `DelayIsLong` is the arithmetic: at every jitter
  the delay is at least its share.
- `RecyclesAreFew`: a gate that is closed was closed by a route of its age that the machine heard, and since the
  last restart the machine heard no other (`RoutesByGate`). A machine hears its own gate and the fleet's, so two
  routes at most; a restart opens both gates and may let two more through.

`PeripheryProofs`: a step of the whole is a step of each component or leaves it alone, so the whole implies each
component's specification, and what is proved of one alone holds of it there. `PeripheryTypes` is the type
invariant of all of them, from the last sections of `StoreProofs` and `ServiceProofs`; `PeripheryIsSafe` collects
the safety properties of the `periphery` run.

Only model-checked: liveness under fairness (`OffersClose`, `ResyncConverges`, `GoneSeatsRelease`, `GhostsGo`),
which is beyond the prover; and what the five runs that end in a violation show, which are counterexamples on
small instances. That TLC's bounds (faults, drops, commands, log lines) are constants of the modules means that
the theorems hold for every value of them, so what is proved does not depend on the sizes listed in section 4.

## 6. Findings

1. `open_mrb`: closing one of two pull requests of an issue queues its FR although the MRB of the other is
   open (`queue.py:972`); the comment at `queue.py:839` says an open MRB keeps the FR out.
2. `held_fr`: the FR that a failed MRB restored is dropped by the next `!bored` because the done FR row of its
   first round counts as "already done" (`assign.py:664`). `docs/functional-spec.md:26` wants it to stay.
3. `author`: a push to a pull request replaces the MRB row that DONE FR stamped with its author; without
   an `Agent:` line in the pull request the review is then offered to the author (`queue.py:857`), against
   `tests/test_mrb_same_seat_fr224.py:1`.
4. `serial`: `queue_lock` is documented as the lock for load, mutate and save of `queue.json`, but NACK,
   releases, purges and reports do not take it; their saves overwrite what was saved since their load.
5. `rejoins`: a connection that is lost inside a read is replaced by the read itself (`tls_irc.py:311`); the
   chair's loop never sees it, the join controller still believes it is in every channel, and no later LIST
   makes it join one. `README.md:45` promises LIST and JOIN on every reconnect.

What the modelling brought up besides, without a run of its own:

- *Seats that left.* `connected_worker_nicks` returns every nick that ever had a mode. A plain worker, which
  never gets one, counts as absent, so a resync after the grace releases or drops its job; a bob that left
  counts as present for ever.
- *Live resync.* `_awaiting_uat` reads a `merged` field (`resync.py:210`). The list of closed pull requests
  that `LiveGitHubClient` fetches has `merged_at` instead, so a live resync seems to queue no UAT. The model
  takes the field as given, as the tests do. Nor does the client read a second page.
- *Doubled by a resync.* An open issue that a merged pull request closes is due as an FR and as a UAT at once,
  under one identity. With one seat at work on the FR and another on the UAT, the next resync retypes the first
  row to the task that `desired_by_ident` kept last (`resync.py:428`, `:448`): two seats then hold the same UAT.
  The hypothesis of `ResyncKeepsReviewsSingle` excludes this case by name; the item before says why a live
  resync hardly meets it.
- *`!resync`* runs in the chair's thread and beside the scheduler's run; the older snapshot may be applied last.
- *Back-off.* Each successful reconnect resets the throttle count, and each JOIN of a rejoin resets the kick
  count, so the stop after eight kicks is seldom reached.
- *Grants.* A bob that quits and returns still counts as having its mode and is not granted it again. A WHO
  reply after NAMES grants nothing in a channel without an entry in the table of modes. Accounts are not
  forgotten at a QUIT. An exception in the grants' handler skips the later handlers of that line.
- *Grace.* The JOIN of a second seat of a machine cancels the hold of the first; what frees its job is the
  sweep after the time to live (`GoneSeatsRelease`). A busy seat that is silent for 30 minutes loses its job,
  before the hand-off watch would call the ACK stale (45 minutes).
- *Focus.* A `!focus` is lost when a digest purges at the same time. No MRB focus moves on to its UAT.
- *Digest.* `resync.py:348` speaks of both views, but `_idle_worker_entry` empties only the table, and the
  heal only adds: the row of a released seat stays busy in `digest.json`, and in what a GET shows.
- *Intake.* `drain_intake_outbox` has no caller in the service. A crash while the drain rewrites an entry loses
  a submission its sender was told is kept (excluded by name in `ToldIsKept`).
- *Reporter.* `report()` promises to "create/comment issue or spool" (`exception_report.py:324`), but only
  `GitHubDown` leads to the spool (`:409`), and `_request` makes that of `HTTPError` and `URLError` alone
  (`:107`, `:110`). A read that times out or is reset, or an answer without JSON or number, ends the report with
  a line in a log, and the exception is neither on GitHub nor in the spool. `ReportFails` models it and
  `ReportsKept` counts it; a property without the count fails in one report. A post whose answer is lost (a 5xx or `URLError` after GitHub made it) is spooled and posted again
  by the drain, as a second issue. Unreadable spool files are never removed; twenty of them stop the drain of a start.
- *Singleton.* `acquire` looks at the pid file (`singleton.py:46`) and writes it (`:59`) in two steps. Two
  processes that start together both find no live holder and both run, against "No duplicate chair/receiver"
  (`:1`). `overtaken` in `OneInstance` excludes it by name. A live process of another user counts as dead.
- *Recycle.* "One open recycle route per machine" (`recycle.py:42`) fails for `!recycle m` followed by
  `!recycle all`, and across a restart; `FewRecycles` states what remains true.
- *Hand-off watch.* Its 300 s window for two assigns of a job is longer than the 90 s of an offer, so an
  ordinary second offer is reported. A finding's key holds the age, so repeats are not merged.
- *Announcements.* A title that begins with `fixes:` or `head:` suppresses its line (excluded by name in
  `LineReadsBack`).

## 7. What is not modelled, and why

- The `workers` entries of `queue.json` in the queue's own modules: `decide` reads them once, but refuses an
  offer exactly when the seat has an accepted row. `FleetDigest` has them as `table`, apart from the queue.
- Titles, labels, urls, wire formats, help and list texts: no modelled rule depends on them beyond a choice
  that the actions make nondeterministically (a pull request titled as an MRB fix is in `FixPull`; a DONE
  carries a pull request or not). The layout of an announced line is modelled by its lengths.
- Time is an age in ticks where a rule compares it (grace, cooldown, rate, dedupe, watch); elsewhere an offer
  may be due at any moment, a give-up cooldown is a row that the pick may pass over, and the tile of a machine
  names any of its busy seats instead of the newest.
- In `QueueFile`, a `Write` is one step. The code opens `queue.tmp`, which empties it, and then writes; a
  rename by the other thread in between installs a half-written file, which `load_queue` reads as an empty
  queue. Also left out there: the resync thread (its one locked save is like a webhook's), pull requests titled
  as an MRB fix, and separate processes for chair and receiver, which share no lock at all.
- Two properties of the atomic queue do not survive the threads: a late `queue_accept` can bring back a row
  of an issue that was closed, or is held, meanwhile, and a webhook that asked `is_ignored` just before
  `!ignore` leaves a row behind. They are listed as hazards; resync is what repairs them.
- `decide` is one step of `Assign` and `QueueFile`. The order of its purges and its pick is modelled, a save of
  the receiver between two of its reads is not; a row that such a save takes away is refused at the ACK.
- `HeldIssueHasNoUat` is about webhooks and seats. `reconcile` (`resync.py`) does not read `mrb_fail_hold`.
- `ChairLink` leaves out a drop that is noticed only after the deadline of a read, the `OSError` branch of the
  chair's loop, and a rejoin thread whose JOIN fails. Eight kicks, after which the code gives a channel up, are
  beyond the two of the run; the theorems hold for any `MaxKicks`. A rejoin thread's look at the refusals and its
  JOIN are one step.
- `Focus` leaves out temporary files that are half written; `Exceptions` a home directory that cannot be made and
  an index that cannot be read, which the code takes for an empty one.
- The receiver's Jira route, signatures and health pages; usage figures, pools, events and the texts of
  external reports in the digest, which are carried through unread; redaction and tokens of the reporters; the
  refill rate of the flood queue; the discovery of repositories.
- `mrb_gate.py` and `cast_iron.py` check texts in CI and keep no state. Configuration, installers, versions,
  logs, `local_ircd.py` and the PowerShell and Markdown skills print, install or describe.

## 8. Running

    tlc -workers 2 -config MCJobQueueSeats.cfg MCJobQueue
    tlc -workers 2 -config MCAssign.cfg MCAssign
    tlc -workers 2 -config MCQueueFile.cfg MCQueueFile
    tlc -workers 2 -config MCResync.cfg MCResync
    tlc -workers 2 -config MCPeriphery.cfg MCPeriphery
    tlc -workers 2 -config MCLinkRejoins.cfg ChairLink
    tlapm JobQueueProofs.tla
    tlapm AssignProofs.tla
    tlapm QueueFileProofs.tla
    tlapm PeripheryProofs.tla

and so on for the other configurations and proof modules. Every run takes less than two minutes on two cores.
`PROJECT.json` lists the runs, for each property a variant of the code that violates it, the source lines of
every definition, the hazards and the theorems.
