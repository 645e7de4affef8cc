------------------------------ MODULE QueueDoc ------------------------------
(***************************************************************************)
(* The contents of queue.json and what each operation of queue.py makes of *)
(* it: pure operators from a document to the next one.  JobQueue turns     *)
(* them into a state machine whose operations are atomic, QueueFile into   *)
(* threads that load, change and save the file, Assign puts the offers of  *)
(* the chair on top.                                                       *)
(*                                                                         *)
(* Data abstraction.  One repository (the rules never relate rows of two   *)
(* repositories).  An issue or pull request number is a member of Issue or *)
(* Pull, which GitHub numbers from one counter.  A row keeps the fields    *)
(* some rule reads; texts, urls and time stamps are left out.  The task    *)
(* "PR" is rewritten to "FR" whenever the file is loaded, so it never      *)
(* appears.  The list order of the two open buckets is left out: an offer  *)
(* sorts the rows, and where the code takes the first match the model      *)
(* takes any.  Two rows that agree in every field kept are one row.        *)
(***************************************************************************)
EXTENDS Integers, Sequences, FiniteSets

CONSTANTS
    Issue,              \* issue numbers
    Pull,               \* pull request numbers
    Nick,               \* worker nicks, {machine}-{pid}
    MachineOf,          \* the machine part of a nick
    NoPull, NoNick,     \* absent fields
    AcceptedCap,        \* ACCEPTED_CAP
    DoneCap,            \* DONE_CAP
    NeedsHumanCount     \* GIVEUP_NEEDS_HUMAN_COUNT

Ident == Issue \cup Pull

ASSUME IdentAssumption ==
    /\ Issue \cap Pull = {}
    /\ NoPull \notin Ident
    /\ NoNick \notin Nick

ASSUME CapAssumption ==
    /\ AcceptedCap \in Nat \ {0}
    /\ DoneCap \in Nat \ {0}
    /\ NeedsHumanCount \in Nat \ {0}

-----------------------------------------------------------------------------
(* Rows and documents.                                                     *)

Task == {"FR", "MRB", "UAT"}

\* refs: the issues a pull request closes; pr: pr_id; nick: the holder; seats:
\* the seats that wrote or reviewed the work (implementer_seat, author_seat,
\* mrb_author_seat); giveups: giveup_count, up to the count that sets
\* needs_human; gaveup: the keys of giveup_by; result: set when the row is done.
Row == [task    : Task,
        id      : Ident,
        refs    : SUBSET Ident,
        pr      : Pull \cup {NoPull},
        nick    : Nick \cup {NoNick},
        seats   : SUBSET Nick,
        giveups : 0 .. NeedsHumanCount,
        gaveup  : SUBSET Nick,
        result  : {"none", "pass", "fail"}]

\* hold: mrb_fail_hold.  The workers entries of the file (busy or idle, for the
\* digest) are left out: no rule about rows reads them, and an offer is refused
\* to a seat exactly when it has an accepted row, whatever its entry says.
Doc == [unaccepted : SUBSET Row,
        accepted   : SUBSET Row,
        done       : Seq(Row),
        hold       : SUBSET Ident]

EmptyQueue == [unaccepted |-> {},
               accepted   |-> {},
               done       |-> << >>,
               hold       |-> {}]

NewRow(task, id) == [task    |-> task,
                     id      |-> id,
                     refs    |-> {},
                     pr      |-> NoPull,
                     nick    |-> NoNick,
                     seats   |-> {},
                     giveups |-> 0,
                     gaveup  |-> {},
                     result  |-> "none"]

FrRow(i) == NewRow("FR", i)

MrbRow(p, links, seats) ==
    [NewRow("MRB", p) EXCEPT !.refs = links, !.pr = p, !.seats = seats]

UatRow(t, p, seats) ==
    [NewRow("UAT", t) EXCEPT !.refs = {t}, !.pr = p, !.seats = seats]

SameJob(r, s) == r.task = s.task /\ r.id = s.id

IsJob(r, task, id) == r.task = task /\ r.id = id

\* A row is about an id when its id or its pr_id is that id.
About(r, ids) == r.id \in ids \/ r.pr \in ids

\* The pull request a review row is about.
PullOf(r) == IF r.pr = NoPull THEN r.id ELSE r.pr

Open(q) == q.unaccepted \cup q.accepted

DoneRows(q) == {q.done[k] : k \in DOMAIN q.done}

-----------------------------------------------------------------------------
(* The helpers the rules are built from.                                   *)

Without(rows, ids, tasks) == {r \in rows : ~(r.task \in tasks /\ About(r, ids))}

\* _remove_tasks_for_ids with its default buckets
Drop(q, ids, tasks) ==
    [q EXCEPT !.unaccepted = Without(@, ids, tasks),
              !.accepted   = Without(@, ids, tasks)]

\* _append_unaccepted for each of a set of new rows: it de-duplicates against
\* the unaccepted bucket only.
Enqueue(q, rows) ==
    [q EXCEPT !.unaccepted = {r \in @ : \A new \in rows : ~SameJob(r, new)} \cup rows]

KeepLast(s, n) == IF Len(s) > n THEN SubSeq(s, Len(s) - n + 1, Len(s)) ELSE s

\* accepted.append followed by accepted[-ACCEPTED_CAP:]
Capped(rows, new) ==
    IF Cardinality(rows) < AcceptedCap
    THEN {rows \cup {new}}
    ELSE {(rows \ {oldest}) \cup {new} : oldest \in rows}

FailedMrb(r) == r.task = "MRB" /\ r.result = "fail"

\* _done_has_mrb_fail_for_pr
FailedFor(q, p) == \E r \in DoneRows(q) : FailedMrb(r) /\ About(r, {p})

\* _fr_linked_to_failed_mrb
FailedLinking(q, i) == \E r \in DoneRows(q) : FailedMrb(r) /\ i \in r.refs

\* fr_superseded_by_open_mrb
SupersededByMrb(q, i) == \E r \in Open(q) : r.task = "MRB" /\ i \in r.refs

MrbAlreadyDone(q, r) == \E d \in DoneRows(q) : IsJob(d, "MRB", r.id)

FrAlreadyDone(q, i) == \E d \in DoneRows(q) : IsJob(d, "FR", i)

\* The variant that does not ask whether the row has a holder.
SeatsAndNobody(r) == r.seats \cup {r.nick}

\* The seats of a row as the author rules read them: a row that waits names no
\* holder.
SeatsOf(r) == r.seats \cup ({r.nick} \cap Nick)

\* _mrb_author_fields_from_doc: the accepted row of the pull request, else the
\* first done one, else the unaccepted one.
MrbSeats(q, p) ==
    LET mrb(rows) == {r \in rows : r.task = "MRB" /\ About(r, {p})}
        at        == {k \in DOMAIN q.done : q.done[k] \in mrb(DoneRows(q))}
        first     == {q.done[k] : k \in {m \in at : \A l \in at : m <= l}}
        from      == IF mrb(q.accepted) # {} THEN mrb(q.accepted)
                     ELSE IF at # {} THEN first
                     ELSE mrb(q.unaccepted)
    IN  UNION {SeatsOf(r) : r \in from}

\* K15: the MRB of p is dropped, the issues it closes are held and queued again
\* (_restore_frs_after_mrb_fail, and the same steps in the UAT rule).
RestoreFrs(q, p, frs) ==
    [Enqueue(Drop(Drop(q, {p}, {"MRB"}), frs, {"UAT"}), {FrRow(i) : i \in frs})
        EXCEPT !.hold = @ \cup frs]

-----------------------------------------------------------------------------
(* The supersede rules: _apply_queue_event_locked, one operator per claim. *)

\* CLOSE: an issue closed by the merge of a failed MRB is kept, once.
AfterClose(q, i) ==
    IF i \in q.hold \/ FailedLinking(q, i)
    THEN [Enqueue(Drop(q, {i}, {"MRB", "UAT"}), {FrRow(i)}) EXCEPT !.hold = @ \ {i}]
    ELSE Drop(q, {i}, {"FR", "MRB", "UAT"})

\* FR: an issue opened or reopened.  The skip rule at the head of this branch
\* never applies to a webhook: claim_from_payload has applied it already.
AfterFr(q, i) ==
    IF SupersededByMrb(q, i)
    THEN Drop(q, {i}, {"FR", "UAT"})
    ELSE Enqueue(Drop(q, {i}, {"UAT"}), {FrRow(i)})

\* The variant that relies on _append_unaccepted to drop the earlier MRB.
AfterMrbKeepsTaken(q, p, links, seats) ==
    Enqueue(Drop(q, links, {"FR", "UAT"}), {MrbRow(p, links, seats)})

\* MRB: a pull request opened, reopened, made ready or pushed to.
AfterMrb(q, p, links, seats) ==
    Enqueue(Drop(Drop(q, links, {"FR", "UAT"}), {p}, {"MRB"}), {MrbRow(p, links, seats)})

\* The variant that forgets the hold and asks the done rows only.
AfterUatNoHold(q, p, links) ==
    LET targets == IF links = {} THEN {p} ELSE links
    IN  IF FailedFor(q, p)
        THEN RestoreFrs(q, p, targets)
        ELSE Enqueue(Drop(Drop(q, {p}, {"MRB"}), targets, {"FR", "UAT"}),
                     {UatRow(t, p, MrbSeats(q, p)) : t \in targets})

\* UAT: a pull request merged.  claim_from_payload links one that closes no
\* issue to itself.
AfterUat(q, p, links) ==
    LET targets == IF links = {} THEN {p} ELSE links
    IN  IF FailedFor(q, p) \/ targets \cap q.hold # {}
        THEN RestoreFrs(q, p, targets)
        ELSE Enqueue(Drop(Drop(q, {p}, {"MRB"}), targets, {"FR", "UAT"}),
                     {UatRow(t, p, MrbSeats(q, p)) : t \in targets})

\* RESTORE_FR: a pull request closed without a merge.
AfterUnmerged(q, p, links) ==
    Enqueue(Drop(q, {p}, {"MRB"}), {FrRow(i) : i \in links})

-----------------------------------------------------------------------------
(* What a seat's ACK, NACK and DONE, and its departure, make of the file.  *)

HeldBy(q, n, id) == {r \in q.accepted : r.nick = n /\ r.id = id}

MineRows(q, n, task, id) == {r \in HeldBy(q, n, id) : r.task = task}

\* The variants that do not look for siblings, and that take any seat for one.
SiblingRowsNone(q, n, task, id) == {}

SiblingRowsAnywhere(q, n, task, id) ==
    {r \in q.accepted : IsJob(r, task, id) /\ r.nick # n}

SiblingRows(q, n, task, id) ==
    {r \in q.accepted : /\ IsJob(r, task, id)
                        /\ r.nick # n
                        /\ MachineOf[r.nick] = MachineOf[n]}

WaitingRows(q, task, id) == {r \in q.unaccepted : IsJob(r, task, id)}

Taken(r, n) == [r EXCEPT !.nick = n]

\* accept_job: the row is this seat's already, or another seat of its machine
\* has it and leaves, or it waits.  row is the set of the row returned:
\* empty for a job nobody knows (no_match).
AckResults(q, n, task, id) ==
    LET mine    == MineRows(q, n, task, id)
        sibling == SiblingRows(q, n, task, id)
        waiting == WaitingRows(q, task, id)
    IN  IF mine # {}
        THEN {[queue |-> q, row |-> {r}] : r \in mine}
        ELSE IF sibling # {}
        THEN {[queue |-> [q EXCEPT !.accepted = (@ \ {r}) \cup {Taken(r, n)}],
               row   |-> {Taken(r, n)}] : r \in sibling}
        ELSE IF waiting # {}
        THEN UNION {{[queue |-> [q EXCEPT !.unaccepted = @ \ {r}, !.accepted = rows],
                      row   |-> {Taken(r, n)}] :
                        rows \in Capped(q.accepted, Taken(r, n))} : r \in waiting}
        ELSE {[queue |-> q, row |-> {}]}

\* apply_report, op queue_accept: the row the chair was given replaces every
\* open row of that job.
AfterQueueAccept(q, r) ==
    [q EXCEPT !.unaccepted = {u \in @ : ~SameJob(u, r)},
              !.accepted   = {a \in @ : ~SameJob(a, r)} \cup {r}]

\* The row a seat gives up, as _stamp_giveup_cooldown marks it.  The code counts
\* on without a limit; every rule asks only whether the count has reached
\* NeedsHumanCount, so the model stops there.
GivenUp(r, n) ==
    [r EXCEPT !.nick    = NoNick,
              !.giveups = IF @ < NeedsHumanCount THEN @ + 1 ELSE @,
              !.gaveup  = @ \cup {n}]

\* nack_job
AfterNack(q, n, task, id) ==
    LET mine == MineRows(q, n, task, id)
    IN  IF mine = {}
        THEN {q}
        ELSE {Enqueue([q EXCEPT !.accepted = @ \ {r}], {GivenUp(r, n)}) : r \in mine}

\* What the rules read of a row that is done: of an MRB all but the giveups,
\* with its reviewer among the seats; of an FR or a UAT that it is done, and
\* for which pull request.
DoneRow(r, result) ==
    IF r.task = "MRB"
    THEN [MrbRow(r.id, r.refs, SeatsOf(r)) EXCEPT !.pr = r.pr, !.result = result]
    ELSE [NewRow(r.task, r.id) EXCEPT !.pr = r.pr]

\* complete_job up to its first save
Completed(q, r, task, result) ==
    LET moved  == [q EXCEPT
                     !.accepted = @ \ {r},
                     !.done     = KeepLast(Append(@, DoneRow(r, result)), DoneCap)]
        purged == IF "MRB" \in {task, r.task} THEN Drop(moved, {r.id}, {"MRB"}) ELSE moved
    IN  IF r.task = "MRB" /\ result = "fail"
        THEN RestoreFrs(purged, PullOf(r), r.refs)
        ELSE purged

\* complete_job: the row named, else any row of the seat for that id (the task
\* word may differ); an FR that comes with a pull request url is superseded by
\* its MRB.  pull is NoPull when the DONE carries no pull request url.
AfterDone(q, n, task, id, result, pull) ==
    LET named == MineRows(q, n, task, id)
        rows  == IF named # {} THEN named ELSE HeldBy(q, n, id)
        after(r) == LET c == Completed(q, r, task, result)
                    IN  IF r.task = "FR" /\ pull # NoPull
                        THEN AfterMrb(c, pull, {r.id}, {n})
                        ELSE c
    IN  IF rows = {} THEN {q} ELSE {after(r) : r \in rows}

\* release_worker: every row of the seat goes back as it is, not de-duplicated.
Freed(r) == [r EXCEPT !.nick = NoNick]

\* The variant that drops the rows of a seat that left.
AfterReleaseDrops(q, n) == [q EXCEPT !.accepted = {a \in @ : a.nick # n}]

AfterRelease(q, n) ==
    [q EXCEPT !.unaccepted = @ \cup {Freed(r) : r \in {a \in q.accepted : a.nick = n}},
              !.accepted   = {a \in @ : a.nick # n}]

\* mrb_row_not_offerable: the pull request has a UAT row, so it was merged.
StaleMrb(q, r) ==
    /\ r.task = "MRB"
    /\ \E u \in Open(q) \cup DoneRows(q) : u.task = "UAT" /\ PullOf(u) = PullOf(r)

\* purge_stale_mrb_rows
AfterPurgeStaleMrb(q) == [q EXCEPT !.unaccepted = {r \in @ : ~StaleMrb(q, r)}]

\* purge_dead_mrb_unaccepted
AfterPurgeDeadMrb(q) ==
    [q EXCEPT !.unaccepted = {r \in @ : ~(r.task = "MRB" /\ MrbAlreadyDone(q, r))}]

\* The FR rows that decide drops when it comes to them: already done.
DeadFrs(q) ==
    {r \in q.unaccepted : /\ r.task = "FR"
                          /\ FrAlreadyDone(q, r.id)
                          /\ \A a \in q.accepted : ~SameJob(a, r)}

AfterPurgeRows(q, rows) ==
    [q EXCEPT !.unaccepted = {r \in @ : \A gone \in rows : ~SameJob(r, gone)}]

\* purge_repo_from_queue: the rows of the one repository modelled are all rows.
AfterIgnore(q) == [q EXCEPT !.unaccepted = {}, !.accepted = {}, !.done = << >>]
-----------------------------------------------------------------------------
(* What the rules are to keep true of the document.                        *)

\* Accepted rows have a holder.
RowsHeld(q) == \A r \in q.accepted : r.nick \in Nick

\* A review (MRB or UAT) has at most one row, in one of the two buckets.
ReviewsOnce(q) ==
    /\ \A r, s \in Open(q) : SameJob(r, s) /\ r.task # "FR" => r = s
    /\ \A r \in q.unaccepted, s \in q.accepted : SameJob(r, s) => r.task = "FR"

\* An issue whose MRB failed has no UAT while it is held.
HeldHaveNoUat(q) == \A i \in q.hold, r \in Open(q) : ~IsJob(r, "UAT", i)

\* The seats of one machine hold a job once.
MachinesHoldOnce(q) ==
    \A r, s \in q.accepted :
        SameJob(r, s) /\ MachineOf[r.nick] = MachineOf[s.nick] => r = s

Jobs(q) == {[task |-> r.task, id |-> r.id] : r \in Open(q)}
=============================================================================
