----------------------------- MODULE QueueFile ------------------------------
(***************************************************************************)
(* queue.json under the two threads that change it: the chair, which       *)
(* handles the seats' messages, and the receiver, which handles webhooks   *)
(* and the chair's own reports one at a time.  Each operation loads the    *)
(* file, changes its copy, writes queue.tmp and renames it over the file.  *)
(* Webhooks, ACK and DONE do so under queue_lock, the others do not.       *)
(*                                                                         *)
(* A load and the change of the copy are one step: what becomes of the     *)
(* file depends on the loaded version alone.  JobQueue is this module with *)
(* every operation atomic; the operations are those of QueueDoc.           *)
(*                                                                         *)
(* Left out: the resync thread; pull requests titled as the fix of an MRB, *)
(* which queue nothing; and that the reports about seats that go stale     *)
(* together come after the release of all of them: here each is released   *)
(* and reported by itself.                                                 *)
(***************************************************************************)
EXTENDS QueueDoc, Bags

CONSTANTS
    LinksOf,        \* the issues a pull request's title and body close
    AuthorOf,       \* the seat its "Agent:" trailer names, as a set
    LateBound       \* bound: reports the chair gave up on that are not served

ASSUME FileAssumption ==
    /\ LinksOf \in [Pull -> SUBSET Issue]
    /\ AuthorOf \in [Pull -> SUBSET Nick]
    /\ LateBound \in Nat

Thread == {"chair", "receiver"}

\* What an operation is, for the properties.
Operation == {"webhook", "ack", "done", "nack", "release", "heal", "purge", "report"}

\* The operations whose comment says they are serialized by queue_lock.
Serialized == {"webhook", "ack", "done"}

VARIABLES
    file,           \* queue.json
    tmp,            \* queue.tmp: a document, or nothing
    ignored,        \* the repository is in ignored.json
    lock,           \* who has queue_lock
    draft,          \* the copy each thread is going to save
    todo,           \* what the chair has still to do for its message
    sent,           \* the report the chair waits for
    wait,           \* whether it does, and whether the receiver is at it
    late,           \* reports it no longer waits for
    overtaken       \* what others saved since a thread loaded its copy

vars == <<file, tmp, ignored, lock, draft, todo, sent, wait, late, overtaken>>

\* A worker_state, queue_done or delete-worker report saves the rows as it found
\* them; queue_accept puts a row in.
Report == {rows \in SUBSET Row : Cardinality(rows) <= 1}

Draft == [doc : Doc, by : Operation, written : BOOLEAN]

\* The steps of a handler after its first save.
Post(report)        == [do |-> "post", report |-> report]
Resave(d)           == [do |-> "resave", doc |-> d]
Supersede(n, id, p) == [do |-> "supersede", nick |-> n, id |-> id, pull |-> p]
Purge(what)         == [do |-> "purge", what |-> what]

Purges == {"stale MRB", "dead MRB", "dead FR", "repository"}

Step == [do : {"post"}, report : Report]
            \cup [do : {"resave"}, doc : Doc]
            \cup [do : {"supersede"}, nick : Nick, id : Ident, pull : Pull]
            \cup [do : {"purge"}, what : Purges]

Init ==
    /\ file = EmptyQueue
    /\ tmp = {}
    /\ ignored = FALSE
    /\ lock = "free"
    /\ draft = [t \in Thread |-> {}]
    /\ todo = << >>
    /\ sent = {}
    /\ wait = "no"
    /\ late = EmptyBag
    /\ overtaken = [t \in Thread |-> {}]

-----------------------------------------------------------------------------
(* Loading and saving.                                                     *)

Idle(t) == draft[t] = {}

\* load_queue and the change of the copy
Load(t, doc, by) ==
    /\ Idle(t)
    /\ draft' = [draft EXCEPT ![t] = {[doc |-> doc, by |-> by, written |-> FALSE]}]
    /\ overtaken' = [overtaken EXCEPT ![t] = {}]

\* with queue_lock(home)
Lock(t) == lock = "free" /\ lock' = t

\* The chair is in the second half of complete_job, still under the lock.
Nested(steps) == steps # << >> /\ Head(steps).do \in {"resave", "supersede"}

\* save_queue: tmp.write_text
Write(t) ==
    \E d \in draft[t] :
        /\ ~d.written
        /\ tmp' = {d.doc}
        /\ draft' = [draft EXCEPT ![t] = {[d EXCEPT !.written = TRUE]}]
        /\ UNCHANGED <<file, ignored, lock, todo, sent, wait, late, overtaken>>

Unlock(t, steps) == IF lock = t /\ ~(t = "chair" /\ Nested(steps)) THEN "free" ELSE lock

\* The chair's report is answered when the receiver is through with it.
Answer(t) == IF t = "receiver" /\ wait = "served" THEN "no" ELSE wait

\* save_queue: tmp.replace, which installs whatever queue.tmp holds
Rename(t) ==
    \E d \in draft[t], doc \in tmp :
        /\ d.written
        /\ file' = doc
        /\ tmp' = {}
        /\ draft' = [draft EXCEPT ![t] = {}]
        /\ overtaken' = [u \in Thread |->
                            IF u # t /\ ~Idle(u) THEN overtaken[u] \cup {d.by} ELSE {}]
        /\ lock' = Unlock(t, todo)
        /\ wait' = Answer(t)
        /\ UNCHANGED <<ignored, todo, sent, late>>

\* Another thread has renamed queue.tmp away: the handler ends with an error, and
\* so does the chair when it was its report.
RenameFails(t) ==
    \E d \in draft[t] :
        /\ d.written
        /\ tmp = {}
        /\ draft' = [draft EXCEPT ![t] = {}]
        /\ overtaken' = [overtaken EXCEPT ![t] = {}]
        /\ lock' = Unlock(t, << >>)
        /\ wait' = Answer(t)
        /\ todo' = IF t = "chair" \/ wait = "served" THEN << >> ELSE todo
        /\ UNCHANGED <<file, tmp, ignored, sent, late>>

-----------------------------------------------------------------------------
(* The chair.                                                              *)

Free == Idle("chair") /\ todo = << >> /\ wait = "no"

Unread == UNCHANGED <<file, tmp, sent, wait, late>>

\* The variant in which accept_job forgets queue_lock.
ChairAckUnlocked(n, task, id) ==
    /\ Free
    /\ \E res \in AckResults(file, n, task, id) :
          /\ Load("chair", res.queue, "ack")
          /\ todo' = (IF res.row = {} THEN << >> ELSE <<Post(res.row)>>) \o <<Post({})>>
    /\ UNCHANGED <<lock, ignored>>
    /\ Unread

\* ACK: accept_job, then the reports queue_accept and worker_state
ChairAck(n, task, id) ==
    /\ Free
    /\ Lock("chair")
    /\ \E res \in AckResults(file, n, task, id) :
          /\ Load("chair", res.queue, "ack")
          /\ todo' = (IF res.row = {} THEN << >> ELSE <<Post(res.row)>>) \o <<Post({})>>
    /\ UNCHANGED ignored
    /\ Unread

\* NACK: nack_job, then worker_state
ChairNack(n, task, id) ==
    /\ Free
    /\ \E doc \in AfterNack(file, n, task, id) : Load("chair", doc, "nack")
    /\ todo' = <<Post({})>>
    /\ UNCHANGED <<lock, ignored>>
    /\ Unread

\* DONE: complete_job, which saves twice for a passed MRB and for an FR with a
\* pull request, then queue_done and worker_state
ChairDone(n, task, id, result, pull) ==
    LET named == MineRows(file, n, task, id)
        rows  == IF named # {} THEN named ELSE HeldBy(file, n, id)
        posts == <<Post({}), Post({})>>
    IN  /\ Free
        /\ Lock("chair")
        /\ \/ /\ rows = {}
              /\ Load("chair", file, "done")
              /\ todo' = posts
           \/ \E r \in rows :
                LET doc  == Completed(file, r, task, result)
                    then == IF r.task = "FR" /\ pull # NoPull THEN <<Supersede(n, r.id, pull)>>
                            ELSE IF r.task = "MRB" /\ result = "pass" THEN <<Resave(doc)>>
                            ELSE << >>
                IN  Load("chair", doc, "done") /\ todo' = then \o posts
        /\ UNCHANGED ignored
        /\ Unread

\* A seat that quit or went stale: release_worker, then delete-worker
ChairRelease(n) ==
    /\ Free
    /\ Load("chair", AfterRelease(file, n), "release")
    /\ todo' = <<Post({})>>
    /\ UNCHANGED <<lock, ignored>>
    /\ Unread

\* !bored of a seat without a job: decide marks it idle if it passed for busy
\* (set_worker_state), then purges three times.
ChairBored ==
    /\ Free
    /\ Load("chair", file, "heal") \/ UNCHANGED <<draft, overtaken>>
    /\ todo' = <<Purge("stale MRB"), Purge("dead MRB"), Purge("dead FR")>>
    /\ UNCHANGED <<ignored, lock>>
    /\ Unread

\* !ignore: ignored.json first, then the queue
ChairIgnore ==
    /\ Free
    /\ ignored' = TRUE
    /\ todo' = <<Purge("repository")>>
    /\ UNCHANGED <<lock, draft, overtaken>>
    /\ Unread

ChairUnignore ==
    /\ Free
    /\ ignored
    /\ ignored' = FALSE
    /\ UNCHANGED <<todo, lock, draft, overtaken>>
    /\ Unread

\* What a purge makes of the file.
Purged(what) ==
    CASE what = "stale MRB"  -> {AfterPurgeStaleMrb(file)}
      [] what = "dead MRB"   -> {AfterPurgeDeadMrb(file)}
      [] what = "dead FR"    -> {AfterPurgeRows(file, rows) : rows \in SUBSET DeadFrs(file)}
      [] what = "repository" -> {AfterIgnore(file)}

HasNext(kind) == Idle("chair") /\ wait = "no" /\ todo # << >> /\ Head(todo).do = kind

\* A purge saves only if it dropped something.
ChairPurges ==
    /\ HasNext("purge")
    /\ \E doc \in Purged(Head(todo).what) :
          IF doc = file THEN UNCHANGED <<draft, overtaken>> ELSE Load("chair", doc, "purge")
    /\ todo' = Tail(todo)
    /\ UNCHANGED <<ignored, lock>>
    /\ Unread

\* complete_job again: the MRB row with its reviewer
ChairResaves ==
    /\ HasNext("resave")
    /\ Load("chair", Head(todo).doc, "done")
    /\ todo' = Tail(todo)
    /\ UNCHANGED <<ignored, lock>>
    /\ Unread

\* complete_job again: the MRB claim of a finished FR, if it is not ignored
ChairSupersedes ==
    /\ HasNext("supersede")
    /\ LET step == Head(todo)
           doc  == AfterMrb(file, step.pull, {step.id}, {step.nick})
       IN  IF ignored
           THEN lock' = "free" /\ UNCHANGED <<draft, overtaken>>
           ELSE Load("chair", doc, "done") /\ UNCHANGED lock
    /\ todo' = Tail(todo)
    /\ UNCHANGED ignored
    /\ Unread

\* _post_report
ChairPosts ==
    /\ HasNext("post")
    /\ sent' = Head(todo).report
    /\ wait' = "sent"
    /\ todo' = Tail(todo)
    /\ UNCHANGED <<file, tmp, ignored, lock, draft, late, overtaken>>

\* The receiver does not listen: the handler's other reports are not sent.
ChairPostFails ==
    /\ HasNext("post")
    /\ todo' = << >>
    /\ UNCHANGED <<file, tmp, ignored, lock, draft, sent, wait, late, overtaken>>

\* It does not answer in 5 s: likewise, but the report is under way.
ChairGivesUp ==
    /\ wait # "no"
    /\ wait = "sent" => BagCardinality(late) < LateBound
    /\ late' = IF wait = "sent" THEN late (+) SetToBag({sent}) ELSE late
    /\ sent' = {}
    /\ wait' = "no"
    /\ todo' = << >>
    /\ UNCHANGED <<file, tmp, ignored, lock, draft, overtaken>>

-----------------------------------------------------------------------------
(* The receiver.                                                           *)

\* apply_queue_event: is_ignored is asked under the lock
Webhook(doc) ==
    /\ Lock("receiver")
    /\ ~ignored
    /\ Load("receiver", doc, "webhook")
    /\ UNCHANGED <<file, tmp, ignored, todo, sent, wait, late>>

IssueOpened(i) == Webhook(AfterFr(file, i))

IssueClosed(i) == Webhook(AfterClose(file, i))

PullPushed(p) == Webhook(AfterMrb(file, p, LinksOf[p], AuthorOf[p]))

PullMerged(p) == Webhook(AfterUat(file, p, LinksOf[p]))

PullClosed(p) == Webhook(AfterUnmerged(file, p, LinksOf[p]))

\* The variant that appends the reported row to what is there.
ReportedTwice(report) ==
    IF report = {} THEN {file}
    ELSE {[file EXCEPT !.accepted = @ \cup {r}] : r \in report}

\* apply_report
Reported(report) == IF report = {} THEN {file} ELSE {AfterQueueAccept(file, r) : r \in report}

ServeReport(report) ==
    /\ \E doc \in Reported(report) : Load("receiver", doc, "report")
    /\ UNCHANGED <<file, tmp, ignored, lock, todo>>

ServeAwaited ==
    /\ wait = "sent"
    /\ wait' = "served"
    /\ ServeReport(sent)
    /\ sent' = {}
    /\ UNCHANGED late

ServeLate ==
    \E report \in BagToSet(late) :
        /\ late' = late (-) SetToBag({report})
        /\ ServeReport(report)
        /\ UNCHANGED <<sent, wait>>

-----------------------------------------------------------------------------

\* The process stops and starts again; the files stay.
Crash ==
    /\ lock' = "free"
    /\ draft' = [t \in Thread |-> {}]
    /\ todo' = << >>
    /\ sent' = {}
    /\ wait' = "no"
    /\ late' = EmptyBag
    /\ overtaken' = [t \in Thread |-> {}]
    /\ UNCHANGED <<file, tmp, ignored>>

\* A message, a command, a departure or a webhook
Begin ==
    \/ \E n \in Nick, task \in Task, id \in Ident : ChairAck(n, task, id) \/ ChairNack(n, task, id)
    \/ \E n \in Nick, task \in Task, id \in Ident, result \in {"pass", "fail"},
          pull \in Pull \cup {NoPull} : ChairDone(n, task, id, result, pull)
    \/ \E n \in Nick : ChairRelease(n)
    \/ ChairBored
    \/ ChairIgnore
    \/ ChairUnignore
    \/ \E i \in Issue : IssueOpened(i) \/ IssueClosed(i)
    \/ \E p \in Pull : PullPushed(p) \/ PullMerged(p) \/ PullClosed(p)

Continue ==
    \/ \E t \in Thread : Write(t) \/ Rename(t) \/ RenameFails(t)
    \/ ChairPurges
    \/ ChairResaves
    \/ ChairSupersedes
    \/ ChairPosts
    \/ ChairPostFails
    \/ ChairGivesUp
    \/ ServeAwaited
    \/ ServeLate
    \/ Crash

Next == Begin \/ Continue

Spec == Init /\ [][Next]_vars

-----------------------------------------------------------------------------
(* Properties.                                                             *)

Drafts == UNION {draft[t] : t \in Thread}

TypeOK ==
    /\ file \in Doc
    /\ tmp \subseteq Doc
    /\ ignored \in BOOLEAN
    /\ lock \in Thread \cup {"free"}
    /\ draft \in [Thread -> SUBSET Drafts]
    /\ \A t \in Thread : Cardinality(draft[t]) <= 1
    /\ Drafts \subseteq Draft
    /\ \A k \in DOMAIN todo : todo[k] \in Step
    /\ sent \in Report
    /\ wait \in {"no", "sent", "served"}
    /\ BagToSet(late) \subseteq Report
    /\ overtaken \in [Thread -> SUBSET Operation]

\* Whatever saves overtake each other, reports arrive late and crashes cut
\* handlers short: the file never has two rows of one review, nor one job twice
\* in the hands of a machine's seats.
FileReviewsOnce == ReviewsOnce(file)

FileMachinesHoldOnce == MachinesHoldOnce(file)

\* What queue_lock does give: webhooks, ACKs and DONEs do not overtake each other
\* between load and save, also not between the two saves of a DONE.
SerializedInOrder ==
    \A t \in Thread : \A d \in draft[t] :
        d.by \in Serialized => overtaken[t] \cap Serialized = {}

-----------------------------------------------------------------------------
(* What the repository says of the file and the code does not do.          *)

\* A save replaces the version its thread loaded, not a later one.
\* src/jeeves/queue.py:23: "Per-home RLock for load/mutate/save of queue.json."
SavesAreSerial ==
    [][\A t \in Thread : draft[t] # {} /\ file' # file /\ draft'[t] = {}
         => overtaken[t] = {}]_vars
=============================================================================
