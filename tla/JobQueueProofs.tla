--------------------------- MODULE JobQueueProofs ---------------------------
(***************************************************************************)
(* Proofs about JobQueue for every set of issues, pull requests and seats. *)
(* Its operations are atomic, so its document keeps all of Sound.          *)
(***************************************************************************)
EXTENDS JobQueue, QueueDocProofs

-----------------------------------------------------------------------------
(* The invariant.                                                          *)

Inv == Sound(queue, "atomic") /\ ignored \in BOOLEAN /\ IgnoredHasNoRow

\* The empty queue satisfies the invariant.
LEMMA InitInv == Init => Inv
  BY EmptySound DEF Init, Inv, IgnoredHasNoRow

\* Every step of the queue keeps the invariant.
LEMMA NextInv == Inv /\ [Next]_vars => Inv'
  <1> SUFFICES ASSUME Inv, [Next]_vars PROVE Inv' OBVIOUS
  <1> USE DEF Inv
  <1>1. CASE \E i \in Issue : IssueOpened(i) \/ IssueClosed(i)
    <2>1. Issue \subseteq Ident BY DEF Ident
    <2> QED
      BY <1>1, <2>1, AfterFrSound, AfterCloseSound
      DEF IssueOpened, IssueClosed, Webhook, IgnoredHasNoRow
  <1>2. CASE \E p \in Pull : PullPushed(p) \/ PullMerged(p) \/ PullClosed(p)
    <2>1. PICK p \in Pull : PullPushed(p) \/ PullMerged(p) \/ PullClosed(p) BY <1>2
    <2>2. LinksOf[p] \in SUBSET Ident /\ AuthorOf[p] \in SUBSET Nick
      BY PullAssumption DEF Ident
    <2> QED
      BY <2>1, <2>2, AfterMrbSound, AfterUatSound, AfterUnmergedSound
      DEF PullPushed, PullMerged, PullClosed, Webhook, IgnoredHasNoRow
  <1>3. CASE AckSome
    <2>1. PICK n \in Nick, task \in Task, id \in Ident : Ack(n, task, id)
      BY <1>3 DEF AckSome
    <2>2. PICK res \in AckResults(queue, n, task, id) :
            /\ \/ queue' = res.queue
               \/ \E r \in res.row : queue' = AfterQueueAccept(res.queue, r)
            /\ ignored' = ignored
      BY <2>1 DEF Ack
    <2>3. Sound(queue', "atomic") BY <2>2, AckSound
    <2>4. ignored => queue' = queue BY <2>2, NothingOpen DEF IgnoredHasNoRow, Sound
    <2> QED BY <2>2, <2>3, <2>4 DEF IgnoredHasNoRow
  <1>4. CASE NackSome
    <2>1. PICK n \in Nick, task \in Task, id \in Ident : Nack(n, task, id)
      BY <1>4 DEF NackSome
    <2>2. Sound(queue', "atomic") BY <2>1, AfterNackSound DEF Nack
    <2>3. ignored => queue' = queue BY <2>1, NothingOpen DEF Nack, IgnoredHasNoRow, Sound
    <2> QED BY <2>1, <2>2, <2>3 DEF Nack, IgnoredHasNoRow
  <1>5. CASE DoneSome
    <2>1. PICK n \in Nick, task \in Task, id \in Ident, result \in {"pass", "fail"},
               pull \in Pull \cup {NoPull} : Done(n, task, id, result, pull)
      BY <1>5 DEF DoneSome
    <2>2. Sound(queue', "atomic") BY <2>1, AfterDoneSound DEF Done
    <2>3. ignored => queue' = queue BY <2>1, NothingOpenDone DEF Done, IgnoredHasNoRow, Sound
    <2> QED BY <2>1, <2>2, <2>3 DEF Done, IgnoredHasNoRow
  <1>6. CASE ReleaseSome
    <2>1. PICK n \in Nick : Release(n) BY <1>6 DEF ReleaseSome
    <2>2. Sound(queue', "atomic") BY <2>1, AfterReleaseSound DEF Release
    <2>3. ignored => Open(queue') = {}
      BY <2>1, NothingOpen DEF Release, IgnoredHasNoRow, Sound
    <2> QED BY <2>1, <2>2, <2>3 DEF Release, IgnoredHasNoRow
  <1>7. CASE OfferScan
    <2> DEFINE q1 == AfterPurgeStaleMrb(queue)
               q2 == AfterPurgeDeadMrb(q1)
    <2>1. PICK rows \in SUBSET DeadFrs(q2) : queue' = AfterPurgeRows(q2, rows)
      BY <1>7 DEF OfferScan
    <2>2. Sound(q1, "atomic") /\ Open(q1) \subseteq Open(queue) BY OfferScanSound
    <2>3. Sound(q2, "atomic") /\ Open(q2) \subseteq Open(queue) BY <2>2, OfferScanSound
    <2>4. Sound(queue', "atomic") /\ Open(queue') \subseteq Open(queue)
      BY <2>1, <2>3, OfferScanSound
    <2> QED BY <1>7, <2>4 DEF OfferScan, IgnoredHasNoRow
  <1>8. CASE Ignore BY <1>8, AfterIgnoreSound DEF Ignore, IgnoredHasNoRow
  <1>9. CASE Unignore BY <1>9 DEF Unignore, IgnoredHasNoRow
  <1>10. CASE UNCHANGED vars BY <1>10 DEF vars, IgnoredHasNoRow
  <1> QED
    BY <1>1, <1>2, <1>3, <1>4, <1>5, <1>6, <1>7, <1>8, <1>9, <1>10 DEF Next

\* Every reachable queue is sound: the conjuncts depend on each other (moving a
\* row to a seat keeps reviews single only if no seat of its machine has it, and a
\* merge that restores an issue relies on its UAT being gone), so they are proved
\* as one inductive invariant.
THEOREM Invariance == Spec => []Inv
  BY InitInv, NextInv, PTL DEF Spec

\* The queue keeps its type.
THEOREM TypeCorrect == Spec => []TypeOK
  BY Invariance, PTL DEF Inv, Sound, TypeOK

\* A review is offered once and never while a seat has it.
THEOREM ReviewsAreSingle == Spec => []OneReviewRow
  BY Invariance, PTL DEF Inv, Sound, OneReviewRow

\* K15: no merge, retry or ACK brings a UAT of a held issue back.
THEOREM HeldIssuesHaveNoUat == Spec => []HeldIssueHasNoUat
  <1>1. Inv => HeldIssueHasNoUat BY DEF Inv, Sound, HeldIssueHasNoUat
  <1> QED BY <1>1, Invariance, PTL

\* One machine holds a job once.
THEOREM MachinesHoldJobsOnce == Spec => []OneSeatPerMachine
  BY Invariance, PTL DEF Inv, Sound, OneSeatPerMachine

\* Nothing enters the queue of an ignored repository.
THEOREM IgnoredStaysEmpty == Spec => []IgnoredHasNoRow
  BY Invariance, PTL DEF Inv

-----------------------------------------------------------------------------
(* The refinement of ReviewLease.                                          *)

\* Every row in somebody's hands after a step was in the hands of the same
\* machine before, or was waiting.
HandsOn(q, d) ==
    \A r \in d.accepted :
        \/ \E s \in q.accepted : SameJob(r, s) /\ MachineOf[r.nick] = MachineOf[s.nick]
        \/ \E s \in q.unaccepted : SameJob(r, s)

\* A document in which nobody got a row is a step of ReviewLease.
LEMMA ShrinksHandsOn ==
    ASSUME NEW q, NEW d, Shrinks(q, d)
    PROVE  HandsOn(q, d)
  BY DEF Shrinks, HandsOn, SameJob

\* The lease of a pull request is a seat that holds its MRB, or says that none does.
LEMMA LeaseOfType ==
    ASSUME NEW q, Sound(q, "atomic"), NEW p
    PROVE  /\ MrbHolders(q, p) # {} => LeaseOf(q, p) \in MrbHolders(q, p)
           /\ MrbHolders(q, p) = {} => LeaseOf(q, p) \in {"absent", "queued"}
           /\ LeaseOf(q, p) \in Nick \cup {"absent", "queued"}
  <1>1. MrbHolders(q, p) \subseteq Nick BY DEF Sound, RowsHeld, MrbHolders
  <1> QED BY <1>1 DEF LeaseOf

\* HandsOn between two documents is what ReviewLease asks of a step.
LEMMA LeaseStep ==
    ASSUME NEW q, Sound(q, "atomic"), NEW d, Sound(d, "atomic"), HandsOn(q, d), NEW p
    PROVE  Lease!MayFollow(LeaseOf(q, p), LeaseOf(d, p))
  <1>1. CASE MrbHolders(d, p) = {} BY <1>1, LeaseOfType DEF Lease!MayFollow
  <1>2. CASE MrbHolders(d, p) # {}
    <2>1. LeaseOf(d, p) \in MrbHolders(d, p) /\ LeaseOf(d, p) \in Nick
      BY <1>2, LeaseOfType DEF Sound, RowsHeld, MrbHolders
    <2>2. PICK r \in d.accepted : IsJob(r, "MRB", p) /\ r.nick = LeaseOf(d, p)
      BY <2>1 DEF MrbHolders
    <2>3. ASSUME NEW s \in q.accepted, SameJob(r, s), MachineOf[r.nick] = MachineOf[s.nick]
          PROVE  Lease!MayFollow(LeaseOf(q, p), LeaseOf(d, p))
      <3>1. IsJob(s, "MRB", p) BY <2>2, <2>3 DEF SameJob, IsJob
      <3>2. LeaseOf(q, p) \in MrbHolders(q, p) BY <3>1, LeaseOfType DEF MrbHolders
      <3>3. PICK a \in q.accepted : IsJob(a, "MRB", p) /\ a.nick = LeaseOf(q, p)
        BY <3>2 DEF MrbHolders
      <3>4. a = s BY <3>1, <3>3 DEF Sound, ReviewsOnce, Open, SameJob, IsJob
      <3>5. LeaseOf(q, p) \in Nick BY <3>3 DEF Sound, RowsHeld
      <3> QED BY <2>1, <2>2, <2>3, <3>3, <3>4, <3>5 DEF Lease!MayFollow
    <2>4. ASSUME NEW s \in q.unaccepted, SameJob(r, s)
          PROVE  Lease!MayFollow(LeaseOf(q, p), LeaseOf(d, p))
      <3>1. IsJob(s, "MRB", p) BY <2>2, <2>4 DEF SameJob, IsJob
      <3>2. MrbHolders(q, p) = {}
        BY <3>1 DEF MrbHolders, Sound, ReviewsOnce, SameJob, IsJob
      <3>3. LeaseOf(q, p) = "queued" BY <3>1, <3>2 DEF LeaseOf, MrbQueued
      <3> QED BY <2>1, <3>3 DEF Lease!MayFollow
    <2> QED BY <2>3, <2>4 DEF HandsOn
  <1> QED BY <1>1, <1>2

\* An ACK hands a review over within a machine or from the queue.
LEMMA AckHandsOn ==
    ASSUME NEW q, Sound(q, "atomic"), NEW n \in Nick, NEW task, NEW id,
           NEW res \in AckResults(q, n, task, id)
    PROVE  /\ res.row \subseteq res.queue.accepted
           /\ HandsOn(q, res.queue)
           /\ \A r \in res.row : HandsOn(q, AfterQueueAccept(res.queue, r))
  <1> DEFINE mine    == MineRows(q, n, task, id)
             sibling == SiblingRows(q, n, task, id)
             waiting == WaitingRows(q, task, id)
  <1>1. q \in Doc BY DEF Sound
  <1>2. CASE mine # {}
    <2>1. PICK r \in mine : res = [queue |-> q, row |-> {r}] BY <1>2 DEF AckResults
    <2>2. HandsOn(q, q) BY DEF HandsOn, SameJob
    <2>3. r \in q.accepted BY DEF MineRows, HeldBy
    <2> QED BY <1>1, <2>1, <2>2, <2>3 DEF HandsOn, AfterQueueAccept, Doc
  <1>3. CASE mine = {} /\ sibling # {}
    <2>1. PICK r \in sibling :
            res = [queue |-> [q EXCEPT !.accepted = (@ \ {r}) \cup {Taken(r, n)}],
                   row   |-> {Taken(r, n)}]
      BY <1>3 DEF AckResults
    <2>2. r \in q.accepted /\ r \in Row /\ MachineOf[r.nick] = MachineOf[n]
      BY <1>1 DEF SiblingRows, Doc
    <2>3. SameJob(Taken(r, n), r) /\ Taken(r, n).nick = n BY <2>2, TakenType
    <2>4. /\ res.queue.accepted = (q.accepted \ {r}) \cup {Taken(r, n)}
          /\ res.row = {Taken(r, n)}
          /\ AfterQueueAccept(res.queue, Taken(r, n)).accepted
               \subseteq q.accepted \cup {Taken(r, n)}
      BY <1>1, <2>1 DEF Doc, AfterQueueAccept
    <2> QED BY <2>2, <2>3, <2>4 DEF HandsOn, SameJob
  <1>4. CASE mine = {} /\ sibling = {} /\ waiting # {}
    <2>0. PICK r \in waiting : \E rows \in Capped(q.accepted, Taken(r, n)) :
            res = [queue |-> [q EXCEPT !.unaccepted = @ \ {r}, !.accepted = rows],
                   row   |-> {Taken(r, n)}]
      BY <1>4 DEF AckResults
    <2>1. PICK rows \in Capped(q.accepted, Taken(r, n)) :
            res = [queue |-> [q EXCEPT !.unaccepted = @ \ {r}, !.accepted = rows],
                   row   |-> {Taken(r, n)}]
      BY <2>0
    <2>2. r \in q.unaccepted /\ r \in Row BY <1>1 DEF WaitingRows, Doc
    <2>3. SameJob(Taken(r, n), r) BY <2>2, TakenType
    <2>4. rows \subseteq q.accepted \cup {Taken(r, n)} /\ Taken(r, n) \in rows
      BY <2>1 DEF Capped
    <2>5. /\ res.queue.accepted = rows
          /\ res.row = {Taken(r, n)}
          /\ AfterQueueAccept(res.queue, Taken(r, n)).accepted
               \subseteq rows \cup {Taken(r, n)}
      BY <1>1, <2>1 DEF Doc, AfterQueueAccept
    <2> QED BY <2>2, <2>3, <2>4, <2>5 DEF HandsOn, SameJob
  <1>5. CASE mine = {} /\ sibling = {} /\ waiting = {}
    <2>1. res = [queue |-> q, row |-> {}] BY <1>5 DEF AckResults
    <2> QED BY <2>1 DEF HandsOn, SameJob
  <1> QED BY <1>2, <1>3, <1>4, <1>5

\* Every step of the queue hands reviews on as ReviewLease allows.
LEMMA NextHandsOn == Inv /\ [Next]_vars => HandsOn(queue, queue')
  <1> SUFFICES ASSUME Inv, [Next]_vars PROVE HandsOn(queue, queue') OBVIOUS
  <1>0. Sound(queue, "atomic") BY DEF Inv
  <1>1. CASE \E i \in Issue : IssueOpened(i) \/ IssueClosed(i)
    <2>1. Issue \subseteq Ident BY DEF Ident
    <2> QED
      BY <1>0, <1>1, <2>1, AfterFrSound, AfterCloseSound, ShrinksHandsOn
      DEF IssueOpened, IssueClosed, Webhook
  <1>2. CASE \E p \in Pull : PullPushed(p) \/ PullMerged(p) \/ PullClosed(p)
    <2>1. PICK p \in Pull : PullPushed(p) \/ PullMerged(p) \/ PullClosed(p) BY <1>2
    <2>2. LinksOf[p] \in SUBSET Ident /\ AuthorOf[p] \in SUBSET Nick
      BY PullAssumption DEF Ident
    <2> QED
      BY <1>0, <2>1, <2>2, AfterMrbSound, AfterUatSound, AfterUnmergedSound, ShrinksHandsOn
      DEF PullPushed, PullMerged, PullClosed, Webhook
  <1>3. CASE AckSome BY <1>0, <1>3, AckHandsOn DEF AckSome, Ack
  <1>4. CASE NackSome BY <1>0, <1>4, AfterNackSound, ShrinksHandsOn DEF NackSome, Nack
  <1>5. CASE DoneSome BY <1>0, <1>5, AfterDoneSound, ShrinksHandsOn DEF DoneSome, Done
  <1>6. CASE ReleaseSome
    BY <1>0, <1>6, AfterReleaseSound, ShrinksHandsOn DEF ReleaseSome, Release
  <1>7. CASE OfferScan
    <2> DEFINE q1 == AfterPurgeStaleMrb(queue)
               q2 == AfterPurgeDeadMrb(q1)
    <2>1. PICK rows \in SUBSET DeadFrs(q2) : queue' = AfterPurgeRows(q2, rows)
      BY <1>7 DEF OfferScan
    <2>2. Sound(q1, "atomic") /\ Sound(q2, "atomic") BY <1>0, OfferScanSound
    <2>3. q1.accepted = queue.accepted BY <1>0 DEF AfterPurgeStaleMrb, Sound, Doc
    <2>4. q2.accepted = q1.accepted BY <2>2 DEF AfterPurgeDeadMrb, Sound, Doc
    <2>5. queue'.accepted = q2.accepted BY <2>1, <2>2 DEF AfterPurgeRows, Sound, Doc
    <2> QED BY <2>3, <2>4, <2>5, ShrinksHandsOn DEF Shrinks
  <1>8. CASE Ignore
    <2>1. queue'.accepted = {} BY <1>0, <1>8 DEF Ignore, AfterIgnore, Sound, Doc
    <2> QED BY <2>1 DEF HandsOn
  <1>9. CASE Unignore \/ UNCHANGED vars
    BY <1>9, ShrinksHandsOn DEF Unignore, vars, Shrinks
  <1> QED BY <1>1, <1>2, <1>3, <1>4, <1>5, <1>6, <1>7, <1>8, <1>9 DEF Next

\* The review of a pull request is nobody's, waits, or is with one seat, and
\* passes from seat to seat only within a machine.
THEOREM Refinement == Spec => ImplementsLease
  <1>1. Init => Lease!Init
    <2> SUFFICES ASSUME Init PROVE lease = [p \in Pull |-> "absent"] BY DEF Lease!Init
    <2>1. \A p : LeaseOf(queue, p) = "absent"
      BY DEF Init, EmptyQueue, LeaseOf, MrbHolders, MrbQueued
    <2> QED BY <2>1 DEF lease
  <1>2. Inv /\ Inv' /\ [Next]_vars => [Lease!Next]_lease
    <2> SUFFICES ASSUME Inv, Inv', [Next]_vars PROVE Lease!Next OBVIOUS
    <2>1. Sound(queue, "atomic") /\ Sound(queue', "atomic") /\ HandsOn(queue, queue') BY NextHandsOn DEF Inv
    <2>2. lease' = [p \in Pull |-> LeaseOf(queue', p)] BY DEF lease
    <2>3. lease' \in [Pull -> Nick \cup {"absent", "queued"}] BY <2>1, <2>2, LeaseOfType
    <2>4. \A p \in Pull : Lease!MayFollow(lease[p], lease'[p])
      BY <2>1, <2>2, LeaseStep DEF lease
    <2> QED BY <2>3, <2>4 DEF Lease!Next
  <1> QED BY <1>1, <1>2, Invariance, PTL DEF Spec, ImplementsLease, Lease!Spec

-----------------------------------------------------------------------------
(* Seats lose no job.                                                      *)

\* Below the cap an ACK loses no job.
LEMMA AckKeepsJobs ==
    ASSUME NEW q, Sound(q, "atomic"), Cardinality(q.accepted) < AcceptedCap,
           NEW n \in Nick, NEW task, NEW id, NEW res \in AckResults(q, n, task, id)
    PROVE  Jobs(q) \subseteq Jobs(res.queue)
  <1> DEFINE mine    == MineRows(q, n, task, id)
             sibling == SiblingRows(q, n, task, id)
             waiting == WaitingRows(q, task, id)
  <1>1. q \in Doc BY DEF Sound
  <1>2. CASE mine # {} BY <1>2 DEF AckResults
  <1>3. CASE mine = {} /\ sibling # {}
    <2>1. PICK r \in sibling :
            res = [queue |-> [q EXCEPT !.accepted = (@ \ {r}) \cup {Taken(r, n)}],
                   row   |-> {Taken(r, n)}]
      BY <1>3 DEF AckResults
    <2>2. SameJob(Taken(r, n), r) BY <1>1, TakenType DEF SiblingRows, Doc
    <2>3. Open(res.queue) = q.unaccepted \cup (q.accepted \ {r}) \cup {Taken(r, n)}
      BY <1>1, <2>1 DEF Open, Doc
    <2> QED BY <2>2, <2>3 DEF Jobs, Open, SameJob
  <1>4. CASE mine = {} /\ sibling = {} /\ waiting # {}
    <2>1. PICK r \in waiting :
            res = [queue |-> [q EXCEPT !.unaccepted = @ \ {r},
                                       !.accepted = q.accepted \cup {Taken(r, n)}],
                   row   |-> {Taken(r, n)}]
      BY <1>4, ZenonT(40) DEF AckResults, Capped
    <2>2. SameJob(Taken(r, n), r) BY <1>1, TakenType DEF WaitingRows, Doc
    <2>3. Open(res.queue) = (q.unaccepted \ {r}) \cup q.accepted \cup {Taken(r, n)}
      BY <1>1, <2>1 DEF Open, Doc
    <2> QED BY <2>2, <2>3 DEF Jobs, Open, SameJob
  <1>5. CASE mine = {} /\ sibling = {} /\ waiting = {} BY <1>5 DEF AckResults
  <1> QED BY <1>2, <1>3, <1>4, <1>5

\* A NACK loses no job.
LEMMA NackKeepsJobs ==
    ASSUME NEW q, Sound(q, "atomic"), NEW n \in Nick, NEW task, NEW id,
           NEW d \in AfterNack(q, n, task, id)
    PROVE  Jobs(q) \subseteq Jobs(d)
  <1> DEFINE mine == MineRows(q, n, task, id)
  <1>1. CASE mine = {} BY <1>1 DEF AfterNack
  <1>2. CASE mine # {}
    <2>1. PICK r \in mine : d = Enqueue([q EXCEPT !.accepted = @ \ {r}], {GivenUp(r, n)})
      BY <1>2 DEF AfterNack
    <2>2. q \in Doc /\ r \in Row BY DEF Sound, Doc, MineRows, HeldBy
    <2> DEFINE up == GivenUp(r, n)
    <2>3. SameJob(up, r) BY <2>2, GivenUpType
    <2>4. d.accepted = q.accepted \ {r}
          /\ d.unaccepted = {u \in q.unaccepted : ~SameJob(u, up)} \cup {up}
      BY <2>1, <2>2 DEF Enqueue, Doc
    <2> HIDE DEF up
    <2> QED BY <2>3, <2>4 DEF Jobs, Open, SameJob
  <1> QED BY <1>1, <1>2

\* A departure loses no job.
LEMMA ReleaseKeepsJobs ==
    ASSUME NEW q, Sound(q, "atomic"), NEW n
    PROVE  Jobs(q) \subseteq Jobs(AfterRelease(q, n))
  <1> DEFINE mine == {a \in q.accepted : a.nick = n}
             freed == {Freed(r) : r \in mine}
  <1>1. q \in Doc BY DEF Sound
  <1>2. \A r \in mine : SameJob(Freed(r), r) BY <1>1, FreedType DEF Doc
  <1>3. Open(AfterRelease(q, n)) = q.unaccepted \cup freed \cup (q.accepted \ mine)
    BY <1>1 DEF AfterRelease, Open, Doc
  <1> QED BY <1>2, <1>3 DEF Jobs, Open, SameJob

\* Taking a job, giving it up and leaving lose no job while the accepted rows
\* are below their cap.
THEOREM NoJobLost == Spec => SeatsKeepJobs
  <1> DEFINE Keeps ==
        (AckSome \/ NackSome \/ ReleaseSome) /\ Cardinality(queue.accepted) < AcceptedCap
          => Jobs(queue) \subseteq Jobs(queue')
  <1>1. Inv /\ [Next]_vars => [Keeps]_vars
    <2> SUFFICES ASSUME Inv, AckSome \/ NackSome \/ ReleaseSome,
                        Cardinality(queue.accepted) < AcceptedCap
                 PROVE  Jobs(queue) \subseteq Jobs(queue')
      OBVIOUS
    <2>0. Sound(queue, "atomic") BY DEF Inv
    <2>1. CASE AckSome
      <3>1. PICK n \in Nick, task \in Task, id \in Ident : Ack(n, task, id)
        BY <2>1 DEF AckSome
      <3>2. PICK res \in AckResults(queue, n, task, id) :
              \/ queue' = res.queue
              \/ \E r \in res.row : queue' = AfterQueueAccept(res.queue, r)
        BY <3>1 DEF Ack
      <3>3. Jobs(queue) \subseteq Jobs(res.queue) BY <2>0, AckKeepsJobs
      <3>4. ASSUME NEW r \in res.row
            PROVE  Jobs(res.queue) \subseteq Jobs(AfterQueueAccept(res.queue, r))
        <4>1. res.queue \in Doc BY <2>0, AckSound DEF Sound
        <4>2. Open(AfterQueueAccept(res.queue, r)) =
                {u \in Open(res.queue) : ~SameJob(u, r)} \cup {r}
          BY <4>1 DEF AfterQueueAccept, Open, Doc
        <4> QED BY <4>2 DEF Jobs, SameJob
      <3> QED BY <3>2, <3>3, <3>4
    <2>2. CASE NackSome BY <2>0, <2>2, NackKeepsJobs DEF NackSome, Nack
    <2>3. CASE ReleaseSome BY <2>0, <2>3, ReleaseKeepsJobs DEF ReleaseSome, Release
    <2> QED BY <2>1, <2>2, <2>3
  <1> QED BY <1>1, Invariance, PTL DEF Spec, SeatsKeepJobs
=============================================================================
