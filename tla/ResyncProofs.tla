---------------------------- MODULE ResyncProofs ----------------------------
(***************************************************************************)
(* Proofs about Resync for every set of issues, pull requests and seats.   *)
(* A resync may double a review when two seats are at work on one number,  *)
(* so the documents here are only known to be typed, not sound, and the    *)
(* property that no review is doubled is one of each reconcile by itself.  *)
(***************************************************************************)
EXTENDS Resync, QueueDocProofs

\* Rows at work have a holder, rows that wait have none.
Typed(q) ==
    /\ q \in Doc
    /\ \A r \in q.accepted : r.nick # NoNick
    /\ \A r \in q.unaccepted : r.nick = NoNick

\* The three GETs of a resync are made in their order.
GetsInOrder ==
    \A t \in Runner : fetch[t] # NoFetch =>
        /\ fetch[t].pulls # NoFetch => fetch[t].issues # NoFetch
        /\ fetch[t].merged # NoFetch => fetch[t].pulls # NoFetch

\* A resync that was started before the grace was over releases no orphans.
NoEarlyRelease ==
    ~ready => \A t \in Runner : fetch[t] # NoFetch => ~fetch[t].release

ResyncInv == ResyncTypeOK /\ GetsInOrder /\ NoEarlyRelease

-----------------------------------------------------------------------------
(* Documents keep their type.                                              *)

\* Rows that are taken away leave a typed document.
LEMMA DropTyped ==
    ASSUME NEW q, Typed(q), NEW ids, NEW tasks
    PROVE  Typed(Drop(q, ids, tasks))
  BY DEF Typed, Drop, Without, Doc

\* New rows without a holder may wait in a typed document.
LEMMA EnqueueTyped ==
    ASSUME NEW q, Typed(q), NEW rows \in SUBSET Row, \A r \in rows : r.nick = NoNick
    PROVE  Typed(Enqueue(q, rows))
  BY DEF Typed, Enqueue, Doc

\* So may FRs.
LEMMA EnqueueFrsTyped ==
    ASSUME NEW q, Typed(q), NEW frs \in SUBSET Ident
    PROVE  Typed(Enqueue(q, {FrRow(i) : i \in frs}))
  <1>1. {FrRow(i) : i \in frs} \in SUBSET Row BY FrRowType
  <1>2. \A r \in {FrRow(i) : i \in frs} : r.nick = NoNick BY DEF FrRow, NewRow
  <1> QED BY <1>1, <1>2, EnqueueTyped

\* Holds do not matter to the rows.
LEMMA HoldTyped ==
    ASSUME NEW q, Typed(q), NEW h \in SUBSET Ident
    PROVE  Typed([q EXCEPT !.hold = h])
  BY DEF Typed, Doc

\* K15 keeps a document typed.
LEMMA RestoreFrsTyped ==
    ASSUME NEW q, Typed(q), NEW p, NEW frs \in SUBSET Ident
    PROVE  Typed(RestoreFrs(q, p, frs))
  <1> DEFINE d == Enqueue(Drop(Drop(q, {p}, {"MRB"}), frs, {"UAT"}), {FrRow(i) : i \in frs})
  <1>1. Typed(d) BY DropTyped, EnqueueFrsTyped
  <1>2. d.hold \cup frs \in SUBSET Ident BY <1>1 DEF Typed, Doc
  <1>3. RestoreFrs(q, p, frs) = [d EXCEPT !.hold = d.hold \cup frs] BY DEF RestoreFrs
  <1> HIDE DEF d
  <1> QED BY <1>1, <1>2, <1>3, HoldTyped

\* The FR, CLOSE and RESTORE_FR claims keep a document typed.
LEMMA IssueClaimsTyped ==
    ASSUME NEW q, Typed(q), NEW i \in Ident
    PROVE  Typed(AfterFr(q, i)) /\ Typed(AfterClose(q, i))
  <1>1. {FrRow(j) : j \in {i}} = {FrRow(i)} OBVIOUS
  <1>2. \A ids, tasks : Typed(Drop(q, ids, tasks)) BY DropTyped
  <1>3. \A ids, tasks : Typed(Enqueue(Drop(q, ids, tasks), {FrRow(i)}))
    BY <1>1, <1>2, EnqueueFrsTyped
  <1>4. Typed(AfterFr(q, i)) BY <1>2, <1>3 DEF AfterFr
  <1> DEFINE d == Enqueue(Drop(q, {i}, {"MRB", "UAT"}), {FrRow(i)})
  <1>5. Typed(d) BY <1>3
  <1>6. Typed([d EXCEPT !.hold = d.hold \ {i}])
    <2> HIDE DEF d
    <2>1. d.hold \ {i} \in SUBSET Ident BY <1>5 DEF Typed, Doc
    <2> QED BY <1>5, <2>1, HoldTyped
  <1>7. Typed(AfterClose(q, i)) BY <1>2, <1>6 DEF AfterClose
  <1> QED BY <1>4, <1>7

\* The MRB, UAT and RESTORE_FR claims keep a document typed.
LEMMA PullClaimsTyped ==
    ASSUME NEW q, Typed(q), NEW p \in Pull, NEW links \in SUBSET Issue
    PROVE  /\ Typed(AfterMrb(q, p, links, {}))
           /\ Typed(AfterUat(q, p, links))
           /\ Typed(AfterUnmerged(q, p, links))
  <1>1. links \in SUBSET Ident /\ p \in Ident BY DEF Ident
  <1>2. MrbRow(p, links, {}) \in Row /\ MrbRow(p, links, {}).nick = NoNick
    BY <1>1, MrbRowType DEF MrbRow, NewRow
  <1>3. Typed(AfterMrb(q, p, links, {}))
    <2>1. {MrbRow(p, links, {})} \in SUBSET Row BY <1>2
    <2> QED BY <1>2, <2>1, DropTyped, EnqueueTyped DEF AfterMrb
  <1>4. Typed(AfterUnmerged(q, p, links))
    BY <1>1, DropTyped, EnqueueFrsTyped DEF AfterUnmerged
  <1>5. Typed(AfterUat(q, p, links))
    <2> DEFINE targets == IF links = {} THEN {p} ELSE links
               rows == {UatRow(t, p, MrbSeats(q, p)) : t \in targets}
    <2>1. targets \in SUBSET Ident BY <1>1
    <2>2. MrbSeats(q, p) \in SUBSET Nick BY MrbSeatsType DEF Typed
    <2> HIDE DEF targets
    <2>3. rows \in SUBSET Row BY <2>1, <2>2, UatRowType
    <2>4. \A r \in rows : r.nick = NoNick BY DEF UatRow, NewRow
    <2> HIDE DEF rows
    <2>5. Typed(Enqueue(Drop(Drop(q, {p}, {"MRB"}), targets, {"FR", "UAT"}), rows))
      BY <2>3, <2>4, DropTyped, EnqueueTyped
    <2>6. Typed(RestoreFrs(q, p, targets)) BY <2>1, RestoreFrsTyped
    <2> QED BY <2>5, <2>6 DEF AfterUat, targets, rows
  <1> QED BY <1>3, <1>4, <1>5

\* ACK keeps a document typed.
LEMMA AckTyped ==
    ASSUME NEW q, Typed(q), NEW n \in Nick, NEW task, NEW id,
           NEW res \in AckResults(q, n, task, id)
    PROVE  Typed(res.queue)
  <1>1. CASE res.queue = q BY <1>1
  <1>2. ASSUME NEW r \in Open(q), NEW rows \in SUBSET (q.accepted \cup {Taken(r, n)}),
               NEW waits \in SUBSET q.unaccepted,
               res.queue = [q EXCEPT !.unaccepted = waits, !.accepted = rows]
        PROVE  Typed(res.queue)
    <2>1. Taken(r, n) \in Row /\ Taken(r, n).nick # NoNick
      BY TakenType, IdentAssumption DEF Open, Typed, Doc
    <2> QED BY <1>2, <2>1 DEF Typed, Doc
  <1>3. CASE MineRows(q, n, task, id) # {} BY <1>1, <1>3 DEF AckResults
  <1>4. CASE MineRows(q, n, task, id) = {} /\ SiblingRows(q, n, task, id) # {}
    <2>1. PICK r \in SiblingRows(q, n, task, id) :
            res = [queue |-> [q EXCEPT !.accepted = (@ \ {r}) \cup {Taken(r, n)}],
                   row   |-> {Taken(r, n)}]
      BY <1>4 DEF AckResults
    <2>2. r \in Open(q) BY DEF SiblingRows, Open
    <2>3. res.queue = [q EXCEPT !.unaccepted = q.unaccepted,
                                !.accepted = (q.accepted \ {r}) \cup {Taken(r, n)}]
      BY <2>1 DEF Typed, Doc
    <2> QED BY <2>2, <2>3, <1>2
  <1>5. CASE /\ MineRows(q, n, task, id) = {}
             /\ SiblingRows(q, n, task, id) = {}
             /\ WaitingRows(q, task, id) # {}
    <2>1. PICK r \in WaitingRows(q, task, id) : \E rows \in Capped(q.accepted, Taken(r, n)) :
            res = [queue |-> [q EXCEPT !.unaccepted = @ \ {r}, !.accepted = rows],
                   row   |-> {Taken(r, n)}]
      BY <1>5 DEF AckResults
    <2>4. PICK rows \in Capped(q.accepted, Taken(r, n)) :
            res = [queue |-> [q EXCEPT !.unaccepted = @ \ {r}, !.accepted = rows],
                   row   |-> {Taken(r, n)}]
      BY <2>1
    <2>2. r \in Open(q) BY DEF WaitingRows, Open
    <2>3. rows \in SUBSET (q.accepted \cup {Taken(r, n)}) BY DEF Capped
    <2> QED BY <2>4, <2>2, <2>3, <1>2, ZenonT(40)
  <1>6. CASE /\ MineRows(q, n, task, id) = {}
             /\ SiblingRows(q, n, task, id) = {}
             /\ WaitingRows(q, task, id) = {}
    BY <1>1, <1>6 DEF AckResults
  <1> QED BY <1>3, <1>4, <1>5, <1>6

\* DONE without a pull request keeps a document typed.
LEMMA DoneTyped ==
    ASSUME NEW q, Typed(q), NEW n \in Nick, NEW task, NEW id, NEW result \in {"pass", "fail"},
           NEW d \in AfterDone(q, n, task, id, result, NoPull)
    PROVE  Typed(d)
  <1>1. d = q \/ \E r \in q.accepted : d = Completed(q, r, task, result)
    BY DEF AfterDone, MineRows, HeldBy
  <1>2. ASSUME NEW r \in q.accepted PROVE Typed(Completed(q, r, task, result))
    <2> DEFINE list == KeepLast(Append(q.done, DoneRow(r, result)), DoneCap)
               moved == [q EXCEPT !.accepted = @ \ {r}, !.done = list]
               purged == IF "MRB" \in {task, r.task} THEN Drop(moved, {r.id}, {"MRB"}) ELSE moved
    <2>1. r \in Row /\ q.done \in Seq(Row) BY DEF Typed, Doc
    <2>2. list \in Seq(Row) BY <2>1, DoneRowType, KeepLastType
    <2> HIDE DEF list
    <2>3. Typed(moved) BY <2>2 DEF Typed, Doc
    <2> HIDE DEF moved
    <2>4. Typed(purged) BY <2>3, DropTyped
    <2> HIDE DEF purged
    <2>5. r.refs \in SUBSET Ident BY <2>1 DEF Row
    <2>6. Typed(RestoreFrs(purged, PullOf(r), r.refs)) BY <2>4, <2>5, RestoreFrsTyped
    <2>7. Completed(q, r, task, result) =
            IF r.task = "MRB" /\ result = "fail"
            THEN RestoreFrs(purged, PullOf(r), r.refs) ELSE purged
      BY DEF Completed, purged, moved, list
    <2> QED BY <2>4, <2>6, <2>7
  <1> QED BY <1>1, <1>2

\* The release of a seat keeps a document typed.
LEMMA ReleaseTyped ==
    ASSUME NEW q, Typed(q), NEW n \in Nick
    PROVE  Typed(AfterRelease(q, n))
  <1> DEFINE freed == {Freed(r) : r \in {a \in q.accepted : a.nick = n}}
  <1>1. \A r \in q.accepted : Freed(r) \in Row /\ Freed(r).nick = NoNick
    BY ZenonT(40) DEF Typed, Doc, Freed, Row
  <1>2. freed \in SUBSET Row /\ \A r \in freed : r.nick = NoNick BY <1>1
  <1> HIDE DEF freed
  <1>3. Typed([q EXCEPT !.unaccepted = q.unaccepted \cup freed,
                        !.accepted = {a \in q.accepted : a.nick # n}])
    BY <1>2 DEF Typed, Doc
  <1> QED BY <1>3 DEF AfterRelease, freed

-----------------------------------------------------------------------------
(* What a resync makes of a snapshot.                                      *)

\* A snapshot that is complete.
Snapshot == [issues : SUBSET Issue, pulls : SUBSET Pull, merged : SUBSET Pull,
             release : BOOLEAN, nicks : SUBSET Nick]

\* The jobs of a snapshot are new rows; an FR is about an issue, an MRB about a
\* pull request.
LEMMA FoundAreNew ==
    ASSUME NEW f \in Snapshot, NEW d \in Found(f)
    PROVE  /\ d = NewRow(d.task, d.id)
           /\ d \in Row /\ d.nick = NoNick
           /\ d.task = "FR" => d.id \in Issue
           /\ d.task = "MRB" => d.id \in Pull
  <1>1. \A p \in Pull : UatId(p) \in Ident BY ResyncAssumption DEF UatId, Ident
  <1>2. \/ \E p \in Pull : d = NewRow("MRB", p)
        \/ \E i \in Issue : d = NewRow("FR", i)
        \/ \E i \in Ident : d = NewRow("UAT", i)
    BY <1>1 DEF Found, Outstanding, Snapshot
  <1>3. PICK t \in Task, i \in Ident :
            /\ d = NewRow(t, i)
            /\ t = "FR" => i \in Issue
            /\ t = "MRB" => i \in Pull
    BY <1>2 DEF Task, Ident
  <1>4. NewRow(t, i) \in Row /\ NewRow(t, i).task = t /\ NewRow(t, i).id = i
    BY NewRowType
  <1>5. NewRow(t, i).nick = NoNick BY DEF NewRow
  <1>6. d.task = t /\ d.id = i /\ d.nick = NoNick /\ d \in Row BY <1>3, <1>4, <1>5
  <1> QED BY <1>3, <1>6

\* A snapshot has at most one job to make of a row: an FR and an MRB have no
\* number in common, and a UAT hides both.
LEMMA ShapeIsOne ==
    ASSUME NEW f \in Snapshot, NEW r
    PROVE  /\ Shapes(f, r) \subseteq {d \in Found(f) : d.id = r.id}
           /\ \A d, e \in Shapes(f, r) : d = e
  <1>1. Shapes(f, r) \subseteq {d \in Found(f) : d.id = r.id} BY DEF Shapes
  <1>2. ASSUME NEW d \in Shapes(f, r), NEW e \in Shapes(f, r)
        PROVE  d = e
    <2>1. d \in Found(f) /\ e \in Found(f) /\ d.id = e.id BY <1>1
    <2>2. d = NewRow(d.task, d.id) /\ e = NewRow(e.task, e.id) BY <2>1, FoundAreNew
    <2>3. d.task = e.task
      <3>1. (d.task = "UAT") <=> (e.task = "UAT") BY <2>1 DEF Shapes
      <3>2. d.task \in Task /\ e.task \in Task BY <2>1, FoundAreNew DEF Row
      <3>3. ~(d.task = "FR" /\ e.task = "MRB") /\ ~(d.task = "MRB" /\ e.task = "FR")
        BY <2>1, FoundAreNew, IdentAssumption
      <3> QED BY <3>1, <3>2, <3>3 DEF Task
    <2> QED BY <2>1, <2>2, <2>3
  <1> QED BY <1>1, <1>2

\* A row kept keeps its seat and its number, and becomes one row.
LEMMA RetypedIsOne ==
    ASSUME NEW f \in Snapshot, NEW r \in Row
    PROVE  /\ Retyped(f, r) # {}
           /\ \A a \in Retyped(f, r) : a \in Row /\ a.id = r.id /\ a.nick = r.nick
           /\ \A a, b \in Retyped(f, r) : a = b
  <1>1. CASE Shapes(f, r) = {} BY <1>1 DEF Retyped
  <1>2. CASE Shapes(f, r) # {}
    <2>1. \A d \in Shapes(f, r) : d.task \in Task BY ShapeIsOne, FoundAreNew DEF Row
    <2>2. Retyped(f, r) = {[r EXCEPT !.task = d.task] : d \in Shapes(f, r)}
      BY <1>2 DEF Retyped
    <2>4. Retyped(f, r) # {} BY <1>2, <2>2
    <2>5. \A a \in Retyped(f, r) : a \in Row /\ a.id = r.id /\ a.nick = r.nick
      <3> SUFFICES ASSUME NEW a \in Retyped(f, r)
                   PROVE  a \in Row /\ a.id = r.id /\ a.nick = r.nick
        OBVIOUS
      <3>1. PICK d \in Shapes(f, r) : a = [r EXCEPT !.task = d.task] BY <2>2
      <3>2. d.task \in Task BY <2>1
      <3> QED BY <3>1, <3>2 DEF Row
    <2>6. \A d, e \in Shapes(f, r) : d = e BY ShapeIsOne
    <2>7. \A a, b \in Retyped(f, r) : a = b BY <2>2, <2>6
    <2> QED BY <2>4, <2>5, <2>7
  <1> QED BY <1>1, <1>2

\* _reconcile_queue_locked keeps a document typed.
LEMMA ReconciledTyped ==
    ASSUME NEW q, Typed(q), NEW f \in Snapshot
    PROVE  Typed(Reconciled(q, f))
  <1> DEFINE kept == {r \in q.accepted : Keeps(f, r)}
             accepted == UNION {Retyped(f, r) : r \in kept}
             gone == {s \in q.accepted \ kept : s.nick \notin f.nicks}
             released == UNION {Shapes(f, r) : r \in gone}
             waits == released \cup {d \in Found(f) : \A a \in accepted : a.id # d.id}
  <1>1. \A r \in q.accepted : r \in Row /\ r.nick # NoNick BY DEF Typed, Doc
  <1>2. accepted \in SUBSET Row /\ \A a \in accepted : a.nick # NoNick
    BY <1>1, RetypedIsOne
  <1>3. released \subseteq Found(f) BY ShapeIsOne
  <1>4. waits \in SUBSET Row /\ \A d \in waits : d.nick = NoNick BY <1>3, FoundAreNew
  <1> HIDE DEF accepted, waits
  <1>5. Typed([q EXCEPT !.accepted = accepted, !.unaccepted = waits])
    BY <1>2, <1>4 DEF Typed, Doc
  <1> QED BY <1>5 DEF Reconciled, accepted, waits

\* While no two seats are at work on one number, reconciling makes every
\* review one row: a kept row becomes one row, a released one has its number to
\* itself, and what waits is new.
LEMMA ReconciledReviewsOnce ==
    ASSUME NEW q, Typed(q), OneSeatPerId(q), NEW f \in Snapshot
    PROVE  ReviewsOnce(Reconciled(q, f))
  <1> DEFINE kept == {r \in q.accepted : Keeps(f, r)}
             accepted == UNION {Retyped(f, r) : r \in kept}
             gone == {s \in q.accepted \ kept : s.nick \notin f.nicks}
             released == UNION {Shapes(f, r) : r \in gone}
             waits == released \cup {d \in Found(f) : \A a \in accepted : a.id # d.id}
             d == Reconciled(q, f)
  <1>1. d.accepted = accepted /\ d.unaccepted = waits BY DEF Reconciled, Typed, Doc
  <1>2. \A r \in q.accepted : r \in Row BY DEF Typed, Doc
  <1>3. \A a \in accepted : \E r \in kept : a \in Retyped(f, r) /\ a.id = r.id
    BY <1>2, RetypedIsOne
  <1>4. \A a, b \in accepted : a.id = b.id => a = b
    BY <1>2, <1>3, RetypedIsOne DEF OneSeatPerId
  <1>5. released \subseteq Found(f) BY ShapeIsOne
  <1>6. \A w \in waits : w = NewRow(w.task, w.id) BY <1>5, FoundAreNew
  <1>7. \A w \in waits, a \in accepted : w.id # a.id
    <2> SUFFICES ASSUME NEW w \in released, NEW a \in accepted, w.id = a.id PROVE FALSE
      OBVIOUS
    <2>1. PICK r \in gone : w \in Shapes(f, r) OBVIOUS
    <2>2. w.id = r.id BY <2>1, ShapeIsOne
    <2>3. PICK s \in kept : a.id = s.id BY <1>3
    <2>4. r = s BY <2>2, <2>3 DEF OneSeatPerId
    <2> QED BY <2>4
  <1> HIDE DEF accepted, waits, d
  <1>8. ReviewsOnce(d)
    <2>1. \A r, s \in Open(d) : SameJob(r, s) /\ r.task # "FR" => r = s
      BY <1>1, <1>4, <1>6, <1>7 DEF Open, SameJob
    <2>2. \A r \in d.unaccepted, s \in d.accepted : SameJob(r, s) => r.task = "FR"
      BY <1>1, <1>7 DEF SameJob
    <2> QED BY <2>1, <2>2 DEF ReviewsOnce
  <1> QED BY <1>8 DEF d

\* A resync that releases no orphans leaves every row at work with its seat.
LEMMA ReconciledKeepsSeats ==
    ASSUME NEW q, Typed(q), NEW f \in Snapshot, ~f.release, NEW r \in q.accepted
    PROVE  \E s \in Reconciled(q, f).accepted : s.nick = r.nick /\ s.id = r.id
  <1> DEFINE kept == {a \in q.accepted : Keeps(f, a)}
             accepted == UNION {Retyped(f, a) : a \in kept}
  <1>1. Reconciled(q, f).accepted = accepted BY DEF Reconciled, Typed, Doc
  <1>2. r \in kept /\ r \in Row BY DEF Keeps, Typed, Doc
  <1>3. PICK s \in Retyped(f, r) : s.nick = r.nick /\ s.id = r.id BY <1>2, RetypedIsOne
  <1> QED BY <1>1, <1>2, <1>3

-----------------------------------------------------------------------------
(* The invariant.                                                          *)

\* What a delivered webhook makes of the queue is typed.
LEMMA AppliedTyped ==
    ASSUME Typed(queue), NEW e \in Event
    PROVE  Typed(Applied(e))
  <1>1. CASE e \in {"opened", "closed"} \X Issue
    <2>1. e[1] \in {"opened", "closed"} /\ e[2] \in Ident BY <1>1 DEF Ident
    <2> QED BY <2>1, IssueClaimsTyped DEF Applied
  <1>2. CASE e \in {"pushed", "merged", "unmerged"} \X Pull
    <2>1. /\ e[1] \in {"pushed", "merged", "unmerged"}
          /\ e[2] \in Pull
          /\ LinksOf[e[2]] \in SUBSET Issue
      BY <1>2, ResyncAssumption
    <2> QED BY <2>1, PullClaimsTyped DEF Applied
  <1> QED BY <1>1, <1>2 DEF Event

\* A resync that has made its last GET has a complete snapshot.
LEMMA CompleteSnapshot ==
    ASSUME ResyncInv, NEW t \in Runner, fetch[t] # NoFetch, fetch[t].merged # NoFetch
    PROVE  fetch[t] \in Snapshot
  <1>1. fetch[t] \in Fetch BY DEF ResyncInv, ResyncTypeOK
  <1>2. fetch[t].pulls # NoFetch /\ fetch[t].issues # NoFetch
    BY DEF ResyncInv, GetsInOrder
  <1> QED BY <1>1, <1>2 DEF Fetch, Snapshot

\* The invariant holds of an empty queue.
LEMMA InitResync == ResyncInit => ResyncInv
  <1> SUFFICES ASSUME ResyncInit PROVE ResyncInv
    OBVIOUS
  <1>1. EmptyQueue \in Doc BY DEF EmptyQueue, Doc
  <1>2. 0 \in 0 .. MaxHub /\ 0 \in 0 .. MaxResyncCmds BY ResyncAssumption
  <1>3. ResyncTypeOK BY <1>1, <1>2 DEF ResyncInit, ResyncTypeOK, EmptyQueue
  <1> QED BY <1>3 DEF ResyncInit, ResyncInv, GetsInOrder, NoEarlyRelease

\* Every step keeps the invariant.
LEMMA NextResync == ResyncInv /\ [ResyncNext]_resyncVars => ResyncInv'
  <1> SUFFICES ASSUME ResyncInv, [ResyncNext]_resyncVars PROVE ResyncInv'
    OBVIOUS
  <1> USE DEF ResyncInv
  <1>1. Typed(queue) BY DEF ResyncTypeOK, Typed
  \* Steps that leave the resyncs alone.
  <1>2. ASSUME Typed(queue'), UNCHANGED fetch, ready \in BOOLEAN, ready' \in BOOLEAN,
               ready => ready', moded' \subseteq Nick,
               issue' \in [Issue -> {"open", "closed"}],
               pull' \in [Pull -> {"none", "open", "closed", "merged", "stamped"}],
               wire' \subseteq Event, hubSteps' \in 0 .. MaxHub,
               UNCHANGED resyncCmds
        PROVE  ResyncInv'
    BY <1>2 DEF ResyncTypeOK, Typed, GetsInOrder, NoEarlyRelease
  \* Steps that change one resync only.
  <1>3. ASSUME NEW t \in Runner, NEW f \in Fetch \cup {NoFetch},
               fetch' = [fetch EXCEPT ![t] = f],
               f # NoFetch => /\ f.pulls # NoFetch => f.issues # NoFetch
                              /\ f.merged # NoFetch => f.pulls # NoFetch
                              /\ ~ready => ~f.release,
               Typed(queue'), UNCHANGED <<hubVars, seatVars>>,
               resyncCmds' \in 0 .. MaxResyncCmds
        PROVE  ResyncInv'
    <2>1. \A u \in Runner : fetch'[u] = IF u = t THEN f ELSE fetch[u]
      BY <1>3 DEF ResyncTypeOK
    <2>2. fetch' \in [Runner -> Fetch \cup {NoFetch}] BY <1>3 DEF ResyncTypeOK
    <2>3. ResyncTypeOK' BY <1>3, <2>2 DEF ResyncTypeOK, Typed, hubVars, seatVars
    <2>4. GetsInOrder' BY <1>3, <2>1 DEF GetsInOrder
    <2>5. NoEarlyRelease' BY <1>3, <2>1 DEF NoEarlyRelease, seatVars
    <2> QED BY <2>3, <2>4, <2>5
  <1>4. ASSUME HubNext PROVE ResyncInv'
    <2>1. ASSUME NEW newIssue \in [Issue -> {"open", "closed"}],
                 NEW newPull \in [Pull -> {"none", "open", "closed", "merged", "stamped"}],
                 NEW events \in SUBSET Event, HubChange(newIssue, newPull, events)
          PROVE  ResyncInv'
      <3>1. hubSteps' \in 0 .. MaxHub BY <2>1, ResyncAssumption DEF HubChange, ResyncTypeOK
      <3> QED BY <1>1, <1>2, <2>1, <3>1 DEF HubChange, ResyncTypeOK, seatVars
    <2>2. ASSUME NEW i \in Issue, OpenIssue(i) \/ CloseIssue(i) PROVE ResyncInv'
      <3>1. {<<"opened", i>>} \in SUBSET Event /\ {<<"closed", i>>} \in SUBSET Event
        BY DEF Event
      <3>2. /\ [issue EXCEPT ![i] = "open"] \in [Issue -> {"open", "closed"}]
            /\ [issue EXCEPT ![i] = "closed"] \in [Issue -> {"open", "closed"}]
        BY DEF ResyncTypeOK
      <3> QED BY <2>1, <2>2, <3>1, <3>2 DEF OpenIssue, CloseIssue, ResyncTypeOK
    <2>3. ASSUME NEW p \in Pull, OpenPull(p) \/ ClosePull(p) \/ Stamp(p) PROVE ResyncInv'
      <3>1. /\ {<<"pushed", p>>} \in SUBSET Event
            /\ {<<"unmerged", p>>} \in SUBSET Event
            /\ {} \in SUBSET Event
        BY DEF Event
      <3>2. \A x \in {"open", "closed", "stamped"} :
              [pull EXCEPT ![p] = x] \in [Pull -> {"none", "open", "closed", "merged", "stamped"}]
        BY DEF ResyncTypeOK
      <3> QED BY <2>1, <2>3, <3>1, <3>2 DEF OpenPull, ClosePull, Stamp, ResyncTypeOK
    <2>4. ASSUME NEW p \in Pull, MergePull(p) PROVE ResyncInv'
      <3> DEFINE shut == LinksOf[p] \cap OpenIssues
                 newIssue == [i \in Issue |-> IF i \in shut THEN "closed" ELSE issue[i]]
                 events == {<<"merged", p>>} \cup ({"closed"} \X shut)
                 newPull == [pull EXCEPT ![p] = "merged"]
      <3>1. shut \subseteq Issue BY DEF OpenIssues
      <3>2. events \in SUBSET Event BY <3>1 DEF Event
      <3>3. newIssue \in [Issue -> {"open", "closed"}] BY DEF ResyncTypeOK
      <3>4. newPull \in [Pull -> {"none", "open", "closed", "merged", "stamped"}]
        BY DEF ResyncTypeOK
      <3>5. HubChange(newIssue, newPull, events) BY <2>4 DEF MergePull
      <3> HIDE DEF newIssue, newPull, events
      <3> QED BY <2>1, <3>2, <3>3, <3>4, <3>5
    <2> QED BY <1>4, <2>2, <2>3, <2>4 DEF HubNext
  <1>5. ASSUME NEW e \in wire, Deliver(e) PROVE ResyncInv'
    <2>1. Typed(queue') BY <1>1, <1>5, AppliedTyped DEF Deliver, ResyncTypeOK
    <2> QED BY <1>2, <1>5, <2>1 DEF Deliver, ResyncTypeOK, seatVars
  <1>6. ASSUME ResyncStep PROVE ResyncInv'
    <2>1. ASSUME NEW t \in Runner, StartResync(t), resyncCmds' \in 0 .. MaxResyncCmds
          PROVE  ResyncInv'
      <3> DEFINE f == [issues |-> NoFetch, pulls |-> NoFetch, merged |-> NoFetch,
                       release |-> ready, nicks |-> IF ready THEN moded ELSE {}]
      <3>1. /\ f \in Fetch
            /\ f.issues = NoFetch /\ f.pulls = NoFetch /\ f.merged = NoFetch
            /\ f.release = ready
        BY DEF Fetch, ResyncTypeOK
      <3>2. fetch' = [fetch EXCEPT ![t] = f] BY <2>1 DEF StartResync
      <3> HIDE DEF f
      <3> QED BY <1>1, <1>3, <2>1, <3>1, <3>2 DEF StartResync
    <2>2. CASE StartResync("scheduler") /\ UNCHANGED resyncCmds
      BY <2>1, <2>2 DEF Runner, ResyncTypeOK
    <2>3. CASE ResyncCommand
      BY <2>1, <2>3, ResyncAssumption DEF ResyncCommand, Runner, ResyncTypeOK
    <2>4. ASSUME NEW t \in Runner, GetIssues(t) PROVE ResyncInv'
      <3> DEFINE f == [fetch[t] EXCEPT !.issues = OpenIssues]
      <3>1. fetch[t] \in Fetch /\ fetch[t].issues = NoFetch
        BY <2>4 DEF GetIssues, ResyncTypeOK
      <3>2. /\ f \in Fetch
            /\ f.pulls = fetch[t].pulls /\ f.merged = fetch[t].merged
            /\ f.release = fetch[t].release
        BY <3>1 DEF Fetch, OpenIssues
      <3>3. f.pulls = NoFetch /\ f.merged = NoFetch
        BY <2>4, <3>1, <3>2 DEF GetIssues, GetsInOrder
      <3>4. ~ready => ~f.release BY <2>4, <3>2 DEF GetIssues, NoEarlyRelease
      <3>5. fetch' = [fetch EXCEPT ![t] = f] BY <2>4 DEF GetIssues
      <3> HIDE DEF f
      <3> QED BY <1>1, <1>3, <2>4, <3>2, <3>3, <3>4, <3>5 DEF GetIssues, ResyncTypeOK
    <2>5. ASSUME NEW t \in Runner, GetPulls(t) PROVE ResyncInv'
      <3> DEFINE f == [fetch[t] EXCEPT !.pulls = OpenPulls]
      <3>1. fetch[t] \in Fetch BY <2>5 DEF GetPulls, ResyncTypeOK
      <3>2. /\ f \in Fetch
            /\ f.issues = fetch[t].issues /\ f.merged = fetch[t].merged
            /\ f.release = fetch[t].release
        BY <3>1 DEF Fetch, OpenPulls
      <3>3. f.issues # NoFetch /\ f.merged = NoFetch
        BY <2>5, <3>1, <3>2 DEF GetPulls, GetsInOrder
      <3>4. ~ready => ~f.release BY <2>5, <3>2 DEF GetPulls, NoEarlyRelease
      <3>5. fetch' = [fetch EXCEPT ![t] = f] BY <2>5 DEF GetPulls
      <3> HIDE DEF f
      <3> QED BY <1>1, <1>3, <2>5, <3>2, <3>3, <3>4, <3>5 DEF GetPulls, ResyncTypeOK
    <2>6. ASSUME NEW t \in Runner, GetClosedPulls(t) PROVE ResyncInv'
      <3> DEFINE f == [fetch[t] EXCEPT !.merged = AwaitingUat]
      <3>1. fetch[t] \in Fetch BY <2>6 DEF GetClosedPulls, ResyncTypeOK
      <3>2. /\ f \in Fetch
            /\ f.issues = fetch[t].issues /\ f.pulls = fetch[t].pulls
            /\ f.release = fetch[t].release
        BY <3>1 DEF Fetch, AwaitingUat
      <3>3. f.issues # NoFetch /\ f.pulls # NoFetch
        BY <2>6, <3>2 DEF GetClosedPulls, GetsInOrder
      <3>4. ~ready => ~f.release BY <2>6, <3>2 DEF GetClosedPulls, NoEarlyRelease
      <3>5. fetch' = [fetch EXCEPT ![t] = f] BY <2>6 DEF GetClosedPulls
      <3> HIDE DEF f
      <3> QED BY <1>1, <1>3, <2>6, <3>2, <3>3, <3>4, <3>5 DEF GetClosedPulls, ResyncTypeOK
    <2>7. ASSUME NEW t \in Runner, FetchFails(t) PROVE ResyncInv'
      BY <1>1, <1>3, <2>7 DEF FetchFails, ResyncTypeOK
    <2>8. ASSUME NEW t \in Runner, Reconcile(t) PROVE ResyncInv'
      <3>1. fetch[t] \in Snapshot BY <2>8, CompleteSnapshot DEF Reconcile
      <3>2. Typed(queue') BY <1>1, <2>8, <3>1, ReconciledTyped DEF Reconcile
      <3> QED BY <1>3, <2>8, <3>2 DEF Reconcile, ResyncTypeOK
    <2> QED BY <1>6, <2>2, <2>3, <2>4, <2>5, <2>6, <2>7, <2>8 DEF ResyncStep
  <1>7. ASSUME SeatNext PROVE ResyncInv'
    <2>1. CASE BecomesReady
      BY <1>1, <1>2, <2>1 DEF BecomesReady, ResyncTypeOK, hubVars
    <2>2. ASSUME NEW n \in Nick, NoteMode(n) PROVE ResyncInv'
      BY <1>1, <1>2, <2>2 DEF NoteMode, ResyncTypeOK, hubVars
    <2>3. ASSUME Typed(queue'), UNCHANGED <<fetch, hubVars, seatVars, resyncCmds>>
          PROVE  ResyncInv'
      BY <1>2, <2>3 DEF ResyncTypeOK, hubVars, seatVars
    <2>4. ASSUME NEW n \in Nick, ReleaseSeat(n) PROVE ResyncInv'
      BY <1>1, <2>3, <2>4, ReleaseTyped DEF ReleaseSeat
    <2>5. ASSUME NEW n \in Nick, NEW r \in queue.unaccepted, AckJob(n, r) PROVE ResyncInv'
      BY <1>1, <2>3, <2>5, AckTyped DEF AckJob
    <2>6. ASSUME NEW n \in Nick, NEW r \in queue.accepted, NEW result \in {"pass", "fail"},
                 DoneJob(n, r, result)
          PROVE  ResyncInv'
      BY <1>1, <2>3, <2>6, DoneTyped DEF DoneJob
    <2> QED BY <1>7, <2>1, <2>2, <2>4, <2>5, <2>6 DEF SeatNext
  <1>8. ASSUME Restart PROVE ResyncInv'
    BY <1>1, <1>8 DEF Restart, ResyncTypeOK, GetsInOrder, NoEarlyRelease, hubVars
  <1>9. CASE UNCHANGED resyncVars
    BY <1>9 DEF resyncVars, ResyncTypeOK, GetsInOrder, NoEarlyRelease
  <1> QED BY <1>4, <1>5, <1>6, <1>7, <1>8, <1>9 DEF ResyncNext

\* Whatever is late, lost or overtaken, the queue has its type, each resync makes
\* its GETs in order, and none started before the grace was over releases orphans.
THEOREM ResyncInvariance == ResyncSpec => []ResyncInv
  <1> QED BY InitResync, NextResync, PTL DEF ResyncSpec

\* The queue, GitHub and the resyncs in progress keep their types.
THEOREM ResyncTypeCorrect == ResyncSpec => []ResyncTypeOK
  <1>1. ResyncInv => ResyncTypeOK BY DEF ResyncInv
  <1> QED BY <1>1, ResyncInvariance, PTL

\* However stale the snapshot a resync applies (_reconcile_queue_locked), it
\* leaves every review one row while no two seats are at work on one number.
THEOREM ResyncLeavesReviewsSingle == ResyncSpec => ResyncKeepsReviewsSingle
  <1>1. ASSUME ResyncInv, NEW t \in Runner, Reconcile(t), OneSeatPerId(queue)
        PROVE  ReviewsOnce(queue')
    <2>1. Typed(queue) BY <1>1 DEF ResyncInv, ResyncTypeOK, Typed
    <2>2. fetch[t] \in Snapshot BY <1>1, CompleteSnapshot DEF Reconcile
    <2> QED BY <1>1, <2>1, <2>2, ReconciledReviewsOnce DEF Reconcile
  <1>2. ResyncInv /\ [ResyncNext]_resyncVars =>
          [(\E t \in Runner : Reconcile(t)) /\ OneSeatPerId(queue) => ReviewsOnce(queue')]_resyncVars
    BY <1>1
  <1> QED BY <1>2, ResyncInvariance, PTL DEF ResyncSpec, ResyncKeepsReviewsSingle

\* FR #105: right after a start no resync takes a job from the seat that has it.
THEOREM BootLeavesSeats == ResyncSpec => BootKeepsSeats
  <1>1. ASSUME ResyncInv, ~ready, NEW t \in Runner, Reconcile(t), NEW r \in queue.accepted
        PROVE  \E s \in queue'.accepted : s.nick = r.nick /\ s.id = r.id
    <2>1. Typed(queue) BY <1>1 DEF ResyncInv, ResyncTypeOK, Typed
    <2>2. fetch[t] \in Snapshot BY <1>1, CompleteSnapshot DEF Reconcile
    <2>3. ~fetch[t].release BY <1>1 DEF ResyncInv, NoEarlyRelease, Reconcile
    <2> QED BY <1>1, <2>1, <2>2, <2>3, ReconciledKeepsSeats DEF Reconcile
  <1>2. ResyncInv /\ [ResyncNext]_resyncVars =>
          [~ready /\ (\E t \in Runner : Reconcile(t)) =>
             \A r \in queue.accepted : \E s \in queue'.accepted :
                s.nick = r.nick /\ s.id = r.id]_resyncVars
    BY <1>1
  <1> QED BY <1>2, ResyncInvariance, PTL DEF ResyncSpec, BootKeepsSeats
=============================================================================
