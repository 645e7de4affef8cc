--------------------------- MODULE QueueDocProofs ---------------------------
(***************************************************************************)
(* What the operators of QueueDoc keep true of a document, for every set   *)
(* of issues, pull requests and seats.  The state machines built on them   *)
(* (JobQueue, Assign, QueueFile, Resync) prove their invariants from these *)
(* lemmas.                                                                 *)
(***************************************************************************)
EXTENDS QueueDoc, SequenceTheorems, TLAPS

\* A sound document has its type, holders of its accepted rows, each review once
\* and each job once per machine.  That a held issue has no UAT is part of it only
\* when operations are "atomic": a thread that saves an old copy breaks it.
Sound(q, how) ==
    /\ q \in Doc
    /\ RowsHeld(q)
    /\ ReviewsOnce(q)
    /\ MachinesHoldOnce(q)
    /\ how = "atomic" => HeldHaveNoUat(q)

\* No row comes into anybody's hands between two documents.
Shrinks(q, d) == d.accepted \subseteq q.accepted

-----------------------------------------------------------------------------
(* Rows.                                                                   *)

\* The rows the rules make are rows.
LEMMA NewRowType ==
    ASSUME NEW t \in Task, NEW i \in Ident
    PROVE  /\ NewRow(t, i) \in Row
           /\ NewRow(t, i).task = t
           /\ NewRow(t, i).id = i
  <1>1. 0 \in 0 .. NeedsHumanCount BY CapAssumption
  <1> QED BY <1>1 DEF NewRow, Row

\* A new FR row is a row.
LEMMA FrRowType ==
    ASSUME NEW i \in Ident
    PROVE  FrRow(i) \in Row /\ FrRow(i).task = "FR" /\ FrRow(i).id = i
  BY NewRowType DEF FrRow, Task

\* The row of a review is a row.
LEMMA MrbRowType ==
    ASSUME NEW p \in Pull, NEW links \in SUBSET Ident, NEW seats \in SUBSET Nick
    PROVE  /\ MrbRow(p, links, seats) \in Row
           /\ MrbRow(p, links, seats).task = "MRB"
           /\ MrbRow(p, links, seats).id = p
  <1>1. 0 \in 0 .. NeedsHumanCount BY CapAssumption
  <1> QED BY <1>1 DEF MrbRow, NewRow, Row, Task, Ident

\* The row of an acceptance test is a row.
LEMMA UatRowType ==
    ASSUME NEW t \in Ident, NEW p \in Pull, NEW seats \in SUBSET Nick
    PROVE  /\ UatRow(t, p, seats) \in Row
           /\ UatRow(t, p, seats).task = "UAT"
           /\ UatRow(t, p, seats).id = t
  <1>1. 0 \in 0 .. NeedsHumanCount BY CapAssumption
  <1> QED BY <1>1 DEF UatRow, NewRow, Row, Task, Ident

\* Taking a row and giving it up keep its job.
LEMMA TakenType ==
    ASSUME NEW r \in Row, NEW n \in Nick
    PROVE  /\ Taken(r, n) \in Row
           /\ SameJob(Taken(r, n), r)
           /\ Taken(r, n).nick = n
  BY DEF Taken, Row, SameJob

\* A row given up is a row of the same job without a holder; its count stays within NeedsHumanCount.
LEMMA GivenUpType ==
    ASSUME NEW r \in Row, NEW n \in Nick
    PROVE  GivenUp(r, n) \in Row /\ SameJob(GivenUp(r, n), r)
  <1> DEFINE up == IF r.giveups < NeedsHumanCount THEN r.giveups + 1 ELSE r.giveups
             more == r.gaveup \cup {n}
  <1>1. up \in 0 .. NeedsHumanCount BY CapAssumption DEF Row
  <1>2. more \in SUBSET Nick BY DEF Row
  <1>3. GivenUp(r, n) = [r EXCEPT !.nick = NoNick, !.giveups = up, !.gaveup = more]
    BY DEF GivenUp
  <1> HIDE DEF up, more
  <1> QED BY <1>1, <1>2, <1>3 DEF Row, SameJob

\* What is kept of a finished row is a row.
LEMMA DoneRowType ==
    ASSUME NEW r \in Row, NEW result \in {"pass", "fail"}
    PROVE  DoneRow(r, result) \in Row
  <1>1. 0 \in 0 .. NeedsHumanCount BY CapAssumption
  <1>2. SeatsOf(r) \in SUBSET Nick BY DEF SeatsOf, Row
  <1> QED BY <1>1, <1>2 DEF DoneRow, MrbRow, NewRow, Row, Task, Ident

-----------------------------------------------------------------------------
(* The operators the rules are built from.                                 *)

\* Nothing a sound document forbids appears when rows and holds only go.
LEMMA FewerSound ==
    ASSUME NEW how, NEW q, Sound(q, how), NEW d \in Doc,
           d.unaccepted \subseteq q.unaccepted,
           d.accepted \subseteq q.accepted,
           d.hold \subseteq q.hold
    PROVE  Sound(d, how)
  <1>1. Open(d) \subseteq Open(q) BY DEF Open
  <1>2. RowsHeld(d) BY DEF Sound, RowsHeld
  <1>3. ReviewsOnce(d) BY <1>1 DEF Sound, ReviewsOnce
  <1>4. how = "atomic" => HeldHaveNoUat(d) BY <1>1 DEF Sound, HeldHaveNoUat
  <1>5. MachinesHoldOnce(d) BY DEF Sound, MachinesHoldOnce
  <1> QED BY <1>2, <1>3, <1>4, <1>5 DEF Sound

\* _remove_tasks_for_ids only takes rows away, among them every row of the
\* tasks and ids named.
LEMMA DropSound ==
    ASSUME NEW how, NEW q, Sound(q, how), NEW ids, NEW tasks
    PROVE  /\ Sound(Drop(q, ids, tasks), how)
           /\ Drop(q, ids, tasks).unaccepted \subseteq q.unaccepted
           /\ Drop(q, ids, tasks).accepted \subseteq q.accepted
           /\ Drop(q, ids, tasks).hold = q.hold
           /\ Drop(q, ids, tasks).done = q.done
           /\ \A r \in Open(Drop(q, ids, tasks)) : ~(r.task \in tasks /\ r.id \in ids)
  <1> DEFINE d == Drop(q, ids, tasks)
  <1>1. q \in Doc BY DEF Sound
  <1>2. /\ d.unaccepted = Without(q.unaccepted, ids, tasks)
        /\ d.accepted = Without(q.accepted, ids, tasks)
        /\ d.hold = q.hold
        /\ d.done = q.done
    BY <1>1 DEF Drop, Doc
  <1>3. d.unaccepted \subseteq q.unaccepted /\ d.accepted \subseteq q.accepted
    BY <1>2 DEF Without
  <1>4. d \in Doc BY <1>1, <1>3 DEF Drop, Doc
  <1>5. \A r \in Open(d) : ~(r.task \in tasks /\ r.id \in ids)
    BY <1>2 DEF Open, Without, About
  <1>6. Sound(d, how)
    <2> HIDE DEF d
    <2> QED BY <1>2, <1>3, <1>4, FewerSound
  <1> QED BY <1>2, <1>3, <1>5, <1>6

\* _append_unaccepted keeps a document sound when no review among the new rows
\* is in somebody's hands, none is named twice, and no new UAT is held.
LEMMA EnqueueSound ==
    ASSUME NEW how, NEW q, Sound(q, how), NEW rows \in SUBSET Row,
           \A r \in rows, a \in q.accepted : SameJob(r, a) => r.task = "FR",
           \A r, s \in rows : SameJob(r, s) /\ r.task # "FR" => r = s,
           how = "atomic" => \A r \in rows : r.task = "UAT" => r.id \notin q.hold
    PROVE  /\ Sound(Enqueue(q, rows), how)
           /\ Enqueue(q, rows).accepted = q.accepted
           /\ Enqueue(q, rows).hold = q.hold
  <1> DEFINE d == Enqueue(q, rows)
             kept == {r \in q.unaccepted : \A new \in rows : ~SameJob(r, new)}
  <1>1. q \in Doc /\ q.unaccepted \subseteq Row /\ q.accepted \subseteq Row
    BY DEF Sound, Doc
  <1>2. /\ d.unaccepted = kept \cup rows
        /\ d.accepted = q.accepted
        /\ d.hold = q.hold
    BY <1>1 DEF Enqueue, Doc
  <1>3. d \in Doc BY <1>1 DEF Enqueue, Doc
  <1>4. kept \subseteq q.unaccepted OBVIOUS
  <1>5. Open(d) = kept \cup rows \cup q.accepted BY <1>2 DEF Open
  <1>6. \A r \in kept, new \in rows : ~SameJob(r, new) /\ ~SameJob(new, r)
    BY DEF SameJob
  <1> HIDE DEF d, kept
  <1>7. RowsHeld(d) BY <1>2 DEF Sound, RowsHeld
  <1>8. MachinesHoldOnce(d) BY <1>2 DEF Sound, MachinesHoldOnce
  <1>9. ReviewsOnce(d)
    <2>1. \A r, s \in Open(d) : SameJob(r, s) /\ r.task # "FR" => r = s
      <3> SUFFICES ASSUME NEW r \in Open(d), NEW s \in Open(d),
                          SameJob(r, s), r.task # "FR"
                   PROVE  r = s
        OBVIOUS
      <3>1. SameJob(s, r) /\ s.task # "FR" BY DEF SameJob
      <3>2. CASE r \in rows /\ s \in rows BY <3>2
      <3>3. CASE r \in rows /\ s \notin rows BY <3>3, <1>5, <1>6
      <3>4. CASE r \notin rows /\ s \in rows BY <3>4, <3>1, <1>5, <1>6
      <3>5. CASE r \notin rows /\ s \notin rows
        <4>1. r \in Open(q) /\ s \in Open(q) BY <3>5, <1>4, <1>5 DEF Open
        <4> QED BY <4>1 DEF Sound, ReviewsOnce
      <3> QED BY <3>2, <3>3, <3>4, <3>5
    <2>2. \A r \in d.unaccepted, s \in d.accepted : SameJob(r, s) => r.task = "FR"
      BY <1>2, <1>4 DEF Sound, ReviewsOnce
    <2> QED BY <2>1, <2>2 DEF ReviewsOnce
  <1>10. how = "atomic" => HeldHaveNoUat(d)
    <2> SUFFICES ASSUME how = "atomic", NEW i \in d.hold, NEW r \in Open(d)
                 PROVE  ~IsJob(r, "UAT", i)
      BY DEF HeldHaveNoUat
    <2>1. CASE r \in rows BY <2>1, <1>2 DEF IsJob
    <2>2. CASE r \in Open(q) BY <2>2, <1>2 DEF Sound, HeldHaveNoUat
    <2> QED BY <2>1, <2>2, <1>4, <1>5 DEF Open
  <1> QED BY <1>2, <1>3, <1>7, <1>8, <1>9, <1>10 DEF Sound, d

\* Queueing FRs is always sound.
LEMMA EnqueueFrsSound ==
    ASSUME NEW how, NEW q, Sound(q, how), NEW frs \in SUBSET Ident
    PROVE  /\ Sound(Enqueue(q, {FrRow(i) : i \in frs}), how)
           /\ Enqueue(q, {FrRow(i) : i \in frs}).accepted = q.accepted
           /\ Enqueue(q, {FrRow(i) : i \in frs}).hold = q.hold
           /\ \A r \in Open(Enqueue(q, {FrRow(i) : i \in frs})) :
                r \in Open(q) \/ r.task = "FR"
  <1> DEFINE rows == {FrRow(i) : i \in frs}
  <1>1. {FrRow(i) : i \in frs} \in SUBSET Row BY FrRowType
  <1>2. \A r \in {FrRow(i) : i \in frs} : r.task = "FR" BY FrRowType
  <1>3. Enqueue(q, rows).unaccepted \subseteq q.unaccepted \cup rows
    BY DEF Enqueue, Sound, Doc
  <1> QED BY <1>1, <1>2, <1>3, EnqueueSound DEF Open

\* Holding issues that have no open UAT is sound, and so is letting some go.
LEMMA HoldSound ==
    ASSUME NEW how, NEW q, Sound(q, how), NEW h \in SUBSET Ident,
           \A i \in h \ q.hold, r \in Open(q) : ~IsJob(r, "UAT", i)
    PROVE  Sound([q EXCEPT !.hold = h], how)
  <1> DEFINE d == [q EXCEPT !.hold = h]
  <1>1. q \in Doc BY DEF Sound
  <1>2. /\ d \in Doc
        /\ d.unaccepted = q.unaccepted
        /\ d.accepted = q.accepted
        /\ d.hold = h
    BY <1>1 DEF Doc
  <1>3. Open(d) = Open(q) BY <1>2 DEF Open
  <1> HIDE DEF d
  <1>4. RowsHeld(d) BY <1>2 DEF Sound, RowsHeld
  <1>5. ReviewsOnce(d) BY <1>2, <1>3 DEF Sound, ReviewsOnce
  <1>6. how = "atomic" => HeldHaveNoUat(d) BY <1>2, <1>3 DEF Sound, HeldHaveNoUat
  <1>7. MachinesHoldOnce(d) BY <1>2 DEF Sound, MachinesHoldOnce
  <1>8. Sound(d, how) BY <1>2, <1>4, <1>5, <1>6, <1>7 DEF Sound
  <1> QED BY <1>8 DEF d

-----------------------------------------------------------------------------
(* The supersede rules.                                                    *)

\* K15 (_restore_frs_after_mrb_fail): the issues become held as their UAT rows go.
LEMMA RestoreFrsSound ==
    ASSUME NEW how, NEW q, Sound(q, how), NEW p, NEW frs \in SUBSET Ident
    PROVE  Sound(RestoreFrs(q, p, frs), how) /\ Shrinks(q, RestoreFrs(q, p, frs))
  <1> DEFINE d1 == Drop(q, {p}, {"MRB"})
             d2 == Drop(d1, frs, {"UAT"})
             d3 == Enqueue(d2, {FrRow(i) : i \in frs})
  <1>1. Sound(d1, how) BY DropSound
  <1>2. Sound(d2, how) /\ \A r \in Open(d2) : ~(r.task = "UAT" /\ r.id \in frs)
    BY <1>1, DropSound
  <1>3. Sound(d3, how) /\ \A r \in Open(d3) : r \in Open(d2) \/ r.task = "FR"
    BY <1>2, EnqueueFrsSound
  <1>4. \A i \in frs, r \in Open(d3) : ~IsJob(r, "UAT", i)
    BY <1>2, <1>3 DEF IsJob
  <1>5. RestoreFrs(q, p, frs) = [d3 EXCEPT !.hold = d3.hold \cup frs] BY DEF RestoreFrs
  <1>6. d3.hold \cup frs \in SUBSET Ident BY <1>3 DEF Sound, Doc
  <1>7. Shrinks(q, d3) BY <1>1, <1>2, DropSound, EnqueueFrsSound DEF Shrinks
  <1> HIDE DEF d3
  <1>8. [d3 EXCEPT !.hold = d3.hold \cup frs].accepted = d3.accepted
    BY <1>3 DEF Sound, Doc
  <1> QED BY <1>3, <1>4, <1>5, <1>6, <1>7, <1>8, HoldSound DEF Shrinks

\* The CLOSE claim keeps a document sound.
LEMMA AfterCloseSound ==
    ASSUME NEW how, NEW q, Sound(q, how), NEW i \in Ident
    PROVE  Sound(AfterClose(q, i), how) /\ Shrinks(q, AfterClose(q, i))
  <1> DEFINE d1 == Drop(q, {i}, {"MRB", "UAT"})
             d2 == Enqueue(d1, {FrRow(j) : j \in {i}})
  <1>1. Sound(d1, how) BY DropSound
  <1>2. Sound(d2, how) BY <1>1, EnqueueFrsSound
  <1>3. {FrRow(j) : j \in {i}} = {FrRow(i)} OBVIOUS
  <1>4. d2.hold \ {i} \in SUBSET Ident BY <1>2 DEF Sound, Doc
  <1>5. Shrinks(q, d2)
    <2>1. d1.accepted \subseteq q.accepted BY DropSound
    <2>2. d2.accepted = d1.accepted BY <1>1, EnqueueFrsSound
    <2> QED BY <2>1, <2>2 DEF Shrinks
  <1>6. /\ Sound([d2 EXCEPT !.hold = d2.hold \ {i}], how)
        /\ Shrinks(q, [d2 EXCEPT !.hold = d2.hold \ {i}])
    <2> HIDE DEF d2
    <2>1. [d2 EXCEPT !.hold = d2.hold \ {i}].accepted = d2.accepted
      BY <1>2 DEF Sound, Doc
    <2> QED BY <1>2, <1>4, <1>5, <2>1, HoldSound DEF Shrinks
  <1>7. /\ Sound(Drop(q, {i}, {"FR", "MRB", "UAT"}), how)
        /\ Shrinks(q, Drop(q, {i}, {"FR", "MRB", "UAT"}))
    BY DropSound DEF Shrinks
  <1> QED BY <1>3, <1>6, <1>7 DEF AfterClose

\* The FR claim keeps a document sound.
LEMMA AfterFrSound ==
    ASSUME NEW how, NEW q, Sound(q, how), NEW i \in Ident
    PROVE  Sound(AfterFr(q, i), how) /\ Shrinks(q, AfterFr(q, i))
  <1> DEFINE d1 == Drop(q, {i}, {"UAT"})
             d2 == Enqueue(d1, {FrRow(j) : j \in {i}})
  <1>1. Sound(d1, how) /\ Shrinks(q, d1) BY DropSound DEF Shrinks
  <1>2. Sound(d2, how) /\ Shrinks(q, d2)
    <2>1. d2.accepted = d1.accepted BY <1>1, EnqueueFrsSound
    <2> QED BY <1>1, <2>1, EnqueueFrsSound DEF Shrinks
  <1>3. {FrRow(j) : j \in {i}} = {FrRow(i)} OBVIOUS
  <1>4. Sound(Drop(q, {i}, {"FR", "UAT"}), how) /\ Shrinks(q, Drop(q, {i}, {"FR", "UAT"}))
    BY DropSound DEF Shrinks
  <1> QED BY <1>2, <1>3, <1>4 DEF AfterFr

\* The MRB claim keeps a document sound: the earlier MRB goes from both buckets.
LEMMA AfterMrbSound ==
    ASSUME NEW how, NEW q, Sound(q, how), NEW p \in Pull,
           NEW links \in SUBSET Ident, NEW seats \in SUBSET Nick
    PROVE  Sound(AfterMrb(q, p, links, seats), how) /\ Shrinks(q, AfterMrb(q, p, links, seats))
  <1> DEFINE d1 == Drop(q, links, {"FR", "UAT"})
             d2 == Drop(d1, {p}, {"MRB"})
             new == MrbRow(p, links, seats)
  <1>1. Sound(d1, how) /\ Shrinks(q, d1) BY DropSound DEF Shrinks
  <1>2. /\ Sound(d2, how) /\ Shrinks(q, d2)
        /\ \A r \in Open(d2) : ~(r.task = "MRB" /\ r.id = p)
    BY <1>1, DropSound DEF Shrinks
  <1>3. new \in Row /\ new.task = "MRB" /\ new.id = p BY MrbRowType
  <1> HIDE DEF d2, new
  <1>4. \A r \in {new}, a \in d2.accepted : SameJob(r, a) => r.task = "FR"
    BY <1>2, <1>3 DEF SameJob, Open
  <1>5. Sound(Enqueue(d2, {new}), how) /\ Shrinks(q, Enqueue(d2, {new}))
    BY <1>2, <1>3, <1>4, EnqueueSound DEF Shrinks
  <1> QED BY <1>5 DEF AfterMrb, d2, new

\* The seats copied to a UAT row are seats.
LEMMA MrbSeatsType ==
    ASSUME NEW q \in Doc, NEW p
    PROVE  MrbSeats(q, p) \in SUBSET Nick
  <1> DEFINE mrb(rows) == {r \in rows : r.task = "MRB" /\ About(r, {p})}
             at == {k \in DOMAIN q.done : q.done[k] \in mrb(DoneRows(q))}
             first == {q.done[k] : k \in {m \in at : \A l \in at : m <= l}}
             from == IF mrb(q.accepted) # {} THEN mrb(q.accepted)
                     ELSE IF at # {} THEN first
                     ELSE mrb(q.unaccepted)
  <1>1. \A k \in DOMAIN q.done : q.done[k] \in Row BY DEF Doc
  <1>2. first \subseteq Row BY <1>1
  <1>3. mrb(q.accepted) \subseteq Row /\ mrb(q.unaccepted) \subseteq Row BY DEF Doc
  <1>4. from \subseteq Row BY <1>2, <1>3
  <1>5. \A r \in Row : SeatsOf(r) \in SUBSET Nick BY DEF SeatsOf, Row
  <1>6. MrbSeats(q, p) = UNION {SeatsOf(r) : r \in from} BY DEF MrbSeats
  <1> HIDE DEF from
  <1> QED BY <1>4, <1>5, <1>6

\* The UAT claim keeps a document sound: it queues no UAT for a held issue.
LEMMA AfterUatSound ==
    ASSUME NEW how, NEW q, Sound(q, how), NEW p \in Pull, NEW links \in SUBSET Ident
    PROVE  Sound(AfterUat(q, p, links), how) /\ Shrinks(q, AfterUat(q, p, links))
  <1> DEFINE targets == IF links = {} THEN {p} ELSE links
             d1 == Drop(q, {p}, {"MRB"})
             d2 == Drop(d1, targets, {"FR", "UAT"})
             seats == MrbSeats(q, p)
             rows == {UatRow(t, p, seats) : t \in targets}
  <1>1. targets \in SUBSET Ident BY DEF Ident
  <1>2. Sound(RestoreFrs(q, p, targets), how) /\ Shrinks(q, RestoreFrs(q, p, targets))
    BY <1>1, RestoreFrsSound
  <1>3. Sound(d1, how) /\ Shrinks(q, d1) /\ d1.hold = q.hold BY DropSound DEF Shrinks
  <1>4. /\ Sound(d2, how)
        /\ Shrinks(q, d2)
        /\ d2.hold = q.hold
        /\ \A r \in Open(d2) : ~(r.task = "UAT" /\ r.id \in targets)
    BY <1>3, DropSound DEF Shrinks
  <1>5. seats \in SUBSET Nick BY MrbSeatsType DEF Sound
  <1>6. /\ rows \in SUBSET Row
        /\ \A r \in rows : r.task = "UAT" /\ r.id \in targets
        /\ \A r, s \in rows : r.id = s.id => r = s
    <2> HIDE DEF seats, targets
    <2> QED BY <1>1, <1>5, UatRowType
  <1>7. ASSUME targets \cap q.hold = {}
        PROVE  Sound(Enqueue(d2, rows), how) /\ Shrinks(q, Enqueue(d2, rows))
    <2> HIDE DEF d2, rows, targets
    <2>1. \A r \in rows, a \in d2.accepted : SameJob(r, a) => r.task = "FR"
      BY <1>4, <1>6 DEF SameJob, Open
    <2>2. \A r, s \in rows : SameJob(r, s) /\ r.task # "FR" => r = s
      BY <1>6 DEF SameJob
    <2>3. \A r \in rows : r.task = "UAT" => r.id \notin d2.hold
      BY <1>4, <1>6, <1>7
    <2> QED BY <1>4, <1>6, <2>1, <2>2, <2>3, EnqueueSound DEF Shrinks
  <1> QED BY <1>2, <1>7 DEF AfterUat

\* The RESTORE_FR claim keeps a document sound.
LEMMA AfterUnmergedSound ==
    ASSUME NEW how, NEW q, Sound(q, how), NEW p, NEW links \in SUBSET Ident
    PROVE  Sound(AfterUnmerged(q, p, links), how) /\ Shrinks(q, AfterUnmerged(q, p, links))
  <1> DEFINE d == Drop(q, {p}, {"MRB"})
             e == Enqueue(d, {FrRow(i) : i \in links})
  <1>1. Sound(d, how) /\ d.accepted \subseteq q.accepted BY DropSound
  <1>2. e.accepted = d.accepted BY <1>1, EnqueueFrsSound
  <1>3. Sound(e, how) BY <1>1, EnqueueFrsSound
  <1> QED BY <1>1, <1>2, <1>3 DEF AfterUnmerged, Shrinks

-----------------------------------------------------------------------------
(* What seats do.                                                          *)

\* The three ways an ACK finds its row.
LEMMA AckSiblingSound ==
    ASSUME NEW how, NEW q, Sound(q, how), NEW n \in Nick, NEW r \in q.accepted,
           MachineOf[r.nick] = MachineOf[n]
    PROVE  Sound([q EXCEPT !.accepted = (@ \ {r}) \cup {Taken(r, n)}], how)
  <1> DEFINE t == Taken(r, n)
             d == [q EXCEPT !.accepted = (@ \ {r}) \cup {t}]
  <1>1. q \in Doc /\ r \in Row BY DEF Sound, Doc
  <1>2. t \in Row /\ SameJob(t, r) /\ t.nick = n BY <1>1, TakenType
  <1> HIDE DEF t
  <1>3. /\ d \in Doc
        /\ d.unaccepted = q.unaccepted
        /\ d.accepted = (q.accepted \ {r}) \cup {t}
        /\ d.hold = q.hold
    BY <1>1, <1>2 DEF Doc
  <1> HIDE DEF d
  <1>4. RowsHeld(d) BY <1>2, <1>3 DEF Sound, RowsHeld
  <1>5. ReviewsOnce(d)
    <2>1. \A x, y \in Open(d) : SameJob(x, y) /\ x.task # "FR" => x = y
      <3> SUFFICES ASSUME NEW x \in Open(d), NEW y \in Open(d),
                          SameJob(x, y), x.task # "FR"
                   PROVE  x = y
        OBVIOUS
      <3> DEFINE Old(z) == IF z = t THEN r ELSE z
      <3>1. /\ Old(x) \in Open(q) /\ SameJob(Old(x), x)
            /\ Old(y) \in Open(q) /\ SameJob(Old(y), y)
        BY <1>2, <1>3 DEF Open, SameJob
      <3>2. Old(x) = Old(y) BY <3>1 DEF Sound, ReviewsOnce, SameJob
      <3>3. r \in q.unaccepted => r.task = "FR" BY DEF Sound, ReviewsOnce, SameJob
      <3>4. \A z \in {x, y} : z # t => z # r
        <4>1. x.task # "FR" /\ y.task # "FR" BY DEF SameJob
        <4> QED BY <4>1, <3>3, <1>3 DEF Open
      <3> QED BY <3>2, <3>4
    <2>2. \A x \in d.unaccepted, y \in d.accepted : SameJob(x, y) => x.task = "FR"
      BY <1>2, <1>3 DEF Sound, ReviewsOnce, SameJob
    <2> QED BY <2>1, <2>2 DEF ReviewsOnce
  <1>6. how = "atomic" => HeldHaveNoUat(d)
    BY <1>2, <1>3 DEF Sound, HeldHaveNoUat, Open, SameJob, IsJob
  <1>7. MachinesHoldOnce(d)
    <2> SUFFICES ASSUME NEW x \in d.accepted, NEW y \in d.accepted,
                        SameJob(x, y), MachineOf[x.nick] = MachineOf[y.nick]
                 PROVE  x = y
      BY DEF MachinesHoldOnce
    <2> DEFINE Old(z) == IF z = t THEN r ELSE z
    <2>1. /\ Old(x) \in q.accepted /\ SameJob(Old(x), x)
          /\ MachineOf[Old(x).nick] = MachineOf[x.nick]
          /\ Old(y) \in q.accepted /\ SameJob(Old(y), y)
          /\ MachineOf[Old(y).nick] = MachineOf[y.nick]
      BY <1>2, <1>3 DEF SameJob
    <2>2. Old(x) = Old(y) BY <2>1 DEF Sound, MachinesHoldOnce, SameJob
    <2> QED BY <2>2, <1>3
  <1>8. Sound(d, how) BY <1>3, <1>4, <1>5, <1>6, <1>7 DEF Sound
  <1> QED BY <1>8 DEF d, t

\* An ACK that takes a waiting row, evicting an accepted one at the cap, keeps a document sound.
LEMMA AckWaitingSound ==
    ASSUME NEW how, NEW q, Sound(q, how), NEW n \in Nick, NEW r \in q.unaccepted,
           SiblingRows(q, n, r.task, r.id) = {},
           MineRows(q, n, r.task, r.id) = {},
           NEW rows, rows \subseteq q.accepted \cup {Taken(r, n)}
    PROVE  Sound([q EXCEPT !.unaccepted = @ \ {r}, !.accepted = rows], how)
  <1> DEFINE t == Taken(r, n)
             d == [q EXCEPT !.unaccepted = @ \ {r}, !.accepted = rows]
  <1>1. q \in Doc /\ r \in Row BY DEF Sound, Doc
  <1>2. t \in Row /\ SameJob(t, r) /\ t.nick = n BY <1>1, TakenType
  <1>3. \A a \in q.accepted : SameJob(a, r) => MachineOf[a.nick] # MachineOf[n]
    BY <1>1 DEF SiblingRows, MineRows, HeldBy, IsJob, SameJob
  <1> HIDE DEF t
  <1>4. /\ d \in Doc
        /\ d.unaccepted = q.unaccepted \ {r}
        /\ d.accepted = rows
        /\ d.hold = q.hold
    BY <1>1, <1>2 DEF Doc, t
  <1>5. rows \subseteq q.accepted \cup {t} BY DEF t
  <1> HIDE DEF d
  <1>6. RowsHeld(d) BY <1>2, <1>4, <1>5 DEF Sound, RowsHeld
  <1>7. ReviewsOnce(d)
    <2>1. \A x, y \in Open(d) : SameJob(x, y) /\ x.task # "FR" => x = y
      <3> SUFFICES ASSUME NEW x \in Open(d), NEW y \in Open(d),
                          SameJob(x, y), x.task # "FR"
                   PROVE  x = y
        OBVIOUS
      <3>1. CASE x = t \/ y = t
        <4>1. SameJob(x, r) /\ SameJob(y, r) /\ r.task # "FR" BY <3>1, <1>2 DEF SameJob
        <4>2. \A z \in Open(d) : SameJob(z, r) => z = t
          <5> SUFFICES ASSUME NEW z \in Open(d), SameJob(z, r) PROVE z = t OBVIOUS
          <5>1. CASE z \in q.unaccepted \ {r} BY <5>1, <4>1 DEF Open, Sound, ReviewsOnce, SameJob
          <5>2. CASE z \in q.accepted
            <6>1. SameJob(r, z) BY DEF SameJob
            <6> QED BY <5>2, <6>1, <4>1 DEF Sound, ReviewsOnce
          <5> QED BY <5>1, <5>2, <1>4, <1>5 DEF Open
        <4> QED BY <4>1, <4>2
      <3>2. CASE x # t /\ y # t
        <4>1. x \in Open(q) /\ y \in Open(q) BY <3>2, <1>4, <1>5 DEF Open
        <4> QED BY <4>1 DEF Sound, ReviewsOnce
      <3> QED BY <3>1, <3>2
    <2>2. \A x \in d.unaccepted, y \in d.accepted : SameJob(x, y) => x.task = "FR"
      <3> SUFFICES ASSUME NEW x \in d.unaccepted, NEW y \in d.accepted, SameJob(x, y),
                          x.task # "FR"
                   PROVE  FALSE
        OBVIOUS
      <3>1. x \in Open(q) /\ x # r /\ r \in Open(q) BY <1>4 DEF Open
      <3>2. CASE y = t
        <4>1. SameJob(x, r) BY <3>2, <1>2 DEF SameJob
        <4> QED BY <3>1, <4>1 DEF Sound, ReviewsOnce
      <3>3. CASE y \in q.accepted BY <3>3, <1>4 DEF Sound, ReviewsOnce
      <3> QED BY <3>2, <3>3, <1>4, <1>5
    <2> QED BY <2>1, <2>2 DEF ReviewsOnce
  <1>8. how = "atomic" => HeldHaveNoUat(d)
    <2>1. \A x \in Open(d) : x \in Open(q) \/ SameJob(x, r)
      BY <1>2, <1>4, <1>5 DEF Open
    <2>2. r \in Open(q) BY DEF Open
    <2> QED BY <2>1, <2>2, <1>4 DEF Sound, HeldHaveNoUat, SameJob, IsJob
  <1>9. MachinesHoldOnce(d)
    <2> SUFFICES ASSUME NEW x \in rows, NEW y \in rows,
                        SameJob(x, y), MachineOf[x.nick] = MachineOf[y.nick]
                 PROVE  x = y
      BY <1>4 DEF MachinesHoldOnce
    <2>1. CASE x \in q.accepted /\ y \in q.accepted
      BY <2>1 DEF Sound, MachinesHoldOnce
    <2>2. CASE x = t /\ y \in q.accepted BY <2>2, <1>2, <1>3 DEF SameJob
    <2>3. CASE y = t /\ x \in q.accepted BY <2>3, <1>2, <1>3 DEF SameJob
    <2> QED BY <2>1, <2>2, <2>3, <1>5
  <1> QED BY <1>4, <1>6, <1>7, <1>8, <1>9 DEF Sound, d

\* The report that follows an ACK finds the row in the seat's hands.
LEMMA QueueAcceptSound ==
    ASSUME NEW how, NEW q, Sound(q, how), NEW r \in q.accepted
    PROVE  Sound(AfterQueueAccept(q, r), how)
  <1> DEFINE d == AfterQueueAccept(q, r)
  <1>1. q \in Doc BY DEF Sound
  <1>2. /\ d.unaccepted \subseteq q.unaccepted
        /\ d.accepted \subseteq q.accepted
        /\ d.hold = q.hold
        /\ d \in Doc
    BY <1>1 DEF AfterQueueAccept, Doc
  <1> HIDE DEF d
  <1> QED BY <1>2, FewerSound DEF d

\* A report that comes late may put any held row in: every other open row of its
\* job goes.
LEMMA LateAcceptSound ==
    ASSUME NEW q, Sound(q, "file"), NEW r \in Row, r.nick \in Nick
    PROVE  Sound(AfterQueueAccept(q, r), "file")
  <1> DEFINE d == AfterQueueAccept(q, r)
  <1>1. q \in Doc BY DEF Sound
  <1>2. /\ d \in Doc
        /\ d.unaccepted = {u \in q.unaccepted : ~SameJob(u, r)}
        /\ d.accepted = {a \in q.accepted : ~SameJob(a, r)} \cup {r}
    BY <1>1 DEF AfterQueueAccept, Doc
  <1> HIDE DEF d
  <1>3. RowsHeld(d) BY <1>2 DEF Sound, RowsHeld
  <1>4. \A x \in Open(d) : x = r \/ (x \in Open(q) /\ ~SameJob(x, r) /\ ~SameJob(r, x))
    BY <1>2 DEF Open, SameJob
  <1>5. ReviewsOnce(d)
    <2>1. \A x, y \in Open(d) : SameJob(x, y) /\ x.task # "FR" => x = y
      BY <1>4 DEF Sound, ReviewsOnce
    <2>2. \A x \in d.unaccepted, y \in d.accepted : SameJob(x, y) => x.task = "FR"
      BY <1>2 DEF Sound, ReviewsOnce
    <2> QED BY <2>1, <2>2 DEF ReviewsOnce
  <1>6. MachinesHoldOnce(d)
    <2>1. \A x \in d.accepted : x = r \/ (x \in q.accepted /\ ~SameJob(x, r) /\ ~SameJob(r, x))
      BY <1>2 DEF SameJob
    <2> QED BY <2>1 DEF Sound, MachinesHoldOnce
  <1> QED BY <1>2, <1>3, <1>5, <1>6 DEF Sound, d

\* nack_job keeps a document sound.
LEMMA AfterNackSound ==
    ASSUME NEW how, NEW q, Sound(q, how), NEW n \in Nick, NEW task, NEW id,
           NEW d \in AfterNack(q, n, task, id)
    PROVE  Sound(d, how) /\ Shrinks(q, d)
  <1> DEFINE mine == MineRows(q, n, task, id)
  <1>1. CASE mine = {} BY <1>1 DEF AfterNack, Shrinks
  <1>2. CASE mine # {}
    <2>1. PICK r \in mine : d = Enqueue([q EXCEPT !.accepted = @ \ {r}], {GivenUp(r, n)})
      BY <1>2 DEF AfterNack
    <2> DEFINE left == [q EXCEPT !.accepted = @ \ {r}]
               up == GivenUp(r, n)
    <2>2. q \in Doc /\ r \in Row /\ r \in q.accepted
      BY DEF Sound, Doc, MineRows, HeldBy
    <2>3. up \in Row /\ SameJob(up, r) BY <2>2, GivenUpType
    <2>4. /\ left \in Doc
          /\ left.unaccepted = q.unaccepted
          /\ left.accepted = q.accepted \ {r}
          /\ left.hold = q.hold
      BY <2>2 DEF Doc
    <2> HIDE DEF left, up
    <2>5. Sound(left, how) BY <2>4, FewerSound
    <2>6. \A a \in left.accepted : SameJob(up, a) => up.task = "FR"
      BY <2>2, <2>3, <2>4 DEF Sound, ReviewsOnce, Open, SameJob
    <2>7. how = "atomic" => (up.task = "UAT" => up.id \notin left.hold)
      BY <2>2, <2>3, <2>4 DEF Sound, HeldHaveNoUat, Open, SameJob, IsJob
    <2>8. Sound(Enqueue(left, {up}), how) /\ Shrinks(q, Enqueue(left, {up}))
      BY <2>3, <2>4, <2>5, <2>6, <2>7, EnqueueSound DEF Shrinks
    <2> QED BY <2>1, <2>8 DEF left, up
  <1> QED BY <1>1, <1>2

\* The done list stays a sequence of rows.
LEMMA KeepLastType ==
    ASSUME NEW s \in Seq(Row), NEW r \in Row
    PROVE  KeepLast(Append(s, r), DoneCap) \in Seq(Row)
  <1> DEFINE t == Append(s, r)
  <1>1. t \in Seq(Row) /\ Len(t) \in Nat OBVIOUS
  <1>2. DoneCap \in Nat \ {0} BY CapAssumption
  <1> HIDE DEF t
  <1>3. KeepLast(t, DoneCap) \in Seq(Row)
    <2>1. CASE Len(t) > DoneCap
      <3>1. \A k \in (Len(t) - DoneCap + 1) .. Len(t) : t[k] \in Row
        BY <1>1, <1>2, <2>1
      <3>2. SubSeq(t, Len(t) - DoneCap + 1, Len(t)) \in Seq(Row)
        BY <1>1, <1>2, <3>1, SubSeqProperties
      <3> QED BY <2>1, <3>2 DEF KeepLast
    <2>2. CASE ~(Len(t) > DoneCap) BY <1>1, <2>2 DEF KeepLast
    <2> QED BY <2>1, <2>2
  <1> QED BY <1>3 DEF t

\* complete_job up to its first save keeps a document sound.
LEMMA CompletedSound ==
    ASSUME NEW how, NEW q, Sound(q, how), NEW r \in q.accepted, NEW task, NEW result \in {"pass", "fail"}
    PROVE  Sound(Completed(q, r, task, result), how) /\ Shrinks(q, Completed(q, r, task, result))
  <1> DEFINE list == KeepLast(Append(q.done, DoneRow(r, result)), DoneCap)
             moved == [q EXCEPT !.accepted = @ \ {r}, !.done = list]
             purged == IF "MRB" \in {task, r.task} THEN Drop(moved, {r.id}, {"MRB"}) ELSE moved
  <1>1. q \in Doc /\ r \in Row /\ q.done \in Seq(Row) BY DEF Sound, Doc
  <1>2. list \in Seq(Row) BY <1>1, DoneRowType, KeepLastType
  <1> HIDE DEF list
  <1>3. /\ moved \in Doc
        /\ moved.unaccepted = q.unaccepted
        /\ moved.accepted = q.accepted \ {r}
        /\ moved.hold = q.hold
    BY <1>1, <1>2 DEF Doc
  <1>4. Sound(moved, how) /\ Shrinks(q, moved)
    <2> HIDE DEF moved
    <2> QED BY <1>3, FewerSound DEF Shrinks
  <1> HIDE DEF moved
  <1>5. Sound(purged, how) /\ Shrinks(q, purged) BY <1>4, DropSound DEF Shrinks
  <1>6. r.refs \in SUBSET Ident BY <1>1 DEF Row
  <1> HIDE DEF purged
  <1>7. /\ Sound(RestoreFrs(purged, PullOf(r), r.refs), how)
        /\ Shrinks(q, RestoreFrs(purged, PullOf(r), r.refs))
    BY <1>5, <1>6, RestoreFrsSound DEF Shrinks
  <1>8. Completed(q, r, task, result) =
          IF r.task = "MRB" /\ result = "fail"
          THEN RestoreFrs(purged, PullOf(r), r.refs) ELSE purged
    BY DEF Completed, purged, moved, list
  <1> QED BY <1>5, <1>7, <1>8

\* complete_job with the MRB claim of a finished FR keeps a document sound.
LEMMA AfterDoneSound ==
    ASSUME NEW how, NEW q, Sound(q, how), NEW n \in Nick, NEW task, NEW id,
           NEW result \in {"pass", "fail"}, NEW pull \in Pull \cup {NoPull},
           NEW d \in AfterDone(q, n, task, id, result, pull)
    PROVE  Sound(d, how) /\ Shrinks(q, d)
  <1> DEFINE rows == IF MineRows(q, n, task, id) # {} THEN MineRows(q, n, task, id)
                     ELSE HeldBy(q, n, id)
  <1>1. CASE rows = {} BY <1>1 DEF AfterDone, Shrinks
  <1>2. CASE rows # {}
    <2>1. PICK r \in rows :
            d = IF r.task = "FR" /\ pull # NoPull
                THEN AfterMrb(Completed(q, r, task, result), pull, {r.id}, {n})
                ELSE Completed(q, r, task, result)
      BY <1>2 DEF AfterDone
    <2>2. r \in q.accepted BY DEF MineRows, HeldBy
    <2>3. r.id \in Ident BY <2>2 DEF Sound, Doc, Row
    <2>4. Sound(Completed(q, r, task, result), how) /\ Shrinks(q, Completed(q, r, task, result))
      BY <2>2, CompletedSound
    <2> DEFINE c == Completed(q, r, task, result)
    <2>5. ASSUME pull # NoPull
          PROVE  Sound(AfterMrb(c, pull, {r.id}, {n}), how) /\ Shrinks(q, AfterMrb(c, pull, {r.id}, {n}))
      <3>1. pull \in Pull /\ {r.id} \in SUBSET Ident /\ {n} \in SUBSET Nick BY <2>3, <2>5
      <3>2. Sound(c, how) /\ Shrinks(q, c) BY <2>4
      <3> HIDE DEF c
      <3>3. Sound(AfterMrb(c, pull, {r.id}, {n}), how) /\ Shrinks(c, AfterMrb(c, pull, {r.id}, {n}))
        BY <3>1, <3>2, AfterMrbSound
      <3> QED BY <3>2, <3>3 DEF Shrinks
    <2> HIDE DEF c
    <2> QED BY <2>1, <2>4, <2>5 DEF c
  <1> QED BY <1>1, <1>2

\* A row freed by a departure is a row of the same job without a holder.
LEMMA FreedType ==
    ASSUME NEW r \in Row
    PROVE  Freed(r) \in Row /\ SameJob(Freed(r), r)
  BY DEF Freed, Row, SameJob

\* release_worker keeps a document sound.
LEMMA AfterReleaseSound ==
    ASSUME NEW how, NEW q, Sound(q, how), NEW n \in Nick
    PROVE  Sound(AfterRelease(q, n), how) /\ Shrinks(q, AfterRelease(q, n))
  <1> DEFINE mine == {a \in q.accepted : a.nick = n}
             freed == {Freed(r) : r \in mine}
             d == AfterRelease(q, n)
  <1>1. q \in Doc /\ \A r \in mine : r \in Row BY DEF Sound, Doc
  <1>2. freed \in SUBSET Row BY <1>1, FreedType
  <1>3. \A r \in mine : SameJob(Freed(r), r) BY <1>1, FreedType
  <1>4. /\ d \in Doc
        /\ d.unaccepted = q.unaccepted \cup freed
        /\ d.accepted = {a \in q.accepted : a.nick # n}
        /\ d.hold = q.hold
    BY <1>1, <1>2 DEF AfterRelease, Doc
  <1> HIDE DEF d
  <1>5. RowsHeld(d) BY <1>4 DEF Sound, RowsHeld
  <1>6. MachinesHoldOnce(d) BY <1>4 DEF Sound, MachinesHoldOnce
  <1>7. ASSUME NEW x \in Open(d), x.task # "FR"
        PROVE  \E o \in Open(q) : /\ SameJob(o, x)
                                  /\ x = IF o \in mine THEN Freed(o) ELSE o
    <2>1. CASE x \in freed
      <3>1. PICK r \in mine : x = Freed(r) BY <2>1
      <3> QED BY <3>1, <1>3 DEF Open, SameJob
    <2>2. CASE x \notin freed
      <3>1. x \in Open(q) BY <2>2, <1>4 DEF Open
      <3>2. x \notin mine BY <2>2, <1>4, <1>7 DEF Open, Sound, ReviewsOnce, SameJob
      <3> QED BY <3>1, <3>2 DEF SameJob
    <2> QED BY <2>1, <2>2
  <1>8. ReviewsOnce(d)
    <2>1. \A x, y \in Open(d) : SameJob(x, y) /\ x.task # "FR" => x = y
      <3> SUFFICES ASSUME NEW x \in Open(d), NEW y \in Open(d),
                          SameJob(x, y), x.task # "FR"
                   PROVE  x = y
        OBVIOUS
      <3>1. y.task # "FR" BY DEF SameJob
      <3>2. PICK o \in Open(q) : SameJob(o, x) /\ x = IF o \in mine THEN Freed(o) ELSE o
        BY <1>7
      <3>3. PICK u \in Open(q) : SameJob(u, y) /\ y = IF u \in mine THEN Freed(u) ELSE u
        BY <3>1, <1>7
      <3>4. o = u BY <3>2, <3>3 DEF Sound, ReviewsOnce, SameJob
      <3> QED BY <3>2, <3>3, <3>4
    <2>2. \A x \in d.unaccepted, y \in d.accepted : SameJob(x, y) => x.task = "FR"
      <3> SUFFICES ASSUME NEW x \in d.unaccepted, NEW y \in d.accepted,
                          SameJob(x, y), x.task # "FR"
                   PROVE  FALSE
        OBVIOUS
      <3>1. y \in q.accepted /\ y.nick # n BY <1>4
      <3>2. CASE x \in q.unaccepted BY <3>1, <3>2 DEF Sound, ReviewsOnce
      <3>3. CASE x \in freed
        <4>1. PICK r \in mine : x = Freed(r) BY <3>3
        <4>2. SameJob(r, y) /\ r.task # "FR" BY <4>1, <1>3 DEF SameJob
        <4>3. r = y BY <4>2, <3>1 DEF Sound, ReviewsOnce, Open
        <4> QED BY <4>3, <3>1
      <3> QED BY <3>2, <3>3, <1>4
    <2> QED BY <2>1, <2>2 DEF ReviewsOnce
  <1>9. how = "atomic" => HeldHaveNoUat(d)
    <2> SUFFICES ASSUME how = "atomic",
                        NEW i \in d.hold, NEW x \in Open(d), IsJob(x, "UAT", i)
                 PROVE  FALSE
      BY DEF HeldHaveNoUat
    <2>1. PICK o \in Open(q) : SameJob(o, x) BY <1>7 DEF IsJob
    <2> QED BY <2>1, <1>4 DEF Sound, HeldHaveNoUat, IsJob, SameJob
  <1>10. Sound(d, how) /\ Shrinks(q, d) BY <1>4, <1>5, <1>6, <1>8, <1>9 DEF Sound, Shrinks
  <1> QED BY <1>10 DEF d

\* Whatever accept_job returns is sound, with the report of it or without; the
\* report is of a row in the seat's hands.
LEMMA AckSound ==
    ASSUME NEW how, NEW q, Sound(q, how), NEW n \in Nick, NEW task, NEW id,
           NEW res \in AckResults(q, n, task, id)
    PROVE  /\ Sound(res.queue, how)
           /\ res.row \subseteq res.queue.accepted
           /\ res.row = {} \/ \E r : res.row = {r}
           /\ \A r \in res.row : Sound(AfterQueueAccept(res.queue, r), how)
  <1> DEFINE mine    == MineRows(q, n, task, id)
             sibling == SiblingRows(q, n, task, id)
             waiting == WaitingRows(q, task, id)
  <1>1. q \in Doc BY DEF Sound
  <1>2. SUFFICES /\ Sound(res.queue, how)
                 /\ res.row \subseteq res.queue.accepted
                 /\ res.row = {} \/ \E r : res.row = {r}
    BY QueueAcceptSound
  <1>3. CASE mine # {}
    <2>1. PICK r \in mine : res = [queue |-> q, row |-> {r}] BY <1>3 DEF AckResults
    <2> QED BY <2>1 DEF MineRows, HeldBy
  <1>4. CASE mine = {} /\ sibling # {}
    <2>1. PICK r \in sibling :
            res = [queue |-> [q EXCEPT !.accepted = (@ \ {r}) \cup {Taken(r, n)}],
                   row   |-> {Taken(r, n)}]
      BY <1>4 DEF AckResults
    <2>2. r \in q.accepted /\ MachineOf[r.nick] = MachineOf[n] BY DEF SiblingRows
    <2>3. Taken(r, n) \in res.queue.accepted BY <1>1, <2>1 DEF Doc
    <2> QED BY <2>1, <2>2, <2>3, AckSiblingSound
  <1>5. CASE mine = {} /\ sibling = {} /\ waiting # {}
    <2>1. PICK r \in waiting : \E rows \in Capped(q.accepted, Taken(r, n)) :
            res = [queue |-> [q EXCEPT !.unaccepted = @ \ {r}, !.accepted = rows],
                   row   |-> {Taken(r, n)}]
      BY <1>5 DEF AckResults
    <2>2. PICK rows \in Capped(q.accepted, Taken(r, n)) :
            res = [queue |-> [q EXCEPT !.unaccepted = @ \ {r}, !.accepted = rows],
                   row   |-> {Taken(r, n)}]
      BY <2>1
    <2>3. r \in q.unaccepted /\ r.task = task /\ r.id = id BY DEF WaitingRows, IsJob
    <2>4. rows \subseteq q.accepted \cup {Taken(r, n)} /\ Taken(r, n) \in rows
      BY DEF Capped
    <2>5. Sound(res.queue, how) BY <1>5, <2>2, <2>3, <2>4, AckWaitingSound
    <2>6. Taken(r, n) \in res.queue.accepted BY <1>1, <2>2, <2>4 DEF Doc
    <2> QED BY <2>2, <2>5, <2>6
  <1>6. CASE mine = {} /\ sibling = {} /\ waiting = {}
    <2>1. res = [queue |-> q, row |-> {}] BY <1>6 DEF AckResults
    <2> QED BY <2>1
  <1> QED BY <1>3, <1>4, <1>5, <1>6

\* The purges of an offer keep a document sound.
LEMMA OfferScanSound ==
    ASSUME NEW how, NEW q, Sound(q, how), NEW rows
    PROVE  /\ Sound(AfterPurgeStaleMrb(q), how)
           /\ Sound(AfterPurgeDeadMrb(q), how)
           /\ Sound(AfterPurgeRows(q, rows), how)
           /\ Open(AfterPurgeStaleMrb(q)) \subseteq Open(q)
           /\ Open(AfterPurgeDeadMrb(q)) \subseteq Open(q)
           /\ Open(AfterPurgeRows(q, rows)) \subseteq Open(q)
  <1>1. q \in Doc BY DEF Sound
  <1>2. ASSUME NEW kept \in SUBSET q.unaccepted
        PROVE  Sound([q EXCEPT !.unaccepted = kept], how)
               /\ Open([q EXCEPT !.unaccepted = kept]) \subseteq Open(q)
    <2> DEFINE d == [q EXCEPT !.unaccepted = kept]
    <2>1. /\ d \in Doc
          /\ d.unaccepted \subseteq q.unaccepted
          /\ d.accepted = q.accepted
          /\ d.hold = q.hold
      BY <1>1 DEF Doc
    <2> HIDE DEF d
    <2>2. Sound(d, how) BY <2>1, FewerSound
    <2>3. Open(d) \subseteq Open(q) BY <2>1 DEF Open
    <2> QED BY <2>2, <2>3 DEF d
  <1>3. {r \in q.unaccepted : ~StaleMrb(q, r)} \in SUBSET q.unaccepted OBVIOUS
  <1>4. {r \in q.unaccepted : ~(r.task = "MRB" /\ MrbAlreadyDone(q, r))}
          \in SUBSET q.unaccepted
    OBVIOUS
  <1>5. {r \in q.unaccepted : \A gone \in rows : ~SameJob(r, gone)} \in SUBSET q.unaccepted
    OBVIOUS
  <1> QED
    BY <1>2, <1>3, <1>4, <1>5 DEF AfterPurgeStaleMrb, AfterPurgeDeadMrb, AfterPurgeRows

\* purge_repo_from_queue empties the queue but keeps the holds.
LEMMA AfterIgnoreSound ==
    ASSUME NEW how, NEW q, Sound(q, how)
    PROVE  Sound(AfterIgnore(q), how) /\ Open(AfterIgnore(q)) = {}
  <1>1. q \in Doc BY DEF Sound
  <1>2. << >> \in Seq(Row) OBVIOUS
  <1>3. /\ AfterIgnore(q) \in Doc
        /\ AfterIgnore(q).unaccepted = {}
        /\ AfterIgnore(q).accepted = {}
        /\ AfterIgnore(q).hold = q.hold
    BY <1>1, <1>2 DEF AfterIgnore, Doc
  <1> QED BY <1>3, FewerSound DEF Open

\* The empty queue is sound.
LEMMA EmptySound ==
    ASSUME NEW how
    PROVE  Sound(EmptyQueue, how) /\ Open(EmptyQueue) = {}
  <1>1. EmptyQueue \in Doc BY DEF EmptyQueue, Doc
  <1>2. /\ EmptyQueue.unaccepted = {}
        /\ EmptyQueue.accepted = {}
        /\ EmptyQueue.hold = {}
    BY DEF EmptyQueue
  <1> QED
    BY <1>1, <1>2 DEF Sound, RowsHeld, ReviewsOnce, HeldHaveNoUat, MachinesHoldOnce, Open

\* With nothing open, seats cannot change the buckets.
LEMMA NothingOpen ==
    ASSUME NEW q \in Doc, Open(q) = {}, NEW n \in Nick, NEW task, NEW id
    PROVE  /\ AckResults(q, n, task, id) = {[queue |-> q, row |-> {}]}
           /\ AfterNack(q, n, task, id) = {q}
           /\ Open(AfterRelease(q, n)) = {}
  <1>1. q.accepted = {} /\ q.unaccepted = {} BY DEF Open
  <1>2. /\ MineRows(q, n, task, id) = {}
        /\ SiblingRows(q, n, task, id) = {}
        /\ WaitingRows(q, task, id) = {}
        /\ HeldBy(q, n, id) = {}
    BY <1>1 DEF MineRows, SiblingRows, WaitingRows, HeldBy
  <1>3. Open(AfterRelease(q, n)) = {} BY <1>1 DEF AfterRelease, Open, Doc
  <1> QED BY <1>2, <1>3 DEF AckResults, AfterNack

\* With no open row a DONE without a pull request changes nothing.
LEMMA NothingOpenDone ==
    ASSUME NEW q \in Doc, Open(q) = {}, NEW n, NEW task, NEW id, NEW result, NEW pull
    PROVE  AfterDone(q, n, task, id, result, pull) = {q}
  <1>1. MineRows(q, n, task, id) = {} /\ HeldBy(q, n, id) = {}
    BY DEF Open, MineRows, HeldBy
  <1> QED BY <1>1 DEF AfterDone
=============================================================================
