-------------------------- MODULE QueueFileProofs ---------------------------
(***************************************************************************)
(* Proofs about QueueFile for every set of issues, pull requests and       *)
(* seats: whatever saves overtake each other, every version of the file    *)
(* that exists somewhere (in the file, in queue.tmp, in a thread's hands   *)
(* or kept for a second save) is sound, and so is what the file becomes    *)
(* when one of them is installed.                                          *)
(***************************************************************************)
EXTENDS QueueFile, QueueDocProofs, FiniteSetTheorems

\* A version of the file, a report, a draft and a step that may be around.
SoundDoc == {d \in Doc : Sound(d, "file")}

HeldReport == {{}} \cup {{r} : r \in {s \in Row : s.nick \in Nick}}

SoundDraft == [doc : SoundDoc, by : Operation, written : BOOLEAN]

\* The steps after which complete_job is over, and those that are its second half.
PlainStep == [do : {"post"}, report : HeldReport] \cup [do : {"purge"}, what : Purges]

DoneStep == [do : {"resave"}, doc : SoundDoc]
                \cup [do : {"supersede"}, nick : Nick, id : Ident, pull : Pull]

\* What the chair has still to do: only the first step can be complete_job's.
Plan == {p \in Seq(PlainStep \cup DoneStep) : p # << >> => Tail(p) \in Seq(PlainStep)}

FileType ==
    /\ file \in SoundDoc
    /\ tmp \subseteq SoundDoc
    /\ ignored \in BOOLEAN
    /\ lock \in Thread \cup {"free"}
    /\ draft \in [Thread -> {{}} \cup {{d} : d \in SoundDraft}]
    /\ todo \in Plan
    /\ sent \in HeldReport
    /\ wait \in {"no", "sent", "served"}
    /\ BagToSet(late) \subseteq HeldReport
    /\ overtaken \in [Thread -> SUBSET Operation]

\* A thread with a serialized draft has the lock, and none of those overtook it;
\* the chair keeps the lock between the two saves of complete_job.
DraftsOwned ==
    \A t \in Thread : \A d \in draft[t] :
        d.by \in Serialized => lock = t /\ overtaken[t] \cap Serialized = {}

NestedLocked == Nested(todo) => lock = "chair"

FileInv == FileType /\ DraftsOwned /\ NestedLocked

-----------------------------------------------------------------------------
(* Plans.                                                                  *)

\* The chair's reports are plain steps.
LEMMA PostPlain ==
    ASSUME NEW report \in HeldReport
    PROVE  Post(report) \in PlainStep
  BY DEF Post, PlainStep

\* A plan of plain steps is a plan that is not nested.
LEMMA PlainPlan ==
    ASSUME NEW steps \in Seq(PlainStep)
    PROVE  steps \in Plan /\ ~Nested(steps)
  <1>1. steps # << >> => Head(steps) \in PlainStep /\ Tail(steps) \in Seq(PlainStep)
    BY HeadTailProperties
  <1>2. steps \in Seq(PlainStep \cup DoneStep) BY SeqMonotonic
  <1> QED BY <1>1, <1>2 DEF Plan, Nested, PlainStep

\* A plan that begins with the second half of complete_job.
LEMMA DonePlan ==
    ASSUME NEW s \in DoneStep, NEW rest \in Seq(PlainStep)
    PROVE  <<s>> \o rest \in Plan
  <1> DEFINE S == PlainStep \cup DoneStep
             steps == <<s>> \o rest
  <1>1. <<s>> \in Seq(S) /\ Len(<<s>>) = 1 OBVIOUS
  <1>2. rest \in Seq(S) BY SeqMonotonic
  <1> HIDE DEF S
  <1>3. /\ steps \in Seq(S)
        /\ Len(steps) = 1 + Len(rest)
        /\ \A i \in 1 .. 1 + Len(rest) : steps[i] = IF i <= 1 THEN <<s>>[i] ELSE rest[i - 1]
    BY <1>1, <1>2, ConcatProperties
  <1> HIDE DEF steps
  <1>4. Len(rest) \in Nat OBVIOUS
  <1>5. steps # << >> BY <1>3, <1>4
  <1>6. /\ Tail(steps) \in Seq(S)
        /\ Len(Tail(steps)) = Len(rest)
        /\ \A i \in 1 .. Len(rest) : Tail(steps)[i] = steps[i + 1]
    BY <1>3, <1>4, <1>5, HeadTailProperties
  <1>7. \A i \in 1 .. Len(rest) : Tail(steps)[i] = rest[i] BY <1>3, <1>4, <1>6
  <1>8. Tail(steps) = rest BY <1>2, <1>6, <1>7, SeqEqual
  <1> QED BY <1>3, <1>8 DEF Plan, S, steps

\* What is left of a plan after its first step is plain.
LEMMA PlanTail ==
    ASSUME NEW steps \in Plan, steps # << >>
    PROVE  /\ Tail(steps) \in Seq(PlainStep)
           /\ Head(steps) \in PlainStep \cup DoneStep
  BY HeadTailProperties DEF Plan

\* The kind of the next step says what it carries.
LEMMA PlanHead ==
    ASSUME NEW steps \in Plan, steps # << >>
    PROVE  /\ Head(steps).do = "post" => Head(steps).report \in HeldReport
           /\ Head(steps).do = "purge" => Head(steps).what \in Purges
           /\ Head(steps).do = "resave" => Head(steps).doc \in SoundDoc
           /\ Head(steps).do = "supersede" =>
                /\ Head(steps).nick \in Nick
                /\ Head(steps).id \in Ident
                /\ Head(steps).pull \in Pull
  BY PlanTail DEF PlainStep, DoneStep

-----------------------------------------------------------------------------
(* Loading and saving.                                                     *)

DraftType ==
    /\ draft \in [Thread -> {{}} \cup {{d} : d \in SoundDraft}]
    /\ overtaken \in [Thread -> SUBSET Operation]

\* The lock is only given to a thread when it is free.
LockStays == lock' = lock \/ lock = "free"

\* A load gives the thread a draft that nothing has overtaken; one of webhook, ACK
\* or DONE is only made by the thread that has the lock.
LEMMA LoadOK ==
    ASSUME DraftType, DraftsOwned, NEW t \in Thread, NEW doc \in SoundDoc, NEW by \in Operation,
           Load(t, doc, by), by \in Serialized => lock' = t, LockStays
    PROVE  DraftType' /\ DraftsOwned'
  <1> DEFINE new == [doc |-> doc, by |-> by, written |-> FALSE]
  <1>1. new \in SoundDraft BY DEF SoundDraft
  <1>2. draft' = [draft EXCEPT ![t] = {new}] /\ overtaken' = [overtaken EXCEPT ![t] = {}]
    BY DEF Load
  <1>3. new.by = by OBVIOUS
  <1> HIDE DEF new
  <1>4. DraftType' BY <1>1, <1>2 DEF DraftType
  <1>5. ASSUME NEW u \in Thread, NEW d \in draft'[u], d.by \in Serialized
        PROVE  lock' = u /\ overtaken'[u] \cap Serialized = {}
    <2>1. CASE u = t
      <3>1. d = new /\ overtaken'[u] = {} BY <2>1, <1>2 DEF DraftType
      <3> QED BY <2>1, <3>1, <1>3, <1>5
    <2>2. CASE u # t
      <3>1. d \in draft[u] /\ overtaken'[u] = overtaken[u] BY <2>2, <1>2 DEF DraftType
      <3>2. lock = u /\ overtaken[u] \cap Serialized = {} BY <3>1, <1>5 DEF DraftsOwned
      <3>3. lock' = u BY <3>2 DEF LockStays, Thread
      <3> QED BY <3>1, <3>2, <3>3
    <2> QED BY <2>1, <2>2
  <1> QED BY <1>4, <1>5 DEF DraftsOwned

\* A step that loads nothing leaves the drafts owned.
LEMMA NoLoadOK ==
    ASSUME DraftType, DraftsOwned, UNCHANGED <<draft, overtaken>>, LockStays
    PROVE  DraftType' /\ DraftsOwned'
  BY DEF DraftType, DraftsOwned, LockStays, Thread

\* tmp.write_text: queue.tmp gets the thread's copy.
LEMMA WriteOK ==
    ASSUME FileInv, NEW t \in Thread, Write(t)
    PROVE  FileInv'
  <1> USE DEF FileInv
  <1>1. PICK d \in draft[t] :
          /\ tmp' = {d.doc}
          /\ draft' = [draft EXCEPT ![t] = {[d EXCEPT !.written = TRUE]}]
          /\ UNCHANGED <<file, ignored, lock, todo, sent, wait, late, overtaken>>
    BY DEF Write
  <1>2. d \in SoundDraft BY DEF FileType
  <1> DEFINE new == [d EXCEPT !.written = TRUE]
  <1>3. new \in SoundDraft /\ new.by = d.by BY <1>2 DEF SoundDraft
  <1>4. d.doc \in SoundDoc BY <1>2 DEF SoundDraft
  <1> HIDE DEF new
  <1>5. draft' = [draft EXCEPT ![t] = {new}] BY <1>1 DEF new
  <1>6. FileType' BY <1>1, <1>3, <1>4, <1>5 DEF FileType
  <1>7. DraftsOwned'
    <2> SUFFICES ASSUME NEW u \in Thread, NEW e \in draft'[u], e.by \in Serialized
                 PROVE  lock = u /\ overtaken[u] \cap Serialized = {}
      BY <1>1 DEF DraftsOwned
    <2>1. CASE u = t
      <3>1. e.by = d.by BY <2>1, <1>3, <1>5 DEF FileType
      <3> QED BY <2>1, <3>1 DEF DraftsOwned
    <2>2. CASE u # t
      <3>1. e \in draft[u] BY <2>2, <1>5 DEF FileType
      <3> QED BY <3>1 DEF DraftsOwned
    <2> QED BY <2>1, <2>2
  <1> QED BY <1>1, <1>6, <1>7 DEF NestedLocked, Nested

\* A draft goes, by a save or an error, and with it the thread's lock.
LEMMA DraftGone ==
    ASSUME FileInv, NEW t \in Thread, NEW by \in Operation,
           by \in Serialized => lock = t,
           draft' = [draft EXCEPT ![t] = {}],
           lock' = lock \/ (lock = t /\ lock' = "free"),
           \A u \in Thread : overtaken'[u] \subseteq IF u = t THEN {} ELSE overtaken[u] \cup {by},
           overtaken' \in [Thread -> SUBSET Operation]
    PROVE  DraftType' /\ DraftsOwned'
  <1> USE DEF FileInv
  <1>1. DraftType' BY DEF FileType, DraftType
  <1>2. ASSUME NEW u \in Thread, NEW e \in draft'[u], e.by \in Serialized
        PROVE  lock' = u /\ overtaken'[u] \cap Serialized = {}
    <2>1. u # t /\ e \in draft[u] BY DEF FileType
    <2>2. lock = u /\ overtaken[u] \cap Serialized = {} BY <2>1, <1>2 DEF DraftsOwned
    <2>3. by \notin Serialized BY <2>1, <2>2
    <2>4. overtaken'[u] \subseteq overtaken[u] \cup {by} BY <2>1
    <2> QED BY <2>1, <2>2, <2>3, <2>4
  <1> QED BY <1>1, <1>2 DEF DraftsOwned

\* tmp.replace: the file becomes what queue.tmp holds.
LEMMA RenameOK ==
    ASSUME FileInv, NEW t \in Thread, Rename(t)
    PROVE  FileInv'
  <1> USE DEF FileInv
  <1>1. PICK d \in draft[t], doc \in tmp :
          /\ file' = doc
          /\ tmp' = {}
          /\ draft' = [draft EXCEPT ![t] = {}]
          /\ overtaken' = [u \in Thread |->
                              IF u # t /\ ~Idle(u) THEN overtaken[u] \cup {d.by} ELSE {}]
          /\ lock' = Unlock(t, todo)
          /\ wait' = Answer(t)
          /\ UNCHANGED <<ignored, todo, sent, late>>
    BY DEF Rename
  <1>2. d \in SoundDraft BY DEF FileType
  <1>3. d.by \in Operation /\ (d.by \in Serialized => lock = t)
    BY <1>2 DEF SoundDraft, DraftsOwned
  <1>4. doc \in SoundDoc BY DEF FileType
  <1>5. lock' = lock \/ (lock = t /\ lock' = "free") BY <1>1 DEF Unlock
  <1>6. overtaken' \in [Thread -> SUBSET Operation] BY <1>1, <1>3 DEF FileType
  <1>7. \A u \in Thread : overtaken'[u] \subseteq IF u = t THEN {} ELSE overtaken[u] \cup {d.by}
    BY <1>1
  <1>8. DraftType' /\ DraftsOwned' BY <1>1, <1>3, <1>5, <1>6, <1>7, DraftGone
  <1>9. NestedLocked' BY <1>1 DEF NestedLocked, Nested, Unlock
  <1>10. FileType' BY <1>1, <1>4, <1>5, <1>8 DEF FileType, DraftType, Answer
  <1> QED BY <1>8, <1>9, <1>10

\* tmp.replace fails: the handler ends with an error.
LEMMA RenameFailsOK ==
    ASSUME FileInv, NEW t \in Thread, RenameFails(t)
    PROVE  FileInv'
  <1> USE DEF FileInv
  <1>1. PICK d \in draft[t] :
          /\ draft' = [draft EXCEPT ![t] = {}]
          /\ overtaken' = [overtaken EXCEPT ![t] = {}]
          /\ lock' = Unlock(t, << >>)
          /\ wait' = Answer(t)
          /\ todo' = IF t = "chair" \/ wait = "served" THEN << >> ELSE todo
          /\ UNCHANGED <<file, tmp, ignored, sent, late>>
    BY DEF RenameFails
  <1>2. d \in SoundDraft BY DEF FileType
  <1>3. d.by \in Operation /\ (d.by \in Serialized => lock = t)
    BY <1>2 DEF SoundDraft, DraftsOwned
  <1>4. lock' = lock \/ (lock = t /\ lock' = "free") BY <1>1 DEF Unlock
  <1>5. overtaken' \in [Thread -> SUBSET Operation] BY <1>1 DEF FileType
  <1>6. \A u \in Thread : overtaken'[u] \subseteq IF u = t THEN {} ELSE overtaken[u] \cup {d.by}
    BY <1>1 DEF FileType
  <1>7. DraftType' /\ DraftsOwned' BY <1>1, <1>3, <1>4, <1>5, <1>6, DraftGone
  <1>8. << >> \in Plan /\ ~Nested(<< >>) BY PlainPlan, EmptySeq
  <1>9. NestedLocked' BY <1>1, <1>4, <1>8 DEF NestedLocked, Nested, Thread
  <1>10. FileType' BY <1>1, <1>4, <1>7, <1>8 DEF FileType, DraftType, Answer
  <1> QED BY <1>7, <1>9, <1>10

-----------------------------------------------------------------------------
(* The chair.                                                              *)

\* What a step of the chair that writes no file has to show.
LEMMA ChairStep ==
    ASSUME FileInv, DraftType', DraftsOwned',
           UNCHANGED <<file, tmp>>,
           ignored' \in BOOLEAN, lock' \in Thread \cup {"free"},
           todo' \in Plan, Nested(todo') => lock' = "chair",
           sent' \in HeldReport, wait' \in {"no", "sent", "served"},
           BagToSet(late') \subseteq HeldReport
    PROVE  FileInv'
  <1>1. FileType' BY DEF FileInv, FileType, DraftType
  <1> QED BY <1>1 DEF FileInv, NestedLocked, Nested

\* The report of no row.
LEMMA NoRowReport == {} \in HeldReport
  BY DEF HeldReport

\* A handler that loads without the lock and then posts.
LEMMA ChairLoadOK ==
    ASSUME FileInv, NEW doc \in SoundDoc, NEW by \in Operation,
           Load("chair", doc, by), by \in Serialized => lock' = "chair", LockStays,
           lock' \in Thread \cup {"free"}, ignored' = ignored, Unread,
           todo' \in Plan, Nested(todo') => lock' = "chair"
    PROVE  FileInv'
  <1>1. "chair" \in Thread BY DEF Thread
  <1>2. DraftType /\ DraftsOwned BY DEF FileInv, FileType, DraftType
  <1>3. DraftType' /\ DraftsOwned' BY <1>1, <1>2, LoadOK
  <1> QED BY <1>3, ChairStep DEF Unread, FileInv, FileType

\* Two reports are a plan.
LEMMA PostsPlan ==
    /\ <<Post({})>> \in Seq(PlainStep)
    /\ <<Post({}), Post({})>> \in Seq(PlainStep)
    /\ << >> \in Seq(PlainStep)
  BY PostPlain, NoRowReport

\* So are the purges that follow a !bored and an !ignore.
LEMMA PurgesPlan ==
    /\ <<Purge("stale MRB"), Purge("dead MRB"), Purge("dead FR")>> \in Seq(PlainStep)
    /\ <<Purge("repository")>> \in Seq(PlainStep)
  <1> DEFINE a == Purge("stale MRB")  b == Purge("dead MRB")
             c == Purge("dead FR")    d == Purge("repository")
  <1>1. a \in PlainStep /\ b \in PlainStep /\ c \in PlainStep /\ d \in PlainStep
    BY DEF Purge, PlainStep, Purges
  <1> HIDE DEF a, b, c, d
  <1>2. <<a, b, c>> \in Seq(PlainStep) /\ <<d>> \in Seq(PlainStep) BY <1>1
  <1> QED BY <1>2 DEF a, b, c, d

\* A row in somebody's hands can be reported.
LEMMA HeldRowReport ==
    ASSUME NEW q, Sound(q, "file"), NEW r \in q.accepted
    PROVE  {r} \in HeldReport
  <1>1. r \in Row /\ r.nick \in Nick BY DEF Sound, Doc, RowsHeld
  <1> QED BY <1>1 DEF HeldReport

\* ACK.
LEMMA ChairAckOK ==
    ASSUME FileInv, NEW n \in Nick, NEW task \in Task, NEW id \in Ident, ChairAck(n, task, id)
    PROVE  FileInv'
  <1>1. PICK res \in AckResults(file, n, task, id) :
          /\ Load("chair", res.queue, "ack")
          /\ todo' = (IF res.row = {} THEN << >> ELSE <<Post(res.row)>>) \o <<Post({})>>
    BY DEF ChairAck
  <1>2. Sound(file, "file") BY DEF FileInv, FileType, SoundDoc
  <1>3. /\ Sound(res.queue, "file")
        /\ res.row \subseteq res.queue.accepted
        /\ res.row = {} \/ \E r : res.row = {r}
    BY <1>2, AckSound
  <1>4. res.queue \in SoundDoc BY <1>3 DEF Sound, SoundDoc
  <1>5. res.row \in HeldReport
    <2>1. CASE res.row = {} BY <2>1, NoRowReport
    <2>2. CASE res.row # {}
      <3>1. PICK r : res.row = {r} BY <1>3, <2>2
      <3> QED BY <1>3, <3>1, HeldRowReport
    <2> QED BY <2>1, <2>2
  <1> DEFINE first == IF res.row = {} THEN << >> ELSE <<Post(res.row)>>
  <1>6. first \in Seq(PlainStep) BY <1>5, PostPlain
  <1> HIDE DEF first
  <1>7. first \o <<Post({})>> \in Seq(PlainStep) BY <1>6, PostsPlan, ConcatProperties
  <1>8. todo' \in Plan /\ ~Nested(todo') BY <1>1, <1>7, PlainPlan DEF first
  <1>9. lock = "free" /\ lock' = "chair" /\ ignored' = ignored /\ Unread
    BY DEF ChairAck, Lock
  <1> QED BY <1>1, <1>4, <1>8, <1>9, ChairLoadOK DEF Operation, Thread, LockStays

\* NACK, which does not take the lock.
LEMMA ChairNackOK ==
    ASSUME FileInv, NEW n \in Nick, NEW task \in Task, NEW id \in Ident, ChairNack(n, task, id)
    PROVE  FileInv'
  <1>1. PICK doc \in AfterNack(file, n, task, id) : Load("chair", doc, "nack")
    BY DEF ChairNack
  <1>2. Sound(doc, "file")
    <2>1. Sound(file, "file") BY DEF FileInv, FileType, SoundDoc
    <2> QED BY <2>1, AfterNackSound
  <1>3. doc \in SoundDoc BY <1>2 DEF Sound, SoundDoc
  <1>4. todo' \in Plan /\ ~Nested(todo') BY PostsPlan, PlainPlan DEF ChairNack
  <1>5. lock' = lock /\ ignored' = ignored /\ Unread BY DEF ChairNack
  <1>6. lock' \in Thread \cup {"free"} BY <1>5 DEF FileInv, FileType
  <1> QED BY <1>1, <1>3, <1>4, <1>5, <1>6, ChairLoadOK DEF Operation, Serialized, LockStays

\* DONE: the second half of complete_job, if there is one, comes first.
LEMMA ChairDoneOK ==
    ASSUME FileInv, NEW n \in Nick, NEW task \in Task, NEW id \in Ident,
           NEW result \in {"pass", "fail"}, NEW pull \in Pull \cup {NoPull},
           ChairDone(n, task, id, result, pull)
    PROVE  FileInv'
  <1> DEFINE named == MineRows(file, n, task, id)
             rows  == IF named # {} THEN named ELSE HeldBy(file, n, id)
             posts == <<Post({}), Post({})>>
             then(r) == IF r.task = "FR" /\ pull # NoPull THEN <<Supersede(n, r.id, pull)>>
                        ELSE IF r.task = "MRB" /\ result = "pass"
                        THEN <<Resave(Completed(file, r, task, result))>>
                        ELSE << >>
  <1>1. Sound(file, "file") BY DEF FileInv, FileType, SoundDoc
  <1>2. lock = "free" /\ lock' = "chair" /\ ignored' = ignored /\ Unread
    BY DEF ChairDone, Lock
  <1>3. posts \in Seq(PlainStep) BY PostsPlan
  <1>4. CASE rows = {} /\ Load("chair", file, "done") /\ todo' = posts
    <2>1. file \in SoundDoc BY DEF FileInv, FileType
    <2>2. todo' \in Plan BY <1>3, <1>4, PlainPlan
    <2> QED BY <1>2, <1>4, <2>1, <2>2, ChairLoadOK DEF Operation, Thread, LockStays
  <1>5. ASSUME NEW r \in rows, Load("chair", Completed(file, r, task, result), "done"),
               todo' = then(r) \o posts
        PROVE  FileInv'
    <2>1. r \in file.accepted BY DEF MineRows, HeldBy
    <2>2. Sound(Completed(file, r, task, result), "file") BY <1>1, <2>1, CompletedSound
    <2>3. Completed(file, r, task, result) \in SoundDoc BY <2>2 DEF Sound, SoundDoc
    <2>4. r.id \in Ident BY <1>1, <2>1 DEF Sound, Doc, Row
    <2>5. todo' \in Plan
      <3>1. CASE r.task = "FR" /\ pull # NoPull
        <4>1. Supersede(n, r.id, pull) \in DoneStep BY <2>4, <3>1 DEF Supersede, DoneStep
        <4> QED BY <1>3, <1>5, <3>1, <4>1, DonePlan
      <3>2. CASE ~(r.task = "FR" /\ pull # NoPull) /\ r.task = "MRB" /\ result = "pass"
        <4>1. Resave(Completed(file, r, task, result)) \in DoneStep
          BY <2>3 DEF Resave, DoneStep
        <4> QED BY <1>3, <1>5, <3>2, <4>1, DonePlan
      <3>3. CASE ~(r.task = "FR" /\ pull # NoPull) /\ ~(r.task = "MRB" /\ result = "pass")
        <4>1. todo' = << >> \o posts BY <1>5, <3>3
        <4>2. todo' = posts BY <1>3, <4>1, ConcatEmptySeq
        <4> QED BY <1>3, <4>2, PlainPlan
      <3> QED BY <3>1, <3>2, <3>3
    <2> QED BY <1>2, <1>5, <2>3, <2>5, ChairLoadOK DEF Operation, Thread, LockStays
  <1> QED BY <1>4, <1>5 DEF ChairDone

\* A seat leaves.
LEMMA ChairReleaseOK ==
    ASSUME FileInv, NEW n \in Nick, ChairRelease(n)
    PROVE  FileInv'
  <1>1. Sound(AfterRelease(file, n), "file")
    <2>1. Sound(file, "file") BY DEF FileInv, FileType, SoundDoc
    <2> QED BY <2>1, AfterReleaseSound
  <1>2. AfterRelease(file, n) \in SoundDoc BY <1>1 DEF Sound, SoundDoc
  <1>3. todo' \in Plan /\ ~Nested(todo') BY PostsPlan, PlainPlan DEF ChairRelease
  <1>4. lock' = lock /\ ignored' = ignored /\ Unread BY DEF ChairRelease
  <1>5. lock' \in Thread \cup {"free"} BY <1>4 DEF FileInv, FileType
  <1> QED BY <1>2, <1>3, <1>4, <1>5, ChairLoadOK DEF ChairRelease, Operation, Serialized, LockStays

\* Steps of the chair that load nothing.
LEMMA ChairNoLoadOK ==
    ASSUME FileInv, UNCHANGED <<file, tmp, draft, overtaken>>, LockStays,
           ignored' \in BOOLEAN, lock' \in Thread \cup {"free"},
           todo' \in Plan, Nested(todo') => lock' = "chair",
           sent' \in HeldReport, wait' \in {"no", "sent", "served"},
           BagToSet(late') \subseteq HeldReport
    PROVE  FileInv'
  <1>1. DraftType /\ DraftsOwned BY DEF FileInv, FileType, DraftType
  <1>2. DraftType' /\ DraftsOwned' BY <1>1, NoLoadOK
  <1> QED BY <1>2, ChairStep

\* !bored, !ignore and !unignore.
LEMMA ChairCommandsOK ==
    ASSUME FileInv, ChairBored \/ ChairIgnore \/ ChairUnignore
    PROVE  FileInv'
  <1> USE DEF FileInv, FileType
  <1>2. CASE ChairBored
    <2>1. <<Purge("stale MRB"), Purge("dead MRB"), Purge("dead FR")>> \in Seq(PlainStep)
      BY PurgesPlan
    <2>2. todo' \in Plan /\ ~Nested(todo') BY <1>2, <2>1, PlainPlan DEF ChairBored
    <2>3. lock' = lock /\ ignored' = ignored /\ Unread BY <1>2 DEF ChairBored
    <2>4. CASE Load("chair", file, "heal")
      <3>1. file \in SoundDoc OBVIOUS
      <3> QED BY <2>2, <2>3, <2>4, <3>1, ChairLoadOK DEF Operation, Serialized, LockStays
    <2>5. CASE UNCHANGED <<draft, overtaken>>
      BY <2>2, <2>3, <2>5, ChairNoLoadOK DEF Unread, LockStays
    <2> QED BY <1>2, <2>4, <2>5 DEF ChairBored
  <1>3. CASE ChairIgnore
    <2>1. <<Purge("repository")>> \in Seq(PlainStep) BY PurgesPlan
    <2>2. todo' \in Plan /\ ~Nested(todo') BY <1>3, <2>1, PlainPlan DEF ChairIgnore
    <2> QED BY <1>3, <2>2, ChairNoLoadOK DEF ChairIgnore, Unread, LockStays
  <1>4. CASE ChairUnignore
    <2>1. Nested(todo') => lock' = "chair" BY <1>4 DEF ChairUnignore, NestedLocked
    <2> QED BY <1>4, <2>1, ChairNoLoadOK DEF ChairUnignore, Unread, LockStays
  <1> QED BY <1>2, <1>3, <1>4

\* What a purge makes of the file is sound.
LEMMA PurgedSound ==
    ASSUME FileInv, NEW what \in Purges, NEW doc \in Purged(what)
    PROVE  doc \in SoundDoc
  <1>1. Sound(file, "file") BY DEF FileInv, FileType, SoundDoc
  <1>2. CASE what = "stale MRB" BY <1>1, <1>2, OfferScanSound DEF Purged, SoundDoc, Sound
  <1>3. CASE what = "dead MRB" BY <1>1, <1>3, OfferScanSound DEF Purged, SoundDoc, Sound
  <1>4. CASE what = "dead FR"
    <2>1. PICK rows \in SUBSET DeadFrs(file) : doc = AfterPurgeRows(file, rows)
      BY <1>4 DEF Purged
    <2>2. Sound(doc, "file") BY <1>1, <2>1, OfferScanSound
    <2> QED BY <2>2 DEF SoundDoc, Sound
  <1>5. CASE what = "repository" BY <1>1, <1>5, AfterIgnoreSound DEF Purged, SoundDoc, Sound
  <1> QED BY <1>2, <1>3, <1>4, <1>5 DEF Purges

\* The rest of a plan is a plan of plain steps.
LEMMA RestPlain ==
    ASSUME FileInv, NEW kind, HasNext(kind), todo' = Tail(todo)
    PROVE  todo' \in Plan /\ ~Nested(todo') /\ todo \in Plan /\ todo # << >>
  <1>1. todo \in Plan /\ todo # << >> BY DEF HasNext, FileInv, FileType
  <1>2. Tail(todo) \in Seq(PlainStep) BY <1>1, PlanTail
  <1> QED BY <1>1, <1>2, PlainPlan

\* A purge of the chair.
LEMMA ChairPurgesOK ==
    ASSUME FileInv, ChairPurges
    PROVE  FileInv'
  <1>1. PICK doc \in Purged(Head(todo).what) :
          IF doc = file THEN UNCHANGED <<draft, overtaken>> ELSE Load("chair", doc, "purge")
    BY DEF ChairPurges
  <1>2. todo' \in Plan /\ ~Nested(todo') /\ todo \in Plan /\ todo # << >>
    BY RestPlain DEF ChairPurges
  <1>3. Head(todo).what \in Purges BY <1>2, PlanHead DEF ChairPurges, HasNext
  <1>4. doc \in SoundDoc BY <1>3, PurgedSound
  <1>5. lock' = lock /\ ignored' = ignored /\ Unread BY DEF ChairPurges
  <1>6. lock' \in Thread \cup {"free"} BY <1>5 DEF FileInv, FileType
  <1>7. CASE Load("chair", doc, "purge")
    BY <1>2, <1>4, <1>5, <1>6, <1>7, ChairLoadOK DEF Operation, Serialized, LockStays
  <1>8. CASE UNCHANGED <<draft, overtaken>>
    BY <1>2, <1>5, <1>8, ChairNoLoadOK DEF Unread, LockStays, FileInv, FileType
  <1> QED BY <1>1, <1>7, <1>8

\* The second half of complete_job runs under the lock of the first.
LEMMA ChairResavesOK ==
    ASSUME FileInv, ChairResaves
    PROVE  FileInv'
  <1>1. todo' \in Plan /\ ~Nested(todo') /\ todo \in Plan /\ todo # << >>
    BY RestPlain DEF ChairResaves
  <1>2. Head(todo).do = "resave" BY DEF ChairResaves, HasNext
  <1>3. Head(todo).doc \in SoundDoc BY <1>1, <1>2, PlanHead
  <1>4. lock = "chair" BY <1>1, <1>2 DEF FileInv, NestedLocked, Nested
  <1>5. lock' = lock /\ ignored' = ignored /\ Unread BY DEF ChairResaves
  <1> QED BY <1>1, <1>3, <1>4, <1>5, ChairLoadOK DEF ChairResaves, Operation, Thread, LockStays

\* The MRB claim of a finished FR.
LEMMA ChairSupersedesOK ==
    ASSUME FileInv, ChairSupersedes
    PROVE  FileInv'
  <1> DEFINE step == Head(todo)
             doc  == AfterMrb(file, step.pull, {step.id}, {step.nick})
  <1>1. todo' \in Plan /\ ~Nested(todo') /\ todo \in Plan /\ todo # << >>
    BY RestPlain DEF ChairSupersedes
  <1>2. step.do = "supersede" BY DEF ChairSupersedes, HasNext
  <1>3. step.nick \in Nick /\ step.id \in Ident /\ step.pull \in Pull
    BY <1>1, <1>2, PlanHead
  <1>4. lock = "chair" BY <1>1, <1>2 DEF FileInv, NestedLocked, Nested
  <1>5. doc \in SoundDoc
    <2>1. Sound(file, "file") BY DEF FileInv, FileType, SoundDoc
    <2>2. {step.id} \in SUBSET Ident /\ {step.nick} \in SUBSET Nick BY <1>3
    <2>3. Sound(doc, "file") BY <1>3, <2>1, <2>2, AfterMrbSound
    <2> QED BY <2>3 DEF Sound, SoundDoc
  <1>6. ignored' = ignored /\ Unread BY DEF ChairSupersedes
  <1>7. CASE ignored
    <2>1. lock' = "free" /\ UNCHANGED <<draft, overtaken>> BY <1>7 DEF ChairSupersedes
    <2>2. Idle("chair") BY DEF ChairSupersedes, HasNext
    <2>3. DraftType' BY <2>1 DEF FileInv, FileType, DraftType
    <2>4. DraftsOwned'
      <3> SUFFICES ASSUME NEW t \in Thread, NEW d \in draft[t], d.by \in Serialized
                   PROVE  FALSE
        BY <2>1 DEF DraftsOwned
      <3>1. lock = t BY DEF FileInv, DraftsOwned
      <3> QED BY <1>4, <2>2, <3>1 DEF Idle
    <2> QED BY <1>1, <1>6, <2>1, <2>3, <2>4, ChairStep DEF Unread, FileInv, FileType
  <1>8. CASE ~ignored
    <2>1. Load("chair", doc, "done") /\ UNCHANGED lock BY <1>8 DEF ChairSupersedes
    <2> QED BY <1>1, <1>4, <1>5, <1>6, <2>1, ChairLoadOK DEF Operation, Thread, LockStays
  <1> QED BY <1>7, <1>8

\* Reports sent, not sent, or not waited for.
LEMMA ChairPostsOK ==
    ASSUME FileInv, ChairPosts \/ ChairPostFails \/ ChairGivesUp
    PROVE  FileInv'
  <1> USE DEF FileInv, FileType
  <1>1. << >> \in Plan /\ ~Nested(<< >>) BY PostsPlan, PlainPlan
  <1>2. CASE ChairPosts
    <2>1. todo' \in Plan /\ ~Nested(todo') /\ todo \in Plan /\ todo # << >>
      BY <1>2, RestPlain DEF ChairPosts
    <2>2. sent' \in HeldReport BY <1>2, <2>1, PlanHead DEF ChairPosts, HasNext
    <2> QED BY <1>2, <2>1, <2>2, ChairNoLoadOK DEF ChairPosts, LockStays
  <1>3. CASE ChairPostFails BY <1>1, <1>3, ChairNoLoadOK DEF ChairPostFails, LockStays
  <1>4. CASE ChairGivesUp
    <2>1. BagToSet(late') \subseteq BagToSet(late) \cup {sent}
      BY <1>4 DEF ChairGivesUp, BagToSet, SetToBag, (+)
    <2>2. BagToSet(late') \subseteq HeldReport BY <2>1
    <2> QED BY <1>1, <1>4, <2>2, NoRowReport, ChairNoLoadOK DEF ChairGivesUp, LockStays
  <1> QED BY <1>2, <1>3, <1>4

-----------------------------------------------------------------------------
(* The receiver.                                                           *)

\* What a load of the receiver has to show.
LEMMA ReceiverLoadOK ==
    ASSUME FileInv, NEW doc \in SoundDoc, NEW by \in Operation,
           Load("receiver", doc, by), by \in Serialized => lock' = "receiver", LockStays,
           lock' \in Thread \cup {"free"}, UNCHANGED <<file, tmp, ignored, todo>>,
           sent' \in HeldReport, wait' \in {"no", "sent", "served"},
           BagToSet(late') \subseteq HeldReport
    PROVE  FileInv'
  <1>1. "receiver" \in Thread BY DEF Thread
  <1>2. DraftType /\ DraftsOwned BY DEF FileInv, FileType, DraftType
  <1>3. DraftType' /\ DraftsOwned' BY <1>1, <1>2, LoadOK
  <1>4. Nested(todo') => lock' = "chair" BY DEF FileInv, NestedLocked, LockStays, Nested
  <1> QED BY <1>3, <1>4, ChairStep DEF FileInv, FileType

\* A webhook, under the lock.
LEMMA WebhookOK ==
    ASSUME FileInv, NEW doc, Sound(doc, "file"), Webhook(doc)
    PROVE  FileInv'
  <1>1. doc \in SoundDoc BY DEF Sound, SoundDoc
  <1>2. lock = "free" /\ lock' = "receiver" BY DEF Webhook, Lock
  <1> QED
    BY <1>1, <1>2, ReceiverLoadOK
    DEF Webhook, Operation, Thread, LockStays, FileInv, FileType

\* Every webhook makes a sound document of a sound one.
LEMMA WebhooksOK ==
    ASSUME FileInv,
           \/ \E i \in Issue : IssueOpened(i) \/ IssueClosed(i)
           \/ \E p \in Pull : PullPushed(p) \/ PullMerged(p) \/ PullClosed(p)
    PROVE  FileInv'
  <1>1. Sound(file, "file") BY DEF FileInv, FileType, SoundDoc
  <1>2. CASE \E i \in Issue : IssueOpened(i) \/ IssueClosed(i)
    <2>1. PICK i \in Issue : IssueOpened(i) \/ IssueClosed(i) BY <1>2
    <2>2. i \in Ident BY DEF Ident
    <2>3. Sound(AfterFr(file, i), "file") /\ Sound(AfterClose(file, i), "file")
      BY <1>1, <2>2, AfterFrSound, AfterCloseSound
    <2> QED BY <2>1, <2>3, WebhookOK DEF IssueOpened, IssueClosed
  <1>3. CASE \E p \in Pull : PullPushed(p) \/ PullMerged(p) \/ PullClosed(p)
    <2>1. PICK p \in Pull : PullPushed(p) \/ PullMerged(p) \/ PullClosed(p) BY <1>3
    <2>2. LinksOf[p] \in SUBSET Ident /\ AuthorOf[p] \in SUBSET Nick
      BY FileAssumption DEF Ident
    <2>3. /\ Sound(AfterMrb(file, p, LinksOf[p], AuthorOf[p]), "file")
          /\ Sound(AfterUat(file, p, LinksOf[p]), "file")
          /\ Sound(AfterUnmerged(file, p, LinksOf[p]), "file")
      BY <1>1, <2>2, AfterMrbSound, AfterUatSound, AfterUnmergedSound
    <2> QED BY <2>1, <2>3, WebhookOK DEF PullPushed, PullMerged, PullClosed
  <1> QED BY <1>2, <1>3

\* What a report, in time or late, makes of the file is sound.
LEMMA ReportedSound ==
    ASSUME FileInv, NEW report \in HeldReport, NEW doc \in Reported(report)
    PROVE  doc \in SoundDoc
  <1>1. Sound(file, "file") BY DEF FileInv, FileType, SoundDoc
  <1>2. CASE report = {} BY <1>2 DEF Reported, FileInv, FileType
  <1>3. CASE report # {}
    <2>1. PICK r \in Row : r.nick \in Nick /\ report = {r} BY <1>3 DEF HeldReport
    <2>2. doc = AfterQueueAccept(file, r) BY <1>3, <2>1 DEF Reported
    <2>3. Sound(doc, "file") BY <1>1, <2>1, <2>2, LateAcceptSound
    <2> QED BY <2>3 DEF Sound, SoundDoc
  <1> QED BY <1>2, <1>3

\* Reports served.
LEMMA ServeOK ==
    ASSUME FileInv, ServeAwaited \/ ServeLate
    PROVE  FileInv'
  <1> USE DEF FileInv, FileType
  <1>1. PICK report \in HeldReport :
          /\ ServeReport(report)
          /\ sent' \in HeldReport
          /\ wait' \in {"no", "sent", "served"}
          /\ BagToSet(late') \subseteq HeldReport
    <2>1. CASE ServeAwaited
      BY <2>1, NoRowReport DEF ServeAwaited
    <2>2. CASE ServeLate
      <3>1. PICK report \in BagToSet(late) :
              /\ late' = late (-) SetToBag({report})
              /\ ServeReport(report)
              /\ UNCHANGED <<sent, wait>>
        BY <2>2 DEF ServeLate
      <3>2. BagToSet(late') \subseteq BagToSet(late) BY <3>1 DEF BagToSet, (-)
      <3> QED BY <3>1, <3>2
    <2> QED BY <2>1, <2>2
  <1>2. PICK doc \in Reported(report) : Load("receiver", doc, "report")
    BY <1>1 DEF ServeReport
  <1>3. doc \in SoundDoc BY <1>2, ReportedSound
  <1>4. UNCHANGED <<file, tmp, ignored, lock, todo>> BY <1>1 DEF ServeReport
  <1> QED BY <1>1, <1>2, <1>3, <1>4, ReceiverLoadOK DEF Operation, Serialized, LockStays

-----------------------------------------------------------------------------
(* The invariant.                                                          *)

\* After a crash only the files are left.
LEMMA CrashOK ==
    ASSUME FileInv, Crash
    PROVE  FileInv'
  <1>1. << >> \in Plan /\ ~Nested(<< >>) BY PostsPlan, PlainPlan
  <1>2. BagToSet(late') = {} BY DEF Crash, EmptyBag, SetToBag, BagToSet
  <1>3. DraftType' /\ DraftsOwned' BY DEF Crash, DraftType, DraftsOwned
  <1> QED BY <1>1, <1>2, <1>3, NoRowReport, ChairStep DEF Crash, FileInv, FileType

\* Jeeves starts with an empty file.
LEMMA FileInitInv == Init => FileInv
  <1> SUFFICES ASSUME Init PROVE FileInv OBVIOUS
  <1>1. << >> \in Plan /\ ~Nested(<< >>) BY PostsPlan, PlainPlan
  <1>2. BagToSet(late) = {} BY DEF Init, EmptyBag, SetToBag, BagToSet
  <1>3. EmptyQueue \in SoundDoc BY EmptySound DEF Sound, SoundDoc
  <1>4. FileType BY <1>1, <1>2, <1>3, NoRowReport DEF Init, FileType
  <1>5. DraftsOwned BY DEF Init, DraftsOwned
  <1>6. NestedLocked BY <1>1 DEF Init, NestedLocked
  <1> QED BY <1>4, <1>5, <1>6 DEF FileInv

\* Every step of the two threads keeps the invariant.
LEMMA FileNextInv == FileInv /\ [Next]_vars => FileInv'
  <1> SUFFICES ASSUME FileInv, [Next]_vars PROVE FileInv' OBVIOUS
  <1>1. CASE Begin
    <2>1. CASE \E n \in Nick, task \in Task, id \in Ident :
                 ChairAck(n, task, id) \/ ChairNack(n, task, id)
      BY <2>1, ChairAckOK, ChairNackOK
    <2>2. CASE \E n \in Nick, task \in Task, id \in Ident, result \in {"pass", "fail"},
                 pull \in Pull \cup {NoPull} : ChairDone(n, task, id, result, pull)
      BY <2>2, ChairDoneOK
    <2>3. CASE \E n \in Nick : ChairRelease(n) BY <2>3, ChairReleaseOK
    <2>4. CASE ChairBored \/ ChairIgnore \/ ChairUnignore BY <2>4, ChairCommandsOK
    <2>5. CASE \/ \E i \in Issue : IssueOpened(i) \/ IssueClosed(i)
               \/ \E p \in Pull : PullPushed(p) \/ PullMerged(p) \/ PullClosed(p)
      BY <2>5, WebhooksOK
    <2> QED BY <1>1, <2>1, <2>2, <2>3, <2>4, <2>5 DEF Begin
  <1>2. CASE Continue
    <2>1. CASE \E t \in Thread : Write(t) \/ Rename(t) \/ RenameFails(t)
      BY <2>1, WriteOK, RenameOK, RenameFailsOK
    <2>2. CASE ChairPurges BY <2>2, ChairPurgesOK
    <2>3. CASE ChairResaves BY <2>3, ChairResavesOK
    <2>4. CASE ChairSupersedes BY <2>4, ChairSupersedesOK
    <2>5. CASE ChairPosts \/ ChairPostFails \/ ChairGivesUp BY <2>5, ChairPostsOK
    <2>6. CASE ServeAwaited \/ ServeLate BY <2>6, ServeOK
    <2>7. CASE Crash BY <2>7, CrashOK
    <2> QED BY <1>2, <2>1, <2>2, <2>3, <2>4, <2>5, <2>6, <2>7 DEF Continue
  <1>3. CASE UNCHANGED vars
    BY <1>3 DEF vars, FileInv, FileType, DraftsOwned, NestedLocked, Nested
  <1> QED BY <1>1, <1>2, <1>3 DEF Next

\* Every version of the file around is sound, and a thread with a draft of a
\* webhook, an ACK or a DONE has the lock.
THEOREM FileInvariance == Spec => []FileInv
  BY FileInitInv, FileNextInv, PTL DEF Spec

\* A set with no element or with one has at most one.
LEMMA AtMostOne ==
    ASSUME NEW S, S = {} \/ \E x : S = {x}
    PROVE  Cardinality(S) <= 1
  <1>1. CASE S = {}
    <2>1. Cardinality(S) = 0 BY <1>1, FS_EmptySet
    <2> QED BY <2>1
  <1>2. CASE S # {}
    <2>1. PICK x : S = {x} BY <1>2
    <2>2. Cardinality(S) = 1 BY <2>1, FS_Singleton
    <2> QED BY <2>2
  <1> QED BY <1>1, <1>2

\* Whatever saves overtake each other, the file keeps its type, also what is kept
\* of it in threads, plans and reports.
THEOREM FileTypeCorrect == Spec => []TypeOK
  <1>1. FileInv => TypeOK
    <2> SUFFICES ASSUME FileInv PROVE TypeOK OBVIOUS
    <2> USE DEF FileInv, FileType
    <2>1. HeldReport \subseteq Report
      <3> SUFFICES ASSUME NEW report \in HeldReport PROVE report \in Report OBVIOUS
      <3>1. report \in SUBSET Row /\ (report = {} \/ \E r : report = {r}) BY DEF HeldReport
      <3>2. Cardinality(report) <= 1 BY <3>1, AtMostOne
      <3> QED BY <3>1, <3>2 DEF Report
    <2>2. SoundDoc \subseteq Doc BY DEF SoundDoc
    <2>3. SoundDraft \subseteq Draft BY <2>2 DEF SoundDraft, Draft
    <2>4. \A t \in Thread : draft[t] = {} \/ \E d \in SoundDraft : draft[t] = {d} OBVIOUS
    <2>5. \A t \in Thread : Cardinality(draft[t]) <= 1 BY <2>4, AtMostOne
    <2>6. Drafts \subseteq Draft BY <2>3, <2>4 DEF Drafts
    <2>7. draft \in [Thread -> SUBSET Drafts] BY DEF Drafts
    <2>8. PlainStep \cup DoneStep \subseteq Step
      BY <2>1, <2>2 DEF PlainStep, DoneStep, Step
    <2>9. \A k \in DOMAIN todo : todo[k] \in Step
      <3>1. todo \in Seq(PlainStep \cup DoneStep) BY DEF Plan
      <3>2. \A k \in DOMAIN todo : todo[k] \in PlainStep \cup DoneStep
        BY <3>1, LenProperties
      <3> QED BY <2>8, <3>2
    <2> QED BY <2>1, <2>2, <2>5, <2>6, <2>7, <2>9 DEF TypeOK
  <1> QED BY <1>1, FileInvariance, PTL

\* The file never has two rows of one review, whichever version was installed last.
THEOREM FileReviewsAreSingle == Spec => []FileReviewsOnce
  <1>1. FileInv => FileReviewsOnce
    BY DEF FileInv, FileType, SoundDoc, Sound, FileReviewsOnce
  <1> QED BY <1>1, FileInvariance, PTL

\* Nor does it ever have one job twice in the hands of a machine's seats.
THEOREM FileMachinesHoldJobsOnce == Spec => []FileMachinesHoldOnce
  <1>1. FileInv => FileMachinesHoldOnce
    BY DEF FileInv, FileType, SoundDoc, Sound, FileMachinesHoldOnce
  <1> QED BY <1>1, FileInvariance, PTL

\* Webhooks, ACKs and DONEs do not overtake each other, also not between the two
\* saves of a DONE.
THEOREM LockedSavesAreInOrder == Spec => []SerializedInOrder
  <1>1. FileInv => SerializedInOrder BY DEF FileInv, DraftsOwned, SerializedInOrder
  <1> QED BY <1>1, FileInvariance, PTL
=============================================================================
