---------------------------- MODULE AssignProofs ----------------------------
(***************************************************************************)
(* Proofs about Assign.  Its steps are steps of JobQueue, so what          *)
(* JobQueueProofs proves of the queue holds under assignment; the offers   *)
(* need an invariant of their own: an open offer has attempts left, for it *)
(* is counted once when it runs out.                                       *)
(***************************************************************************)
EXTENDS Assign, JobQueueProofs

\* The queue of an assignment step is one of JobQueue's.
LEMMA AssignNextIsNext == [AssignNext]_assignVars => [Next]_vars
  <1> SUFFICES ASSUME [AssignNext]_assignVars PROVE [Next]_vars OBVIOUS
  <1>1. CASE UNCHANGED assignVars BY <1>1 DEF assignVars, vars
  <1>2. ASSUME NEW n \in Nick, Bored(n) PROVE [Next]_vars
    <2>1. PICK due \in SUBSET {m \in Nick : OfferedTo(m)} : BoredAgain(n, due) \/ BoredPick(n, due)
      BY <1>2 DEF Bored
    <2>2. CASE BoredAgain(n, due) BY <2>2 DEF BoredAgain, vars
    <2>3. CASE BoredPick(n, due) BY <2>3 DEF BoredPick, Next
    <2> QED BY <2>1, <2>2, <2>3
  <1>3. CASE AckJobSome
    <2>1. AckSome BY <1>3 DEF AckJobSome, AckJob, AckSome
    <2> QED BY <2>1 DEF Next
  <1>4. CASE DoneJobSome
    <2>1. DoneSome BY <1>4 DEF DoneJobSome, DoneJob, DoneSome
    <2> QED BY <2>1 DEF Next
  <1>5. CASE SweepSome BY <1>5 DEF SweepSome, SweepOffers, vars
  <1>6. CASE QueueOnly BY <1>6 DEF QueueOnly, Next
  <1> QED BY <1>1, <1>2, <1>3, <1>4, <1>5, <1>6 DEF AssignNext

\* Assignment changes the queue only as JobQueue does, so every theorem about
\* the queue holds while jobs are offered.
THEOREM AssignImplementsJobQueue == AssignSpec => Spec
  <1>1. AssignInit => Init BY DEF AssignInit
  <1> QED BY <1>1, AssignNextIsNext, PTL DEF AssignSpec, Spec

-----------------------------------------------------------------------------
(* The invariant of the offers.                                            *)

OffersOK(open, tried) ==
    /\ open \in [Nick -> Job \cup {NoJob}]
    /\ tried \in [Nick -> [Job -> 0 .. MaxOfferAttempts]]
    /\ \A n \in Nick : open[n] # NoJob => tried[n][open[n]] < MaxOfferAttempts
    /\ \A m, n \in Nick : m # n /\ open[m] # NoJob => open[m] # open[n]

AssignInv == Inv /\ OffersOK(offers, attempts)

\* A row's job is a job.
LEMMA JobOfType ==
    ASSUME NEW r \in Row
    PROVE  JobOf(r) \in Job /\ JobOf(r) # NoJob
  BY OfferAssumption DEF JobOf, Job, Row

\* Offers that run out leave offers in order.
LEMMA TimeoutOK ==
    ASSUME OffersOK(offers, attempts), NEW due \in SUBSET {m \in Nick : OfferedTo(m)}
    PROVE  OffersOK(OffersWithout(due), AttemptsAfter(due))
  <1> DEFINE open == OffersWithout(due)  tried == AttemptsAfter(due)
  <1>1. open \in [Nick -> Job \cup {NoJob}] BY DEF OffersOK, OffersWithout
  <1>2. MaxOfferAttempts \in Nat BY OfferAssumption
  <1>3. ASSUME NEW n \in Nick, NEW j \in Job
        PROVE  /\ tried[n][j] \in 0 .. MaxOfferAttempts
               /\ open[n] = j => tried[n][j] < MaxOfferAttempts
    <2>1. tried[n][j] = IF n \in due /\ offers[n] = j THEN attempts[n][j] + 1 ELSE attempts[n][j]
      BY DEF AttemptsAfter
    <2>2. attempts[n][j] \in 0 .. MaxOfferAttempts BY DEF OffersOK
    <2>3. offers[n] = j => attempts[n][j] < MaxOfferAttempts BY OfferAssumption DEF OffersOK
    <2>4. open[n] = IF n \in due THEN NoJob ELSE offers[n] BY DEF OffersWithout
    <2>5. tried[n][j] \in 0 .. MaxOfferAttempts BY <1>2, <2>1, <2>2, <2>3
    <2>6. open[n] = j => tried[n][j] = attempts[n][j] /\ offers[n] = j
      BY <2>1, <2>4, OfferAssumption
    <2> QED BY <2>3, <2>5, <2>6
  <1>4. tried \in [Nick -> [Job -> 0 .. MaxOfferAttempts]]
    <2> DEFINE after(n, j) == IF n \in due /\ offers[n] = j THEN attempts[n][j] + 1
                                                            ELSE attempts[n][j]
    <2>1. tried = [n \in Nick |-> [j \in Job |-> after(n, j)]] BY DEF AttemptsAfter
    <2>2. \A n \in Nick, j \in Job : after(n, j) \in 0 .. MaxOfferAttempts
      BY <1>3, <2>1
    <2> QED BY <2>1, <2>2
  <1>5. \A m \in Nick : open[m] # NoJob => open[m] = offers[m] BY DEF OffersWithout
  <1> QED BY <1>1, <1>3, <1>4, <1>5 DEF OffersOK

\* Closing the offer of a seat and forgetting its timeouts keeps them so.
LEMMA ClearOK ==
    ASSUME OffersOK(offers, attempts), NEW n \in Nick, Clear(n)
    PROVE  OffersOK(offers', attempts')
  <1>1. MaxOfferAttempts \in Nat BY OfferAssumption
  <1>2. NoAttempts \in [Job -> 0 .. MaxOfferAttempts] BY <1>1 DEF NoAttempts
  <1>3. attempts' \in [Nick -> [Job -> 0 .. MaxOfferAttempts]]
    BY <1>2 DEF OffersOK, Clear
  <1>4. \A m \in Nick : /\ m # n => offers'[m] = offers[m] /\ attempts'[m] = attempts[m]
                        /\ m = n => offers'[m] = NoJob
    BY DEF OffersOK, Clear
  <1>5. offers' \in [Nick -> Job \cup {NoJob}] BY DEF OffersOK, Clear
  <1> QED BY <1>3, <1>4, <1>5 DEF OffersOK

\* The rows a seat may be offered are rows of the queue.
LEMMA PurgedInDoc ==
    ASSUME NEW q, Sound(q, "atomic")
    PROVE  Sound(AfterPurgeDeadMrb(AfterPurgeStaleMrb(q)), "atomic")
  BY OfferScanSound

\* An offer that decide picks is exclusive and has an attempt left.
LEMMA PickOK ==
    ASSUME Inv, OffersOK(offers, attempts), NEW n \in Nick,
           NEW due \in SUBSET {m \in Nick : OfferedTo(m)}, BoredPick(n, due)
    PROVE  OffersOK(offers', attempts')
  <1> DEFINE open  == OffersWithout(due)
             tried == AttemptsAfter(due)
             q     == AfterPurgeDeadMrb(AfterPurgeStaleMrb(queue))
  <1>1. OffersOK(open, tried) BY TimeoutOK
  <1>2. attempts' = tried BY DEF BoredPick
  <1>3. CASE offers' = open BY <1>1, <1>2, <1>3
  <1>4. ASSUME NEW live \in SUBSET Nick, NEW r \in Offerable(q, open, tried, n, live \cup {n}),
               offers' = [open EXCEPT ![n] = JobOf(r)]
        PROVE  OffersOK(offers', attempts')
    <2>1. r \in q.unaccepted /\ (\A m \in Nick : open[m] # JobOf(r))
          /\ tried[n][JobOf(r)] < MaxOfferAttempts
      BY <1>4 DEF Offerable
    <2>2. q \in Doc BY PurgedInDoc DEF Inv, Sound
    <2>3. JobOf(r) \in Job BY <2>1, <2>2, JobOfType DEF Doc
    <2> HIDE DEF open, tried, q
    <2>4. offers' \in [Nick -> Job \cup {NoJob}] BY <1>1, <1>4, <2>3 DEF OffersOK
    <2>5. \A m \in Nick : offers'[m] = IF m = n THEN JobOf(r) ELSE open[m]
      BY <1>1, <1>4 DEF OffersOK
    <2> QED BY <1>1, <1>2, <2>1, <2>4, <2>5 DEF OffersOK
  <1> QED BY <1>3, <1>4 DEF BoredPick

\* Every step keeps the offers in order.
LEMMA AssignNextInv == AssignInv /\ [AssignNext]_assignVars => OffersOK(offers, attempts)'
  <1> SUFFICES ASSUME AssignInv, [AssignNext]_assignVars PROVE OffersOK(offers', attempts')
    BY DEF OffersOK
  <1>0. Inv /\ OffersOK(offers, attempts) BY DEF AssignInv
  <1>1. ASSUME UNCHANGED offerVars PROVE OffersOK(offers', attempts')
    BY <1>0, <1>1 DEF offerVars
  <1>2. ASSUME NEW n \in Nick, Bored(n) PROVE OffersOK(offers', attempts')
    <2>1. PICK due \in SUBSET {m \in Nick : OfferedTo(m)} : BoredAgain(n, due) \/ BoredPick(n, due)
      BY <1>2 DEF Bored
    <2>2. CASE BoredAgain(n, due) BY <1>0, <2>2, TimeoutOK DEF BoredAgain
    <2>3. CASE BoredPick(n, due) BY <1>0, <2>3, PickOK
    <2> QED BY <2>1, <2>2, <2>3
  <1>3. CASE AckJobSome
    <2>1. PICK n \in Nick : Clear(n) \/ UNCHANGED offerVars BY <1>3 DEF AckJobSome, AckJob
    <2> QED BY <1>0, <1>1, <2>1, ClearOK
  <1>4. CASE DoneJobSome
    <2>1. PICK n \in Nick : Clear(n) \/ UNCHANGED offerVars BY <1>4 DEF DoneJobSome, DoneJob
    <2> QED BY <1>0, <1>1, <2>1, ClearOK
  <1>5. CASE SweepSome BY <1>0, <1>5, TimeoutOK DEF SweepSome, SweepOffers
  <1>6. CASE QueueOnly BY <1>1, <1>6 DEF QueueOnly
  <1>7. CASE UNCHANGED assignVars BY <1>1, <1>7 DEF assignVars, offerVars
  <1> QED BY <1>2, <1>3, <1>4, <1>5, <1>6, <1>7 DEF AssignNext

\* No offers are in order.
LEMMA AssignInitInv == AssignInit => OffersOK(offers, attempts)
  <1> SUFFICES ASSUME AssignInit PROVE OffersOK(offers, attempts) OBVIOUS
  <1>1. MaxOfferAttempts \in Nat BY OfferAssumption
  <1>2. NoAttempts \in [Job -> 0 .. MaxOfferAttempts] BY <1>1 DEF NoAttempts
  <1> QED BY <1>2 DEF AssignInit, OffersOK

\* The inductive invariant of assignment: the queue is sound, and open offers
\* are exclusive and below the limit of attempts.
THEOREM AssignInvariance == AssignSpec => []AssignInv
  <1>1. AssignSpec => []Inv BY AssignImplementsJobQueue, Invariance, PTL
  <1>2. AssignInv /\ [AssignNext]_assignVars /\ Inv' => AssignInv'
    BY AssignNextInv DEF AssignInv
  <1>3. AssignInit /\ Inv => AssignInv BY AssignInitInv DEF AssignInv
  <1> QED BY <1>1, <1>2, <1>3, PTL DEF AssignSpec

\* The offers keep their type; in particular no job runs out more than
\* MaxOfferAttempts times on a seat that never answers.
THEOREM AssignTypeCorrect == AssignSpec => []AssignTypeOK
  <1>1. AssignInv => AssignTypeOK
    BY DEF AssignInv, OffersOK, AssignTypeOK, Inv, Sound, TypeOK
  <1> QED BY <1>1, AssignInvariance, PTL

\* A job is on offer to one seat at a time.
THEOREM OffersAreExclusive == AssignSpec => []OneOfferPerJob
  <1>1. AssignInv => OneOfferPerJob BY DEF AssignInv, OffersOK, OneOfferPerJob, OfferedTo
  <1> QED BY <1>1, AssignInvariance, PTL

-----------------------------------------------------------------------------
(* New offers.                                                             *)

\* What decide picks still waits after the purges of the same step, nobody has
\* accepted it, and the seat has accepted nothing.
LEMMA PickWaits ==
    ASSUME Inv, NEW n \in Nick, NEW due, NEW live,
           NEW open, NEW tried,
           NEW r \in Offerable(AfterPurgeDeadMrb(AfterPurgeStaleMrb(queue)),
                               open, tried, n, live),
           OfferScan, ~Busy(n)
    PROVE  /\ r \in queue'.unaccepted
           /\ \A a \in queue'.accepted : JobOf(a) # JobOf(r) /\ a.nick # n
  <1> DEFINE q == AfterPurgeDeadMrb(AfterPurgeStaleMrb(queue))
  <1>1. queue \in Doc BY DEF Inv, Sound
  <1>2. q \in Doc BY PurgedInDoc DEF Inv, Sound
  <1>3. q.accepted = queue.accepted
    BY <1>1 DEF AfterPurgeDeadMrb, AfterPurgeStaleMrb, Doc
  <1>4. /\ r \in q.unaccepted
        /\ \A a \in q.accepted : ~SameJob(a, r)
        /\ r.task = "FR" => ~FrAlreadyDone(q, r.id)
    BY DEF Offerable
  <1>5. PICK rows \in SUBSET DeadFrs(q) : queue' = AfterPurgeRows(q, rows)
    BY DEF OfferScan
  <1>6. \A gone \in rows : ~SameJob(r, gone)
    BY <1>4 DEF DeadFrs, SameJob
  <1> HIDE DEF q
  <1>7. queue'.unaccepted = {u \in q.unaccepted : \A gone \in rows : ~SameJob(u, gone)}
        /\ queue'.accepted = q.accepted
    BY <1>2, <1>5 DEF AfterPurgeRows, Doc
  <1>8. \A a \in queue'.accepted : a.nick # n BY <1>3, <1>7 DEF Busy
  <1>9. \A a \in queue'.accepted : JobOf(a) # JobOf(r)
    BY <1>4, <1>7 DEF JobOf, SameJob
  <1> QED BY <1>4, <1>6, <1>7, <1>8, <1>9

\* decide never offers a row that it purges, a job somebody holds, or a second
\* job to a seat at work.
THEOREM FreshOffersAreReal == AssignSpec => FreshOffersWait
  <1> DEFINE Waits ==
        \A n \in Nick : offers'[n] \notin {NoJob, offers[n]} =>
            /\ \E r \in queue'.unaccepted : JobOf(r) = offers'[n]
            /\ \A a \in queue'.accepted : JobOf(a) # offers'[n] /\ a.nick # n
  <1>1. AssignInv /\ [AssignNext]_assignVars => [Waits]_assignVars
    <2> SUFFICES ASSUME AssignInv, AssignNext,
                        NEW m \in Nick, offers'[m] \notin {NoJob, offers[m]}
                 PROVE  /\ \E r \in queue'.unaccepted : JobOf(r) = offers'[m]
                        /\ \A a \in queue'.accepted : JobOf(a) # offers'[m] /\ a.nick # m
      OBVIOUS
    <2>0. Inv /\ OffersOK(offers, attempts) BY DEF AssignInv
    <2>1. \A due : offers' # OffersWithout(due) BY DEF OffersWithout
    <2>2. \A n \in Nick : ~Clear(n) BY <2>0 DEF Clear, OffersOK
    <2>3. ~UNCHANGED offerVars BY DEF offerVars
    <2>4. PICK n \in Nick : Bored(n)
      BY <2>1, <2>2, <2>3
      DEF AssignNext, AckJobSome, AckJob, DoneJobSome, DoneJob, SweepSome, SweepOffers, QueueOnly
    <2>5. PICK due \in SUBSET {k \in Nick : OfferedTo(k)} : BoredAgain(n, due) \/ BoredPick(n, due)
      BY <2>4 DEF Bored
    <2>6. BoredPick(n, due) BY <2>1, <2>5 DEF BoredAgain
    <2> DEFINE open  == OffersWithout(due)
               tried == AttemptsAfter(due)
    <2>67. PICK live \in SUBSET Nick :
            \E r \in Offerable(AfterPurgeDeadMrb(AfterPurgeStaleMrb(queue)),
                               open, tried, n, live \cup {n}) :
              offers' = [open EXCEPT ![n] = JobOf(r)]
      BY <2>1, <2>6 DEF BoredPick
    <2>7. PICK r \in Offerable(AfterPurgeDeadMrb(AfterPurgeStaleMrb(queue)),
                               open, tried, n, live \cup {n}) :
            offers' = [open EXCEPT ![n] = JobOf(r)]
      BY <2>67
    <2>8. m = n
      BY <2>7 DEF OffersWithout
    <2>9. offers'[n] = JobOf(r) BY <2>7 DEF OffersWithout
    <2>10. /\ r \in queue'.unaccepted
           /\ \A a \in queue'.accepted : JobOf(a) # JobOf(r) /\ a.nick # n
      BY <2>0, <2>6, <2>7, PickWaits DEF BoredPick
    <2> QED BY <2>8, <2>9, <2>10
  <1> QED BY <1>1, AssignInvariance, PTL DEF AssignSpec, FreshOffersWait
=============================================================================
