--------------------------- MODULE ServiceProofs ----------------------------
(***************************************************************************)
(* Proofs about the service and what its chair does on IRC, for every set  *)
(* of processes, reports, lines of a log, seats, bobs, channels and        *)
(* machines: its start (Singleton), exception reports (Exceptions), the    *)
(* watch on hand-offs (HandoffWatch), the quit grace (QuitGrace), the mode *)
(* grants (ModeGrants), the connection (ChairLink) and the routes to       *)
(* recycle a machine (Recycle).                                            *)
(***************************************************************************)
EXTENDS Singleton, Exceptions, HandoffWatch, QuitGrace, ModeGrants, ChairLink, Recycle,
        FiniteSetTheorems, WellFoundedInduction, TLAPS

-----------------------------------------------------------------------------
(* The start of the service.                                               *)

\* A process that found no other alive and goes on to write the file, or runs.
Active(p) == startAt[p] \in {"empty", "write", "run"}

\* A process exists while it has a pid, and no two have the same.
PidsAreOwn ==
    /\ pidOf \in [Starter -> Pid \cup {NoPid}]
    /\ startAt \in [Starter -> {"off", "check", "empty", "write", "run", "refused"}]
    /\ \A p \in Starter : pidOf[p] = NoPid <=> startAt[p] = "off"
    /\ \A p, q \in Starter : pidOf[p] = pidOf[q] /\ pidOf[p] # NoPid => p = q

\* As long as no check was overtaken by a write, one process at most is active,
\* and the pid of the one that runs is in the file.
OneActive ==
    ~overtaken =>
        /\ \A p, q \in Starter : Active(p) /\ Active(q) => p = q
        /\ \A p \in Starter : startAt[p] = "run" => pidFile = pidOf[p]

SingletonInv == overtaken \in BOOLEAN /\ PidsAreOwn /\ OneActive

\* The invariant holds when nothing was started.
LEMMA SingletonInitially == SingletonInit => SingletonInv
  BY DEF SingletonInit, SingletonInv, PidsAreOwn, OneActive, Active

\* A check that is not overtaken refuses while another process runs.
LEMMA CheckKeepsOne ==
    ASSUME SingletonInv, NEW p \in Starter, CheckFile(p)
    PROVE  SingletonInv'
  <1> USE DEF SingletonInv, PidsAreOwn, Active
  <1>1. overtaken' \in BOOLEAN /\ PidsAreOwn' BY DEF CheckFile
  <1>2. OneActive'
    <2> SUFFICES ASSUME ~overtaken' PROVE OneActive' BY DEF OneActive
    <2>1. ~overtaken /\ \A o \in Starter \ {p} : startAt[o] \notin {"empty", "write"}
      BY DEF CheckFile
    <2>2. \A o \in Starter \ {p} : startAt'[o] = startAt[o] BY DEF CheckFile
    <2>3. \A o \in Starter : pidOf'[o] = pidOf[o] /\ pidFile' = pidFile BY DEF CheckFile
    <2>4. ASSUME NEW o \in Starter \ {p}, startAt[o] = "run" PROVE startAt'[p] = "refused"
      <3>1. pidFile = pidOf[o] /\ pidOf[o] # NoPid /\ pidOf[o] # pidOf[p] BY <2>1, <2>4 DEF OneActive
      <3>2. HeldByOther(p) BY <3>1 DEF HeldByOther, Taken
      <3> QED BY <3>2 DEF CheckFile
    <2>5. startAt'[p] \in {"refused", "empty"} BY DEF CheckFile
    <2>6. \A o, q \in Starter : Active(o)' /\ Active(q)' => o = q
      BY <2>1, <2>2, <2>4, <2>5 DEF OneActive
    <2> QED BY <2>1, <2>2, <2>3, <2>5, <2>6 DEF OneActive
  <1> QED BY <1>1, <1>2

\* Every step keeps the invariant.
LEMMA SingletonSteps == SingletonInv /\ [SingletonNext]_singletonVars => SingletonInv'
  <1> SUFFICES ASSUME SingletonInv, [SingletonNext]_singletonVars PROVE SingletonInv'
    OBVIOUS
  <1> USE SingletonAssumption DEF SingletonInv, PidsAreOwn, OneActive, Active
  <1>1. ASSUME NEW p \in Starter, NEW n \in Pid, StartProcess(p, n) PROVE SingletonInv'
    <2>1. \A q \in Starter : pidOf[q] # n BY <1>1 DEF StartProcess, Taken
    <2> QED BY <1>1, <2>1 DEF StartProcess
  <1>2. ASSUME NEW p \in Starter, CheckFile(p) PROVE SingletonInv'
    BY <1>2, CheckKeepsOne
  <1>3. ASSUME NEW p \in Starter, EmptyFile(p) PROVE SingletonInv'
    BY <1>3 DEF EmptyFile
  <1>4. ASSUME NEW p \in Starter, WriteFile(p) PROVE SingletonInv'
    BY <1>4 DEF WriteFile
  <1>5. ASSUME NEW p \in Starter, Exit(p) PROVE SingletonInv'
    BY <1>5 DEF Exit, Released
  <1>6. ASSUME NEW p \in Starter, KillProcess(p) PROVE SingletonInv'
    BY <1>6 DEF KillProcess
  <1>7. ASSUME NEW n \in Pid, Stranger(n) PROVE SingletonInv'
    BY <1>7 DEF Stranger
  <1>8. CASE UNCHANGED singletonVars BY <1>8 DEF singletonVars
  <1> QED BY <1>1, <1>2, <1>3, <1>4, <1>5, <1>6, <1>7, <1>8 DEF SingletonNext

\* FR #39: for every set of processes and pids one at most has the home, unless
\* a process read the file while another was about to write it.
THEOREM InstanceIsSingle == SingletonSpec => []OneInstance
  <1>1. SingletonInv => OneInstance
    <2> SUFFICES ASSUME SingletonInv, ~overtaken PROVE Cardinality(Running) <= 1
      BY DEF OneInstance
    <2>1. \A p, q \in Running : p = q BY DEF SingletonInv, OneActive, Active, Running
    <2>2. CASE Running = {}
      <3>1. Cardinality(Running) = 0 BY <2>2, FS_EmptySet
      <3> QED BY <3>1
    <2>3. CASE Running # {}
      <3>1. PICK p : p \in Running BY <2>3
      <3>2. Running = {p} BY <2>1, <3>1
      <3>3. Cardinality(Running) = 1 BY <3>2, FS_Singleton
      <3> QED BY <3>3
    <2> QED BY <2>2, <2>3
  <1> QED BY <1>1, SingletonInitially, SingletonSteps, PTL DEF SingletonSpec

-----------------------------------------------------------------------------
(* Exception reports.                                                      *)

ReportTyped ==
    /\ keyAge \in [Trouble -> 0 .. OldKey]
    /\ rateAge \in [HubPost -> 0 .. OldPost]
    /\ hubAge \in [byPost : [HubPost -> 0 .. OldPost], byTrouble : [Trouble -> 0 .. OldKey]]
    /\ reporting \in Reporting \cup {NoReport}
    /\ reportFaults \in Nat /\ reportKills \in Nat

\* Errors, lost answers and kills so far.
Costs == reportFaults + reportKills

\* What the drain has still to do, and what it is at, is in the spool until
\* GitHub has it.
SpoolHolds ==
    /\ draining \subseteq errSpool
    /\ reporting # NoReport =>
          /\ reporting.rec \notin draining
          /\ reporting.again => reporting.rec \in errSpool
          /\ reporting.at \in {"save", "unlink"} => reporting.rec \in onHub

FewMissing == IsFiniteSet(Missing) /\ Cardinality(Missing) <= Costs

\* As long as nothing goes wrong the index forgets no post but the one it is
\* about to save.
IndexKnows ==
    reportFaults = 0 /\ reportKills = 0 =>
        \A k \in Trouble :
            \/ keyAge[k] <= hubAge.byTrouble[k]
            \/ StepAt("save") /\ k = TroubleOf[reporting.rec]

Hub == {p \in HubPost : hubAge.byPost[p] <= RateWindow}

\* The post that is on GitHub and not yet in the index.
Saving == IF StepAt("save") THEN {reporting.post} ELSE {}

\* The posts on GitHub that are in no index and will be in none.
Unstamped == {p \in Hub : rateAge[p] # hubAge.byPost[p]} \ Saving

\* The index counts no more posts than the limit, with the one it is about to
\* save, and it has lost one at most for each error, lost answer and kill.
RateHolds ==
    /\ IsFiniteSet(Recent \cup Saving) /\ Cardinality(Recent \cup Saving) <= RateMax
    /\ StepAt("post") => Cardinality(Recent) < RateMax
    /\ IsFiniteSet(Unstamped) /\ Cardinality(Unstamped) <= Costs
    /\ StepAt("save") => hubAge.byPost[reporting.post] = 0

ReportInv == ReportTyped /\ SpoolHolds /\ FewMissing /\ IndexKnows /\ RateHolds

\* What a step of a report does to the record of it: it stays, at another step.
LEMMA ReportGoesOn ==
    ASSUME reporting \in Reporting, NEW step \in {"load", "post", "save", "spool", "unlink"},
           reporting' = [reporting EXCEPT !.at = step]
    PROVE  /\ reporting' \in Reporting /\ reporting' # NoReport
           /\ reporting'.at = step /\ reporting'.rec = reporting.rec
           /\ reporting'.again = reporting.again
  BY NoReportAssumption DEF Reporting

\* A post that GitHub answered: the same, with the number of the post.
LEMMA ReportIsMade ==
    ASSUME reporting \in Reporting, NEW p \in HubPost,
           reporting' = [reporting EXCEPT !.at = "save", !.post = p]
    PROVE  /\ reporting' \in Reporting /\ reporting' # NoReport
           /\ reporting'.at = "save" /\ reporting'.rec = reporting.rec
           /\ reporting'.again = reporting.again /\ reporting'.post = p
  BY NoReportAssumption DEF Reporting

\* A report starts at the load of the index.
LEMMA ReportStarts ==
    ASSUME NEW r \in ErrorReport, NEW again \in BOOLEAN, Begin(r, again)
    PROVE  /\ reporting' \in Reporting /\ reporting' # NoReport
           /\ reporting'.at = "load" /\ reporting'.rec = r /\ reporting'.again = again
  BY NoReportAssumption DEF Reporting, Begin

\* A function of ages keeps its type when the clock ticks, and no age shrinks.
LEMMA AgeingIsTyped ==
    ASSUME NEW S, NEW old \in Nat, NEW f \in [S -> 0 .. old]
    PROVE  /\ Ageing(f, old) \in [S -> 0 .. old]
           /\ \A x \in S : f[x] <= Ageing(f, old)[x]
  BY DEF Ageing

\* Equal ages stay equal when the clock ticks, and the order stays.
LEMMA AgeingIsOrdered ==
    ASSUME NEW S, NEW old \in Nat, NEW f \in [S -> 0 .. old], NEW g \in [S -> 0 .. old],
           NEW x \in S
    PROVE  /\ f[x] <= g[x] => Ageing(f, old)[x] <= Ageing(g, old)[x]
           /\ Ageing(f, old)[x] <= old
           /\ Ageing(f, old)[x] = Ageing(g, old)[x] /\ Ageing(f, old)[x] < old => f[x] = g[x]
  BY DEF Ageing

\* A post that GitHub makes is new, and the last of its trouble.
LEMMA PostIsNew ==
    ASSUME ReportTyped, reporting # NoReport, NEW p \in HubPost, Made(p)
    PROVE  /\ hubAge' \in [byPost : [HubPost -> 0 .. OldPost], byTrouble : [Trouble -> 0 .. OldKey]]
           /\ hubAge'.byPost[p] = 0
           /\ \A x \in HubPost \ {p} : hubAge'.byPost[x] = hubAge.byPost[x]
           /\ \A k \in Trouble : k # TroubleOf[reporting.rec] => hubAge'.byTrouble[k] = hubAge.byTrouble[k]
           /\ onHub' = onHub \cup {reporting.rec}
  <1>1. reporting.rec \in ErrorReport /\ TroubleOf[reporting.rec] \in Trouble
    BY ReportAssumption DEF ReportTyped, Reporting
  <1> DEFINE posts    == [hubAge.byPost EXCEPT ![p] = 0]
             troubles == [hubAge.byTrouble EXCEPT ![TroubleOf[reporting.rec]] = 0]
  <1>2. hubAge.byPost \in [HubPost -> 0 .. OldPost] /\ hubAge.byTrouble \in [Trouble -> 0 .. OldKey]
    BY DEF ReportTyped
  <1>3. OldPost \in Nat /\ OldKey \in Nat BY ReportAssumption DEF OldPost, OldKey
  <1>4. /\ posts \in [HubPost -> 0 .. OldPost] /\ posts[p] = 0
        /\ \A x \in HubPost \ {p} : posts[x] = hubAge.byPost[x]
    BY <1>2, <1>3
  <1>5. /\ troubles \in [Trouble -> 0 .. OldKey]
        /\ \A k \in Trouble : k # TroubleOf[reporting.rec] => troubles[k] = hubAge.byTrouble[k]
    BY <1>1, <1>2, <1>3
  <1>6. hubAge' = [hubAge EXCEPT !.byPost = posts, !.byTrouble = troubles] BY DEF Made
  <1> HIDE DEF posts, troubles
  <1>7. hubAge' = [byPost |-> posts, byTrouble |-> troubles] BY <1>6 DEF ReportTyped
  <1>8. hubAge'.byPost = posts /\ hubAge'.byTrouble = troubles BY <1>7
  <1>9. hubAge' \in [byPost : [HubPost -> 0 .. OldPost], byTrouble : [Trouble -> 0 .. OldKey]]
    BY <1>4, <1>5, <1>7
  <1>10. onHub' = onHub \cup {reporting.rec} BY DEF Made
  <1> QED BY <1>4, <1>5, <1>8, <1>9, <1>10, Zenon

\* A post costs nothing, or one for an answer that is lost.
LEMMA PostCosts ==
    ASSUME PostReport
    PROVE  UNCHANGED costVars \/ (ReportFault /\ UNCHANGED reportKills)
  BY Zenon DEF PostReport, costVars

\* What a report that was cut off has changed.
LEMMA CutOffLeaves ==
    ASSUME ReportTyped, CutOff
    PROVE  /\ reporting \in Reporting /\ reporting' = NoReport /\ draining' = {}
           /\ UNCHANGED <<keyAge, rateAge, raised>>
           /\ \/ UNCHANGED hubVars
              \/ \E p \in HubPost : Made(p)
           /\ onHub \subseteq onHub'
           /\ errSpool \ {reporting.rec} \subseteq errSpool'
  <1>1. reporting \in Reporting BY DEF ReportTyped, CutOff
  <1>2. UNCHANGED hubVars \/ \E p \in HubPost : Made(p) BY DEF CutOff, FreePost
  <1>3. onHub \subseteq onHub' BY <1>2 DEF hubVars, Made
  <1>4. errSpool \ {reporting.rec} \subseteq errSpool' BY DEF CutOff
  <1> QED BY <1>1, <1>2, <1>3, <1>4 DEF CutOff, indexVars

\* The types hold after every step.
LEMMA ReportTypes ==
    ASSUME ReportTyped, [ExceptionsNext]_reportVars
    PROVE  ReportTyped'
  <1>1. ASSUME NEW r \in ErrorReport, Raise(r) \/ DrainNext(r) PROVE ReportTyped'
    BY <1>1, ReportStarts DEF Raise, DrainNext, ReportTyped, indexVars, hubVars, costVars
  <1>2. CASE StartDrain BY <1>2 DEF StartDrain, ReportTyped, indexVars, hubVars, costVars
  <1>3. ASSUME LoadIndex \/ PostReport \/ SaveIndex \/ CutOff
        PROVE  reporting \in Reporting /\ reporting.rec \in ErrorReport
    BY <1>3 DEF LoadIndex, PostReport, SaveIndex, CutOff, StepAt, Reporting, ReportTyped
  <1>4. CASE LoadIndex
    BY <1>3, <1>4, ReportGoesOn DEF LoadIndex, GoTo, ReportTyped, indexVars, hubVars, costVars
  <1>5. CASE PostReport
    <2>1. reporting # NoReport BY <1>5 DEF PostReport, StepAt
    <2>2. reporting' \in Reporting
      BY <1>3, <1>5, ReportGoesOn, ReportIsMade DEF PostReport, GoTo, FreePost
    <2>3. hubAge' \in [byPost : [HubPost -> 0 .. OldPost], byTrouble : [Trouble -> 0 .. OldKey]]
      BY <1>5, <2>1, PostIsNew DEF PostReport, FreePost, hubVars, ReportTyped
    <2>4. reportFaults' \in Nat /\ reportKills' \in Nat
      BY <1>5, PostCosts DEF ReportFault, costVars, ReportTyped
    <2> QED BY <1>5, <2>2, <2>3, <2>4 DEF PostReport, ReportTyped, indexVars
  <1>6. CASE SaveIndex
    <2>1. reporting' \in Reporting \cup {NoReport}
      BY <1>3, <1>6, ReportGoesOn DEF SaveIndex, EndReport
    <2>2. keyAge' \in [Trouble -> 0 .. OldKey] /\ rateAge' \in [HubPost -> 0 .. OldPost]
      <3>1. OldKey \in Nat /\ OldPost \in Nat BY ReportAssumption DEF OldKey, OldPost
      <3>2. /\ keyAge' = [keyAge EXCEPT ![TroubleOf[reporting.rec]] = 0]
            /\ rateAge' = [rateAge EXCEPT ![reporting.post] = 0]
        BY <1>6 DEF SaveIndex, Stamped
      <3>3. keyAge \in [Trouble -> 0 .. OldKey] /\ rateAge \in [HubPost -> 0 .. OldPost]
        BY DEF ReportTyped
      <3>4. 0 \in 0 .. OldKey /\ 0 \in 0 .. OldPost BY <3>1
      <3>5. keyAge' \in [Trouble -> 0 .. OldKey] BY <3>2, <3>3, <3>4, Zenon
      <3>6. rateAge' \in [HubPost -> 0 .. OldPost] BY <3>2, <3>3, <3>4, Zenon
      <3> QED BY <3>5, <3>6
    <2> QED BY <1>6, <2>1, <2>2 DEF SaveIndex, ReportTyped, hubVars, costVars
  <1>7. CASE WriteSpool \/ UnlinkSpool
    BY <1>7 DEF WriteSpool, UnlinkSpool, ReportTyped, indexVars, hubVars, costVars
  <1>8. CASE ReportFails \/ Killed
    <2>1. CutOff BY <1>8 DEF ReportFails, Killed
    <2>2. hubAge' \in [byPost : [HubPost -> 0 .. OldPost], byTrouble : [Trouble -> 0 .. OldKey]]
      BY <2>1, CutOffLeaves, PostIsNew DEF hubVars, CutOff, ReportTyped
    <2>3. reportFaults' \in Nat /\ reportKills' \in Nat
      BY <1>8 DEF ReportFails, Killed, ReportFault, ReportTyped
    <2>4. reporting' = NoReport /\ UNCHANGED <<keyAge, rateAge>> BY <2>1, CutOffLeaves
    <2> QED BY <2>2, <2>3, <2>4 DEF ReportTyped
  <1>9. CASE ReportTick
    <2>1. OldKey \in Nat /\ OldPost \in Nat BY ReportAssumption DEF OldKey, OldPost
    <2>2. /\ hubAge.byPost \in [HubPost -> 0 .. OldPost]
          /\ hubAge.byTrouble \in [Trouble -> 0 .. OldKey]
      BY DEF ReportTyped
    <2>3. Ageing(keyAge, OldKey) \in [Trouble -> 0 .. OldKey] BY <2>1, AgeingIsTyped DEF ReportTyped
    <2>4. Ageing(rateAge, OldPost) \in [HubPost -> 0 .. OldPost] BY <2>1, AgeingIsTyped DEF ReportTyped
    <2>5. Ageing(hubAge.byPost, OldPost) \in [HubPost -> 0 .. OldPost]
      BY <2>1, <2>2, AgeingIsTyped
    <2>6. Ageing(hubAge.byTrouble, OldKey) \in [Trouble -> 0 .. OldKey]
      BY <2>1, <2>2, AgeingIsTyped
    <2> QED BY <1>9, <2>3, <2>4, <2>5, <2>6 DEF ReportTick, ReportTyped, costVars
  <1>10. CASE UNCHANGED reportVars
    BY <1>10 DEF reportVars, indexVars, hubVars, costVars, ReportTyped
  <1> QED BY <1>1, <1>2, <1>4, <1>5, <1>6, <1>7, <1>8, <1>9, <1>10 DEF ExceptionsNext

\* What a step costs: nothing, or one for an error, a lost answer or a kill.
LEMMA StepsCost ==
    ASSUME ReportTyped, [ExceptionsNext]_reportVars
    PROVE  /\ Costs \in Nat /\ Costs' \in Nat /\ Costs' >= Costs
           /\ ReportFails \/ Killed => Costs' = Costs + 1
           /\ PostReport /\ ~UNCHANGED costVars => Costs' = Costs + 1
           /\ UNCHANGED costVars => Costs' = Costs
  <1> USE DEF Costs, ReportTyped, costVars
  <1>1. ReportFails \/ Killed => Costs' = Costs + 1 BY DEF ReportFails, Killed, ReportFault
  <1>2. UNCHANGED costVars => Costs' = Costs OBVIOUS
  <1>3. PostReport /\ ~UNCHANGED costVars => Costs' = Costs + 1 BY PostCosts DEF ReportFault
  <1>4. ~(ReportFails \/ Killed \/ PostReport) => UNCHANGED costVars
    BY DEF ExceptionsNext, Raise, DrainNext, StartDrain, LoadIndex, SaveIndex, WriteSpool, UnlinkSpool,
           ReportTick, reportVars
  <1> QED BY <1>1, <1>2, <1>3, <1>4

\* A set of which a step adds one element for each cost stays within the costs.
LEMMA CostsCover ==
    ASSUME NEW S, NEW T, NEW c \in Nat, NEW d \in Nat, IsFiniteSet(S), Cardinality(S) <= c,
           \/ T \subseteq S /\ d >= c
           \/ d = c + 1 /\ \E x : T \subseteq S \cup {x}
    PROVE  IsFiniteSet(T) /\ Cardinality(T) \in Nat /\ Cardinality(T) <= d
  <1>1. Cardinality(S) \in Nat BY FS_CardinalityType
  <1>2. CASE T \subseteq S /\ d >= c
    <2>1. IsFiniteSet(T) /\ Cardinality(T) <= Cardinality(S) BY <1>2, FS_Subset
    <2>2. Cardinality(T) \in Nat BY <2>1, FS_CardinalityType
    <2> QED BY <1>1, <1>2, <2>1, <2>2
  <1>3. CASE d = c + 1 /\ \E x : T \subseteq S \cup {x}
    <2>1. PICK x : T \subseteq S \cup {x} BY <1>3
    <2>2. IsFiniteSet(S \cup {x}) /\ Cardinality(S \cup {x}) <= Cardinality(S) + 1
      BY <1>1, FS_AddElement
    <2>3. IsFiniteSet(T) /\ Cardinality(T) <= Cardinality(S \cup {x}) BY <2>1, <2>2, FS_Subset
    <2>4. Cardinality(T) \in Nat /\ Cardinality(S \cup {x}) \in Nat BY <2>2, <2>3, FS_CardinalityType
    <2> QED BY <1>1, <1>3, <2>2, <2>3, <2>4
  <1> QED BY <1>2, <1>3

\* The spool and the drain stay together, and nothing goes missing but the record
\* that an error or a kill cuts off.
LEMMA ReportsAreHeld ==
    ASSUME ReportTyped, SpoolHolds, [ExceptionsNext]_reportVars
    PROVE  /\ SpoolHolds'
           /\ \/ Missing' \subseteq Missing
              \/ (ReportFails \/ Killed) /\ Missing' \subseteq Missing \cup {reporting.rec}
  <1> USE DEF SpoolHolds, Missing
  <1>1. ASSUME NEW r \in ErrorReport, Raise(r) PROVE SpoolHolds' /\ Missing' \subseteq Missing
    <2>1. reporting' # NoReport /\ reporting'.at = "load" /\ reporting'.rec = r /\ ~reporting'.again
      BY <1>1, ReportStarts DEF Raise
    <2> QED BY <1>1, <2>1 DEF Raise, hubVars
  <1>2. ASSUME NEW r \in ErrorReport, DrainNext(r) PROVE SpoolHolds' /\ Missing' \subseteq Missing
    <2>1. reporting' # NoReport /\ reporting'.at = "load" /\ reporting'.rec = r
      BY <1>2, ReportStarts DEF DrainNext
    <2> QED BY <1>2, <2>1 DEF DrainNext, hubVars
  <1>3. CASE StartDrain BY <1>3 DEF StartDrain, hubVars
  <1>4. reporting # NoReport => reporting \in Reporting BY DEF ReportTyped
  <1>5. CASE LoadIndex
    <2>1. /\ reporting # NoReport /\ reporting' # NoReport /\ reporting'.at \in {"post", "spool"}
          /\ reporting'.rec = reporting.rec /\ reporting'.again = reporting.again
      BY <1>4, <1>5, ReportGoesOn DEF LoadIndex, GoTo, StepAt
    <2> QED BY <1>5, <2>1 DEF LoadIndex, hubVars
  <1>6. CASE PostReport
    <2>1. /\ reporting # NoReport /\ reporting' # NoReport
          /\ reporting'.rec = reporting.rec /\ reporting'.again = reporting.again
          /\ reporting'.at = "spool" \/ (reporting'.at = "save" /\ reporting.rec \in onHub')
      BY <1>4, <1>6, ReportGoesOn, ReportIsMade DEF PostReport, GoTo, StepAt, FreePost, Made
    <2>2. onHub \subseteq onHub' BY <1>6 DEF PostReport, Made, hubVars
    <2> QED BY <1>6, <2>1, <2>2 DEF PostReport
  <1>7. CASE SaveIndex
    <2>1. reporting \in Reporting /\ reporting # NoReport /\ reporting.rec \in onHub
      BY <1>4, <1>7 DEF SaveIndex, StepAt
    <2>2. reporting' = NoReport \/ (/\ reporting' # NoReport
                                    /\ reporting'.rec = reporting.rec
                                    /\ reporting.again /\ reporting'.again)
      BY <1>7, <2>1, ReportGoesOn DEF SaveIndex, EndReport
    <2> QED BY <1>7, <2>1, <2>2 DEF SaveIndex, hubVars
  <1>8. CASE WriteSpool BY <1>8 DEF WriteSpool, StepAt, hubVars
  <1>9. CASE UnlinkSpool BY <1>9 DEF UnlinkSpool, StepAt, hubVars
  <1>10. CASE ReportFails \/ Killed
    <2>1. CutOff BY <1>10 DEF ReportFails, Killed
    <2>2. SpoolHolds' /\ Missing' \subseteq Missing \cup {reporting.rec} BY <2>1, CutOffLeaves
    <2> QED BY <1>10, <2>2
  <1>11. CASE ReportTick BY <1>11 DEF ReportTick
  <1>12. CASE UNCHANGED reportVars BY <1>12 DEF reportVars, hubVars
  <1> QED BY <1>1, <1>2, <1>3, <1>5, <1>6, <1>7, <1>8, <1>9, <1>10, <1>11, <1>12 DEF ExceptionsNext

\* No more is missing than errors and kills account for.
LEMMA FewStayMissing ==
    ASSUME ReportTyped, SpoolHolds, FewMissing, [ExceptionsNext]_reportVars
    PROVE  FewMissing'
  <1>1. Costs \in Nat /\ Costs' \in Nat /\ Costs' >= Costs BY StepsCost
  <1>2. \/ Missing' \subseteq Missing /\ Costs' >= Costs
        \/ Costs' = Costs + 1 /\ \E x : Missing' \subseteq Missing \cup {x}
    BY <1>1, ReportsAreHeld, StepsCost
  <1> QED BY <1>1, <1>2, CostsCover DEF FewMissing

\* The index is as young as the posts on GitHub, as long as nothing fails.
LEMMA IndexKeepsUp ==
    ASSUME ReportTyped, IndexKnows, [ExceptionsNext]_reportVars
    PROVE  IndexKnows'
  <1> SUFFICES ASSUME reportFaults' = 0, reportKills' = 0, NEW k \in Trouble
               PROVE  \/ keyAge'[k] <= hubAge'.byTrouble[k]
                      \/ StepAt("save")' /\ k = TroubleOf[reporting'.rec]
    BY DEF IndexKnows
  <1>0. Costs' = 0 BY DEF Costs
  <1>1. Costs = 0 /\ Costs \in Nat BY <1>0, StepsCost
  <1>2. reportFaults = 0 /\ reportKills = 0 BY <1>1 DEF Costs, ReportTyped
  <1>3. keyAge[k] <= hubAge.byTrouble[k] \/ (StepAt("save") /\ k = TroubleOf[reporting.rec])
    BY <1>2 DEF IndexKnows
  <1>4. CASE ~StepAt("save") /\ UNCHANGED <<keyAge, hubAge>> BY <1>3, <1>4
  <1>5. CASE PostReport
    <2>1. reporting \in Reporting /\ reporting # NoReport /\ ~StepAt("save")
      BY <1>5 DEF PostReport, StepAt, ReportTyped
    <2>2. ~ReportFault BY <1>2 DEF ReportFault
    <2>3. CASE UNCHANGED hubVars BY <1>4, <1>5, <2>1, <2>3 DEF PostReport, indexVars, hubVars
    <2>4. CASE ~UNCHANGED hubVars
      <3>1. PICK p \in HubPost : Made(p) /\ reporting' = [reporting EXCEPT !.at = "save", !.post = p]
        BY <1>5, <2>2, <2>4 DEF PostReport, FreePost
      <3>2. StepAt("save")' /\ reporting'.rec = reporting.rec
        BY <2>1, <3>1, ReportIsMade DEF StepAt
      <3>3. k # TroubleOf[reporting.rec] => hubAge'.byTrouble[k] = hubAge.byTrouble[k]
        BY <2>1, <3>1, PostIsNew
      <3> QED BY <1>3, <1>5, <2>1, <3>2, <3>3 DEF PostReport, indexVars
    <2> QED BY <2>3, <2>4
  <1>6. CASE SaveIndex
    <2>1. reporting \in Reporting /\ TroubleOf[reporting.rec] \in Trouble
      BY <1>6, ReportAssumption DEF SaveIndex, StepAt, ReportTyped, Reporting
    <2>2. keyAge' = [keyAge EXCEPT ![TroubleOf[reporting.rec]] = 0]
      BY <1>6 DEF SaveIndex, Stamped
    <2>3. hubAge.byTrouble[k] >= 0 /\ hubAge' = hubAge
      BY <1>6, ReportAssumption DEF SaveIndex, ReportTyped, OldKey, hubVars
    <2> QED BY <1>3, <2>1, <2>2, <2>3 DEF ReportTyped
  <1>7. CASE ReportTick
    <2>1. keyAge[k] <= hubAge.byTrouble[k] BY <1>3, <1>7 DEF ReportTick, StepAt
    <2>2. hubAge.byTrouble \in [Trouble -> 0 .. OldKey] /\ OldKey \in Nat
      BY ReportAssumption DEF ReportTyped, OldKey
    <2>3. Ageing(keyAge, OldKey)[k] <= Ageing(hubAge.byTrouble, OldKey)[k]
      BY <2>1, <2>2, AgeingIsOrdered DEF ReportTyped
    <2> QED BY <1>7, <2>3 DEF ReportTick
  <1>8. CASE UNCHANGED reportVars BY <1>3, <1>8 DEF reportVars, indexVars, hubVars, StepAt
  <1>9. ~(ReportFails \/ Killed) BY <1>0, <1>1, StepsCost
  <1>10. CASE LoadIndex \/ WriteSpool \/ UnlinkSpool
    BY <1>4, <1>10 DEF LoadIndex, WriteSpool, UnlinkSpool, StepAt, indexVars, hubVars
  <1>11. ASSUME NEW r \in ErrorReport, Raise(r) \/ DrainNext(r) \/ StartDrain
         PROVE  ~StepAt("save") /\ UNCHANGED <<keyAge, hubAge>>
    BY <1>11 DEF Raise, DrainNext, StartDrain, StepAt, indexVars, hubVars
  <1>12. CASE StartDrain BY <1>4, <1>12 DEF StartDrain, StepAt, indexVars, hubVars
  <1> QED BY <1>4, <1>5, <1>6, <1>7, <1>8, <1>9, <1>10, <1>11, <1>12 DEF ExceptionsNext

\* A smaller finite set has no more elements, and one element more is one more.
LEMMA SmallerSets ==
    ASSUME NEW S, IsFiniteSet(S), NEW T \in SUBSET S
    PROVE  /\ IsFiniteSet(T) /\ Cardinality(T) \in Nat /\ Cardinality(S) \in Nat
           /\ Cardinality(T) <= Cardinality(S)
           /\ \A x : /\ IsFiniteSet(S \cup {x})
                     /\ Cardinality(S \cup {x}) \in Nat
                     /\ Cardinality(S \cup {x}) <= Cardinality(S) + 1
  <1>1. IsFiniteSet(T) /\ Cardinality(T) <= Cardinality(S) BY FS_Subset
  <1>2. Cardinality(T) \in Nat /\ Cardinality(S) \in Nat BY <1>1, FS_CardinalityType
  <1>3. ASSUME NEW x
        PROVE  /\ IsFiniteSet(S \cup {x})
               /\ Cardinality(S \cup {x}) \in Nat
               /\ Cardinality(S \cup {x}) <= Cardinality(S) + 1
    <2>1. IsFiniteSet(S \cup {x}) /\ Cardinality(S \cup {x}) = IF x \in S THEN Cardinality(S) ELSE Cardinality(S) + 1
      BY FS_AddElement
    <2> QED BY <1>2, <2>1
  <1> QED BY <1>1, <1>2, <1>3

\* The limit that the index counts to holds for what GitHub gets.
LEMMA RateIsKept ==
    ASSUME ReportTyped, RateHolds
    PROVE  RateKept
  <1> DEFINE counted == Recent \cup Saving
  <1>1. Hub \subseteq counted \cup Unstamped BY DEF Hub, Recent, Unstamped
  <1>2. /\ IsFiniteSet(counted) /\ Cardinality(counted) <= RateMax
        /\ IsFiniteSet(Unstamped) /\ Cardinality(Unstamped) <= Costs
    BY DEF RateHolds
  <1> HIDE DEF counted
  <1>3. /\ IsFiniteSet(counted \cup Unstamped)
        /\ Cardinality(counted \cup Unstamped)
              = Cardinality(counted) + Cardinality(Unstamped) - Cardinality(counted \cap Unstamped)
    BY <1>2, FS_Union
  <1>4. Cardinality(counted \cap Unstamped) \in Nat /\ Cardinality(counted) \in Nat
        /\ Cardinality(Unstamped) \in Nat
    BY <1>2, SmallerSets
  <1>5. Cardinality(Hub) \in Nat /\ Cardinality(Hub) <= Cardinality(counted \cup Unstamped)
        /\ Cardinality(counted \cup Unstamped) \in Nat
    BY <1>1, <1>3, SmallerSets
  <1>6. RateMax \in Nat /\ reportFaults \in Nat /\ reportKills \in Nat BY ReportAssumption DEF ReportTyped
  <1>7. Cardinality(Hub) <= RateMax + reportFaults + reportKills
    BY <1>2, <1>3, <1>4, <1>5, <1>6 DEF Costs
  <1> QED BY <1>7 DEF RateKept, Hub

\* A step after which the index counts no more, and has lost no more than the
\* step costs, keeps the limit.
LEMMA RateShrinks ==
    ASSUME ReportTyped, RateHolds,
           Costs \in Nat, Costs' \in Nat, Costs' >= Costs,
           ~StepAt("save")',
           (Recent \cup Saving)' \subseteq Recent \cup Saving,
           \/ Unstamped' \subseteq Unstamped
           \/ Costs' = Costs + 1 /\ \E x : Unstamped' \subseteq Unstamped \cup {x},
           StepAt("post")' => Cardinality(Recent') < RateMax
    PROVE  RateHolds'
  <1>0. RateMax \in Nat BY ReportAssumption
  <1>1. IsFiniteSet((Recent \cup Saving)') /\ Cardinality((Recent \cup Saving)') <= RateMax
    <2> DEFINE was == Recent \cup Saving
               is  == (Recent \cup Saving)'
    <2>1. IsFiniteSet(was) /\ Cardinality(was) <= RateMax /\ is \in SUBSET was BY DEF RateHolds
    <2> HIDE DEF was, is
    <2>2. IsFiniteSet(is) /\ Cardinality(is) <= Cardinality(was) /\ Cardinality(is) \in Nat
          /\ Cardinality(was) \in Nat
      BY <2>1, SmallerSets
    <2>3. IsFiniteSet(is) /\ Cardinality(is) <= RateMax BY <1>0, <2>1, <2>2
    <2> QED BY <2>3 DEF is
  <1>2. IsFiniteSet(Unstamped') /\ Cardinality(Unstamped') <= Costs'
    BY CostsCover DEF RateHolds
  <1> QED BY <1>1, <1>2 DEF RateHolds

\* The limit holds after every step.
LEMMA RateSteps ==
    ASSUME ReportTyped, RateHolds, [ExceptionsNext]_reportVars, ReportTyped'
    PROVE  RateHolds'
  <1>0. RateMax \in Nat /\ RateWindow \in Nat BY ReportAssumption
  <1>1. IsFiniteSet(Recent) /\ Cardinality(Recent) \in Nat BY SmallerSets DEF RateHolds
  <1>2. Costs \in Nat /\ Costs' \in Nat /\ Costs' >= Costs BY StepsCost
  <1>3. ASSUME UNCHANGED <<rateAge, hubAge>>, ~StepAt("save"), ~StepAt("save")',
               StepAt("post")' => Cardinality(Recent) < RateMax
        PROVE  RateHolds'
    <2>1. Recent' = Recent /\ Hub' = Hub /\ Saving' = {} /\ Unstamped' \subseteq Unstamped
      BY <1>3 DEF Recent, Hub, Saving, Unstamped
    <2> QED BY <1>2, <1>3, <2>1, RateShrinks
  \* A post that is not saved costs one, and is one more that the index has lost.
  <1>4. ASSUME NEW p \in HubPost, Made(p), reporting # NoReport, UNCHANGED rateAge,
               ~StepAt("save"), ~StepAt("save")', ~StepAt("post")', Costs' = Costs + 1
        PROVE  RateHolds'
    <2>1. Recent' = Recent /\ Saving' = {} BY <1>4 DEF Recent, Saving
    <2>2. \A x \in HubPost \ {p} : hubAge'.byPost[x] = hubAge.byPost[x] BY <1>4, PostIsNew
    <2>3. Unstamped' \subseteq Unstamped \cup {p} BY <1>4, <2>1, <2>2 DEF Unstamped, Hub, Saving
    <2> QED BY <1>2, <1>4, <2>1, <2>3, RateShrinks
  <1>5. ASSUME NEW r \in ErrorReport, Raise(r) \/ DrainNext(r) PROVE RateHolds'
    BY <1>3, <1>5, ReportStarts DEF Raise, DrainNext, StepAt, indexVars, hubVars
  <1>6. CASE StartDrain BY <1>3, <1>6 DEF StartDrain, StepAt, indexVars, hubVars
  <1>7. reporting # NoReport => reporting \in Reporting BY DEF ReportTyped
  <1>8. CASE LoadIndex
    <2>1. reporting \in Reporting /\ reporting.at = "load" BY <1>7, <1>8 DEF LoadIndex, StepAt
    <2>2. ~StepAt("save") BY <2>1 DEF StepAt
    <2>3. ~StepAt("save")' /\ (StepAt("post")' => Cardinality(Recent) < RateMax)
      BY <1>0, <1>1, <1>8, <2>1, ReportGoesOn DEF LoadIndex, GoTo, StepAt, RateLimited
    <2> QED BY <1>3, <1>8, <2>2, <2>3 DEF LoadIndex, indexVars, hubVars
  <1>9. CASE PostReport
    <2>1. reporting \in Reporting /\ reporting # NoReport /\ reporting.at = "post"
          /\ ~StepAt("save") /\ Cardinality(Recent) < RateMax /\ UNCHANGED rateAge
      BY <1>7, <1>9 DEF PostReport, StepAt, RateHolds, indexVars
    <2>2. CASE GoTo("spool") /\ UNCHANGED <<hubVars, costVars>>
      <3>1. ~StepAt("save")' /\ ~StepAt("post")' BY <2>1, <2>2, ReportGoesOn DEF GoTo, StepAt
      <3> QED BY <1>3, <2>1, <2>2, <3>1 DEF hubVars
    <2>3. ASSUME NEW p \in FreePost, Made(p), GoTo("spool"), ReportFault, UNCHANGED reportKills
          PROVE  RateHolds'
      <3>1. ~StepAt("save")' /\ ~StepAt("post")' BY <2>1, <2>3, ReportGoesOn DEF GoTo, StepAt
      <3>2. Costs' = Costs + 1 BY <2>3 DEF Costs, ReportFault, ReportTyped
      <3> QED BY <1>4, <2>1, <2>3, <3>1, <3>2 DEF FreePost
    <2>4. ASSUME NEW p \in FreePost, Made(p), reporting' = [reporting EXCEPT !.at = "save", !.post = p],
                 UNCHANGED costVars
          PROVE  RateHolds'
      <3>0. p \in HubPost BY DEF FreePost
      <3>1. StepAt("save")' /\ ~StepAt("post")' /\ reporting'.post = p
        BY <2>1, <2>4, <3>0, ReportIsMade DEF StepAt
      <3>2. hubAge'.byPost[p] = 0 /\ \A x \in HubPost \ {p} : hubAge'.byPost[x] = hubAge.byPost[x]
        BY <2>1, <2>4, <3>0, PostIsNew
      <3>3. Recent' = Recent /\ Saving' = {p} BY <2>1, <3>1 DEF Recent, Saving
      <3>4. Unstamped' \subseteq Unstamped
        BY <2>1, <3>2, <3>3 DEF Unstamped, Hub, Saving
      <3>5. IsFiniteSet(Unstamped') /\ Cardinality(Unstamped') <= Costs'
        BY <1>2, <3>4, CostsCover DEF RateHolds
      <3>6. IsFiniteSet(Recent \cup {p}) /\ Cardinality(Recent \cup {p}) <= Cardinality(Recent) + 1
            /\ Cardinality(Recent \cup {p}) \in Nat
        BY <1>1, SmallerSets
      <3>7. Cardinality(Recent \cup {p}) <= RateMax BY <1>0, <1>1, <2>1, <3>6
      <3> QED BY <3>1, <3>2, <3>3, <3>5, <3>6, <3>7 DEF RateHolds
    <2> QED BY <1>9, <2>2, <2>3, <2>4 DEF PostReport
  <1>10. CASE SaveIndex
    <2> DEFINE p == reporting.post
    <2>1. reporting \in Reporting /\ StepAt("save") /\ hubAge.byPost[p] = 0
      BY <1>7, <1>10 DEF SaveIndex, StepAt, RateHolds
    <2>2. Saving = {p} BY <2>1 DEF Saving
    <2>3. ~StepAt("save")' /\ ~StepAt("post")'
      BY <1>10, <2>1, ReportGoesOn DEF SaveIndex, EndReport, StepAt
    <2>4. rateAge' = [rateAge EXCEPT ![p] = 0] /\ hubAge' = hubAge
      BY <1>10 DEF Stamped, SaveIndex, hubVars
    <2>5. Recent' \subseteq Recent \cup {p} /\ Saving' = {}
      BY <2>3, <2>4 DEF Recent, Saving, ReportTyped
    <2>6. Unstamped' \subseteq Unstamped
      BY <2>1, <2>2, <2>4, <2>5 DEF Unstamped, Hub, ReportTyped
    <2> QED BY <1>2, <2>2, <2>3, <2>5, <2>6, RateShrinks
  <1>11. CASE WriteSpool \/ UnlinkSpool
    BY <1>3, <1>11 DEF WriteSpool, UnlinkSpool, StepAt, indexVars, hubVars
  <1>12. CASE ReportFails \/ Killed
    <2>1. CutOff /\ Costs' = Costs + 1 BY <1>12, StepsCost DEF ReportFails, Killed
    <2>2. reporting' = NoReport /\ UNCHANGED rateAge /\ reporting # NoReport
      BY <2>1, CutOffLeaves DEF CutOff
    <2>3. ~StepAt("save")' /\ ~StepAt("post")' BY <2>2 DEF StepAt
    <2>4. CASE UNCHANGED hubVars
      <3>1. Recent' = Recent /\ Saving' = {} BY <2>2, <2>3 DEF Recent, Saving
      <3>2. \E x : Unstamped' \subseteq Unstamped \cup {x}
        <4>1. Unstamped' \subseteq Unstamped \cup {reporting.post}
          BY <2>2, <2>4, <3>1 DEF Unstamped, Hub, Saving, hubVars
        <4> QED BY <4>1
      <3> QED BY <1>2, <2>1, <2>3, <3>1, <3>2, RateShrinks
    <2>5. CASE ~UNCHANGED hubVars
      <3>1. StepAt("post") /\ \E p \in HubPost : Made(p) BY <2>1, <2>5 DEF CutOff, FreePost
      <3>2. ~StepAt("save") BY <3>1 DEF StepAt
      <3> QED BY <1>4, <2>1, <2>2, <2>3, <3>1, <3>2
    <2> QED BY <2>4, <2>5
  <1>13. CASE ReportTick
    <2>1. OldPost \in Nat /\ OldPost > RateWindow BY <1>0 DEF OldPost
    <2>2. /\ hubAge.byPost \in [HubPost -> 0 .. OldPost]
          /\ rateAge \in [HubPost -> 0 .. OldPost]
      BY DEF ReportTyped
    <2>3. /\ rateAge' = Ageing(rateAge, OldPost)
          /\ hubAge'.byPost = Ageing(hubAge.byPost, OldPost)
          /\ ~StepAt("save") /\ ~StepAt("save")' /\ ~StepAt("post")'
      BY <1>13 DEF ReportTick, StepAt
    <2>4. \A x \in HubPost : rateAge[x] <= rateAge'[x] /\ hubAge.byPost[x] <= hubAge'.byPost[x]
      BY <2>1, <2>2, <2>3, AgeingIsTyped
    <2>5. \A x \in HubPost : rateAge'[x] # hubAge'.byPost[x] => rateAge[x] # hubAge.byPost[x]
      BY <2>2, <2>3 DEF Ageing
    <2>6. rateAge' \in [HubPost -> 0 .. OldPost] /\ hubAge'.byPost \in [HubPost -> 0 .. OldPost]
      BY DEF ReportTyped
    <2>7. Recent' \subseteq Recent /\ Saving' = {} /\ Saving = {}
      BY <1>0, <2>1, <2>2, <2>3, <2>4, <2>6 DEF Recent, Saving
    <2>8. Unstamped' \subseteq Unstamped
      BY <1>0, <2>1, <2>2, <2>4, <2>5, <2>6, <2>7 DEF Unstamped, Hub
    <2> QED BY <1>2, <2>3, <2>7, <2>8, RateShrinks
  <1>14. CASE UNCHANGED reportVars
    BY <1>14 DEF reportVars, indexVars, hubVars, costVars, RateHolds, Recent, Saving, Unstamped, Hub, StepAt,
                 Costs
  <1> QED BY <1>5, <1>6, <1>8, <1>9, <1>10, <1>11, <1>12, <1>13, <1>14 DEF ExceptionsNext

\* The invariant holds before the first report.
LEMMA ReportInitially == ExceptionsInit => ReportInv
  <1> SUFFICES ASSUME ExceptionsInit PROVE ReportInv OBVIOUS
  <1>1. ReportTyped BY ReportAssumption DEF ExceptionsInit, ReportTyped, OldKey, OldPost
  <1>2. SpoolHolds BY DEF ExceptionsInit, SpoolHolds
  <1>3. IndexKnows BY ReportAssumption DEF ExceptionsInit, IndexKnows, OldKey
  <1>4. Costs = 0 BY DEF ExceptionsInit, Costs
  <1>5. FewMissing
    <2>1. Missing = {} BY DEF ExceptionsInit, Missing
    <2> QED BY <1>4, <2>1, FS_EmptySet DEF FewMissing
  <1>6. RateHolds
    <2>1. Recent = {} /\ Saving = {} /\ Unstamped = {}
      BY ReportAssumption DEF ExceptionsInit, Recent, Saving, Unstamped, Hub, StepAt, OldPost
    <2>2. Recent \cup Saving = {} BY <2>1
    <2> QED BY <1>4, <2>1, <2>2, FS_EmptySet, ReportAssumption DEF ExceptionsInit, RateHolds, StepAt
  <1> QED BY <1>1, <1>2, <1>3, <1>5, <1>6 DEF ReportInv

\* The invariant holds after every step.
LEMMA ReportSteps == ReportInv /\ [ExceptionsNext]_reportVars => ReportInv'
  BY ReportTypes, ReportsAreHeld, FewStayMissing, IndexKeepsUp, RateSteps DEF ReportInv

\* FR #148, for every set of exceptions and whatever limits: GitHub down, no token,
\* the rate limit and drains lose no exception, and each error and each kill in
\* the middle of a report loses one at most.
THEOREM NoReportIsLost == ExceptionsSpec => []ReportsKept
  <1>1. ReportInv => ReportsKept BY DEF ReportInv, FewMissing, ReportsKept, Costs
  <1> QED BY <1>1, ReportInitially, ReportSteps, PTL DEF ExceptionsSpec

\* As long as no error, lost answer or kill keeps a post out of the index, the
\* same trouble within the window is never a second issue.
THEOREM TroubleIsOneIssue == ExceptionsSpec => []OneIssuePerTrouble
  <1>1. ReportInv => OneIssuePerTrouble
    <2> SUFFICES ASSUME ReportInv, StepAt("post"), reportFaults = 0, reportKills = 0,
                        hubAge.byTrouble[TroubleOf[reporting.rec]] <= DedupeWindow
                 PROVE  keyAge[TroubleOf[reporting.rec]] <= DedupeWindow
      BY DEF OneIssuePerTrouble
    <2>1. TroubleOf[reporting.rec] \in Trouble /\ ~StepAt("save")
      BY ReportAssumption DEF ReportInv, ReportTyped, StepAt, Reporting
    <2> DEFINE k == TroubleOf[reporting.rec]
    <2>2. keyAge[k] <= hubAge.byTrouble[k] BY <2>1 DEF ReportInv, IndexKnows
    <2>3. keyAge[k] \in Nat /\ hubAge.byTrouble[k] \in Nat
      BY <2>1, ReportAssumption DEF ReportInv, ReportTyped, OldKey
    <2> QED BY <2>2, <2>3, ReportAssumption
  <1> QED BY <1>1, ReportInitially, ReportSteps, PTL DEF ExceptionsSpec

\* The rate limit holds for what GitHub gets, with one more for each error, lost
\* answer and kill, whatever is drained, repeated or cut off.
THEOREM RateIsBounded == ExceptionsSpec => []RateKept
  <1>1. ReportInv => RateKept BY RateIsKept DEF ReportInv
  <1> QED BY <1>1, ReportInitially, ReportSteps, PTL DEF ExceptionsSpec

-----------------------------------------------------------------------------
(* The watch on hand-offs.                                                 *)

\* A set of numbers that is not empty has a least one.
LEMMA LeastNat ==
    ASSUME NEW T \in SUBSET Nat, T # {}
    PROVE  \E x \in T : \A y \in T : x <= y
  <1>1. PICK x \in T : \A y \in T : ~ (<<y, x>> \in OpToRel(<, Nat))
    BY NatLessThanWellFounded, WFMin
  <1>2. ASSUME NEW y \in T PROVE x <= y
    <2>1. x \in Nat /\ y \in Nat OBVIOUS
    <2>2. y < x => <<y, x>> \in OpToRel(<, Nat) BY <2>1 DEF OpToRel
    <2>3. ~(y < x) BY <1>1, <2>2
    <2> QED BY <2>1, <2>3
  <1> QED BY <1>2

\* A line of the log that takes an ACK from the open ones.
Closes(ln, a) ==
    SameSeatAndJob(ln, a) /\ (ln.event = "done" \/ (ln.event = "ack" /\ a.mode = ln.mode))

\* The m-th line is an ACK that none of the lines up to the k-th closed.
StaysOpen(m, k) ==
    chairLog[m].event = "ack" /\ \A n \in m + 1 .. k : ~Closes(chairLog[n], chairLog[m])

\* What the pass should have after k lines, said of the whole log at once.
OpenAfter(k) == {chairLog[m] : m \in {n \in 1 .. k : StaysOpen(n, k)}}

\* A line takes the ACKs it closes, and adds itself if it is one.
LEMMA LineCloses ==
    ASSUME NEW acks, NEW ln
    PROVE  AfterLine(acks, ln)
             = {a \in acks : ~Closes(ln, a)} \cup (IF ln.event = "ack" THEN {ln} ELSE {})
  <1>1. CASE ln.event = "ack" BY <1>1 DEF AfterLine, Closes
  <1>2. CASE ln.event = "done" BY <1>2 DEF AfterLine, Closes, Clears
  <1>3. CASE ln.event # "ack" /\ ln.event # "done" BY <1>3 DEF AfterLine, Closes
  <1> QED BY <1>1, <1>2, <1>3

\* The k-th line takes what is open after k - 1 lines to what is open after k.
LEMMA OpenSteps ==
    ASSUME NEW k \in Nat, k # 0
    PROVE  OpenAfter(k) = AfterLine(OpenAfter(k - 1), chairLog[k])
  <1> DEFINE ln == chairLog[k]
             before == {a \in OpenAfter(k - 1) : ~Closes(ln, a)}
  <1>1. ASSUME NEW m \in 1 .. k
        PROVE  /\ m = k => (StaysOpen(m, k) <=> ln.event = "ack")
               /\ m # k => /\ m \in 1 .. k - 1
                           /\ StaysOpen(m, k) <=> StaysOpen(m, k - 1) /\ ~Closes(ln, chairLog[m])
    <2>1. CASE m = k
      <3>1. m + 1 .. k = {} BY <2>1
      <3> QED BY <2>1, <3>1 DEF StaysOpen
    <2>2. CASE m # k
      <3>1. m + 1 .. k = (m + 1 .. k - 1) \cup {k} BY <2>2
      <3>2. StaysOpen(m, k) <=> StaysOpen(m, k - 1) /\ ~Closes(ln, chairLog[m])
        BY <3>1 DEF StaysOpen
      <3>3. m \in 1 .. k - 1 BY <2>2
      <3> QED BY <2>2, <3>2, <3>3
    <2> QED BY <2>1, <2>2
  <1>2. k \in 1 .. k /\ 1 .. k - 1 \subseteq 1 .. k /\ k \notin 1 .. k - 1 OBVIOUS
  <1>3. \A x : x \in OpenAfter(k) <=> x \in before \cup (IF ln.event = "ack" THEN {ln} ELSE {})
    <2> SUFFICES ASSUME NEW x
                 PROVE  x \in OpenAfter(k) <=> x \in before \cup (IF ln.event = "ack" THEN {ln} ELSE {})
      OBVIOUS
    <2>1. x \in OpenAfter(k) <=> \E m \in 1 .. k : StaysOpen(m, k) /\ x = chairLog[m]
      BY DEF OpenAfter
    <2>2. x \in before <=>
            \E m \in 1 .. k - 1 : StaysOpen(m, k - 1) /\ x = chairLog[m] /\ ~Closes(ln, chairLog[m])
      BY DEF OpenAfter
    <2>3. x \in OpenAfter(k) => x \in before \/ (ln.event = "ack" /\ x = ln)
      BY <1>1, <2>1, <2>2
    <2>4. x \in before => x \in OpenAfter(k) BY <1>1, <1>2, <2>1, <2>2
    <2>5. ln.event = "ack" /\ x = ln => x \in OpenAfter(k) BY <1>1, <1>2, <2>1
    <2> QED BY <2>3, <2>4, <2>5
  <1> QED BY <1>3, LineCloses

\* The pass has open what should be open: the recursion has one solution.
LEMMA OpenAcksAreOpen ==
    ASSUME Len(chairLog) \in Nat
    PROVE  OpenAcks = OpenAfter(Len(chairLog))
  <1> DEFINE L == Len(chairLog)
             Step(h) == [k \in 0 .. L |-> IF k = 0 THEN {} ELSE AfterLine(h[k - 1], chairLog[k])]
             open == CHOOSE h : h = Step(h)
             want == [k \in 0 .. L |-> OpenAfter(k)]
  <1>1. OpenAcks = open[L] BY DEF OpenAcks
  <1>2. want = Step(want)
    <2>1. OpenAfter(0) = {} BY DEF OpenAfter
    <2>2. ASSUME NEW k \in 0 .. L, k # 0
          PROVE  want[k] = AfterLine(want[k - 1], chairLog[k])
      <3>1. k \in Nat /\ k - 1 \in 0 .. L BY <2>2
      <3>2. want[k] = OpenAfter(k) /\ want[k - 1] = OpenAfter(k - 1) BY <3>1
      <3> QED BY <2>2, <3>1, <3>2, OpenSteps
    <2>3. ASSUME NEW k \in 0 .. L PROVE want[k] = Step(want)[k] BY <2>1, <2>2
    <2> QED BY <2>3
  <1>3. open = Step(open)
    <2> HIDE DEF want
    <2> QED BY <1>2
  <1> HIDE DEF open
  <1>4. open[0] = {} /\ \A k \in 1 .. L : open[k] = AfterLine(open[k - 1], chairLog[k])
    <2> DEFINE next == Step(open)
    <2>1. \A k \in 0 .. L : next[k] = IF k = 0 THEN {} ELSE AfterLine(open[k - 1], chairLog[k])
      OBVIOUS
    <2>2. open = next BY <1>3
    <2> HIDE DEF next
    <2>3. \A k \in 0 .. L : open[k] = IF k = 0 THEN {} ELSE AfterLine(open[k - 1], chairLog[k])
      BY <2>1, <2>2
    <2>4. 0 \in 0 .. L /\ \A k \in 1 .. L : k \in 0 .. L /\ k # 0 OBVIOUS
    <2> QED BY <2>3, <2>4
  <1>5. \A k \in 0 .. L : open[k] = OpenAfter(k)
    <2> DEFINE wrong == {k \in 0 .. L : open[k] # OpenAfter(k)}
    <2> SUFFICES ASSUME wrong # {} PROVE FALSE OBVIOUS
    <2>0. wrong \in SUBSET Nat OBVIOUS
    <2>1. PICK k \in wrong : \A n \in wrong : k <= n
      <3> HIDE DEF wrong
      <3> QED BY <2>0, LeastNat
    <2>2. k # 0 BY <1>4, <2>1 DEF OpenAfter
    <2>3. k \in 1 .. L /\ k \in Nat /\ k - 1 \in 0 .. L /\ ~(k <= k - 1) BY <2>2
    <2>4. open[k - 1] = OpenAfter(k - 1) BY <2>1, <2>3
    <2>5. open[k] = OpenAfter(k) BY <1>4, <2>2, <2>3, <2>4, OpenSteps
    <2> QED BY <2>1, <2>5
  <1>6. L \in 0 .. L OBVIOUS
  <1> QED BY <1>1, <1>5, <1>6

\* The types hold when the log is empty, and after every line and tick.
LEMMA WatchTypes ==
    /\ WatchInit => WatchTypeOK
    /\ WatchTypeOK /\ [WatchNext]_watchVars => WatchTypeOK'
  <1> USE WatchAssumption
  <1>1. WatchInit => WatchTypeOK BY DEF WatchInit, WatchTypeOK
  <1>2. ASSUME WatchTypeOK, [WatchNext]_watchVars PROVE WatchTypeOK'
    <2>1. CASE ChairLogs
      <3>1. PICK ln \in LogLine : chairLog' = Append(chairLog, ln)
        BY <1>2, <2>1 DEF ChairLogs, LogLine, WatchTypeOK
      <3>2. chairLog' \in Seq(LogLine) /\ Len(chairLog') = Len(chairLog) + 1 /\ Len(chairLog) \in Nat
        BY <1>2, <3>1 DEF WatchTypeOK
      <3> QED BY <1>2, <2>1, <3>2 DEF WatchTypeOK, ChairLogs
    <2>2. CASE WatchTick BY <1>2, <2>2 DEF WatchTick, WatchTypeOK
    <2>3. CASE UNCHANGED watchVars BY <1>2, <2>3 DEF watchVars, WatchTypeOK
    <2> QED BY <1>2, <2>1, <2>2, <2>3 DEF WatchNext
  <1> QED BY <1>1, <1>2

\* The ACKs that the pass reports are those that are due in the log.
LEMMA DueAcksAreFound == WatchTypeOK => FindsOpenAcks
  <1> SUFFICES ASSUME WatchTypeOK PROVE FindsOpenAcks OBVIOUS
  <1> DEFINE L == Len(chairLog)
             Later(k) == {chairLog[m] : m \in k + 1 .. L}
             Due(k) == /\ chairLog[k].event = "ack"
                       /\ chairLog[k].at + AckTimeout <= wallClock
                       /\ wallClock <= chairLog[k].at + Lookback
                       /\ ~\E b \in Later(k) : b.event = "done" /\ SameSeatAndJob(chairLog[k], b)
                       /\ ~\E b \in Later(k) : /\ b.event = "ack" /\ SameSeatAndJob(chairLog[k], b)
                                               /\ chairLog[k].mode = b.mode
  <1>1. L \in Nat /\ DOMAIN chairLog = 1 .. L /\ wallClock \in Nat
    BY WatchAssumption DEF WatchTypeOK
  <1>2. \A k \in 1 .. L : chairLog[k].at \in Nat
    <2>1. \A k \in 1 .. L : chairLog[k] \in LogLine BY <1>1 DEF WatchTypeOK
    <2>2. \A ln \in LogLine : ln.at \in Nat BY WatchAssumption DEF LogLine
    <2> QED BY <2>1, <2>2
  <1>3. \A k \in 1 .. L : StaysOpen(k, L) <=>
          /\ chairLog[k].event = "ack"
          /\ ~\E b \in Later(k) : b.event = "done" /\ SameSeatAndJob(chairLog[k], b)
          /\ ~\E b \in Later(k) : /\ b.event = "ack" /\ SameSeatAndJob(chairLog[k], b)
                                  /\ chairLog[k].mode = b.mode
    BY DEF StaysOpen, Closes, SameSeatAndJob
  <1>4. \A k \in 1 .. L : Due(k) <=> /\ StaysOpen(k, L) /\ InLookback(chairLog[k])
                                     /\ wallClock - chairLog[k].at >= AckTimeout
    BY <1>1, <1>2, <1>3, WatchAssumption DEF InLookback
  <1>5. OpenAcks = OpenAfter(L) BY <1>1, OpenAcksAreOpen
  <1> HIDE DEF Due
  <1>6. AckWithoutDone = {chairLog[k] : k \in {m \in DOMAIN chairLog : Due(m)}}
    BY <1>1, <1>4, <1>5 DEF AckWithoutDone, OpenAfter
  <1> QED BY <1>6 DEF FindsOpenAcks, Due

\* For every log: the pass finds the ACKs that are due and no others.
THEOREM OpenAcksAreFound == WatchSpec => []FindsOpenAcks
  BY WatchTypes, DueAcksAreFound, PTL DEF WatchSpec

\* Of two marks on different nicks two neighbours between them are on different
\* nicks.
LEMMA NeighboursDiffer ==
    ASSUME NEW s \in SUBSET (Nat \X Nat), NEW a \in s, NEW b \in s, Sorted(a, b), a[2] # b[2]
    PROVE  \E c, d \in s : Follows(s, c, d) /\ c[2] # d[2] /\ a[1] <= c[1] /\ d[1] <= b[1]
  <1>1. \A x \in s : x = <<x[1], x[2]>> /\ x[1] \in Nat /\ x[2] \in Nat OBVIOUS
  \* d: the first after a that is on another nick than a
  <1> DEFINE other == {x \in s : Sorted(a, x) /\ x[2] # a[2]}
  <1>2. PICK d \in other : \A x \in other : x = d \/ Sorted(d, x)
    <2> DEFINE times == {x[1] : x \in other}
    <2>1. times \in SUBSET Nat /\ times # {} BY <1>1
    <2>2. PICK t \in times : \A y \in times : t <= y
      <3> HIDE DEF times
      <3> QED BY <2>1, LeastNat
    <2> DEFINE nicks == {x[2] : x \in {y \in other : y[1] = t}}
    <2>3. nicks \in SUBSET Nat /\ nicks # {} BY <1>1, <2>2
    <2>4. PICK n \in nicks : \A y \in nicks : n <= y
      <3> HIDE DEF nicks
      <3> QED BY <2>3, LeastNat
    <2>5. PICK d \in other : d[1] = t /\ d[2] = n BY <2>4
    <2>6. ASSUME NEW x \in other PROVE x = d \/ Sorted(d, x)
      <3>1. t <= x[1] BY <2>2
      <3>2. x[1] = t => n <= x[2] BY <2>4
      <3>3. x \in s /\ d \in s OBVIOUS
      <3>4. t \in Nat /\ n \in Nat /\ x[1] \in Nat /\ x[2] \in Nat BY <1>1, <2>5, <3>3
      <3>5. x[1] = d[1] /\ x[2] = d[2] => x = d BY <1>1, <3>3
      <3> QED BY <2>5, <3>1, <3>2, <3>4, <3>5 DEF Sorted
    <2> QED BY <2>5, <2>6
  <1>3. d \in s /\ Sorted(a, d) /\ d[2] # a[2] OBVIOUS
  <1>4. b \in other OBVIOUS
  <1>5. d[1] <= b[1] BY <1>1, <1>2, <1>3, <1>4 DEF Sorted
  \* c: the last before d, on the nick of a
  <1> DEFINE before == {x \in s : Sorted(x, d) /\ (x = a \/ Sorted(a, x))}
  <1>6. \A x \in before : x[2] = a[2]
    <2> SUFFICES ASSUME NEW x \in before, x[2] # a[2] PROVE FALSE OBVIOUS
    <2>1. x \in other OBVIOUS
    <2>2. x = d \/ Sorted(d, x) BY <1>2, <2>1
    <2> QED BY <1>1, <1>3, <2>2 DEF Sorted
  <1>7. a \in before BY <1>3
  <1>8. PICK c \in before : \A x \in before : x[1] <= c[1]
    <2> DEFINE gaps == {d[1] - x[1] : x \in before}
    <2>1. \A x \in before : x[1] \in Nat /\ x[1] <= d[1] BY <1>1, <1>3 DEF Sorted
    <2>2. gaps \in SUBSET Nat /\ gaps # {} BY <1>1, <1>3, <1>7, <2>1
    <2>3. PICK g \in gaps : \A y \in gaps : g <= y
      <3> HIDE DEF gaps
      <3> QED BY <2>2, LeastNat
    <2>4. PICK c \in before : g = d[1] - c[1] BY <2>3
    <2>5. ASSUME NEW x \in before PROVE x[1] <= c[1]
      <3>1. d[1] - c[1] <= d[1] - x[1] BY <2>3, <2>4
      <3> QED BY <1>1, <1>3, <2>1, <3>1
    <2> QED BY <2>4, <2>5
  <1>9. c \in s /\ c[2] = a[2] /\ Sorted(c, d) /\ a[1] <= c[1]
    BY <1>6, <1>7, <1>8
  <1>10. ASSUME NEW x \in s, Sorted(c, x), Sorted(x, d) PROVE FALSE
    <2>1. x = a \/ Sorted(a, x)
      <3>1. c = a \/ Sorted(a, c) OBVIOUS
      <3> QED BY <1>1, <1>9, <1>10, <3>1 DEF Sorted
    <2>2. x \in before BY <1>10, <2>1
    <2> QED BY <1>1, <1>6, <1>8, <1>9, <1>10, <2>2 DEF Sorted
  <1> QED BY <1>3, <1>5, <1>9, <1>10 DEF Follows

\* Two assigns on different nicks within the window leave two neighbours that are.
LEMMA DualAssignsAreFound == WatchTypeOK => FindsDualAssigns
  <1> SUFFICES ASSUME WatchTypeOK, NEW j \in WatchJob, NEW md \in WatchMode,
                      NEW a \in Assigns(j, md), NEW b \in Assigns(j, md),
                      a[2] # b[2], a[1] <= b[1], b[1] - a[1] <= AssignWindow,
                      a[1] + Lookback >= wallClock
               PROVE  DualAssign(j, md) # {}
    BY DEF FindsDualAssigns
  <1>1. wallClock \in Nat /\ Lookback \in Nat /\ AssignWindow \in Nat
    BY WatchAssumption DEF WatchTypeOK
  <1>2. Assigns(j, md) \subseteq Nat \X Nat
    <2> DEFINE found == {chairLog[k] : k \in DOMAIN chairLog} \cap
                          [event : {"assign"}, nick : WatchNick, job : {j}, mode : {md},
                           at : 0 .. wallClock]
    <2>1. ASSUME NEW ln \in found PROVE ln.at \in Nat /\ ln.nick \in Nat
      <3>1. ln \in [event : {"assign"}, nick : WatchNick, job : {j}, mode : {md},
                    at : 0 .. wallClock]
        OBVIOUS
      <3>2. ln.at \in 0 .. wallClock /\ ln.nick \in WatchNick BY <3>1
      <3> HIDE DEF found
      <3>3. ln.at \in Nat BY <1>1, <3>2
      <3>4. ln.nick \in Nat BY <3>2, WatchAssumption
      <3> QED BY <3>3, <3>4
    <2>2. Assigns(j, md) = {<<ln.at, ln.nick>> : ln \in found} BY DEF Assigns
    <2> HIDE DEF found
    <2> QED BY <2>1, <2>2
  <1> DEFINE s == {x \in Assigns(j, md) : x[1] + Lookback >= wallClock}
  <1>3. a[1] \in Nat /\ a[2] \in Nat /\ b[1] \in Nat /\ b[2] \in Nat BY <1>2
  <1>4. s \in SUBSET (Nat \X Nat) /\ a \in s /\ b \in s BY <1>1, <1>2, <1>3
  <1>5. ASSUME NEW c \in s, NEW d \in s, Follows(s, c, d), c[2] # d[2], d[1] - c[1] <= AssignWindow
        PROVE  DualAssign(j, md) # {}
    <2>1. <<c, d>> \in s \X s OBVIOUS
    <2>2. <<c, d>> \in DualAssign(j, md) BY <1>5, <2>1 DEF DualAssign
    <2> QED BY <2>2
  <1> HIDE DEF s
  <1>6. CASE Sorted(a, b)
    <2>1. PICK c \in s : \E d \in s : Follows(s, c, d) /\ c[2] # d[2] /\ a[1] <= c[1] /\ d[1] <= b[1]
      BY <1>4, <1>6, NeighboursDiffer
    <2>2. PICK d \in s : Follows(s, c, d) /\ c[2] # d[2] /\ a[1] <= c[1] /\ d[1] <= b[1]
      BY <2>1
    <2>3. c[1] \in Nat /\ d[1] \in Nat BY <1>4
    <2>4. d[1] - c[1] <= AssignWindow BY <1>1, <1>3, <2>2, <2>3
    <2> QED BY <1>5, <2>2, <2>4
  <1>7. CASE Sorted(b, a)
    <2>1. PICK c \in s : \E d \in s : Follows(s, c, d) /\ c[2] # d[2] /\ b[1] <= c[1] /\ d[1] <= a[1]
      BY <1>4, <1>7, NeighboursDiffer
    <2>2. PICK d \in s : Follows(s, c, d) /\ c[2] # d[2] /\ b[1] <= c[1] /\ d[1] <= a[1]
      BY <2>1
    <2>3. c[1] \in Nat /\ d[1] \in Nat BY <1>4
    <2>4. d[1] - c[1] <= AssignWindow BY <1>1, <1>3, <2>2, <2>3
    <2> QED BY <1>5, <2>2, <2>4
  <1> QED BY <1>3, <1>6, <1>7 DEF Sorted

\* For every log: a job assigned to two seats within the window is found.
THEOREM DoubleAssignsAreFound == WatchSpec => []FindsDualAssigns
  BY WatchTypes, DualAssignsAreFound, PTL DEF WatchSpec

-----------------------------------------------------------------------------
(* The quit grace.                                                         *)

\* A hold is never older than the absence the chair knows of: a QUIT starts
\* both, and every JOIN the chair hears ends both.
HoldsAreAbsences ==
    \A s \in Seat : quitAge[s] # NoQuit => goneFor[s] # NoQuit /\ goneFor[s] >= quitAge[s]

GraceInv == GraceTypeOK /\ HoldsAreAbsences /\ GraceKeepsSeats

\* An age that grows stays an age up to its bound, and keeps what it was compared to.
LEMMA OlderAges ==
    ASSUME NEW top \in Nat, NEW a \in (0 .. top) \cup {NoQuit}, NEW b \in (0 .. top) \cup {NoQuit}
    PROVE  /\ Older(a, top) \in (0 .. top) \cup {NoQuit}
           /\ Older(a, top) = NoQuit <=> a = NoQuit
           /\ a # NoQuit /\ b # NoQuit /\ b >= a => Older(b, top) >= Older(a, top)
  <1>1. NoQuit \notin Nat BY GraceAssumption
  <1>2. a # NoQuit => a \in Nat /\ a <= top OBVIOUS
  <1>3. b # NoQuit => b \in Nat /\ b <= top OBVIOUS
  <1>4. a + 1 # NoQuit \/ a = NoQuit BY <1>1, <1>2
  <1>5. Older(a, top) \in (0 .. top) \cup {NoQuit} BY <1>2 DEF Older
  <1>6. Older(a, top) = NoQuit <=> a = NoQuit BY <1>1, <1>2, <1>4 DEF Older
  <1>7. a # NoQuit /\ b # NoQuit /\ b >= a => Older(b, top) >= Older(a, top)
    BY <1>2, <1>3 DEF Older
  <1> QED BY <1>5, <1>6, <1>7

\* The invariant holds when nobody has come or gone.
LEMMA GraceInitially == GraceInit => GraceInv
  BY GraceAssumption DEF GraceInit, GraceInv, GraceTypeOK, HoldsAreAbsences, GraceKeepsSeats

\* Every step keeps the invariant.
LEMMA GraceSteps == GraceInv /\ [GraceNext]_graceVars => GraceInv'
  <1> SUFFICES ASSUME GraceInv, [GraceNext]_graceVars PROVE GraceInv'
    OBVIOUS
  <1> USE GraceAssumption DEF GraceInv, GraceTypeOK, HoldsAreAbsences, GraceKeepsSeats
  <1>1. ASSUME NEW s \in Seat, Quit(s) PROVE GraceInv'
    BY <1>1 DEF Quit, HoldFor
  <1>2. ASSUME NEW s \in Seat, Join(s) PROVE GraceInv'
    <2>1. quitAge' \in [Seat -> (0 .. Grace) \cup {NoQuit}] BY <1>2 DEF Join, AfterJoin
    <2>2. \A t \in Seat : quitAge'[t] # NoQuit => quitAge'[t] = quitAge[t] /\ t # s
      BY <1>2 DEF Join, AfterJoin
    <2> QED BY <1>2, <2>1, <2>2 DEF Join
  <1>3. ASSUME NEW s \in Seat, JoinUnheard(s) \/ Heard(s) \/ JobDone(s) PROVE GraceInv'
    BY <1>3 DEF JoinUnheard, Heard, JobDone
  <1>4. CASE LinkUpOrDown BY <1>4 DEF LinkUpOrDown
  <1>5. CASE Tick
    <2>1. \A s \in Seat : Older(seenAge[s], Ttl) \in 0 .. Ttl BY DEF Older
    <2>2. \A s \in Seat : /\ quitAge'[s] = Older(quitAge[s], Grace)
                          /\ goneFor'[s] = Older(goneFor[s], Grace)
      BY <1>5 DEF Tick
    <2>3. \A s \in Seat : /\ Older(quitAge[s], Grace) \in (0 .. Grace) \cup {NoQuit}
                          /\ Older(goneFor[s], Grace) \in (0 .. Grace) \cup {NoQuit}
      BY OlderAges
    <2>4. HoldsAreAbsences'
      <3> SUFFICES ASSUME NEW s \in Seat, quitAge'[s] # NoQuit
                   PROVE  goneFor'[s] # NoQuit /\ goneFor'[s] >= quitAge'[s]
        OBVIOUS
      <3> DEFINE a == quitAge[s]
                 b == goneFor[s]
      <3>1. a \in (0 .. Grace) \cup {NoQuit} /\ b \in (0 .. Grace) \cup {NoQuit}
        OBVIOUS
      <3>2. quitAge'[s] = Older(a, Grace) /\ goneFor'[s] = Older(b, Grace)
        BY <2>2
      <3>3. a # NoQuit => b # NoQuit /\ b >= a OBVIOUS
      <3> HIDE DEF a, b
      <3>4. /\ Older(a, Grace) = NoQuit <=> a = NoQuit
            /\ Older(b, Grace) = NoQuit <=> b = NoQuit
            /\ a # NoQuit /\ b # NoQuit /\ b >= a => Older(b, Grace) >= Older(a, Grace)
        BY <3>1, OlderAges
      <3> QED BY <3>2, <3>3, <3>4
    <2> QED BY <1>5, <2>1, <2>3, <2>4 DEF Tick
  <1>6. CASE FlushHolds
    <2> DEFINE due == {s \in Seat : quitAge[s] # NoQuit /\ quitAge[s] >= Grace}
    <2>1. \A s \in due : goneFor[s] # NoQuit /\ goneFor[s] >= Grace
      <3> SUFFICES ASSUME NEW s \in due PROVE goneFor[s] # NoQuit /\ goneFor[s] >= Grace
        OBVIOUS
      <3>1. quitAge[s] \in Nat /\ quitAge[s] >= Grace OBVIOUS
      <3>2. goneFor[s] \in Nat /\ goneFor[s] >= quitAge[s] OBVIOUS
      <3> QED BY <3>1, <3>2
    <2> QED BY <1>6, <2>1 DEF FlushHolds
  <1>7. CASE SweepStale BY <1>7 DEF SweepStale
  <1>8. CASE UNCHANGED graceVars BY <1>8 DEF graceVars
  <1> QED BY <1>1, <1>2, <1>3, <1>4, <1>5, <1>6, <1>7, <1>8 DEF GraceNext

\* FR #110: the flush of the quit holds takes jobs only from seats that were
\* gone for the whole grace.
THEOREM GraceIsKept == GraceSpec => []GraceKeepsSeats
  <1>1. GraceInv => GraceKeepsSeats BY DEF GraceInv
  <1> QED BY <1>1, GraceInitially, GraceSteps, PTL DEF GraceSpec

-----------------------------------------------------------------------------
(* The mode grants.                                                        *)

\* What the chair has given, and not seen taken back, it tracks.
GivenIsTracked ==
    /\ tracked \in [Hall -> SUBSET Bob]
    /\ given \subseteq Grant
    /\ \A g \in given : g[2] \in tracked[g[1]]

\* The nicks, channels and accounts the chair knows are real ones.
KnownAreReal ==
    /\ members \in [Hall -> SUBSET Bob]
    /\ hasMode \in [Hall -> SUBSET Bob]
    /\ accounts \subseteq Bob /\ login \subseteq Bob
    /\ chairIn \subseteq Hall /\ modeKeys \subseteq Hall /\ pendingSweep \subseteq Hall

GrantInv == GivenIsTracked /\ KnownAreReal

SentOnce == \A g \in modeCmds' \ modeCmds : g \notin given

\* The invariant holds when the chair knows nobody.
LEMMA GrantInitially == ModesInit => GrantInv
  BY DEF ModesInit, GrantInv, GivenIsTracked, KnownAreReal

\* maybe_grant sends what is not tracked, and tracks what it sends: one lemma
\* for all the lines that lead to it.
LEMMA DueIsNew ==
    ASSUME GivenIsTracked, NEW wanted \in SUBSET Grant, NEW accts,
           NEW seen \in [Hall -> SUBSET Bob], \A c \in Hall : tracked[c] \subseteq seen[c],
           NEW keys \in SUBSET Hall,
           GrantDue(wanted, accts, seen, keys)
    PROVE  GivenIsTracked' /\ SentOnce /\ modeKeys' \subseteq Hall
  <1> DEFINE due == {g \in wanted : g[2] \in accts /\ g[2] \notin seen[g[1]]}
  <1>1. PICK sent \in SUBSET due :
            /\ modeCmds' = modeCmds \cup sent
            /\ given' = given \cup sent
            /\ tracked' = [c \in Hall |-> seen[c] \cup {n \in Bob : <<c, n>> \in sent}]
            /\ modeKeys' = keys \cup {g[1] : g \in sent}
    BY DEF GrantDue
  <1>2. \A g \in sent : /\ g \in Hall \X Bob
                        /\ g[2] \notin seen[g[1]]
                        /\ g = <<g[1], g[2]>> /\ g[1] \in Hall /\ g[2] \in Bob
    BY DEF Grant
  <1>3. tracked' \in [Hall -> SUBSET Bob] BY <1>1
  <1>4. \A c \in Hall : tracked'[c] = seen[c] \cup {n \in Bob : <<c, n>> \in sent} BY <1>1
  <1>5. \A g \in given : g[1] \in Hall /\ g[2] \in seen[g[1]]
    BY DEF GivenIsTracked, Grant
  <1>6. ASSUME NEW g \in given' PROVE g[2] \in tracked'[g[1]]
    <2>1. CASE g \in given BY <2>1, <1>4, <1>5, ZenonT(60)
    <2>2. CASE g \in sent
      <3>1. g[1] \in Hall /\ g[2] \in Bob /\ <<g[1], g[2]>> \in sent BY <2>2, <1>2
      <3> QED BY <3>1, <1>4
    <2> QED BY <2>1, <2>2, <1>1
  <1>7. given' \subseteq Grant BY <1>1, <1>2 DEF GivenIsTracked, Grant
  <1>8. SentOnce BY <1>1, <1>2, <1>5 DEF SentOnce
  <1>9. modeKeys' \subseteq Hall BY <1>1, <1>2
  <1> QED BY <1>3, <1>6, <1>7, <1>8, <1>9 DEF GivenIsTracked

\* Accounts that are learned late lead to grants that are new.
LEMMA LearningIsNew ==
    ASSUME GrantInv, NEW nicks \in SUBSET Bob, LearnAccounts(nicks)
    PROVE  GivenIsTracked' /\ SentOnce /\ modeKeys' \subseteq Hall /\ accounts' \subseteq Bob
  <1>1. KnownChannels \X nicks \in SUBSET Grant
    BY DEF KnownChannels, GrantInv, KnownAreReal, Grant
  <1>2. GrantDue(KnownChannels \X nicks, accounts', tracked, modeKeys) BY DEF LearnAccounts
  <1>3. GivenIsTracked' /\ SentOnce /\ modeKeys' \subseteq Hall
    BY <1>1, <1>2, DueIsNew DEF GrantInv, GivenIsTracked, KnownAreReal
  <1> QED BY <1>3 DEF LearnAccounts, GrantInv, KnownAreReal

\* Steps that send nothing and leave the table of modes.
LEMMA QuietSteps ==
    ASSUME GrantInv, UNCHANGED viewVars
    PROVE  GivenIsTracked' /\ SentOnce /\ modeKeys' \subseteq Hall
  BY DEF GrantInv, GivenIsTracked, KnownAreReal, SentOnce, viewVars

\* Every step keeps the invariant and sends what was not given before.
LEMMA GrantSteps ==
    ASSUME GrantInv, [ModesNext]_modeVars
    PROVE  GrantInv' /\ SentOnce
  <1> DEFINE Goal == GrantInv' /\ SentOnce
  <1> USE DEF GrantInv
  <1>1. ASSUME NEW n \in Bob, BobQuits(n) PROVE Goal
    BY <1>1, QuietSteps DEF BobQuits, KnownAreReal
  <1>2. ASSUME NEW n \in Bob, BobLogsIn(n) PROVE Goal
    <2>1. GivenIsTracked' /\ SentOnce /\ modeKeys' \subseteq Hall /\ accounts' \subseteq Bob
      <3>1. CASE \E c \in chairIn : n \in members[c]
        <4>1. LearnAccounts({n}) /\ {n} \in SUBSET Bob BY <1>2, <3>1 DEF BobLogsIn
        <4> QED BY <4>1, LearningIsNew
      <3>2. CASE ~\E c \in chairIn : n \in members[c]
        BY <1>2, <3>2, QuietSteps DEF BobLogsIn, KnownAreReal
      <3> QED BY <3>1, <3>2
    <2> QED BY <1>2, <2>1 DEF BobLogsIn, KnownAreReal
  <1>3. ASSUME NEW n \in Bob, BobLogsOut(n) PROVE Goal
    BY <1>3, QuietSteps DEF BobLogsOut, KnownAreReal
  <1>4. ASSUME NEW c \in Hall, OtherMode(c) PROVE Goal
    BY <1>4 DEF OtherMode, KnownAreReal, GivenIsTracked, SentOnce, serverVars
  <1>5. ASSUME NEW c \in Hall, ChairJoins(c) PROVE Goal
    BY <1>5, QuietSteps DEF ChairJoins, KnownAreReal, serverVars
  <1>6. ASSUME NEW c \in Hall, NamesReply(c) PROVE Goal
    <2> DEFINE keys == IF hasMode[c] = {} THEN modeKeys ELSE modeKeys \cup {c}
    <2>1. {c} \X members[c] \in SUBSET Grant BY DEF KnownAreReal, Grant
    <2>2. ShownBy(c) \in [Hall -> SUBSET Bob] /\ \A d \in Hall : tracked[d] \subseteq ShownBy(c)[d]
      BY DEF ShownBy, KnownAreReal, GivenIsTracked
    <2>3. keys \in SUBSET Hall BY DEF KnownAreReal
    <2>4. GrantDue({c} \X members[c], accounts, ShownBy(c), keys) BY <1>6 DEF NamesReply
    <2> HIDE DEF keys
    <2>5. GivenIsTracked' /\ SentOnce /\ modeKeys' \subseteq Hall
      BY <2>1, <2>2, <2>3, <2>4, DueIsNew
    <2> QED BY <1>6, <2>5 DEF NamesReply, KnownAreReal, serverVars
  <1>7. ASSUME NEW c \in Hall, WhoReply(c) PROVE Goal
    <2>1. members[c] \cap login \in SUBSET Bob BY DEF KnownAreReal
    <2>2. LearnAccounts(members[c] \cap login) BY <1>7 DEF WhoReply
    <2> QED BY <1>7, <2>1, <2>2, LearningIsNew DEF WhoReply, KnownAreReal, serverVars
  <1>8. ASSUME NEW c \in Hall, SweepCommand(c) PROVE Goal
    <2>1. {c} \X accounts \in SUBSET Grant BY DEF KnownAreReal, Grant
    <2>2. GrantDue({c} \X accounts, accounts, tracked, modeKeys) BY <1>8 DEF SweepCommand
    <2>3. GivenIsTracked' /\ SentOnce /\ modeKeys' \subseteq Hall
      BY <2>1, <2>2, DueIsNew DEF GivenIsTracked, KnownAreReal
    <2> QED BY <1>8, <2>3 DEF SweepCommand, KnownAreReal, serverVars
  <1>9. ASSUME NEW c \in Hall, NEW n \in Bob, BobJoins(n, c) PROVE Goal
    <2>1. GivenIsTracked' /\ SentOnce /\ modeKeys' \subseteq Hall /\ accounts' \subseteq Bob
      <3>1. CASE c \in chairIn
        <4>1. {<<c, n>>} \in SUBSET Grant BY DEF Grant
        <4>2. GrantDue({<<c, n>>}, accounts', tracked, modeKeys) /\ accounts' \subseteq Bob
          BY <1>9, <3>1 DEF BobJoins, KnownAreReal
        <4> QED BY <4>1, <4>2, DueIsNew DEF GivenIsTracked, KnownAreReal
      <3>2. CASE c \notin chairIn
        BY <1>9, <3>2, QuietSteps DEF BobJoins, KnownAreReal
      <3> QED BY <3>1, <3>2
    <2> QED BY <1>9, <2>1 DEF BobJoins, KnownAreReal
  <1>10. ASSUME NEW c \in Hall, NEW n \in Bob, ModeTaken(c, n) PROVE Goal
    <2>1. SentOnce BY <1>10 DEF ModeTaken, SentOnce
    <2>2. KnownAreReal' BY <1>10 DEF ModeTaken, KnownAreReal
    <2>3. GivenIsTracked'
      <3>1. CASE c \in chairIn
        <4>1. /\ tracked' = [tracked EXCEPT ![c] = @ \ {n}]
              /\ given' = given \ {<<c, n>>}
          BY <1>10, <3>1 DEF ModeTaken
        <4>2. ASSUME NEW g \in given' PROVE g[2] \in tracked'[g[1]]
          <5>1. g \in given /\ g # <<c, n>> /\ g[2] \in tracked[g[1]] BY <4>1 DEF GivenIsTracked
          <5>2. g = <<g[1], g[2]>> /\ g[1] \in Hall BY <5>1 DEF GivenIsTracked, Grant
          <5>3. g[1] # c \/ g[2] # n BY <5>1, <5>2
          <5> QED BY <4>1, <5>1, <5>2, <5>3 DEF GivenIsTracked
        <4> QED BY <4>1, <4>2 DEF GivenIsTracked
      <3>2. CASE c \notin chairIn BY <1>10, <3>2 DEF ModeTaken, GivenIsTracked
      <3> QED BY <3>1, <3>2
    <2> QED BY <2>1, <2>2, <2>3
  <1>11. ASSUME NEW g \in modeCmds, ServerSets(g) PROVE Goal
    BY <1>11 DEF ServerSets, KnownAreReal, GivenIsTracked, SentOnce
  <1>12. CASE ChairLost
    BY <1>12 DEF ChairLost, KnownAreReal, GivenIsTracked, SentOnce, serverVars
  <1>13. CASE UNCHANGED modeVars
    BY <1>13, QuietSteps DEF modeVars, serverVars, KnownAreReal
  <1> QED
    BY <1>1, <1>2, <1>3, <1>4, <1>5, <1>6, <1>7, <1>8, <1>9, <1>10, <1>11, <1>12, <1>13
       DEF ModesNext

\* JOIN, ACCOUNT, NAMES, WHO and !sweep in any order make the chair send a MODE
\* once, until it sees the mode taken back (maybe_grant).
THEOREM GrantsAreSentOnce == ModesSpec => GrantsOnce
  <1>1. GrantInv /\ [ModesNext]_modeVars => GrantInv' BY GrantSteps
  <1>2. GrantInv /\ [ModesNext]_modeVars =>
          [\A g \in modeCmds' \ modeCmds : g \notin given]_modeVars
    BY GrantSteps DEF SentOnce
  <1> QED BY <1>1, <1>2, GrantInitially, PTL DEF ModesSpec, GrantsOnce

-----------------------------------------------------------------------------
(* The channels.                                                           *)

\* Who refused a JOIN, or kicked the chair too often, is asked by none of the
\* ways to a JOIN: LIST, the rejoin threads and a reconnect.
LEMMA StepsStayOut == [LinkNext]_linkVars => joining' \cap hardFail \subseteq joining
  <1> SUFFICES ASSUME [LinkNext]_linkVars PROVE joining' \cap hardFail \subseteq joining
    OBVIOUS
  <1>1. CASE Drop BY <1>1 DEF Drop
  <1>2. CASE ServerBack BY <1>2 DEF ServerBack
  <1>3. CASE RecoverInPlace \/ LoseSocket BY <1>3 DEF RecoverInPlace, LoseSocket
  <1>4. CASE Reconnect \/ RetryFails BY <1>4 DEF Reconnect, RetryFails
  <1>5. CASE ListTick BY <1>5 DEF ListTick
  <1>6. CASE ListReply BY <1>6 DEF ListReply, ToJoin
  <1>7. ASSUME NEW c \in Channel, JoinOk(c) \/ JoinRefused(c) \/ Kicked(c) \/ Rejoin(c)
        PROVE  joining' \cap hardFail \subseteq joining
    BY <1>7 DEF JoinOk, JoinRefused, Kicked, Rejoin, MayRejoin
  <1>8. CASE UNCHANGED linkVars BY <1>8 DEF linkVars
  <1> QED BY <1>1, <1>2, <1>3, <1>4, <1>5, <1>6, <1>7, <1>8 DEF LinkNext

\* A channel that refused a JOIN is not asked again, in whatever order LIST,
\* kicks, rejoin threads and reconnects come (AutoJoinController).
THEOREM RefusalsStand == LinkSpec => RefusedStaysOut
  <1>1. [LinkNext]_linkVars => [joining' \cap hardFail \subseteq joining]_linkVars
    BY StepsStayOut
  <1> QED BY <1>1, PTL DEF LinkSpec, RefusedStaysOut

-----------------------------------------------------------------------------
(* The connection.                                                         *)

LinkFlags ==
    /\ accepting \in BOOLEAN /\ sock \in BOOLEAN /\ alive \in BOOLEAN
    /\ throttled \in BOOLEAN /\ asked \in BOOLEAN

\* The wait that an attempt after n failures has at least, and any wait there is.
Share(n) == Least(22500, 1000 * 2 ^ n)
IsWait(w) == w \in 0 .. LongestWait

\* Every failure is counted where the wait is computed.
LinkCounts ==
    /\ retries \in 0 .. MaxRetry /\ failed = retries
    /\ IsWait(waited)
    /\ drops \in 0 .. MaxDrops /\ kicks \in 0 .. MaxKicks

\* The kicks of a channel are counted up to the one that ends its rejoining.
LinkChannels ==
    /\ present \subseteq Channel /\ joined \subseteq Channel /\ hardFail \subseteq Channel
    /\ joining \subseteq Channel /\ rejoining \subseteq Channel
    /\ kickAttempts \in [Channel -> 0 .. KickLimit + 1]
    /\ \A c \in Channel \ hardFail : kickAttempts[c] <= KickLimit

\* A client without a socket, or with failures behind it, has no connection.
LinkEnds == (sock \/ ~alive) /\ (failed = 0 \/ ~alive)

LinkInv == LinkFlags /\ LinkCounts /\ LinkChannels /\ LinkEnds

\* A power of two is a number: it counts the subsets of a set.
LEMMA PowerIsNat ==
    ASSUME NEW n \in Nat
    PROVE  2 ^ n \in Nat
  <1>1. IsFiniteSet(1 .. n) /\ Cardinality(1 .. n) = n BY FS_Interval
  <1>2. IsFiniteSet(SUBSET (1 .. n)) /\ Cardinality(SUBSET (1 .. n)) = 2 ^ Cardinality(1 .. n)
    BY <1>1, FS_SUBSET
  <1>3. Cardinality(SUBSET (1 .. n)) \in Nat BY <1>2, FS_CardinalityType
  <1> QED BY <1>1, <1>2, <1>3

\* Three quarters of a number are at most the number, and five are at least it.
LEMMA Quarters ==
    ASSUME NEW r \in Nat, r <= 30000
    PROVE  /\ (r * 3) \div 4 \in Nat /\ (r * 3) \div 4 <= r
           /\ (r * 5) \div 4 \in Nat /\ (r * 5) \div 4 <= 37500
           /\ (r * 5) \div 4 >= r
  <1>1. (r * 3) \div 4 \in Nat OBVIOUS
  <1>2. (r * 3) \div 4 <= r OBVIOUS
  <1>3. (r * 5) \div 4 \in Nat OBVIOUS
  <1>4. (r * 5) \div 4 <= 37500 OBVIOUS
  <1>5. (r * 5) \div 4 >= r BY SMTT(30)
  <1> QED BY <1>1, <1>2, <1>3, <1>4, <1>5

\* Whatever the jitter, the wait of an attempt is at least half the doubled one,
\* up to the cap, and never more than five quarters of the cap.
LEMMA DelayIsLong ==
    ASSUME NEW n \in Nat, NEW d \in Delay(n + 1)
    PROVE  IsWait(d) /\ d >= Share(n)
  <1> DEFINE p   == 2 ^ n
             raw == Least(30000, 2000 * p)
             lo  == (raw * 3) \div 4
             hi  == (raw * 5) \div 4
             w   == Least(22500, 1000 * p)
  <1>1. p \in Nat BY PowerIsNat
  <1>2. n + 1 - 1 = n OBVIOUS
  <1>3. d \in {lo, raw, hi} BY <1>2 DEF Delay
  <1> HIDE DEF p
  <1>4. raw \in Nat /\ raw <= 30000 /\ (raw = 30000 \/ raw = 2000 * p) BY <1>1 DEF Least
  <1>5. w \in Nat /\ w <= 22500 /\ w <= 1000 * p BY <1>1 DEF Least
  <1>6. lo >= 22500 \/ lo >= 1000 * p
    <2>1. CASE raw = 30000 BY <2>1
    <2>2. CASE raw = 2000 * p
      <3>1. (raw * 3) \div 4 = 1500 * p BY <1>1, <2>2
      <3> QED BY <1>1, <3>1
    <2> QED BY <1>4, <2>1, <2>2
  <1> HIDE DEF raw
  <1>7. lo \in Nat /\ lo <= raw /\ hi \in Nat /\ hi <= 37500 /\ hi >= raw
    BY <1>4, Quarters
  <1> HIDE DEF lo, hi, w
  <1>8. d \in Nat /\ d <= 37500 /\ d >= lo BY <1>3, <1>4, <1>7
  <1>9. d >= w BY <1>1, <1>5, <1>6, <1>7, <1>8
  <1> QED BY <1>8, <1>9 DEF p, w, IsWait, LongestWait, Share

\* The invariant holds when the chair has started.
LEMMA LinkInitially == LinkInit => LinkInv
  <1> SUFFICES ASSUME LinkInit PROVE LinkInv
    OBVIOUS
  <1>1. LinkFlags /\ LinkEnds
    <2>1. (accepting = TRUE) /\ (sock = TRUE) /\ (alive = TRUE) /\ (throttled = FALSE)
          /\ (asked = TRUE) /\ (failed = 0)
      BY Zenon DEF LinkInit
    <2> QED BY <2>1, Zenon DEF LinkFlags, LinkEnds
  <1>2. LinkCounts BY LinkAssumption DEF LinkInit, LinkCounts, IsWait, LongestWait
  <1>3. LinkChannels BY LinkAssumption DEF LinkInit, LinkChannels, KickLimit
  <1> QED BY <1>1, <1>2, <1>3, Zenon DEF LinkInv

\* An attempt that is not the first in a row waits, whatever comes of it.
LEMMA AttemptsWait ==
    ASSUME LinkCounts, Connects \/ Refused
    PROVE  /\ IsWait(waited')
           /\ failed # 0 => waited' >= Share(failed)
           /\ retries' \in 0 .. MaxRetry /\ failed' = retries'
  <1>1. failed \in Nat /\ retries = failed /\ failed <= MaxRetry /\ MaxRetry \in Nat \ {0}
    BY LinkAssumption DEF LinkCounts
  <1>2. waited' \in Wait(failed + 1)
    BY <1>1 DEF Connects, Refused
  <1>3. waited' \in Delay(failed + 1) \/ (waited' = 0 /\ failed = 0)
    BY <1>1, <1>2 DEF Wait
  <1>4. retries' \in 0 .. MaxRetry /\ failed' = retries'
    BY <1>1 DEF Connects, Refused, Least
  <1>5. CASE waited' = 0 /\ failed = 0 BY <1>4, <1>5 DEF IsWait, LongestWait
  <1>6. CASE waited' \in Delay(failed + 1)
    <2>1. IsWait(waited') /\ waited' >= Share(failed)
      BY <1>1, <1>6, DelayIsLong, Zenon
    <2> QED BY <1>4, <2>1, Zenon
  <1> QED BY <1>3, <1>5, <1>6, Zenon

\* Flags stay flags.
LEMMA FlagSteps == LinkFlags /\ [LinkNext]_linkVars => LinkFlags'
  <1> SUFFICES ASSUME LinkFlags, [LinkNext]_linkVars PROVE LinkFlags'
    OBVIOUS
  <1> USE DEF LinkFlags
  <1>1. CASE Drop BY <1>1, Zenon DEF Drop
  <1>2. CASE ServerBack BY <1>2, Zenon DEF ServerBack
  <1>3. CASE RecoverInPlace BY <1>3, Zenon DEF RecoverInPlace, Connects
  <1>4. CASE LoseSocket BY <1>4, Zenon DEF LoseSocket, Refused
  <1>5. CASE Reconnect BY <1>5, Zenon DEF Reconnect, Connects
  <1>6. CASE RetryFails BY <1>6, Zenon DEF RetryFails, Refused
  <1>7. CASE ListTick BY <1>7, Zenon DEF ListTick
  <1>8. CASE ListReply BY <1>8, Zenon DEF ListReply
  <1>9. ASSUME NEW c \in Channel, JoinOk(c) \/ JoinRefused(c) \/ Kicked(c) \/ Rejoin(c)
        PROVE  LinkFlags'
    BY <1>9, Zenon DEF JoinOk, JoinRefused, Kicked, Rejoin
  <1>10. CASE UNCHANGED linkVars BY <1>10, Zenon DEF linkVars
  <1> QED BY <1>1, <1>2, <1>3, <1>4, <1>5, <1>6, <1>7, <1>8, <1>9, <1>10, Zenon DEF LinkNext

\* The counts stay within their bounds, and so does the wait.
LEMMA CountSteps == LinkCounts /\ [LinkNext]_linkVars => LinkCounts'
  <1> SUFFICES ASSUME LinkCounts, [LinkNext]_linkVars PROVE LinkCounts'
    OBVIOUS
  <1>1. CASE Drop BY <1>1, LinkAssumption DEF Drop, channelVars, LinkCounts
  <1>2. ASSUME Connects \/ Refused, UNCHANGED <<drops, kicks>> PROVE LinkCounts'
    <2>1. IsWait(waited') /\ retries' \in 0 .. MaxRetry /\ failed' = retries'
      BY <1>2, AttemptsWait, Zenon
    <2>2. drops' = drops /\ kicks' = kicks BY <1>2
    <2> QED BY <2>1, <2>2, Zenon DEF LinkCounts
  <1>3. CASE RecoverInPlace \/ LoseSocket BY <1>2, <1>3 DEF RecoverInPlace, LoseSocket, channelVars
  <1>4. CASE Reconnect \/ RetryFails BY <1>2, <1>4 DEF Reconnect, RetryFails, channelVars
  <1>5. ASSUME NEW c \in Channel, Kicked(c) PROVE LinkCounts'
    <2>1. /\ kicks < MaxKicks /\ kicks' = kicks + 1
          /\ UNCHANGED <<retries, failed, waited, drops>>
      BY <1>5 DEF Kicked
    <2> QED BY <2>1, LinkAssumption DEF LinkCounts
  <1>6. ASSUME UNCHANGED <<retries, failed, waited, drops, kicks>> PROVE LinkCounts'
    BY <1>6 DEF LinkCounts
  <1>7. CASE ServerBack BY <1>6, <1>7 DEF ServerBack
  <1>8. CASE ListTick BY <1>6, <1>8 DEF ListTick, channelVars
  <1>9. CASE ListReply BY <1>6, <1>9 DEF ListReply
  <1>10. ASSUME NEW c \in Channel, JoinOk(c) \/ JoinRefused(c) \/ Rejoin(c) PROVE LinkCounts'
    BY <1>6, <1>10 DEF JoinOk, JoinRefused, Rejoin
  <1>11. CASE UNCHANGED linkVars BY <1>6, <1>11 DEF linkVars
  <1> QED BY <1>1, <1>3, <1>4, <1>5, <1>7, <1>8, <1>9, <1>10, <1>11 DEF LinkNext

\* Channels stay channels, and the eight kicks are not passed without a note.
LEMMA ChannelSteps == LinkChannels /\ [LinkNext]_linkVars => LinkChannels'
  <1> SUFFICES ASSUME LinkChannels, [LinkNext]_linkVars PROVE LinkChannels'
    OBVIOUS
  <1> USE DEF LinkChannels
  <1>1. CASE Drop BY <1>1 DEF Drop, channelVars
  <1>2. CASE ServerBack BY <1>2 DEF ServerBack
  <1>3. CASE RecoverInPlace \/ LoseSocket BY <1>3 DEF RecoverInPlace, LoseSocket, channelVars
  <1>4. CASE Reconnect \/ RetryFails BY <1>4 DEF Reconnect, RetryFails, channelVars
  <1>5. CASE ListTick BY <1>5 DEF ListTick, channelVars
  <1>6. CASE ListReply BY <1>6 DEF ListReply, ToJoin
  <1>7. ASSUME NEW c \in Channel, JoinOk(c) PROVE LinkChannels' BY <1>7 DEF JoinOk, KickLimit
  <1>8. ASSUME NEW c \in Channel, JoinRefused(c) PROVE LinkChannels' BY <1>8 DEF JoinRefused
  <1>9. ASSUME NEW c \in Channel, Kicked(c) PROVE LinkChannels'
    <2>1. CASE c \in hardFail BY <1>9, <2>1 DEF Kicked
    <2>2. CASE c \notin hardFail
      <3>1. kickAttempts[c] \in 0 .. KickLimit BY <2>2 DEF KickLimit
      <3> QED BY <1>9, <2>2, <3>1 DEF Kicked, KickLimit
    <2> QED BY <2>1, <2>2
  <1>10. ASSUME NEW c \in Channel, Rejoin(c) PROVE LinkChannels' BY <1>10 DEF Rejoin
  <1>11. CASE UNCHANGED linkVars BY <1>11 DEF linkVars
  <1> QED BY <1>1, <1>2, <1>3, <1>4, <1>5, <1>6, <1>7, <1>8, <1>9, <1>10, <1>11 DEF LinkNext

\* Only an attempt that fails is counted, and it is made without a connection.
LEMMA EndSteps == LinkEnds /\ [LinkNext]_linkVars => LinkEnds'
  <1> SUFFICES ASSUME LinkEnds, [LinkNext]_linkVars PROVE LinkEnds'
    OBVIOUS
  <1> USE DEF LinkEnds
  <1>1. CASE Drop BY <1>1, Zenon DEF Drop
  <1>2. CASE RecoverInPlace \/ Reconnect BY <1>2, Zenon DEF RecoverInPlace, Reconnect, Connects
  <1>3. CASE LoseSocket \/ RetryFails
    <2>1. ~alive /\ (alive' = alive) BY <1>3, Zenon DEF LoseSocket, RetryFails, Refused
    <2> QED BY <2>1, Zenon
  <1>4. ASSUME UNCHANGED <<sock, alive, failed>> PROVE LinkEnds'
    <2>1. sock' = sock /\ alive' = alive /\ failed' = failed BY <1>4
    <2> QED BY <2>1, Zenon
  <1>5. CASE ServerBack BY <1>4, <1>5, Zenon DEF ServerBack
  <1>6. CASE ListTick BY <1>4, <1>6, Zenon DEF ListTick
  <1>7. CASE ListReply BY <1>4, <1>7, Zenon DEF ListReply
  <1>8. ASSUME NEW c \in Channel, JoinOk(c) \/ JoinRefused(c) \/ Kicked(c) \/ Rejoin(c)
        PROVE  LinkEnds'
    BY <1>4, <1>8, Zenon DEF JoinOk, JoinRefused, Kicked, Rejoin
  <1>9. CASE UNCHANGED linkVars BY <1>4, <1>9, Zenon DEF linkVars
  <1> QED BY <1>1, <1>2, <1>3, <1>5, <1>6, <1>7, <1>8, <1>9, Zenon DEF LinkNext

\* Every step keeps the invariant.
LEMMA LinkSteps == LinkInv /\ [LinkNext]_linkVars => LinkInv'
  BY FlagSteps, CountSteps, ChannelSteps, EndSteps, Zenon DEF LinkInv

\* The connection and the channels keep their types.
LEMMA LinkTypes == LinkSpec => []LinkTypeOK
  <1>1. LinkInv => LinkTypeOK
    <2> SUFFICES ASSUME LinkInv PROVE LinkTypeOK OBVIOUS
    <2>1. LinkFlags /\ LinkCounts /\ LinkChannels BY Zenon DEF LinkInv
    <2>2. /\ retries \in 0 .. MaxRetry /\ failed \in 0 .. MaxRetry /\ waited \in 0 .. LongestWait
          /\ drops \in 0 .. MaxDrops /\ kicks \in 0 .. MaxKicks
      BY <2>1, Zenon DEF LinkCounts, IsWait
    <2>3. /\ present \subseteq Channel /\ joined \subseteq Channel /\ hardFail \subseteq Channel
          /\ joining \subseteq Channel /\ rejoining \subseteq Channel
          /\ kickAttempts \in [Channel -> 0 .. KickLimit + 1]
      BY <2>1, Zenon DEF LinkChannels
    <2>4. /\ accepting \in BOOLEAN /\ sock \in BOOLEAN /\ alive \in BOOLEAN
          /\ throttled \in BOOLEAN /\ asked \in BOOLEAN
      BY <2>1, Zenon DEF LinkFlags
    <2> QED BY <2>2, <2>3, <2>4, Zenon DEF LinkTypeOK
  <1> QED BY <1>1, LinkInitially, LinkSteps, PTL DEF LinkSpec

\* Whatever drops, throttle errors and short successes come, an attempt to
\* connect after failures waits the longer, the more there were (reconnect
\* and throttle_delay_s).
THEOREM StormsBackOff == LinkSpec => StormBacksOff
  <1> DEFINE Waits == failed > 0 /\ (retries' # retries \/ alive' # alive) =>
                        waited' >= Least(22500, 1000 * 2 ^ failed)
  <1>1. LinkInv /\ [LinkNext]_linkVars => [Waits]_linkVars
    <2> SUFFICES ASSUME LinkInv, LinkNext, failed > 0, retries' # retries \/ alive' # alive
                 PROVE  waited' >= Least(22500, 1000 * 2 ^ failed)
      OBVIOUS
    <2>1. LinkCounts /\ LinkEnds BY Zenon DEF LinkInv
    <2>2. failed # 0 BY <2>1 DEF LinkCounts
    <2>3. ~alive BY <2>1, <2>2, Zenon DEF LinkEnds
    <2>4. ~Drop BY <2>3, Zenon DEF Drop
    <2>5. ASSUME UNCHANGED <<retries, alive>> PROVE FALSE
      <3>1. retries' = retries /\ alive' = alive BY <2>5
      <3> QED BY <3>1, Zenon
    <2>6. Connects \/ Refused
      BY <2>4, <2>5, Zenon DEF LinkNext, ServerBack, RecoverInPlace, LoseSocket, Reconnect,
         RetryFails, ListTick, ListReply, JoinOk, JoinRefused, Kicked, Rejoin, channelVars
    <2>7. waited' >= Share(failed) BY <2>1, <2>2, <2>6, AttemptsWait, Zenon
    <2> QED BY <2>7 DEF Share
  <1> HIDE DEF Waits
  <1>2. LinkSpec => [][Waits]_linkVars BY <1>1, LinkInitially, LinkSteps, PTL DEF LinkSpec
  <1> QED BY <1>2 DEF Waits, StormBacksOff

-----------------------------------------------------------------------------
(* Recycling.                                                              *)

\* Whether a gate was closed by a route of an age, and whether it is closed.
HitAt(k, a) == IF gate[k] = a THEN 1 ELSE 0
IsClosed(k) == IF gate[k] < Cooldown THEN 1 ELSE 0

\* A gate that is closed was closed by a route of its age, that the machine heard.
\* Since the last restart it heard no other, and a restart may have forgotten two.
RoutesByGate ==
    \A m \in Machine :
        /\ \A a \in 0 .. Cooldown - 1 :
              /\ HitAt(m, a) + HitAt(Fleet, a) <= routed[m][a]
              /\ a < restartAge => routed[m][a] <= HitAt(m, a) + HitAt(Fleet, a)
        /\ IsFiniteSet(RoutesTo(m))
        /\ Cardinality(RoutesTo(m)) <= 2 * chairStarts + IsClosed(m) + IsClosed(Fleet)

RecycleInv == RecycleTypeOK /\ RoutesByGate

\* A set has at most as many elements as one that holds it, and two at most when
\* it is held by two.
LEMMA FewElements ==
    ASSUME NEW S, IsFiniteSet(S)
    PROVE  /\ Cardinality(S) \in Nat
           /\ \A T \in SUBSET S : IsFiniteSet(T) /\ Cardinality(T) \in Nat
                                  /\ Cardinality(T) <= Cardinality(S)
           /\ \A x : IsFiniteSet(S \cup {x}) /\ Cardinality(S \cup {x}) <= Cardinality(S) + 1
           /\ \A x \in S : IsFiniteSet(S \ {x}) /\ Cardinality(S \ {x}) = Cardinality(S) - 1
           /\ \A x, y : S \subseteq {x, y} => Cardinality(S) <= 2
  <1>1. Cardinality(S) \in Nat BY FS_CardinalityType
  <1>2. ASSUME NEW T \in SUBSET S
        PROVE  IsFiniteSet(T) /\ Cardinality(T) \in Nat /\ Cardinality(T) <= Cardinality(S)
    BY <1>2, FS_Subset, FS_CardinalityType
  <1>3. ASSUME NEW x PROVE IsFiniteSet(S \cup {x}) /\ Cardinality(S \cup {x}) <= Cardinality(S) + 1
    BY <1>1, FS_AddElement
  <1>4. ASSUME NEW x \in S PROVE IsFiniteSet(S \ {x}) /\ Cardinality(S \ {x}) = Cardinality(S) - 1
    BY FS_RemoveElement
  <1>5. ASSUME NEW x, NEW y, S \subseteq {x, y} PROVE Cardinality(S) <= 2
    <2>1. IsFiniteSet({x}) /\ Cardinality({x}) = 1 BY FS_Singleton
    <2>2. IsFiniteSet({x} \cup {y}) /\ Cardinality({x} \cup {y}) <= 2
      BY <2>1, FS_AddElement
    <2>3. S \in SUBSET ({x} \cup {y}) BY <1>5
    <2>4. Cardinality({x} \cup {y}) \in Nat BY <2>2, FS_CardinalityType
    <2> HIDE <1>5
    <2>5. Cardinality(S) <= Cardinality({x} \cup {y}) BY <2>2, <2>3, FS_Subset
    <2> QED BY <1>1, <2>2, <2>4, <2>5
  <1> QED BY <1>1, <1>2, <1>3, <1>4, <1>5

\* The elements of the routes to a machine.
LEMMA RouteIs ==
    ASSUME NEW m \in Machine, NEW p
    PROVE  p \in RoutesTo(m) <=> \E a \in 0 .. Cooldown - 1 : \E n \in 1 .. routed[m][a] : p = <<a, n>>
  BY DEF RoutesTo

\* No route and no restart yet.
LEMMA RecycleInitially == RecycleInit => RecycleInv
  <1> SUFFICES ASSUME RecycleInit PROVE RecycleInv
    OBVIOUS
  <1>1. RecycleTypeOK BY RecycleAssumption DEF RecycleInit, RecycleTypeOK
  <1>2. ASSUME NEW m \in Machine
        PROVE  /\ \A a \in 0 .. Cooldown - 1 :
                     /\ HitAt(m, a) + HitAt(Fleet, a) <= routed[m][a]
                     /\ a < restartAge => routed[m][a] <= HitAt(m, a) + HitAt(Fleet, a)
               /\ IsFiniteSet(RoutesTo(m))
               /\ Cardinality(RoutesTo(m)) <= 2 * chairStarts + IsClosed(m) + IsClosed(Fleet)
    <2>1. gate[m] = Cooldown /\ gate[Fleet] = Cooldown /\ chairStarts = 0
          /\ \A a \in 0 .. Cooldown - 1 : routed[m][a] = 0
      BY DEF RecycleInit, GateKey
    <2>2. RoutesTo(m) = {}
      <3>1. \A a \in 0 .. Cooldown - 1 : 1 .. routed[m][a] = {} BY <2>1
      <3> QED BY <3>1, RouteIs
    <2>3. IsFiniteSet(RoutesTo(m)) /\ Cardinality(RoutesTo(m)) = 0 BY <2>2, FS_EmptySet
    <2> QED BY <2>1, <2>3, RecycleAssumption DEF HitAt, IsClosed
  <1> QED BY <1>1, <1>2 DEF RecycleInv, RoutesByGate

\* A route passes a gate that was open and closes it.
LEMMA RouteKeeps ==
    ASSUME RecycleInv, NEW o \in Operator, NEW name \in MachineName, RecycleCmd(o, name)
    PROVE  RecycleInv'
  <1> DEFINE key == KeyOf(name)
  <1>0. /\ MachineNamed \in [MachineName -> Machine \cup {Fleet, NoMachine}]
        /\ Fleet \notin Machine /\ Cooldown \in Nat \ {0} /\ MaxRoutes \in Nat
        /\ chairStarts \in Nat
    BY RecycleAssumption DEF RecycleInv, RecycleTypeOK
  <1>1. /\ key \in Machine \cup {Fleet} /\ key \in GateKey
        /\ gate[key] = Cooldown /\ gate \in [GateKey -> 0 .. Cooldown]
        /\ gate' = [gate EXCEPT ![key] = 0]
    BY <1>0 DEF RecycleCmd, Allowed, KeyOf, RecycleInv, RecycleTypeOK, GateKey
  <1>2. UNCHANGED <<known, restartAge, chairStarts>> BY DEF RecycleCmd
  <1>3. \A m \in Machine : m \in Hears(name) <=> key \in {m, Fleet} BY DEF Hears, KeyOf
  <1>4. ASSUME NEW m \in Machine
        PROVE  /\ m \in GateKey /\ Fleet \in GateKey /\ m # Fleet
               /\ routed[m] \in [0 .. Cooldown - 1 -> 0 .. MaxRoutes]
               /\ routed[m][0] \in Nat /\ routed[m][0] + 1 \in 0 .. MaxRoutes
               /\ 0 \in 0 .. Cooldown - 1
               /\ key \in {m, Fleet} => routed'[m] = [routed[m] EXCEPT ![0] = @ + 1]
               /\ key \notin {m, Fleet} => routed'[m] = routed[m]
    BY <1>0, <1>3 DEF RecycleCmd, RecycleInv, RecycleTypeOK, GateKey
  <1>5. RecycleTypeOK'
    <2>1. ASSUME NEW m \in Machine PROVE routed'[m] \in [0 .. Cooldown - 1 -> 0 .. MaxRoutes]
      <3>1. CASE key \in {m, Fleet} BY <1>4, <3>1, ZenonT(40)
      <3> QED BY <1>4, <3>1
    <2>2. routed' \in [Machine -> [0 .. Cooldown - 1 -> 0 .. MaxRoutes]]
      BY <2>1 DEF RecycleCmd
    <2>3. gate' \in [GateKey -> 0 .. Cooldown] BY <1>0, <1>1
    <2> QED BY <1>2, <2>2, <2>3 DEF RecycleInv, RecycleTypeOK
  <1>6. ASSUME NEW m \in Machine
        PROVE  /\ \A a \in 0 .. Cooldown - 1 :
                     /\ HitAt(m, a)' + HitAt(Fleet, a)' <= routed'[m][a]
                     /\ a < restartAge' => routed'[m][a] <= HitAt(m, a)' + HitAt(Fleet, a)'
               /\ IsFiniteSet(RoutesTo(m)')
               /\ Cardinality(RoutesTo(m)') <= 2 * chairStarts' + IsClosed(m)' + IsClosed(Fleet)'
    <2>1. /\ IsFiniteSet(RoutesTo(m)) /\ Cardinality(RoutesTo(m)) \in Nat
          /\ Cardinality(RoutesTo(m)) <= 2 * chairStarts + IsClosed(m) + IsClosed(Fleet)
          /\ \A a \in 0 .. Cooldown - 1 :
                /\ HitAt(m, a) + HitAt(Fleet, a) <= routed[m][a]
                /\ a < restartAge => routed[m][a] <= HitAt(m, a) + HitAt(Fleet, a)
      BY FewElements DEF RecycleInv, RoutesByGate
    <2>2. CASE key \notin {m, Fleet}
      <3>1. gate'[m] = gate[m] /\ gate'[Fleet] = gate[Fleet] BY <1>1, <1>4, <2>2
      <3>2. RoutesTo(m)' = RoutesTo(m)
        <4>1. routed'[m] = routed[m] BY <1>4, <2>2
        <4> QED BY <4>1 DEF RoutesTo
      <3>3. /\ IsClosed(m)' = IsClosed(m) /\ IsClosed(Fleet)' = IsClosed(Fleet)
            /\ \A a \in 0 .. Cooldown - 1 : HitAt(m, a)' = HitAt(m, a) /\ HitAt(Fleet, a)' = HitAt(Fleet, a)
        BY <3>1 DEF IsClosed, HitAt
      <3> QED BY <1>2, <1>4, <2>1, <2>2, <3>2, <3>3
    <2>3. CASE key \in {m, Fleet}
      <3>0. /\ routed'[m] = [routed[m] EXCEPT ![0] = @ + 1] /\ routed[m][0] \in Nat
            /\ 0 \in 0 .. Cooldown - 1 /\ routed[m] \in [0 .. Cooldown - 1 -> 0 .. MaxRoutes]
        BY <1>4, <2>3
      <3>1. PICK other \in {m, Fleet} : other # key /\ {m, Fleet} = {key, other} BY <1>4, <2>3
      <3>2. gate'[key] = 0 /\ gate'[other] = gate[other] BY <1>1, <1>4, <3>1
      <3>3. /\ IsClosed(key) = 0 /\ IsClosed(key)' = 1 /\ IsClosed(other)' = IsClosed(other)
            /\ IsClosed(other) \in {0, 1}
            /\ IsClosed(m) + IsClosed(Fleet) = IsClosed(key) + IsClosed(other)
            /\ IsClosed(m)' + IsClosed(Fleet)' = IsClosed(key)' + IsClosed(other)'
        <4>1. /\ gate[key] >= Cooldown /\ ~(gate[key] < Cooldown) /\ 0 < Cooldown BY <1>0, <1>1
        <4>2. /\ IsClosed(key) = 0 /\ IsClosed(key)' = 1 /\ IsClosed(other)' = IsClosed(other)
              /\ IsClosed(other) \in {0, 1}
          BY <3>2, <4>1 DEF IsClosed
        <4>3. (key = m /\ other = Fleet) \/ (key = Fleet /\ other = m) BY <2>3, <3>1
        <4> HIDE DEF key
        <4> QED BY <4>2, <4>3 DEF IsClosed
      <3>4. ASSUME NEW a \in 0 .. Cooldown - 1
            PROVE  /\ HitAt(m, a)' + HitAt(Fleet, a)' <= routed'[m][a]
                   /\ a < restartAge' => routed'[m][a] <= HitAt(m, a)' + HitAt(Fleet, a)'
        <4>1. /\ HitAt(key, a) = 0 /\ HitAt(key, a)' = (IF a = 0 THEN 1 ELSE 0)
              /\ HitAt(other, a)' = HitAt(other, a) /\ HitAt(other, a) \in {0, 1}
              /\ HitAt(m, a) + HitAt(Fleet, a) = HitAt(key, a) + HitAt(other, a)
              /\ HitAt(m, a)' + HitAt(Fleet, a)' = HitAt(key, a)' + HitAt(other, a)'
          <5>1. gate[key] # a BY <1>0, <1>1
          <5>2. /\ HitAt(key, a) = 0 /\ HitAt(key, a)' = (IF a = 0 THEN 1 ELSE 0)
                /\ HitAt(other, a)' = HitAt(other, a) /\ HitAt(other, a) \in {0, 1}
            BY <3>2, <5>1 DEF HitAt
          <5>3. (key = m /\ other = Fleet) \/ (key = Fleet /\ other = m) BY <2>3, <3>1
          <5> HIDE DEF key
          <5> QED BY <5>2, <5>3 DEF HitAt
        <4>2. routed'[m][a] = routed[m][a] + (IF a = 0 THEN 1 ELSE 0) /\ routed[m][a] \in Nat
          BY <1>0, <3>0
        <4> QED BY <1>2, <2>1, <4>1, <4>2
      <3>5. RoutesTo(m)' = RoutesTo(m) \cup {<<0, routed[m][0] + 1>>}
        <4> DEFINE x == <<0, routed[m][0] + 1>>
        <4>1. /\ 1 .. routed'[m][0] = (1 .. routed[m][0]) \cup {routed[m][0] + 1}
              /\ \A a \in 0 .. Cooldown - 1 : a # 0 => routed'[m][a] = routed[m][a]
          BY <1>0, <3>0
        <4>2. x \in RoutesTo(m)'
          <5>1. x \in {0} \X (1 .. routed'[m][0]) BY <4>1
          <5> QED BY <3>0, <5>1 DEF RoutesTo
        <4>3. RoutesTo(m) \subseteq RoutesTo(m)' BY <4>1 DEF RoutesTo
        <4>4. ASSUME NEW p \in RoutesTo(m)', p # x PROVE p \in RoutesTo(m)
          <5>1. PICK a \in 0 .. Cooldown - 1 : p \in {a} \X (1 .. routed'[m][a])
            BY <4>4 DEF RoutesTo
          <5>2. p \in {a} \X (1 .. routed[m][a]) BY <4>1, <4>4, <5>1
          <5> QED BY <5>2 DEF RoutesTo
        <4> HIDE DEF x
        <4>5. RoutesTo(m)' = RoutesTo(m) \cup {x} BY <4>2, <4>3, <4>4
        <4> QED BY <4>5 DEF x
      <3>6. IsFiniteSet(RoutesTo(m)') /\ Cardinality(RoutesTo(m)') <= Cardinality(RoutesTo(m)) + 1
            /\ Cardinality(RoutesTo(m)') \in Nat
        <4>1. IsFiniteSet(RoutesTo(m)') /\ Cardinality(RoutesTo(m)') <= Cardinality(RoutesTo(m)) + 1
          BY <2>1, <3>5, FewElements
        <4> QED BY <4>1, FS_CardinalityType
      <3>7. Cardinality(RoutesTo(m)') <= 2 * chairStarts' + IsClosed(m)' + IsClosed(Fleet)'
        <4>1. /\ IsClosed(m) \in Nat /\ IsClosed(Fleet) \in Nat
              /\ IsClosed(m)' \in Nat /\ IsClosed(Fleet)' \in Nat
              /\ IsClosed(m)' + IsClosed(Fleet)' = IsClosed(m) + IsClosed(Fleet) + 1
          <5>1. /\ IsClosed(m) \in Nat /\ IsClosed(Fleet) \in Nat
                /\ IsClosed(m)' \in Nat /\ IsClosed(Fleet)' \in Nat
            BY DEF IsClosed
          <5> QED BY <3>3, <5>1
        <4> QED BY <1>0, <1>2, <2>1, <3>6, <4>1
      <3> QED BY <3>4, <3>6, <3>7
    <2> QED BY <2>2, <2>3
  <1> QED BY <1>5, <1>6 DEF RecycleInv, RoutesByGate

\* A tick: what is older than the window is forgotten, and with it the gates that
\* open again.
LEMMA TickForgets ==
    ASSUME RecycleInv, RecycleTick, NEW m \in Machine
    PROVE  /\ IsFiniteSet(RoutesTo(m)')
           /\ Cardinality(RoutesTo(m)') \in Nat
           /\ Cardinality(RoutesTo(m)')
                 <= Cardinality(RoutesTo(m)) - HitAt(m, Cooldown - 1) - HitAt(Fleet, Cooldown - 1)
  <1> DEFINE last == Cooldown - 1
             R    == RoutesTo(m)
             S    == RoutesTo(m)'
             young == {p \in R : p[1] # last}
             n    == HitAt(m, last) + HitAt(Fleet, last)
  <1>0. Cooldown \in Nat \ {0} BY RecycleAssumption
  <1>1. /\ last \in 0 .. Cooldown - 1 /\ routed[m] \in [0 .. Cooldown - 1 -> 0 .. MaxRoutes]
        /\ routed[m][last] \in Nat /\ n <= routed[m][last] /\ IsFiniteSet(R)
    BY <1>0, RecycleAssumption DEF RecycleInv, RecycleTypeOK, RoutesByGate
  <1>2. \A a \in 0 .. Cooldown - 1 : routed'[m][a] = IF a = 0 THEN 0 ELSE routed[m][a - 1]
    BY DEF RecycleTick
  <1>3. HitAt(m, last) \in {0, 1} /\ HitAt(Fleet, last) \in {0, 1} BY DEF HitAt
  <1>4. \A i \in 1 .. n : <<last, i>> \in R /\ <<last, i>> \notin young
    <2>1. ASSUME NEW i \in 1 .. n PROVE <<last, i>> \in {last} \X (1 .. routed[m][last])
      BY <1>1, <1>3
    <2> QED BY <1>1, <2>1 DEF RoutesTo
  <1>5. /\ IsFiniteSet(young) /\ Cardinality(young) \in Nat /\ Cardinality(R) \in Nat
        /\ Cardinality(young) <= Cardinality(R) - n
    <2> HIDE DEF R
    <2>0. young \subseteq R OBVIOUS
    <2> HIDE DEF young
    <2>1. CASE n = 0 BY <1>1, <2>0, <2>1, FewElements
    <2>2. CASE n = 1
      <3> DEFINE x == <<last, 1>>
      <3>1. x \in R /\ young \subseteq R \ {x} BY <1>4, <2>0, <2>2
      <3> HIDE DEF x, last
      <3>2. IsFiniteSet(R \ {x}) /\ Cardinality(R \ {x}) = Cardinality(R) - 1 /\ Cardinality(R) \in Nat
        BY <1>1, <3>1, FewElements
      <3>3. IsFiniteSet(young) /\ Cardinality(young) \in Nat /\ Cardinality(young) <= Cardinality(R \ {x})
        BY <3>1, <3>2, FewElements
      <3> QED BY <2>2, <3>2, <3>3
    <2>3. CASE n = 2
      <3> DEFINE x == <<last, 1>>
                 y == <<last, 2>>
                 Q == R \ {x}
                 P == Q \ {y}
      <3>1. x \in R /\ y \in R \ {x} /\ young \subseteq (R \ {x}) \ {y} BY <1>4, <2>0, <2>3
      <3> HIDE DEF x, y, last
      <3>2. IsFiniteSet(Q) /\ Cardinality(Q) = Cardinality(R) - 1 /\ Cardinality(R) \in Nat
        BY <1>1, <3>1, FewElements
      <3>3. y \in Q /\ young \subseteq P BY <3>1
      <3> HIDE DEF Q
      <3>4. IsFiniteSet(P) /\ Cardinality(P) = Cardinality(Q) - 1
        BY <3>2, <3>3, FewElements
      <3> HIDE DEF P
      <3>5. IsFiniteSet(young) /\ Cardinality(young) \in Nat /\ Cardinality(young) <= Cardinality(P)
        BY <3>3, <3>4, FewElements
      <3> QED BY <2>3, <3>2, <3>4, <3>5
    <2>4. n \in {0, 1, 2} BY <1>3
    <2> QED BY <2>1, <2>2, <2>3, <2>4
  <1> DEFINE f == [p \in S |-> <<p[1] - 1, p[2]>>]
  <1>6. ASSUME NEW p \in S
        PROVE  /\ p[1] \in 1 .. last /\ p[2] \in Nat /\ p = <<p[1], p[2]>>
               /\ f[p] = <<p[1] - 1, p[2]>> /\ f[p] \in young
    <2>1. PICK a \in 0 .. Cooldown - 1 : p \in {a} \X (1 .. routed'[m][a])
      BY <1>6 DEF RoutesTo
    <2>2. PICK i \in 1 .. routed'[m][a] : p = <<a, i>> BY <2>1
    <2>3. a # 0
      <3>1. a = 0 => 1 .. routed'[m][a] = {} BY <1>2
      <3> QED BY <2>2, <3>1
    <2>4. a \in 1 .. last /\ a - 1 \in 0 .. Cooldown - 1 /\ a - 1 # last BY <1>0, <2>3
    <2>5. routed'[m][a] = routed[m][a - 1] BY <1>2, <2>3
    <2>6. <<a - 1, i>> \in {a - 1} \X (1 .. routed[m][a - 1]) BY <2>2, <2>5
    <2>7. <<a - 1, i>> \in R BY <2>4, <2>6 DEF RoutesTo
    <2>8. f[p] = <<a - 1, i>> BY <1>6, <2>2
    <2> QED BY <2>2, <2>4, <2>7, <2>8
  <1>7. f \in Injection(S, young)
    <2>1. f \in [S -> young]
      <3> HIDE DEF young
      <3> QED BY <1>6
    <2>2. ASSUME NEW p \in S, NEW q \in S, f[p] = f[q] PROVE p = q
      <3> HIDE DEF f, S
      <3> QED BY <1>6, <2>2
    <2> HIDE DEF S, young
    <2>3. IsInjective(f)
      <3>1. DOMAIN f = S OBVIOUS
      <3> HIDE DEF f
      <3> QED BY <2>2, <3>1 DEF IsInjective
    <2> QED BY <2>1, <2>3 DEF Injection
  <1> HIDE DEF f
  <1>8. IsFiniteSet(S) /\ Cardinality(S) <= Cardinality(young)
    <2> HIDE DEF S, young
    <2> QED BY <1>5, <1>7, FS_Injection
  <1>9. Cardinality(S) \in Nat
    <2> HIDE DEF S
    <2> QED BY <1>8, FS_CardinalityType
  <1> HIDE DEF S, young, R
  <1>10. Cardinality(S) <= Cardinality(R) - HitAt(m, last) - HitAt(Fleet, last)
    BY <1>3, <1>5, <1>8, <1>9
  <1> QED BY <1>8, <1>9, <1>10 DEF S, R

\* A gate closed by a route of the last age is the one that opens.
LEMMA TickKeeps ==
    ASSUME RecycleInv, RecycleTick
    PROVE  RecycleInv'
  <1>0. /\ Cooldown \in Nat \ {0} /\ MaxRoutes \in Nat /\ Fleet \in GateKey
        /\ \A m \in Machine : m \in GateKey
    BY RecycleAssumption DEF GateKey
  <1>1. /\ gate \in [GateKey -> 0 .. Cooldown] /\ restartAge \in 0 .. Cooldown
        /\ chairStarts \in Nat /\ UNCHANGED <<known, chairStarts>>
        /\ gate' = [k \in GateKey |-> IF gate[k] < Cooldown THEN gate[k] + 1 ELSE Cooldown]
        /\ restartAge' = IF restartAge < Cooldown THEN restartAge + 1 ELSE Cooldown
    BY RecycleAssumption DEF RecycleInv, RecycleTypeOK, RecycleTick
  <1>2. RecycleTypeOK'
    <2>1. gate' \in [GateKey -> 0 .. Cooldown] BY <1>0, <1>1
    <2>2. restartAge' \in 0 .. Cooldown BY <1>0, <1>1
    <2>3. routed' \in [Machine -> [0 .. Cooldown - 1 -> 0 .. MaxRoutes]]
      <3> SUFFICES ASSUME NEW m \in Machine
                   PROVE  routed'[m] \in [0 .. Cooldown - 1 -> 0 .. MaxRoutes]
        BY DEF RecycleTick
      <3>1. routed[m] \in [0 .. Cooldown - 1 -> 0 .. MaxRoutes] BY DEF RecycleInv, RecycleTypeOK
      <3>2. routed'[m] = [a \in 0 .. Cooldown - 1 |-> IF a = 0 THEN 0 ELSE routed[m][a - 1]]
        BY DEF RecycleTick
      <3>3. ASSUME NEW a \in 0 .. Cooldown - 1
            PROVE  (IF a = 0 THEN 0 ELSE routed[m][a - 1]) \in 0 .. MaxRoutes
        <4>1. a # 0 => a - 1 \in 0 .. Cooldown - 1 BY <1>0
        <4> QED BY <1>0, <3>1, <4>1
      <3> QED BY <3>2, <3>3
    <2> QED BY <1>1, <2>1, <2>2, <2>3 DEF RecycleInv, RecycleTypeOK
  <1>3. ASSUME NEW k \in GateKey
        PROVE  /\ IsClosed(k)' = IsClosed(k) - HitAt(k, Cooldown - 1)
               /\ IsClosed(k)' \in {0, 1} /\ IsClosed(k) \in {0, 1}
               /\ HitAt(k, Cooldown - 1) \in {0, 1}
               /\ HitAt(k, 0)' = 0
               /\ \A a \in 1 .. Cooldown - 1 : HitAt(k, a)' = HitAt(k, a - 1)
    BY <1>0, <1>1 DEF IsClosed, HitAt
  <1>4. ASSUME NEW m \in Machine
        PROVE  /\ \A a \in 0 .. Cooldown - 1 :
                     /\ HitAt(m, a)' + HitAt(Fleet, a)' <= routed'[m][a]
                     /\ a < restartAge' => routed'[m][a] <= HitAt(m, a)' + HitAt(Fleet, a)'
               /\ IsFiniteSet(RoutesTo(m)')
               /\ Cardinality(RoutesTo(m)') <= 2 * chairStarts' + IsClosed(m)' + IsClosed(Fleet)'
    <2>1. /\ IsFiniteSet(RoutesTo(m)) /\ Cardinality(RoutesTo(m)) \in Nat
          /\ Cardinality(RoutesTo(m)) <= 2 * chairStarts + IsClosed(m) + IsClosed(Fleet)
      BY FewElements DEF RecycleInv, RoutesByGate
    <2>2. ASSUME NEW a \in 0 .. Cooldown - 1
          PROVE  /\ HitAt(m, a)' + HitAt(Fleet, a)' <= routed'[m][a]
                 /\ a < restartAge' => routed'[m][a] <= HitAt(m, a)' + HitAt(Fleet, a)'
      <3>1. routed'[m][a] = IF a = 0 THEN 0 ELSE routed[m][a - 1] BY DEF RecycleTick
      <3>2. CASE a = 0
        <4>1. HitAt(m, a)' = 0 /\ HitAt(Fleet, a)' = 0 BY <1>0, <1>3, <3>2
        <4> QED BY <3>1, <3>2, <4>1
      <3>3. CASE a # 0
        <4>1. a \in 1 .. Cooldown - 1 /\ a - 1 \in 0 .. Cooldown - 1 BY <1>0, <3>3
        <4>2. HitAt(m, a)' = HitAt(m, a - 1) /\ HitAt(Fleet, a)' = HitAt(Fleet, a - 1)
          BY <1>0, <1>3, <4>1
        <4>3. /\ HitAt(m, a - 1) + HitAt(Fleet, a - 1) <= routed[m][a - 1]
              /\ a - 1 < restartAge => routed[m][a - 1] <= HitAt(m, a - 1) + HitAt(Fleet, a - 1)
          BY <4>1 DEF RecycleInv, RoutesByGate
        <4>4. a < restartAge' => a - 1 < restartAge BY <1>0, <1>1, <4>1
        <4> QED BY <3>1, <3>3, <4>2, <4>3, <4>4
      <3> QED BY <3>2, <3>3
    <2>3. /\ IsFiniteSet(RoutesTo(m)') /\ Cardinality(RoutesTo(m)') \in Nat
          /\ Cardinality(RoutesTo(m)')
                <= Cardinality(RoutesTo(m)) - HitAt(m, Cooldown - 1) - HitAt(Fleet, Cooldown - 1)
      BY TickForgets
    <2>4. /\ IsClosed(m)' = IsClosed(m) - HitAt(m, Cooldown - 1)
          /\ IsClosed(Fleet)' = IsClosed(Fleet) - HitAt(Fleet, Cooldown - 1)
          /\ IsClosed(m) \in {0, 1} /\ IsClosed(Fleet) \in {0, 1}
          /\ HitAt(m, Cooldown - 1) \in {0, 1} /\ HitAt(Fleet, Cooldown - 1) \in {0, 1}
      BY <1>0, <1>3
    <2>5. Cardinality(RoutesTo(m)') <= 2 * chairStarts' + IsClosed(m)' + IsClosed(Fleet)'
      BY <1>1, <2>1, <2>3, <2>4
    <2> QED BY <2>2, <2>3, <2>5
  <1> QED BY <1>2, <1>4 DEF RecycleInv, RoutesByGate

\* A restart opens every gate; the routes it forgets are two at most.
LEMMA RestartKeeps ==
    ASSUME RecycleInv, RestartChair
    PROVE  RecycleInv'
  <1>0. /\ Cooldown \in Nat \ {0} /\ MaxChairStarts \in Nat /\ Fleet \in GateKey
        /\ \A m \in Machine : m \in GateKey
    BY RecycleAssumption DEF GateKey
  <1>1. /\ chairStarts \in Nat /\ chairStarts' = chairStarts + 1
        /\ gate' = [k \in GateKey |-> Cooldown]
        /\ restartAge' = 0 /\ routed' = routed
    BY <1>0 DEF RecycleInv, RecycleTypeOK, RestartChair
  <1>2. RecycleTypeOK'
    BY <1>0 DEF RestartChair, RecycleInv, RecycleTypeOK
  <1>3. \A k \in GateKey : /\ IsClosed(k)' = 0 /\ IsClosed(k) \in {0, 1}
                          /\ \A a \in 0 .. Cooldown - 1 : HitAt(k, a)' = 0
    BY <1>0, <1>1 DEF IsClosed, HitAt
  <1>4. ASSUME NEW m \in Machine
        PROVE  /\ \A a \in 0 .. Cooldown - 1 :
                     /\ HitAt(m, a)' + HitAt(Fleet, a)' <= routed'[m][a]
                     /\ a < restartAge' => routed'[m][a] <= HitAt(m, a)' + HitAt(Fleet, a)'
               /\ IsFiniteSet(RoutesTo(m)')
               /\ Cardinality(RoutesTo(m)') <= 2 * chairStarts' + IsClosed(m)' + IsClosed(Fleet)'
    <2>1. /\ IsFiniteSet(RoutesTo(m)) /\ Cardinality(RoutesTo(m)) \in Nat
          /\ Cardinality(RoutesTo(m)) <= 2 * chairStarts + IsClosed(m) + IsClosed(Fleet)
      BY FewElements DEF RecycleInv, RoutesByGate
    <2>2. RoutesTo(m)' = RoutesTo(m) BY <1>1 DEF RoutesTo
    <2>3. \A a \in 0 .. Cooldown - 1 : routed'[m][a] \in Nat
      BY <1>1, RecycleAssumption DEF RecycleInv, RecycleTypeOK
    <2>4. /\ IsClosed(m)' = 0 /\ IsClosed(Fleet)' = 0
          /\ IsClosed(m) \in {0, 1} /\ IsClosed(Fleet) \in {0, 1}
          /\ \A a \in 0 .. Cooldown - 1 : HitAt(m, a)' = 0 /\ HitAt(Fleet, a)' = 0
      BY <1>0, <1>3
    <2>5. Cardinality(RoutesTo(m)') <= 2 * chairStarts' + IsClosed(m)' + IsClosed(Fleet)'
      BY <1>1, <2>1, <2>2, <2>4
    <2>6. \A a \in 0 .. Cooldown - 1 : /\ HitAt(m, a)' + HitAt(Fleet, a)' <= routed'[m][a]
                                      /\ ~(a < restartAge')
      BY <1>1, <2>3, <2>4
    <2> QED BY <2>1, <2>2, <2>5, <2>6
  <1> QED BY <1>2, <1>4 DEF RecycleInv, RoutesByGate

\* Every step keeps the invariant.
LEMMA RecycleSteps == RecycleInv /\ [RecycleNext]_recycleVars => RecycleInv'
  <1> SUFFICES ASSUME RecycleInv, [RecycleNext]_recycleVars PROVE RecycleInv'
    OBVIOUS
  <1>1. ASSUME UNCHANGED <<gate, routed, restartAge, chairStarts>>, known' \subseteq Operator
        PROVE  RecycleInv'
    BY <1>1 DEF RecycleInv, RecycleTypeOK, RoutesByGate, RoutesTo, HitAt, IsClosed
  <1>2. ASSUME NEW o \in Operator, AccountLine(o) PROVE RecycleInv'
    BY <1>1, <1>2 DEF AccountLine, RecycleInv, RecycleTypeOK
  <1>3. CASE UNCHANGED recycleVars BY <1>1, <1>3 DEF recycleVars, RecycleInv, RecycleTypeOK
  <1> QED BY <1>2, <1>3, RouteKeeps, TickKeeps, RestartKeeps DEF RecycleNext

\* Gates and routes keep their types.
LEMMA RecycleTypes == RecycleSpec => []RecycleTypeOK
  <1>1. RecycleInv => RecycleTypeOK BY DEF RecycleInv
  <1> QED BY <1>1, RecycleInitially, RecycleSteps, PTL DEF RecycleSpec

\* For every fleet, set of names and cooldown: a machine is sent two routes at
\* most within a window without a restart, one under its name and one with the
\* fleet, and two more for each restart (decide_recycle, RecycleGate.allow).
THEOREM RecyclesAreFew == RecycleSpec => []FewRecycles
  <1>1. RecycleInv => FewRecycles
    <2> SUFFICES ASSUME RecycleInv, NEW m \in Machine
                 PROVE  Cardinality(RoutesTo(m))
                          <= IF restartAge < Cooldown THEN 2 * (1 + chairStarts) ELSE 2
      BY DEF FewRecycles
    <2>1. /\ IsFiniteSet(RoutesTo(m)) /\ Cardinality(RoutesTo(m)) \in Nat
          /\ Cardinality(RoutesTo(m)) <= 2 * chairStarts + IsClosed(m) + IsClosed(Fleet)
          /\ chairStarts \in Nat /\ IsClosed(m) \in {0, 1} /\ IsClosed(Fleet) \in {0, 1}
      BY FewElements, RecycleAssumption DEF RecycleInv, RoutesByGate, RecycleTypeOK, IsClosed
    <2>2. CASE restartAge < Cooldown BY <2>1, <2>2
    <2>3. CASE ~(restartAge < Cooldown)
      <3> DEFINE g == gate[m]
                 h == gate[Fleet]
      <3>1. \A a \in 0 .. Cooldown - 1 :
                routed[m][a] \in Nat /\ routed[m][a] <= HitAt(m, a) + HitAt(Fleet, a)
        BY <2>3, RecycleAssumption DEF RecycleInv, RoutesByGate, RecycleTypeOK
      <3>2. ASSUME NEW p \in RoutesTo(m)
            PROVE  \/ p \in {<<g, 1>>, <<h, 1>>}
                   \/ g = h /\ p = <<g, 2>>
        <4>0. PICK a \in 0 .. Cooldown - 1 : \E n \in 1 .. routed[m][a] : p = <<a, n>>
          BY <3>2, RouteIs
        <4>1. PICK i \in 1 .. routed[m][a] : p = <<a, i>> BY <4>0
        <4>2. i <= HitAt(m, a) + HitAt(Fleet, a)
          <5>1. HitAt(m, a) \in Nat /\ HitAt(Fleet, a) \in Nat BY DEF HitAt
          <5>2. routed[m][a] \in Nat /\ routed[m][a] <= HitAt(m, a) + HitAt(Fleet, a) BY <3>1
          <5> QED BY <4>1, <5>1, <5>2
        <4>3. \/ i = 1 /\ a \in {g, h}
              \/ i = 2 /\ g = a /\ h = a
          BY <4>2 DEF HitAt
        <4> QED BY <4>1, <4>3
      <3>3. PICK x, y : RoutesTo(m) \subseteq {x, y}
        <4>1. CASE g = h
          <5>1. RoutesTo(m) \subseteq {<<g, 1>>, <<g, 2>>} BY <3>2, <4>1
          <5> QED BY <5>1
        <4>2. CASE g # h
          <5>1. RoutesTo(m) \subseteq {<<g, 1>>, <<h, 1>>} BY <3>2, <4>2
          <5> QED BY <5>1
        <4> QED BY <4>1, <4>2
      <3>4. Cardinality(RoutesTo(m)) <= 2 BY <2>1, <3>3, FewElements
      <3> QED BY <2>3, <3>4
    <2> QED BY <2>2, <2>3
  <1> QED BY <1>1, RecycleInitially, RecycleSteps, PTL DEF RecycleSpec

-----------------------------------------------------------------------------
(* The types of the variables.                                             *)

\* Ages, holds and histories of the seats keep their types.
LEMMA GraceTypes == GraceSpec => []GraceTypeOK
  <1>1. GraceInv => GraceTypeOK BY DEF GraceInv
  <1> QED BY <1>1, GraceInitially, GraceSteps, PTL DEF GraceSpec

\* What the pid file and the rest of the machine hold.
PidsAround ==
    /\ pidFile \in Pid \cup {NoPid}
    /\ strangers \subseteq Pid
    /\ starts \in 0 .. MaxStarts

\* Every step keeps it.
LEMMA PidsStay == SingletonInv /\ PidsAround /\ [SingletonNext]_singletonVars => PidsAround'
  <1> SUFFICES ASSUME SingletonInv, PidsAround, [SingletonNext]_singletonVars PROVE PidsAround'
    OBVIOUS
  <1> USE SingletonAssumption DEF PidsAround
  <1>1. ASSUME NEW p \in Starter, NEW n \in Pid, StartProcess(p, n) PROVE PidsAround'
    BY <1>1 DEF StartProcess
  <1>2. ASSUME NEW p \in Starter, CheckFile(p) \/ EmptyFile(p) \/ KillProcess(p) PROVE PidsAround'
    BY <1>2 DEF CheckFile, EmptyFile, KillProcess
  <1>3. ASSUME NEW p \in Starter, WriteFile(p) \/ Exit(p) PROVE PidsAround'
    BY <1>3 DEF WriteFile, Exit, Released, SingletonInv, PidsAreOwn
  <1>4. ASSUME NEW n \in Pid, Stranger(n) PROVE PidsAround' BY <1>4 DEF Stranger
  <1>5. CASE UNCHANGED singletonVars BY <1>5 DEF singletonVars
  <1> QED BY <1>1, <1>2, <1>3, <1>4, <1>5 DEF SingletonNext

\* The pid file holds a pid or none, and a process has a pid while it exists.
LEMMA SingletonTypes == SingletonSpec => []SingletonTypeOK
  <1>1. SingletonInv /\ PidsAround => SingletonTypeOK
    BY DEF SingletonInv, PidsAreOwn, PidsAround, SingletonTypeOK
  <1>2. SingletonInit => PidsAround BY SingletonAssumption DEF SingletonInit, PidsAround
  <1> QED BY <1>1, <1>2, PidsStay, SingletonInitially, SingletonSteps, PTL DEF SingletonSpec

\* Only an exception that was raised is reported, kept or posted.
RaisedOnly ==
    /\ errSpool \subseteq raised /\ draining \subseteq raised
    /\ onHub \subseteq raised
    /\ raised \subseteq ErrorReport
    /\ reporting # NoReport => reporting.rec \in raised

\* No more faults than the bounds of the model.
FaultsBounded == reportFaults \in 0 .. MaxReportFaults /\ reportKills \in 0 .. MaxReportKills

\* Every step of a report keeps both.
LEMMA RaisedSteps ==
    ASSUME ReportTyped, RaisedOnly, [ExceptionsNext]_reportVars
    PROVE  RaisedOnly'
  <1> USE DEF RaisedOnly, hubVars
  <1>1. ASSUME NEW r \in ErrorReport, Raise(r) PROVE RaisedOnly'
    BY <1>1, ReportStarts DEF Raise
  <1>2. ASSUME NEW r \in ErrorReport, DrainNext(r) PROVE RaisedOnly'
    BY <1>2, ReportStarts DEF DrainNext
  <1>3. CASE StartDrain BY <1>3 DEF StartDrain
  <1>4. reporting # NoReport => reporting \in Reporting BY DEF ReportTyped
  <1>5. CASE LoadIndex
    <2>1. reporting' # NoReport /\ reporting'.rec = reporting.rec /\ reporting.rec \in raised
      BY <1>4, <1>5, ReportGoesOn DEF LoadIndex, GoTo, StepAt
    <2> QED BY <1>5, <2>1 DEF LoadIndex
  <1>6. CASE PostReport
    <2>1. reporting' # NoReport /\ reporting'.rec = reporting.rec /\ reporting.rec \in raised
      BY <1>4, <1>6, ReportGoesOn, ReportIsMade DEF PostReport, GoTo, StepAt, FreePost
    <2>2. onHub' \subseteq onHub \cup {reporting.rec} BY <1>6 DEF PostReport, Made
    <2> QED BY <1>6, <2>1, <2>2 DEF PostReport
  <1>7. CASE SaveIndex
    <2>1. reporting \in Reporting /\ reporting.rec \in raised
      BY <1>4, <1>7 DEF SaveIndex, StepAt
    <2>2. reporting' = NoReport \/ (reporting' # NoReport /\ reporting'.rec = reporting.rec)
      BY <1>7, <2>1, ReportGoesOn DEF SaveIndex, EndReport
    <2> QED BY <1>7, <2>1, <2>2 DEF SaveIndex
  <1>8. CASE WriteSpool \/ UnlinkSpool BY <1>8 DEF WriteSpool, UnlinkSpool, StepAt
  <1>9. CASE ReportFails \/ Killed
    <2>1. CutOff /\ reporting.rec \in raised BY <1>9 DEF ReportFails, Killed, CutOff
    <2>2. onHub' \subseteq onHub \cup {reporting.rec} /\ errSpool' \subseteq errSpool \cup {reporting.rec}
      BY <2>1 DEF CutOff, Made
    <2> QED BY <2>1, <2>2 DEF CutOff
  <1>10. CASE ReportTick BY <1>10 DEF ReportTick
  <1>11. CASE UNCHANGED reportVars BY <1>11 DEF reportVars
  <1> QED BY <1>1, <1>2, <1>3, <1>5, <1>6, <1>7, <1>8, <1>9, <1>10, <1>11 DEF ExceptionsNext

\* A fault is counted, and none is left beyond the bounds.
LEMMA FaultSteps == FaultsBounded /\ [ExceptionsNext]_reportVars => FaultsBounded'
  <1> SUFFICES ASSUME FaultsBounded, [ExceptionsNext]_reportVars PROVE FaultsBounded' OBVIOUS
  <1> USE ReportAssumption DEF FaultsBounded, costVars
  <1>1. CASE PostReport \/ ReportFails
    <2>1. UNCHANGED costVars \/ (ReportFault /\ UNCHANGED reportKills)
      BY <1>1, PostCosts DEF ReportFails
    <2> QED BY <2>1 DEF ReportFault
  <1>2. CASE Killed BY <1>2 DEF Killed
  <1>3. CASE ~(PostReport \/ ReportFails \/ Killed)
    BY <1>3 DEF ExceptionsNext, Raise, DrainNext, StartDrain, LoadIndex, SaveIndex, WriteSpool, UnlinkSpool,
                ReportTick, reportVars
  <1> QED BY <1>1, <1>2, <1>3

\* The index, the spool and the histories of the reports keep their types.
LEMMA ExceptionsTypes == ExceptionsSpec => []ExceptionsTypeOK
  <1>1. ReportInv /\ RaisedOnly /\ FaultsBounded => ExceptionsTypeOK
    BY DEF ReportInv, ReportTyped, RaisedOnly, FaultsBounded, ExceptionsTypeOK
  <1>2. ExceptionsInit => RaisedOnly /\ FaultsBounded
    BY ReportAssumption DEF ExceptionsInit, RaisedOnly, FaultsBounded
  <1>3. ReportInv /\ RaisedOnly /\ [ExceptionsNext]_reportVars => RaisedOnly'
    BY RaisedSteps DEF ReportInv
  <1> QED BY <1>1, <1>2, <1>3, FaultSteps, ReportInitially, ReportSteps, PTL DEF ExceptionsSpec

\* The nicks and channels of the server and of what is on its way to it.
ModesHeld ==
    /\ \A c \in Hall : hasMode[c] \subseteq members[c]
    /\ whoAsked \subseteq Hall /\ modeCmds \subseteq Grant
    /\ modeSteps \in 0 .. MaxModeSteps

\* A channel with a tracked mode has an entry in the table.
TrackedHaveEntry == \A c \in Hall : tracked[c] # {} => c \in modeKeys

\* A grant adds its channel to the table with the mode that it tracks.
LEMMA DueHasEntry ==
    ASSUME NEW wanted \in SUBSET Grant, NEW accts, NEW seen \in [Hall -> SUBSET Bob],
           NEW keys, \A c \in Hall : seen[c] # {} => c \in keys,
           modeCmds \subseteq Grant,
           GrantDue(wanted, accts, seen, keys)
    PROVE  TrackedHaveEntry' /\ modeCmds' \subseteq Grant
  <1> DEFINE due == {g \in wanted : g[2] \in accts /\ g[2] \notin seen[g[1]]}
  <1>1. PICK sent \in SUBSET due :
            /\ modeCmds' = modeCmds \cup sent
            /\ tracked' = [c \in Hall |-> seen[c] \cup {n \in Bob : <<c, n>> \in sent}]
            /\ modeKeys' = keys \cup {g[1] : g \in sent}
    BY DEF GrantDue
  <1>2. sent \subseteq Grant OBVIOUS
  <1>3. ASSUME NEW c \in Hall, tracked'[c] # {} PROVE c \in modeKeys'
    <2>1. PICK n : n \in tracked'[c] BY <1>3
    <2>2. n \in seen[c] \/ <<c, n>> \in sent BY <1>1, <2>1
    <2>3. CASE n \in seen[c] BY <1>1, <2>3
    <2>4. CASE <<c, n>> \in sent
      <3>1. <<c, n>>[1] \in {g[1] : g \in sent} BY <2>4
      <3> QED BY <1>1, <3>1
    <2> QED BY <2>2, <2>3, <2>4
  <1> QED BY <1>1, <1>2, <1>3 DEF TrackedHaveEntry

\* Accounts that are learned late do too.
LEMMA LearningHasEntry ==
    ASSUME GrantInv, ModesHeld, TrackedHaveEntry, NEW nicks \in SUBSET Bob, LearnAccounts(nicks)
    PROVE  TrackedHaveEntry' /\ modeCmds' \subseteq Grant
  <1>1. KnownChannels \X nicks \in SUBSET Grant
    BY DEF KnownChannels, GrantInv, KnownAreReal, Grant
  <1>2. GrantDue(KnownChannels \X nicks, accounts', tracked, modeKeys) BY DEF LearnAccounts
  <1>3. tracked \in [Hall -> SUBSET Bob] /\ modeCmds \subseteq Grant
    BY DEF GrantInv, GivenIsTracked, ModesHeld
  <1>4. \A c \in Hall : tracked[c] # {} => c \in modeKeys BY DEF TrackedHaveEntry
  <1> QED BY <1>1, <1>2, <1>3, <1>4, DueHasEntry

\* Every step keeps both.
LEMMA ModesSteps ==
    ASSUME GrantInv, ModesHeld, TrackedHaveEntry, [ModesNext]_modeVars
    PROVE  ModesHeld' /\ TrackedHaveEntry'
  <1> DEFINE Goal == ModesHeld' /\ TrackedHaveEntry'
  <1> USE ModeAssumption DEF ModesHeld, ModeStep
  <1>0. /\ tracked \in [Hall -> SUBSET Bob] /\ members \in [Hall -> SUBSET Bob]
        /\ hasMode \in [Hall -> SUBSET Bob] /\ accounts \subseteq Bob
    BY DEF GrantInv, GivenIsTracked, KnownAreReal
  <1>1. ASSUME UNCHANGED viewVars PROVE TrackedHaveEntry' /\ modeCmds' \subseteq Grant
    BY <1>1 DEF viewVars, TrackedHaveEntry
  <1>2. ASSUME NEW n \in Bob, BobQuits(n) PROVE Goal
    BY <1>0, <1>1, <1>2 DEF BobQuits
  <1>3. ASSUME NEW n \in Bob, BobLogsIn(n) PROVE Goal
    <2>1. TrackedHaveEntry' /\ modeCmds' \subseteq Grant
      <3>1. CASE LearnAccounts({n})
        <4>1. {n} \in SUBSET Bob OBVIOUS
        <4> QED BY <3>1, <4>1, LearningHasEntry
      <3> QED BY <1>1, <1>3, <3>1 DEF BobLogsIn
    <2> QED BY <1>3, <2>1 DEF BobLogsIn
  <1>4. ASSUME NEW n \in Bob, BobLogsOut(n) PROVE Goal BY <1>1, <1>4 DEF BobLogsOut
  <1>5. ASSUME NEW c \in Hall, OtherMode(c) PROVE Goal
    BY <1>5 DEF OtherMode, serverVars, TrackedHaveEntry
  <1>6. ASSUME NEW c \in Hall, ChairJoins(c) PROVE Goal
    BY <1>1, <1>6 DEF ChairJoins, AskWho, serverVars
  <1>7. ASSUME NEW c \in Hall, NamesReply(c) PROVE Goal
    <2> DEFINE keys == IF hasMode[c] = {} THEN modeKeys ELSE modeKeys \cup {c}
    <2>1. {c} \X members[c] \in SUBSET Grant BY <1>0 DEF Grant
    <2>2. ShownBy(c) \in [Hall -> SUBSET Bob] BY <1>0 DEF ShownBy
    <2>3. \A d \in Hall : ShownBy(c)[d] # {} => d \in keys
      BY <1>0 DEF ShownBy, TrackedHaveEntry
    <2>4. GrantDue({c} \X members[c], accounts, ShownBy(c), keys) BY <1>7 DEF NamesReply
    <2> HIDE DEF keys
    <2>5. TrackedHaveEntry' /\ modeCmds' \subseteq Grant BY <2>1, <2>2, <2>3, <2>4, DueHasEntry
    <2> QED BY <1>7, <2>5 DEF NamesReply, AskWho, serverVars
  <1>8. ASSUME NEW c \in Hall, WhoReply(c) PROVE Goal
    <2>1. members[c] \cap login \in SUBSET Bob BY <1>0
    <2>2. LearnAccounts(members[c] \cap login) BY <1>8 DEF WhoReply
    <2>3. TrackedHaveEntry' /\ modeCmds' \subseteq Grant BY <2>1, <2>2, LearningHasEntry
    <2> QED BY <1>8, <2>3 DEF WhoReply, serverVars
  <1>9. ASSUME NEW c \in Hall, SweepCommand(c) PROVE Goal
    <2>1. {c} \X accounts \in SUBSET Grant BY <1>0 DEF Grant
    <2>2. GrantDue({c} \X accounts, accounts, tracked, modeKeys) BY <1>9 DEF SweepCommand
    <2>3. \A d \in Hall : tracked[d] # {} => d \in modeKeys BY DEF TrackedHaveEntry
    <2>4. TrackedHaveEntry' /\ modeCmds' \subseteq Grant BY <1>0, <2>1, <2>2, <2>3, DueHasEntry
    <2> QED BY <1>9, <2>4 DEF SweepCommand, AskWho, serverVars
  <1>10. ASSUME NEW c \in Hall, NEW n \in Bob, BobJoins(n, c) PROVE Goal
    <2>1. TrackedHaveEntry' /\ modeCmds' \subseteq Grant
      <3>1. CASE GrantDue({<<c, n>>}, accounts', tracked, modeKeys)
        <4>1. {<<c, n>>} \in SUBSET Grant BY DEF Grant
        <4>2. \A d \in Hall : tracked[d] # {} => d \in modeKeys BY DEF TrackedHaveEntry
        <4> QED BY <1>0, <3>1, <4>1, <4>2, DueHasEntry
      <3> QED BY <1>1, <1>10, <3>1 DEF BobJoins
    <2> QED BY <1>0, <1>10, <2>1 DEF BobJoins
  <1>11. ASSUME NEW c \in Hall, NEW n \in Bob, ModeTaken(c, n) PROVE Goal
    <2>1. ModesHeld' BY <1>0, <1>11 DEF ModeTaken
    <2>2. TrackedHaveEntry' BY <1>0, <1>11 DEF ModeTaken, TrackedHaveEntry
    <2> QED BY <2>1, <2>2
  <1>12. ASSUME NEW g \in modeCmds, ServerSets(g) PROVE Goal
    BY <1>0, <1>12 DEF ServerSets, TrackedHaveEntry
  <1>13. CASE ChairLost BY <1>13 DEF ChairLost, serverVars, TrackedHaveEntry
  <1>14. CASE UNCHANGED modeVars BY <1>1, <1>14 DEF modeVars, serverVars
  <1> QED
    BY <1>2, <1>3, <1>4, <1>5, <1>6, <1>7, <1>8, <1>9, <1>10, <1>11, <1>12, <1>13, <1>14
       DEF ModesNext

\* What the chair and the server know of nicks and modes keeps its type.
LEMMA ModesTypes == ModesSpec => []ModesTypeOK
  <1>1. GrantInv /\ ModesHeld /\ TrackedHaveEntry => ModesTypeOK
    BY DEF GrantInv, GivenIsTracked, KnownAreReal, ModesHeld, TrackedHaveEntry, ModesTypeOK
  <1>2. ModesInit => ModesHeld /\ TrackedHaveEntry
    BY ModeAssumption DEF ModesInit, ModesHeld, TrackedHaveEntry
  <1>3. GrantInv /\ ModesHeld /\ TrackedHaveEntry /\ [ModesNext]_modeVars
          => GrantInv' /\ ModesHeld' /\ TrackedHaveEntry'
    BY GrantSteps, ModesSteps
  <1> QED BY <1>1, <1>2, <1>3, GrantInitially, PTL DEF ModesSpec
=============================================================================
