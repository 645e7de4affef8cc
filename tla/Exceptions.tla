----------------------------- MODULE Exceptions -----------------------------
(***************************************************************************)
(* Exception reports (FR #148): an exception becomes an issue, a repeat of *)
(* it within the dedupe window a comment on that issue.  Beyond the rate   *)
(* limit, without a token or with GitHub down, the record goes to a spool  *)
(* directory that the next start drains.                                   *)
(*                                                                         *)
(* One process: guarded_main, and the drain at its start.  Its index is    *)
(* replaced in one step; a spool file is written in place, and a write     *)
(* that is cut short leaves a file that the drain skips.  Times are ages   *)
(* in ticks; a report takes less than a tick.                              *)
(*                                                                         *)
(* An error that is not GitHubDown ends a report where it is: report()     *)
(* logs it, the drain stops with it.  Such are a post whose answer times   *)
(* out, is cut off or cannot be read, and a spool or index that cannot be  *)
(* written.                                                                *)
(***************************************************************************)
EXTENDS Naturals, FiniteSets

CONSTANTS
    Trouble,        \* dedupe keys: type, place and message of an exception
    ErrorReport,    \* records of exceptions
    TroubleOf,      \* [ErrorReport -> Trouble]
    DedupeWindow, RateWindow,   \* in ticks
    RateMax,        \* posts to GitHub in a rate window
    HubPost,        \* numbers for the posts of a rate window
    NoPost,         \* not posted
    MaxReportFaults,\* bound: errors in a report, and answers that are lost
    MaxReportKills, \* bound: kills of the process in a report
    NoReport        \* nothing is reported

ASSUME ReportAssumption ==
    /\ TroubleOf \in [ErrorReport -> Trouble]
    /\ DedupeWindow \in Nat /\ RateWindow \in Nat
    /\ MaxReportFaults \in Nat /\ MaxReportKills \in Nat
    /\ RateMax \in Nat \ {0}
    /\ NoPost \notin HubPost

OldKey  == DedupeWindow + 1         \* an age that no longer matters
OldPost == RateWindow + 1

VARIABLES
    keyAge,         \* index, keys: the age of ts, OldKey when there is no entry
    rateAge,        \* index, rate: the ages of the posts that it counts
    errSpool,       \* exception_spool/
    reporting,      \* the record that is reported and the step it is at
    draining,       \* the spool files that the drain has still to do
    raised,         \* history: the exceptions so far
    onHub,          \* history: the reports on GitHub
    hubAge,         \* history: the ages of the posts, and of the last of each trouble
    reportFaults,
    reportKills

indexVars  == <<keyAge, rateAge>>
hubVars    == <<onHub, hubAge>>
costVars   == <<reportFaults, reportKills>>
reportVars == <<indexVars, errSpool, reporting, draining, raised, hubVars, costVars>>

Reporting == [at : {"load", "post", "save", "spool", "unlink"}, rec : ErrorReport,
              again : BOOLEAN,                  \* taken from the spool
              post : HubPost \cup {NoPost}]     \* the post that is to be saved

ASSUME NoReportAssumption == NoReport \notin Reporting

ExceptionsTypeOK ==
    /\ keyAge \in [Trouble -> 0 .. OldKey]
    /\ rateAge \in [HubPost -> 0 .. OldPost]
    /\ hubAge \in [byPost : [HubPost -> 0 .. OldPost], byTrouble : [Trouble -> 0 .. OldKey]]
    /\ reporting \in Reporting \cup {NoReport}
    /\ errSpool \subseteq raised /\ draining \subseteq raised
    /\ onHub \subseteq raised /\ raised \subseteq ErrorReport
    /\ reportFaults \in 0 .. MaxReportFaults
    /\ reportKills \in 0 .. MaxReportKills

ExceptionsInit ==
    /\ keyAge = [k \in Trouble |-> OldKey]
    /\ rateAge = [p \in HubPost |-> OldPost]
    /\ hubAge = [byPost |-> rateAge, byTrouble |-> keyAge]
    /\ errSpool = {} /\ draining = {}
    /\ reporting = NoReport
    /\ raised = {} /\ onHub = {}
    /\ reportFaults = 0 /\ reportKills = 0

StepAt(step) == reporting # NoReport /\ reporting.at = step

GoTo(step) == reporting' = [reporting EXCEPT !.at = step]

ReportFault == reportFaults < MaxReportFaults /\ reportFaults' = reportFaults + 1

-----------------------------------------------------------------------------
(* A report starts.                                                        *)

Begin(r, again) == reporting' = [at |-> "load", rec |-> r, again |-> again, post |-> NoPost]

\* The exception ends the process: guarded_main reports it first.
Raise(r) ==
    /\ reporting = NoReport /\ draining = {}
    /\ r \notin raised
    /\ raised' = raised \cup {r}
    /\ Begin(r, FALSE)
    /\ UNCHANGED <<indexVars, errSpool, draining, hubVars, costVars>>

\* Up to a number of files, and those that cannot be read are passed over.
StartDrain ==
    /\ reporting = NoReport /\ draining = {}
    /\ draining' \in SUBSET errSpool \ {{}}
    /\ UNCHANGED <<indexVars, errSpool, reporting, raised, hubVars, costVars>>

DrainNext(r) ==
    /\ reporting = NoReport
    /\ r \in draining
    /\ draining' = draining \ {r}
    /\ Begin(r, TRUE)
    /\ UNCHANGED <<indexVars, errSpool, raised, hubVars, costVars>>

-----------------------------------------------------------------------------
(* _report_record.                                                         *)

Recent == {p \in HubPost : rateAge[p] <= RateWindow}

RateLimited == Cardinality(Recent) >= RateMax

\* The rate limit, then the token: either may send the record to the spool.
LoadIndex ==
    /\ StepAt("load")
    /\ \/ GoTo("spool")
       \/ ~RateLimited /\ GoTo("post")
    /\ UNCHANGED <<indexVars, errSpool, draining, raised, hubVars, costVars>>

\* A number that no post within the window has.
FreePost == {p \in HubPost : rateAge[p] > RateWindow /\ hubAge.byPost[p] > RateWindow}

\* GitHub makes the issue, or the comment when the index knows a recent issue.
Made(p) ==
    /\ onHub' = onHub \cup {reporting.rec}
    /\ hubAge' = [hubAge EXCEPT !.byPost[p] = 0, !.byTrouble[TroubleOf[reporting.rec]] = 0]

\* An HTTP or URL error is GitHubDown, whether GitHub made the post or not.
PostReport ==
    /\ StepAt("post")
    /\ \/ \E p \in FreePost :
            Made(p) /\ reporting' = [reporting EXCEPT !.at = "save", !.post = p] /\ UNCHANGED costVars
       \/ GoTo("spool") /\ UNCHANGED <<hubVars, costVars>>
       \/ \E p \in FreePost :
            Made(p) /\ GoTo("spool") /\ ReportFault /\ UNCHANGED reportKills
    /\ UNCHANGED <<indexVars, errSpool, draining, raised>>

\* The variant that leaves the time of a known issue when it adds a comment.
StampedFirst(r, p) ==
    /\ keyAge' = [keyAge EXCEPT ![TroubleOf[r]] = IF @ <= DedupeWindow THEN @ ELSE 0]
    /\ rateAge' = [rateAge EXCEPT ![p] = 0]

\* The variant that counts new issues only.
StampedIssues(r, p) ==
    /\ keyAge' = [keyAge EXCEPT ![TroubleOf[r]] = 0]
    /\ rateAge' = [rateAge EXCEPT ![p] = IF keyAge[TroubleOf[r]] <= DedupeWindow THEN @ ELSE 0]

\* Both branches stamp the key and the rate.
Stamped(r, p) ==
    /\ keyAge' = [keyAge EXCEPT ![TroubleOf[r]] = 0]
    /\ rateAge' = [rateAge EXCEPT ![p] = 0]

EndReport == reporting' = IF reporting.again THEN [reporting EXCEPT !.at = "unlink"] ELSE NoReport

SaveIndex ==
    /\ StepAt("save")
    /\ Stamped(reporting.rec, reporting.post)
    /\ EndReport
    /\ UNCHANGED <<errSpool, draining, raised, hubVars, costVars>>

\* The variant of the drain that unlinks what it has reported in any way.
WriteSpoolOnce ==
    /\ StepAt("spool")
    /\ errSpool' = IF reporting.again THEN errSpool \ {reporting.rec}
                                      ELSE errSpool \cup {reporting.rec}
    /\ reporting' = NoReport
    /\ UNCHANGED <<indexVars, draining, raised, hubVars, costVars>>

\* After a write for the rate limit the index is saved as it was.
WriteSpool ==
    /\ StepAt("spool")
    /\ errSpool' = errSpool \cup {reporting.rec}
    /\ reporting' = NoReport
    /\ UNCHANGED <<indexVars, draining, raised, hubVars, costVars>>

\* A file that cannot be unlinked stays.
UnlinkSpool ==
    /\ StepAt("unlink")
    /\ errSpool' \in {errSpool, errSpool \ {reporting.rec}}
    /\ reporting' = NoReport
    /\ UNCHANGED <<indexVars, draining, raised, hubVars, costVars>>

-----------------------------------------------------------------------------
(* A report ends in the middle of a step.                                  *)

\* What the step has left: nothing, a post, half a spool file in place of a
\* whole one, or the record of a rate-limited report without the index.
CutOff ==
    /\ reporting # NoReport
    /\ \/ UNCHANGED <<errSpool, hubVars>>
       \/ StepAt("post") /\ (\E p \in FreePost : Made(p)) /\ UNCHANGED errSpool
       \/ StepAt("spool") /\ errSpool' = errSpool \ {reporting.rec} /\ UNCHANGED hubVars
       \/ StepAt("spool") /\ RateLimited /\ errSpool' = errSpool \cup {reporting.rec} /\ UNCHANGED hubVars
    /\ reporting' = NoReport /\ draining' = {}
    /\ UNCHANGED <<indexVars, raised>>

\* An error of the filer that is not GitHubDown, or an OSError of a save: a
\* record that is not in the spool yet is gone.
ReportFails ==
    /\ StepAt("post") \/ StepAt("save") \/ StepAt("spool")
    /\ CutOff
    /\ ReportFault /\ UNCHANGED reportKills

\* The process is killed.
Killed ==
    /\ CutOff
    /\ reportKills < MaxReportKills /\ reportKills' = reportKills + 1
    /\ UNCHANGED reportFaults

Ageing(f, old) == [x \in DOMAIN f |-> IF f[x] < old THEN f[x] + 1 ELSE old]

ReportTick ==
    /\ reporting = NoReport
    /\ keyAge' = Ageing(keyAge, OldKey)
    /\ rateAge' = Ageing(rateAge, OldPost)
    /\ hubAge' = [byPost |-> Ageing(hubAge.byPost, OldPost),
                  byTrouble |-> Ageing(hubAge.byTrouble, OldKey)]
    /\ UNCHANGED <<errSpool, reporting, draining, raised, onHub, costVars>>

ExceptionsNext ==
    \/ \E r \in ErrorReport : Raise(r) \/ DrainNext(r)
    \/ StartDrain
    \/ LoadIndex \/ PostReport \/ SaveIndex \/ WriteSpool \/ UnlinkSpool
    \/ ReportFails \/ Killed
    \/ ReportTick

ExceptionsSpec == ExceptionsInit /\ [][ExceptionsNext]_reportVars

-----------------------------------------------------------------------------
\* The exceptions that are nowhere: neither on GitHub, nor in the spool, nor
\* being reported.
Missing ==
    {r \in raised \ (onHub \cup errSpool) : ~(reporting # NoReport /\ reporting.rec = r)}

\* GitHub down, no token, the rate limit and a drain that is cut short lose no
\* exception: one at most is missing for each error and each kill.
ReportsKept == Cardinality(Missing) <= reportFaults + reportKills

\* In no rate window GitHub gets more than RateMax posts, drained ones, comments
\* and repeated posts included, and one more at most for each error, lost
\* answer and kill.
RateKept ==
    Cardinality({p \in HubPost : hubAge.byPost[p] <= RateWindow})
        <= RateMax + reportFaults + reportKills

\* The same trouble makes a second issue only when nothing was posted of it for
\* a dedupe window, or when an error, a lost answer or a kill kept a post out
\* of the index.
OneIssuePerTrouble ==
    StepAt("post") /\ reportFaults = 0 /\ reportKills = 0 =>
        LET k == TroubleOf[reporting.rec]
        IN  hubAge.byTrouble[k] <= DedupeWindow => keyAge[k] <= DedupeWindow
=============================================================================
