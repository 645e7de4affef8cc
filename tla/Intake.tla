------------------------------- MODULE Intake -------------------------------
(***************************************************************************)
(* Submissions of agents without a GitHub account (POST /bob/v1/intake).   *)
(* One is filed at once as a draft pull request or an issue; when GitHub   *)
(* is down it goes to the intake outbox, which drain_intake_outbox files   *)
(* later.  A client may repeat a POST under its idempotency key.           *)
(*                                                                         *)
(* Posts are served one at a time (state.lock); the drain takes no lock.   *)
(* A request that is refused (key, rate limit, validation) changes none of *)
(* this state and is left out, as are titles, bodies and files.  The       *)
(* outbox entry and the idempotency file are written in place: a crash     *)
(* leaves a file that is skipped, like a missing one.                      *)
(***************************************************************************)
EXTENDS Naturals, FiniteSets

CONSTANTS
    IdemKey,        \* idempotency keys
    NoIdem,         \* a submission without one
    MaxSubmissions, \* bound: intake ids
    MaxIntakeFaults,\* bound: crashes and lost answers of GitHub
    NoDesk          \* a thread that files nothing

IntakeId == 1 .. MaxSubmissions
Clerk == {"post", "drain"}

\* What a thread files: the step it is at and, once it is known, the outcome.
Desk == [at : {"pull", "issue", "outbox", "record", "idem", "end"}, id : IntakeId,
         outcome : {"filed", "queued"}]

ASSUME IntakeAssumption ==
    /\ NoIdem \notin IdemKey /\ NoDesk \notin Desk
    /\ MaxSubmissions \in Nat /\ MaxIntakeFaults \in Nat

VARIABLES
    desks,          \* what each thread is filing
    taken,          \* the number of intake ids given out
    keyOf,          \* idempotency_key of a submission
    harvest,        \* the submissions that ask for a draft pull request
    made,           \* GitHub: pull requests and issues made of a submission
    outboxed,       \* intake/outbox/{id}.json
    recordOf,       \* state in intake/records/{id}.json, or "none"
    idemOf,         \* intake/records/idem-{key}.json: an id, or 0
    told,           \* history: the submissions a client was given the id of
    cutOff,         \* history: outbox entries that a crash left unreadable
    intakeFaults

fileVars   == <<outboxed, recordOf, idemOf>>
intakeVars == <<desks, taken, keyOf, harvest, made, fileVars, told, cutOff, intakeFaults>>

IntakeTypeOK ==
    /\ desks \in [Clerk -> Desk \cup {NoDesk}]
    /\ taken \in 0 .. MaxSubmissions
    /\ keyOf \in [IntakeId -> IdemKey \cup {NoIdem}]
    /\ harvest \subseteq IntakeId
    /\ made \in [IntakeId -> Nat]
    /\ outboxed \subseteq 1 .. taken
    /\ recordOf \in [IntakeId -> {"none", "queued", "filed"}]
    /\ idemOf \in [IdemKey -> 0 .. taken]
    /\ told \subseteq 1 .. taken /\ cutOff \subseteq 1 .. taken
    /\ intakeFaults \in 0 .. MaxIntakeFaults

IntakeInit ==
    /\ desks = [t \in Clerk |-> NoDesk]
    /\ taken = 0
    /\ keyOf = [i \in IntakeId |-> NoIdem]
    /\ harvest = {}
    /\ made = [i \in IntakeId |-> 0]
    /\ outboxed = {}
    /\ recordOf = [i \in IntakeId |-> "none"]
    /\ idemOf = [k \in IdemKey |-> 0]
    /\ told = {} /\ cutOff = {}
    /\ intakeFaults = 0

FirstStep(i, asPull) ==
    [at |-> IF asPull THEN "pull" ELSE "issue", id |-> i, outcome |-> "filed"]

At(t, step) == desks[t] # NoDesk /\ desks[t].at = step

IntakeFault == intakeFaults < MaxIntakeFaults /\ intakeFaults' = intakeFaults + 1

-----------------------------------------------------------------------------
(* process_intake and drain_intake_outbox.                                 *)

\* The variant that takes a submission for known when it has a url only.
KnownFiled(k) == k # NoIdem /\ idemOf[k] # 0 /\ recordOf[idemOf[k]] = "filed"

\* _find_idempotent: a record that is filed or queued
Known(k) == k # NoIdem /\ idemOf[k] # 0 /\ recordOf[idemOf[k]] \in {"filed", "queued"}

AnswerDuplicate(k) ==
    /\ desks["post"] = NoDesk
    /\ Known(k)
    /\ told' = told \cup {idemOf[k]}
    /\ UNCHANGED <<desks, taken, keyOf, harvest, made, fileVars, cutOff, intakeFaults>>

Post(k, asPull) ==
    /\ desks["post"] = NoDesk
    /\ ~Known(k)
    /\ taken < MaxSubmissions
    /\ LET i == taken + 1
       IN  /\ taken' = i
           /\ keyOf' = [keyOf EXCEPT ![i] = k]
           /\ harvest' = IF asPull THEN harvest \cup {i} ELSE harvest
           /\ desks' = [desks EXCEPT !["post"] = FirstStep(i, asPull)]
    /\ UNCHANGED <<made, fileVars, told, cutOff, intakeFaults>>

TakeFromOutbox(i) ==
    /\ desks["drain"] = NoDesk
    /\ i \in outboxed
    /\ desks' = [desks EXCEPT !["drain"] = FirstStep(i, i \in harvest)]
    /\ UNCHANGED <<taken, keyOf, harvest, made, fileVars, told, cutOff, intakeFaults>>

-----------------------------------------------------------------------------
(* file_submission.                                                        *)

\* GitHub makes it, or is down, or makes it and the answer is lost.
Create(t, next) ==
    LET i == desks[t].id
        Goes(step, outcome) ==
            desks' = [desks EXCEPT ![t].at = step, ![t].outcome = outcome]
    IN  \/ /\ made' = [made EXCEPT ![i] = @ + 1]
           /\ Goes("record", "filed")
           /\ UNCHANGED intakeFaults
        \/ UNCHANGED <<made, intakeFaults>> /\ Goes(next, "queued")
        \/ IntakeFault /\ made' = [made EXCEPT ![i] = @ + 1] /\ Goes(next, "queued")

\* Any failure of the pull request falls back to an issue.
CreatePull(t) ==
    /\ At(t, "pull")
    /\ Create(t, "issue")
    /\ UNCHANGED <<taken, keyOf, harvest, fileVars, told, cutOff>>

CreateIssue(t) ==
    /\ At(t, "issue")
    /\ Create(t, "outbox")
    /\ UNCHANGED <<taken, keyOf, harvest, fileVars, told, cutOff>>

WriteEntry(t) ==
    /\ At(t, "outbox")
    /\ outboxed' = outboxed \cup {desks[t].id}
    /\ desks' = [desks EXCEPT ![t].at = "record"]
    /\ UNCHANGED <<taken, keyOf, harvest, made, recordOf, idemOf, told, cutOff, intakeFaults>>

\* _save_record: the record, then the file of its idempotency key
WriteRecord(t) ==
    /\ At(t, "record")
    /\ recordOf' = [recordOf EXCEPT ![desks[t].id] = desks[t].outcome]
    /\ desks' = [desks EXCEPT ![t].at = "idem"]
    /\ UNCHANGED <<taken, keyOf, harvest, made, outboxed, idemOf, told, cutOff, intakeFaults>>

WriteIdem(t) ==
    /\ At(t, "idem")
    /\ LET k == keyOf[desks[t].id]
       IN  idemOf' = IF k = NoIdem THEN idemOf ELSE [idemOf EXCEPT ![k] = desks[t].id]
    /\ desks' = [desks EXCEPT ![t].at = "end"]
    /\ UNCHANGED <<taken, keyOf, harvest, made, outboxed, recordOf, told, cutOff, intakeFaults>>

Answer ==
    /\ At("post", "end")
    /\ told' = told \cup {desks["post"].id}
    /\ desks' = [desks EXCEPT !["post"] = NoDesk]
    /\ UNCHANGED <<taken, keyOf, harvest, made, fileVars, cutOff, intakeFaults>>

\* The variant that unlinks the entry whatever came of it.
DrainedAlways == {desks["drain"].id}

\* GitHubDown: "continue", the entry stays.
Drained == {i \in {desks["drain"].id} : desks["drain"].outcome = "filed"}

Unlink ==
    /\ At("drain", "end")
    /\ outboxed' = outboxed \ Drained
    /\ desks' = [desks EXCEPT !["drain"] = NoDesk]
    /\ UNCHANGED <<taken, keyOf, harvest, made, recordOf, idemOf, told, cutOff, intakeFaults>>

\* The process ends between two steps or while it writes a file.
CrashIntake(t) ==
    /\ desks[t] # NoDesk
    /\ IntakeFault
    /\ desks' = [desks EXCEPT ![t] = NoDesk]
    /\ LET i == desks[t].id
           k == keyOf[i]
       IN  /\ \/ UNCHANGED <<outboxed, cutOff>>
              \/ /\ At(t, "outbox")
                 /\ outboxed' = outboxed \ {i}
                 /\ cutOff' = cutOff \cup {i}
           /\ \/ UNCHANGED idemOf
              \/ At(t, "idem") /\ k # NoIdem /\ idemOf' = [idemOf EXCEPT ![k] = 0]
    /\ UNCHANGED <<taken, keyOf, harvest, made, recordOf, told>>

IntakeNext ==
    \/ \E k \in IdemKey : AnswerDuplicate(k)
    \/ \E k \in IdemKey \cup {NoIdem}, asPull \in BOOLEAN : Post(k, asPull)
    \/ \E i \in outboxed : TakeFromOutbox(i)
    \/ \E t \in Clerk :
        \/ CreatePull(t) \/ CreateIssue(t)
        \/ WriteEntry(t) \/ WriteRecord(t) \/ WriteIdem(t)
        \/ CrashIntake(t)
    \/ Answer
    \/ Unlink

IntakeSpec == IntakeInit /\ [][IntakeNext]_intakeVars

-----------------------------------------------------------------------------
\* A submission that a client was given an id for is on GitHub or waits in the
\* outbox, whatever fails, crashes or runs beside it, except an entry that a
\* crash cut off while the drain wrote it again.
ToldIsKept == \A i \in told \ cutOff : made[i] > 0 \/ i \in outboxed

\* What GitHub has under a key: each pull request and issue, numbered.
GitHubHas(k) == UNION {{i} \X (1 .. made[i]) : i \in {j \in IntakeId : keyOf[j] = k}}

\* However often it is posted, a submission is made once on GitHub, and twice
\* more at most for each crash or lost answer: a drain that ends while it writes
\* the file of the key leaves the entry and forgets the key.
MadeOnce == \A k \in IdemKey : Cardinality(GitHubHas(k)) <= 1 + 2 * intakeFaults
=============================================================================
