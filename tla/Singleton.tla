----------------------------- MODULE Singleton ------------------------------
(***************************************************************************)
(* The pid file that keeps a second chair and receiver from starting in a  *)
(* home (FR #39): acquire reads it, asks whether its pid is alive, and     *)
(* writes it; a normal exit removes it, a kill does not.                   *)
(*                                                                         *)
(* A pid may belong to another program by the time it is asked about.  The *)
(* file is written in place; while it is empty it counts as no pid.  All   *)
(* the processes are of one user: one of another user counts as dead.      *)
(***************************************************************************)
EXTENDS Naturals, FiniteSets

CONSTANTS
    Starter,        \* processes that are started in the home
    Pid,
    NoPid,          \* no pid file, or an empty one
    MaxStarts       \* bound: starts

ASSUME SingletonAssumption == NoPid \notin Pid /\ MaxStarts \in Nat

VARIABLES
    pidFile,        \* .bobjeeves.singleton.json
    pidOf,          \* the pid of a process that exists
    strangers,      \* pids of other programs
    startAt,        \* off, then check, empty, write, and run or refused
    overtaken,      \* history: a process read the file while another was to write it
    starts

singletonVars == <<pidFile, pidOf, strangers, startAt, overtaken, starts>>

SingletonTypeOK ==
    /\ pidFile \in Pid \cup {NoPid}
    /\ pidOf \in [Starter -> Pid \cup {NoPid}]
    /\ \A p \in Starter : (pidOf[p] = NoPid) <=> (startAt[p] = "off")
    /\ strangers \subseteq Pid
    /\ startAt \in [Starter -> {"off", "check", "empty", "write", "run", "refused"}]
    /\ overtaken \in BOOLEAN
    /\ starts \in 0 .. MaxStarts

SingletonInit ==
    /\ pidFile = NoPid
    /\ pidOf = [p \in Starter |-> NoPid]
    /\ strangers = {}
    /\ startAt = [p \in Starter |-> "off"]
    /\ overtaken = FALSE
    /\ starts = 0

Taken == {pidOf[p] : p \in Starter} \cup strangers

Running == {p \in Starter : startAt[p] = "run"}

StartProcess(p, n) ==
    /\ startAt[p] = "off" /\ starts < MaxStarts
    /\ n \notin Taken
    /\ starts' = starts + 1
    /\ pidOf' = [pidOf EXCEPT ![p] = n]
    /\ startAt' = [startAt EXCEPT ![p] = "check"]
    /\ UNCHANGED <<pidFile, strangers, overtaken>>

\* The variant that takes the pid of a Jeeves process for its own.
HeldByStranger(p) == pidFile # NoPid /\ pidFile \in strangers

\* A pid that is not this process's own, and alive
HeldByOther(p) == pidFile # NoPid /\ pidFile # pidOf[p] /\ pidFile \in Taken

CheckFile(p) ==
    /\ startAt[p] = "check"
    /\ startAt' = [startAt EXCEPT ![p] = IF HeldByOther(p) THEN "refused" ELSE "empty"]
    /\ overtaken' = (overtaken \/ \E o \in Starter \ {p} : startAt[o] \in {"empty", "write"})
    /\ UNCHANGED <<pidFile, pidOf, strangers, starts>>

\* write_text opens, which empties the file, and writes.
EmptyFile(p) ==
    /\ startAt[p] = "empty"
    /\ pidFile' = NoPid
    /\ startAt' = [startAt EXCEPT ![p] = "write"]
    /\ UNCHANGED <<pidOf, strangers, overtaken, starts>>

WriteFile(p) ==
    /\ startAt[p] = "write"
    /\ pidFile' = pidOf[p]
    /\ startAt' = [startAt EXCEPT ![p] = "run"]
    /\ UNCHANGED <<pidOf, strangers, overtaken, starts>>

\* _release, at a normal exit of a process that acquired
Released(p) == IF pidFile = pidOf[p] THEN NoPid ELSE pidFile

Exit(p) ==
    /\ startAt[p] = "run"
    /\ pidFile' = Released(p)
    /\ startAt' = [startAt EXCEPT ![p] = "off"]
    /\ pidOf' = [pidOf EXCEPT ![p] = NoPid]
    /\ UNCHANGED <<strangers, overtaken, starts>>

\* Killed, or refused and ended: the file stays as it is.
KillProcess(p) ==
    /\ startAt[p] # "off"
    /\ startAt' = [startAt EXCEPT ![p] = "off"]
    /\ pidOf' = [pidOf EXCEPT ![p] = NoPid]
    /\ UNCHANGED <<pidFile, strangers, overtaken, starts>>

Stranger(n) ==
    /\ n \notin {pidOf[p] : p \in Starter}
    /\ strangers' = IF n \in strangers THEN strangers \ {n} ELSE strangers \cup {n}
    /\ UNCHANGED <<pidFile, pidOf, startAt, overtaken, starts>>

SingletonNext ==
    \/ \E p \in Starter :
        \/ \E n \in Pid : StartProcess(p, n)
        \/ CheckFile(p) \/ EmptyFile(p) \/ WriteFile(p) \/ Exit(p) \/ KillProcess(p)
    \/ \E n \in Pid : Stranger(n)

SingletonSpec == SingletonInit /\ [][SingletonNext]_singletonVars

\* "No duplicate chair/receiver", whatever processes are killed, end or reuse
\* pids, as long as no process checked the file while another was to write it.
OneInstance == overtaken \/ Cardinality(Running) <= 1
=============================================================================
