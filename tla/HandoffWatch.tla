---------------------------- MODULE HandoffWatch ----------------------------
(***************************************************************************)
(* The watch on hand-offs (tools/watch_jeeves_handoff.py): one pass over   *)
(* the chair's log finds the jobs that were ACKed and are not DONE for a   *)
(* time, and the jobs that were assigned to two seats within a window.     *)
(*                                                                         *)
(* The chair appends lines with the time of the clock; the watch reads the *)
(* log at any time and changes nothing.  A job is an issue or pull request *)
(* and a mode (FR, MRB, UAT); its DONE may name another mode than its ACK  *)
(* (#80).  Left out: the findings that only count lines, and the tail that *)
(* is read of a long log, which holds every DONE of an ACK it holds.       *)
(***************************************************************************)
EXTENDS Naturals, Sequences

CONSTANTS
    WatchNick,      \* nicks of seats, as numbers: the watch sorts them
    WatchJob,       \* issues and pull requests
    WatchMode,      \* FR, MRB, UAT
    AckTimeout,     \* ack_done_timeout_s, in ticks
    AssignWindow,   \* 300 s
    Lookback,       \* lookback_s
    MaxLog, MaxClock    \* bounds: lines in the log, ticks of the clock

ASSUME WatchAssumption ==
    /\ WatchNick \subseteq Nat
    /\ AckTimeout \in Nat /\ AssignWindow \in Nat /\ Lookback \in Nat
    /\ MaxLog \in Nat /\ MaxClock \in Nat

VARIABLES
    chairLog,       \* bobjeeves-service.log
    wallClock

watchVars == <<chairLog, wallClock>>

LogLine == [event : {"assign", "ack", "done"}, nick : WatchNick, job : WatchJob,
            mode : WatchMode, at : 0 .. MaxClock]

WatchTypeOK ==
    /\ chairLog \in Seq(LogLine) /\ Len(chairLog) <= MaxLog
    /\ wallClock \in 0 .. MaxClock

WatchInit == chairLog = << >> /\ wallClock = 0

ChairLogs ==
    /\ Len(chairLog) < MaxLog
    /\ \E e \in {"assign", "ack", "done"}, n \in WatchNick, j \in WatchJob, md \in WatchMode :
          chairLog' = Append(chairLog, [event |-> e, nick |-> n, job |-> j, mode |-> md,
                                        at |-> wallClock])
    /\ UNCHANGED wallClock

WatchTick ==
    /\ wallClock < MaxClock
    /\ wallClock' = wallClock + 1
    /\ UNCHANGED chairLog

WatchNext == ChairLogs \/ WatchTick

WatchSpec == WatchInit /\ [][WatchNext]_watchVars

-----------------------------------------------------------------------------
(* The pass over the log.                                                  *)

SameSeatAndJob(a, b) == a.nick = b.nick /\ a.job = b.job

\* The variant that clears the very mode of the DONE.
ClearsExact(done, ack) == SameSeatAndJob(done, ack) /\ ack.mode = done.mode

\* A DONE clears the open ACKs of its nick and number in every mode.
Clears(done, ack) == SameSeatAndJob(done, ack)

\* What a line leaves open; an ACK replaces an earlier one of the same nick, job
\* and mode.
AfterLine(acks, ln) ==
    CASE ln.event = "ack"  -> {a \in acks : ~(SameSeatAndJob(ln, a) /\ a.mode = ln.mode)} \cup {ln}
      [] ln.event = "done" -> {a \in acks : ~Clears(ln, a)}
      [] OTHER -> acks

\* The ACKs still open after the whole log.
OpenAcks ==
    LET open[k \in 0 .. Len(chairLog)] ==
            IF k = 0 THEN {} ELSE AfterLine(open[k - 1], chairLog[k])
    IN  open[Len(chairLog)]

InLookback(ln) == ln.at + Lookback >= wallClock

AckWithoutDone == {a \in OpenAcks : InLookback(a) /\ wallClock - a.at >= AckTimeout}

Assigns(j, md) ==
    {<<ln.at, ln.nick>> : ln \in {chairLog[k] : k \in DOMAIN chairLog} \cap
        [event : {"assign"}, nick : WatchNick, job : {j}, mode : {md}, at : 0 .. wallClock]}

Sorted(a, b) == a[1] < b[1] \/ (a[1] = b[1] /\ a[2] < b[2])

\* The variant that compares with the first assign.
FollowsFirst(s, a, b) == Sorted(a, b) /\ ~\E c \in s : Sorted(c, a)

\* b comes right after a in the sorted assigns.
Follows(s, a, b) == Sorted(a, b) /\ ~\E c \in s : Sorted(a, c) /\ Sorted(c, b)

DualAssign(j, md) ==
    LET s == {a \in Assigns(j, md) : a[1] + Lookback >= wallClock}
        Soon(a, b) == Follows(s, a, b) /\ a[2] # b[2] /\ b[1] - a[1] <= AssignWindow
    IN  {p \in s \X s : Soon(p[1], p[2])}

-----------------------------------------------------------------------------
\* The pass finds the ACKs that are due and only them: the last of its nick, job
\* and mode, with no DONE of the nick for the job after it, old enough and not
\* too old, however ACKs, DONEs and modes are mixed.
FindsOpenAcks ==
    LET Due(k) ==
            LET a == chairLog[k]
                later == {chairLog[m] : m \in k + 1 .. Len(chairLog)}
            IN  /\ a.event = "ack"
                /\ a.at + AckTimeout <= wallClock /\ wallClock <= a.at + Lookback
                /\ ~\E b \in later : b.event = "done" /\ SameSeatAndJob(a, b)
                /\ ~\E b \in later : b.event = "ack" /\ SameSeatAndJob(a, b) /\ a.mode = b.mode
    IN  AckWithoutDone = {chairLog[k] : k \in {m \in DOMAIN chairLog : Due(m)}}

\* Neighbours in the sorted assigns are enough: a job assigned to two seats
\* within the window is found, whatever assigns lie between or beside them.
FindsDualAssigns ==
    \A j \in WatchJob, md \in WatchMode :
        (\E a, b \in Assigns(j, md) :
            /\ a[2] # b[2] /\ a[1] <= b[1]
            /\ b[1] - a[1] <= AssignWindow
            /\ a[1] + Lookback >= wallClock)
        => DualAssign(j, md) # {}
=============================================================================
