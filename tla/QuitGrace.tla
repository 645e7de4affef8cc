------------------------------ MODULE QuitGrace ------------------------------
(***************************************************************************)
(* When the chair takes a job from a seat that left: not at its QUIT but   *)
(* after a grace time in which the seat, or a new process of its machine,  *)
(* may come back (FR #110), and in any case when nothing was recorded of   *)
(* the seat for its time to live (FR #102).                                *)
(*                                                                         *)
(* The chair hears JOIN and QUIT only while its own connection is up.      *)
(* Times are ages in ticks of the clock, up to the age that matters.  What *)
(* a seat works on is left out: it has a job or it has none.               *)
(***************************************************************************)
EXTENDS Naturals

CONSTANTS
    Seat,           \* worker nicks: {machine}-{pid}
    MachineOfSeat,  \* the machine in a worker nick
    Grace,          \* quit_rejoin_grace_s, in ticks
    Ttl,            \* JEEVES_WORKER_STALE_S, in ticks
    NoQuit          \* not in _pending_quits

ASSUME GraceAssumption ==
    /\ Grace \in Nat \ {0} /\ Ttl \in Nat \ {0}
    /\ NoQuit \notin Nat

VARIABLES
    online,         \* the seats on IRC
    hears,          \* the chair's connection is up
    working,        \* the seats with an accepted row
    quitAge,        \* _pending_quits: the age of the QUIT
    seenAge,        \* the age of ts in the seat's workers entry
    goneFor,        \* history: the age of the last QUIT heard, if no JOIN was heard since
    flushed         \* history: the seats the last step released for their QUIT

graceVars == <<online, hears, working, quitAge, seenAge, goneFor, flushed>>

GraceTypeOK ==
    /\ online \subseteq Seat /\ working \subseteq Seat /\ flushed \subseteq Seat
    /\ hears \in BOOLEAN
    /\ quitAge \in [Seat -> 0 .. Grace \cup {NoQuit}]
    /\ goneFor \in [Seat -> 0 .. Grace \cup {NoQuit}]
    /\ seenAge \in [Seat -> 0 .. Ttl]

GraceInit ==
    /\ online = {} /\ working = {} /\ flushed = {}
    /\ hears = TRUE
    /\ quitAge = [s \in Seat |-> NoQuit]
    /\ goneFor = [s \in Seat |-> NoQuit]
    /\ seenAge = [s \in Seat |-> 0]

Older(age, top) == IF age = NoQuit THEN NoQuit ELSE IF age < top THEN age + 1 ELSE top

-----------------------------------------------------------------------------
(* What the chair hears.                                                   *)

\* The variant that keeps the time of an earlier QUIT.
HoldKeepsFirst(s) == [quitAge EXCEPT ![s] = IF @ = NoQuit THEN 0 ELSE @]

\* _handle_quit_raw
HoldFor(s) == [quitAge EXCEPT ![s] = 0]

\* _handle_join_raw: the nick itself, or else all that left of its machine
AfterJoin(s) ==
    IF quitAge[s] # NoQuit
    THEN [quitAge EXCEPT ![s] = NoQuit]
    ELSE [t \in Seat |-> IF MachineOfSeat[t] = MachineOfSeat[s] THEN NoQuit ELSE quitAge[t]]

Quit(s) ==
    /\ s \in online
    /\ online' = online \ {s}
    /\ IF hears
       THEN quitAge' = HoldFor(s) /\ goneFor' = [goneFor EXCEPT ![s] = 0]
       ELSE UNCHANGED <<quitAge, goneFor>>
    /\ flushed' = {}
    /\ UNCHANGED <<hears, working, seenAge>>

\* A seat joins #bobiverse and its shop: a line for each channel.
Join(s) ==
    /\ hears
    /\ online' = online \cup {s}
    /\ quitAge' = AfterJoin(s)
    /\ goneFor' = [goneFor EXCEPT ![s] = NoQuit]
    /\ flushed' = {}
    /\ UNCHANGED <<hears, working, seenAge>>

JoinUnheard(s) ==
    /\ s \notin online /\ ~hears
    /\ online' = online \cup {s}
    /\ flushed' = {}
    /\ UNCHANGED <<hears, working, quitAge, seenAge, goneFor>>

LinkUpOrDown ==
    /\ hears' = ~hears
    /\ flushed' = {}
    /\ UNCHANGED <<online, working, quitAge, seenAge, goneFor>>

-----------------------------------------------------------------------------
(* Jobs.                                                                   *)

\* An ACK, or any report of the seat's state
Heard(s) ==
    /\ s \in online /\ hears
    /\ working' \in {working, working \cup {s}}
    /\ seenAge' = [seenAge EXCEPT ![s] = 0]
    /\ flushed' = {}
    /\ UNCHANGED <<online, hears, quitAge, goneFor>>

JobDone(s) ==
    /\ s \in online \cap working /\ hears
    /\ working' = working \ {s}
    /\ seenAge' = [seenAge EXCEPT ![s] = 0]
    /\ flushed' = {}
    /\ UNCHANGED <<online, hears, quitAge, goneFor>>

Tick ==
    /\ quitAge' = [s \in Seat |-> Older(quitAge[s], Grace)]
    /\ goneFor' = [s \in Seat |-> Older(goneFor[s], Grace)]
    /\ seenAge' = [s \in Seat |-> Older(seenAge[s], Ttl)]
    /\ flushed' = {}
    /\ UNCHANGED <<online, hears, working>>

\* _flush_quit_holds
FlushHolds ==
    LET due == {s \in Seat : quitAge[s] # NoQuit /\ quitAge[s] >= Grace}
    IN  /\ due # {}
        /\ quitAge' = [s \in Seat |-> IF s \in due THEN NoQuit ELSE quitAge[s]]
        /\ working' = working \ due
        /\ flushed' = due
        /\ UNCHANGED <<online, hears, seenAge, goneFor>>

\* The variant that leaves the seats with a job to the flush of the holds.
SweepIdle == {s \in Seat \ working : seenAge[s] >= Ttl}

\* expire_stale_workers
Stale == {s \in Seat : seenAge[s] >= Ttl}

SweepStale ==
    /\ Stale \cap working # {}
    /\ working' = working \ Stale
    /\ flushed' = {}
    /\ UNCHANGED <<online, hears, quitAge, seenAge, goneFor>>

GraceNext ==
    \/ \E s \in Seat : Quit(s) \/ Join(s) \/ JoinUnheard(s) \/ Heard(s) \/ JobDone(s)
    \/ LinkUpOrDown
    \/ Tick
    \/ FlushHolds
    \/ SweepStale

GraceSpec == GraceInit /\ [][GraceNext]_graceVars

\* Time passes, and the chair's loop sweeps whether its connection is up or not.
FairGraceSpec == GraceSpec /\ WF_graceVars(Tick) /\ WF_graceVars(FlushHolds) /\ WF_graceVars(SweepStale)

-----------------------------------------------------------------------------
\* FR #110: a QUIT takes a job only from a seat that the chair has not heard
\* come back since, for the whole grace, however often the seat came and went
\* and whatever the chair missed.
GraceKeepsSeats == \A s \in flushed : goneFor[s] # NoQuit /\ goneFor[s] >= Grace

\* A seat that is gone for good loses its job, also when the chair missed its
\* QUIT or a JOIN of its machine ended the hold.
GoneSeatsRelease == \A s \in Seat : <>[](s \notin online) => <>[](s \notin working)
=============================================================================
