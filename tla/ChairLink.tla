----------------------------- MODULE ChairLink ------------------------------
(***************************************************************************)
(* The chair's IRC connection and the channels it is in: TlsIrcClient,     *)
(* which reconnects where it notices a drop, the loop of JeevesChair, and  *)
(* AutoJoinController, which joins what LIST returns and comes back after  *)
(* a kick.                                                                 *)
(*                                                                         *)
(* A connection that the server has closed stays open for the client until *)
(* it reads from it.  Lines of one connection are answered in order; a     *)
(* JOIN, and a LIST, are answered some time after they are sent.  Times    *)
(* are left out except for the wait before an attempt to connect.          *)
(***************************************************************************)
EXTENDS Integers, FiniteSets

CONSTANTS
    Channel,        \* channels of the server
    Seed,           \* joined at the start whatever LIST says
    Denied,         \* the denylist, and names that are skipped
    MayRefuse,      \* channels that may refuse a JOIN (474, 473, 471, 476)
    MaxDrops,       \* bound: times the connection is lost
    MaxKicks,       \* bound: kicks
    MaxRetry        \* bound: connection attempts counted in a row

ASSUME LinkAssumption ==
    /\ Seed \subseteq Channel
    /\ Denied \subseteq Channel
    /\ MayRefuse \subseteq Channel
    /\ MaxDrops \in Nat /\ MaxKicks \in Nat /\ MaxRetry \in Nat \ {0}

VARIABLES
    accepting,      \* the server takes connections
    sock,           \* the client has a socket
    alive,          \* the server has the other end
    throttled,      \* last_throttle
    retries,        \* reconnect_count
    waited,         \* the wait before the last attempt, in ms
    failed,         \* history: attempts failed since the last success
    present,        \* the channels the server has the chair in
    joined, hardFail, kickAttempts,     \* AutoJoinState
    asked,          \* a LIST is not answered yet
    joining,        \* JOINs not answered yet
    rejoining,      \* channels with a rejoin thread that sleeps
    drops, kicks    \* bounds: how often so far

linkVars == <<accepting, sock, alive, throttled, retries, waited, failed, present, joined,
              hardFail, kickAttempts, asked, joining, rejoining, drops, kicks>>

channelVars == <<joined, hardFail, kickAttempts, rejoining, kicks>>

KickLimit == 8

LongestWait == 37500

LinkTypeOK ==
    /\ accepting \in BOOLEAN /\ sock \in BOOLEAN /\ alive \in BOOLEAN
    /\ throttled \in BOOLEAN
    /\ retries \in 0 .. MaxRetry /\ failed \in 0 .. MaxRetry
    /\ waited \in 0 .. LongestWait
    /\ present \subseteq Channel /\ joined \subseteq Channel /\ hardFail \subseteq Channel
    /\ joining \subseteq Channel /\ rejoining \subseteq Channel
    /\ kickAttempts \in [Channel -> 0 .. KickLimit + 1]
    /\ asked \in BOOLEAN
    /\ drops \in 0 .. MaxDrops /\ kicks \in 0 .. MaxKicks

\* Connected, registered, the seeds joined and LIST sent (start).
LinkInit ==
    /\ accepting = TRUE /\ sock = TRUE /\ alive = TRUE
    /\ throttled = FALSE /\ retries = 0 /\ waited = 0 /\ failed = 0
    /\ present = {}
    /\ joined = Seed \ Denied
    /\ joining = Seed \ Denied
    /\ hardFail = {}
    /\ kickAttempts = [c \in Channel |-> 0]
    /\ asked = TRUE
    /\ rejoining = {}
    /\ drops = 0 /\ kicks = 0

-----------------------------------------------------------------------------
(* Reconnecting.                                                           *)

Least(a, b) == IF a < b THEN a ELSE b

\* throttle_delay_s with the cap of reconnect, in ms, at three points of its
\* jitter of 25 percent.
Delay(n) ==
    LET raw == Least(30000, 2000 * 2 ^ (n - 1))
    IN  {(raw * 3) \div 4, raw, (raw * 5) \div 4}

\* reconnect: the n-th attempt in a row, or one after a throttle error, waits.
Wait(n) == IF throttled \/ n > 1 THEN Delay(n) ELSE {0}

Connects ==
    /\ accepting
    /\ waited' \in Wait(retries + 1)
    /\ sock' = TRUE /\ alive' = TRUE
    /\ throttled' = FALSE /\ retries' = 0 /\ failed' = 0

\* The variant that starts counting anew after each failure.
RefusedForgets ==
    /\ ~accepting
    /\ waited' \in Wait(retries + 1)
    /\ sock' = FALSE /\ retries' = 0
    /\ failed' = Least(failed + 1, MaxRetry)
    /\ UNCHANGED <<alive, throttled>>

Refused ==
    /\ ~accepting
    /\ waited' \in Wait(retries + 1)
    /\ sock' = FALSE /\ retries' = Least(retries + 1, MaxRetry)
    /\ failed' = Least(failed + 1, MaxRetry)
    /\ UNCHANGED <<alive, throttled>>

\* The server closes the connection, with or without a throttle error, and may
\* go away for a time.
Drop ==
    /\ alive
    /\ drops < MaxDrops
    /\ drops' = drops + 1
    /\ alive' = FALSE /\ present' = {} /\ joining' = {} /\ asked' = FALSE
    /\ accepting' \in BOOLEAN
    /\ throttled' \in {throttled, TRUE}
    /\ UNCHANGED <<sock, retries, waited, failed, channelVars>>

ServerBack ==
    /\ ~accepting
    /\ accepting' = TRUE
    /\ UNCHANGED <<sock, alive, throttled, retries, waited, failed, present, joined, hardFail,
                   kickAttempts, asked, joining, rejoining, drops, kicks>>

\* _drain_until reads the end of the connection and calls ensure_connected
\* itself; when that succeeds in time, the loop of the chair does not see it.
RecoverInPlace ==
    /\ sock /\ ~alive
    /\ Connects
    /\ UNCHANGED <<accepting, present, asked, joining, drops, channelVars>>

LoseSocket ==
    /\ sock /\ ~alive
    /\ Refused
    /\ UNCHANGED <<accepting, present, asked, joining, drops, channelVars>>

\* _run finds no socket: ensure_connected, then note_reconnect.
Reconnect ==
    /\ ~sock
    /\ Connects
    /\ joined' = {}
    /\ asked' = TRUE
    /\ UNCHANGED <<accepting, present, joining, hardFail, kickAttempts, rejoining, drops, kicks>>

RetryFails ==
    /\ ~sock
    /\ Refused
    /\ UNCHANGED <<accepting, present, asked, joining, drops, channelVars>>

-----------------------------------------------------------------------------
(* Channels.                                                               *)

\* The variants that do not ask for earlier refusals.
ToJoinAll == Channel \ (Denied \cup joined)

MayRejoinAlways(c) == sock /\ c \notin Denied

\* channels_to_join: every channel exists on the server, so seeds add nothing.
ToJoin == Channel \ (Denied \cup hardFail \cup joined)

\* _do_join, with a socket to write to; a rejoin thread without one ends in an
\* AssertionError.
MayRejoin(c) == sock /\ c \notin Denied \cup hardFail

ListTick ==
    /\ alive
    /\ asked' = TRUE
    /\ UNCHANGED <<accepting, sock, alive, throttled, retries, waited, failed, present, joining,
                   drops, channelVars>>

ListReply ==
    /\ alive /\ asked
    /\ asked' = FALSE
    /\ joined' = joined \cup ToJoin
    /\ joining' = joining \cup ToJoin
    /\ UNCHANGED <<accepting, sock, alive, throttled, retries, waited, failed, present,
                   hardFail, kickAttempts, rejoining, drops, kicks>>

JoinOk(c) ==
    /\ alive /\ c \in joining
    /\ joining' = joining \ {c}
    /\ present' = present \cup {c}
    /\ joined' = joined \cup {c}
    /\ kickAttempts' = [kickAttempts EXCEPT ![c] = 0]
    /\ UNCHANGED <<accepting, sock, alive, throttled, retries, waited, failed, hardFail, asked,
                   rejoining, drops, kicks>>

\* 47x: no more rejoins; the channel stays among the joined.
JoinRefused(c) ==
    /\ alive /\ c \in joining \cap MayRefuse
    /\ joining' = joining \ {c}
    /\ hardFail' = hardFail \cup {c}
    /\ UNCHANGED <<accepting, sock, alive, throttled, retries, waited, failed, present, joined,
                   kickAttempts, asked, rejoining, drops, kicks>>

\* _on_kicked: eight kicks without a JOIN in between end the rejoining.
Kicked(c) ==
    /\ alive /\ c \in present
    /\ kicks < MaxKicks
    /\ kicks' = kicks + 1
    /\ present' = present \ {c}
    /\ joined' = joined \ {c}
    /\ LET n == kickAttempts[c] + 1
       IN  IF c \in hardFail
           THEN UNCHANGED <<hardFail, kickAttempts, rejoining>>
           ELSE /\ kickAttempts' = [kickAttempts EXCEPT ![c] = n]
                /\ hardFail' = IF n > KickLimit THEN hardFail \cup {c} ELSE hardFail
                /\ rejoining' = IF n > KickLimit THEN rejoining ELSE rejoining \cup {c}
    /\ UNCHANGED <<accepting, sock, alive, throttled, retries, waited, failed, asked, joining,
                   drops>>

\* The rejoin thread wakes up.  What it sends on a connection that is gone is
\* lost, but counts as joined.
Rejoin(c) ==
    /\ c \in rejoining
    /\ rejoining' = rejoining \ {c}
    /\ joined' = IF MayRejoin(c) THEN joined \cup {c} ELSE joined
    /\ joining' = IF MayRejoin(c) /\ alive THEN joining \cup {c} ELSE joining
    /\ UNCHANGED <<accepting, sock, alive, throttled, retries, waited, failed, present, hardFail,
                   kickAttempts, asked, drops, kicks>>

LinkNext ==
    \/ Drop
    \/ ServerBack
    \/ RecoverInPlace
    \/ LoseSocket
    \/ Reconnect
    \/ RetryFails
    \/ ListTick
    \/ ListReply
    \/ \E c \in Channel : JoinOk(c) \/ JoinRefused(c) \/ Kicked(c) \/ Rejoin(c)

LinkSpec == LinkInit /\ [][LinkNext]_linkVars

\* The chair reads and retries, the LIST thread asks every list_interval_s, and
\* the server answers and comes back.
LinkFairness ==
    /\ WF_linkVars(ServerBack)
    /\ WF_linkVars(RecoverInPlace \/ LoseSocket)
    /\ WF_linkVars(Reconnect \/ RetryFails)
    /\ WF_linkVars(ListTick)
    /\ WF_linkVars(ListReply)
    /\ \A c \in Channel : WF_linkVars(JoinOk(c) \/ JoinRefused(c)) /\ WF_linkVars(Rejoin(c))

FairLinkSpec == LinkSpec /\ LinkFairness

-----------------------------------------------------------------------------
\* "On connect and reconnect Jeeves sends LIST and JOINs every channel returned"
\* (README): a chair that stays connected is, in the end, in every channel that
\* does not refuse it.
RejoinsAll == <>[](Channel \ (Denied \cup MayRefuse) \subseteq present)

\* A JOIN is never sent again to a channel that refused one or kicked the chair
\* too often, whichever of LIST, rejoin thread and reconnect comes first.
RefusedStaysOut == [][joining' \cap hardFail \subseteq joining]_linkVars

\* Failed attempts back off: whatever the order of drops, throttle errors and
\* short successes, the n-th attempt after n-1 failures waits its share.
StormBacksOff ==
    [][failed > 0 /\ (retries' # retries \/ alive' # alive) =>
            waited' >= Least(22500, 1000 * 2 ^ failed)]_linkVars
=============================================================================
