----------------------------- MODULE ModeGrants -----------------------------
(***************************************************************************)
(* The chair's mode grants: a bob that is logged in gets half-op in every  *)
(* channel and op in its own shop (ModeGrantController).  The chair knows  *)
(* who is logged in from JOIN, ACCOUNT, WHO and WHOIS lines and which      *)
(* modes are set from MODE lines and the prefixes in NAMES.                *)
(*                                                                         *)
(* Lines reach the chair in the order the server sends them; the MODE that *)
(* the chair sends reaches the server later.  Half-op or op: a nick here   *)
(* has the mode that is wanted for it in the channel, or it has not.  The  *)
(* owner, whose rule also asks for the host, is granted the same way.      *)
(***************************************************************************)
EXTENDS Naturals, FiniteSets

CONSTANTS
    Hall,           \* the channels of the chair
    Bob,            \* nicks that are granted modes when logged in
    MaxModeSteps    \* bound: what bobs and operators do

ASSUME ModeAssumption == MaxModeSteps \in Nat

VARIABLES
    members,        \* server: the bobs in each channel
    hasMode,        \* server: the bobs of a channel that have their mode
    login,          \* server: the bobs logged in to their account
    chairIn,        \* the channels the chair is in
    modeKeys,       \* the channels state.modes has an entry for
    tracked,        \* the modes in state.modes
    accounts,       \* state.accounts
    pendingSweep,   \* state.pending_sweep
    whoAsked,       \* a WHO of the channel is not answered yet
    modeCmds,       \* MODEs on their way to the server
    given,          \* history: MODEs sent and not seen taken back
    modeSteps

viewVars   == <<modeKeys, tracked, modeCmds, given>>
serverVars == <<members, hasMode, login>>
modeVars   == <<serverVars, chairIn, viewVars, accounts, pendingSweep, whoAsked, modeSteps>>

Grant == Hall \X Bob

ModesTypeOK ==
    /\ members \in [Hall -> SUBSET Bob]
    /\ hasMode \in [Hall -> SUBSET Bob] /\ \A c \in Hall : hasMode[c] \subseteq members[c]
    /\ login \subseteq Bob /\ accounts \subseteq Bob
    /\ chairIn \subseteq Hall
    /\ tracked \in [Hall -> SUBSET Bob] /\ \A c \in Hall : tracked[c] # {} => c \in modeKeys
    /\ modeKeys \subseteq Hall /\ pendingSweep \subseteq Hall /\ whoAsked \subseteq Hall
    /\ modeCmds \subseteq Grant /\ given \subseteq Grant
    /\ modeSteps \in 0 .. MaxModeSteps

ModesInit ==
    /\ members = [c \in Hall |-> {}]
    /\ hasMode = [c \in Hall |-> {}]
    /\ login = {} /\ accounts = {}
    /\ chairIn = {}
    /\ modeKeys = {} /\ pendingSweep = {} /\ whoAsked = {}
    /\ tracked = [c \in Hall |-> {}]
    /\ modeCmds = {} /\ given = {}
    /\ modeSteps = 0

ModeStep == modeSteps < MaxModeSteps /\ modeSteps' = modeSteps + 1

-----------------------------------------------------------------------------
(* maybe_grant, for the nicks and channels a line makes the chair look at. *)

\* The variant that waits for the server's MODE line to learn of its own grant.
GrantUntracked(asked, accts, seen, keys) ==
    LET due == {g \in asked : g[2] \in accts /\ g[2] \notin seen[g[1]]}
    IN  \E sent \in SUBSET due :
            /\ modeCmds' = modeCmds \cup sent
            /\ given' = given \cup sent
            /\ tracked' = seen
            /\ modeKeys' = keys

\* A MODE that cannot be sent is not tracked.
GrantDue(asked, accts, seen, keys) ==
    LET due == {g \in asked : g[2] \in accts /\ g[2] \notin seen[g[1]]}
    IN  \E sent \in SUBSET due :
            /\ modeCmds' = modeCmds \cup sent
            /\ given' = given \cup sent
            /\ tracked' = [c \in Hall |-> seen[c] \cup {n \in Bob : <<c, n>> \in sent}]
            /\ modeKeys' = keys \cup {g[1] : g \in sent}

\* "late account: try grant on channels we know"
KnownChannels == modeKeys \cup pendingSweep

LearnAccounts(nicks) ==
    /\ accounts' = accounts \cup nicks
    /\ GrantDue(KnownChannels \X nicks, accounts', tracked, modeKeys)

-----------------------------------------------------------------------------
(* Lines that the chair reads.                                             *)

\* extended-join names the account; a JOIN without one leaves what was known.
BobJoins(n, c) ==
    /\ ModeStep
    /\ n \notin members[c]
    /\ members' = [members EXCEPT ![c] = @ \cup {n}]
    /\ IF c \in chairIn
       THEN /\ accounts' = accounts \cup ({n} \cap login)
            /\ GrantDue({<<c, n>>}, accounts', tracked, modeKeys)
       ELSE UNCHANGED <<accounts, viewVars>>
    /\ UNCHANGED <<hasMode, login, chairIn, pendingSweep, whoAsked>>

\* No handler of the controller reads PART, QUIT, KICK or NICK.
BobQuits(n) ==
    /\ ModeStep
    /\ \E c \in Hall : n \in members[c]
    /\ members' = [c \in Hall |-> members[c] \ {n}]
    /\ hasMode' = [c \in Hall |-> hasMode[c] \ {n}]
    /\ login' = login \ {n}
    /\ UNCHANGED <<chairIn, viewVars, accounts, pendingSweep, whoAsked>>

\* account-notify tells a chair that shares a channel with the bob.
BobLogsIn(n) ==
    /\ ModeStep
    /\ n \notin login
    /\ login' = login \cup {n}
    /\ IF \E c \in chairIn : n \in members[c]
       THEN LearnAccounts({n})
       ELSE UNCHANGED <<accounts, viewVars>>
    /\ UNCHANGED <<members, hasMode, chairIn, pendingSweep, whoAsked>>

BobLogsOut(n) ==
    /\ ModeStep
    /\ n \in login
    /\ login' = login \ {n}
    /\ accounts' = IF \E c \in chairIn : n \in members[c] THEN accounts \ {n} ELSE accounts
    /\ UNCHANGED <<members, hasMode, chairIn, viewVars, pendingSweep, whoAsked>>

\* An operator takes a bob's mode; the MODE line tells the chair.
ModeTaken(c, n) ==
    /\ ModeStep
    /\ n \in hasMode[c]
    /\ hasMode' = [hasMode EXCEPT ![c] = @ \ {n}]
    /\ IF c \in chairIn
       THEN /\ tracked' = [tracked EXCEPT ![c] = @ \ {n}]
            /\ modeKeys' = modeKeys \cup {c}
            /\ given' = given \ {<<c, n>>}
       ELSE UNCHANGED <<tracked, modeKeys, given>>
    /\ UNCHANGED <<members, login, chairIn, modeCmds, accounts, pendingSweep, whoAsked>>

\* A MODE line for anybody else makes an entry for the channel.
OtherMode(c) ==
    /\ c \in chairIn \ modeKeys
    /\ modeKeys' = modeKeys \cup {c}
    /\ UNCHANGED <<serverVars, chairIn, tracked, modeCmds, given, accounts, pendingSweep,
                   whoAsked, modeSteps>>

\* request_who: WHO with the account of each nick in the channel
AskWho(c) == whoAsked' = whoAsked \cup {c}

\* sweep_channel: the prefixes in NAMES are modes of their nicks.
ShownBy(c) == [tracked EXCEPT ![c] = @ \cup hasMode[c]]

\* The chair's own JOIN: sweep when NAMES comes, and ask WHO.
ChairJoins(c) ==
    /\ c \notin chairIn
    /\ chairIn' = chairIn \cup {c}
    /\ pendingSweep' = pendingSweep \cup {c}
    /\ AskWho(c)
    /\ UNCHANGED <<serverVars, viewVars, accounts, modeSteps>>

\* on_names: the prefixes, the grants, and then WHO again
NamesReply(c) ==
    /\ c \in pendingSweep \cap chairIn
    /\ GrantDue({c} \X members[c], accounts, ShownBy(c),
                IF hasMode[c] = {} THEN modeKeys ELSE modeKeys \cup {c})
    /\ pendingSweep' = pendingSweep \ {c}
    /\ AskWho(c)
    /\ UNCHANGED <<serverVars, chairIn, accounts, modeSteps>>

\* The server answers after the NAMES of the JOIN.
WhoReply(c) ==
    /\ c \in (whoAsked \cap chairIn) \ pendingSweep
    /\ LearnAccounts(members[c] \cap login)
    /\ whoAsked' = whoAsked \ {c}
    /\ UNCHANGED <<serverVars, chairIn, pendingSweep, modeSteps>>

\* !sweep: NAMES and WHO again, and a grant to all whose account is known.
SweepCommand(c) ==
    /\ ModeStep
    /\ c \in chairIn \ pendingSweep
    /\ GrantDue({c} \X accounts, accounts, tracked, modeKeys)
    /\ pendingSweep' = pendingSweep \cup {c}
    /\ AskWho(c)
    /\ UNCHANGED <<serverVars, chairIn, accounts>>

-----------------------------------------------------------------------------

\* The server sets the mode of a nick that is still there.
ServerSets(g) ==
    /\ g \in modeCmds
    /\ modeCmds' = modeCmds \ {g}
    /\ hasMode' = [hasMode EXCEPT ![g[1]] = @ \cup ({g[2]} \cap members[g[1]])]
    /\ UNCHANGED <<members, login, chairIn, modeKeys, tracked, given, accounts, pendingSweep,
                   whoAsked, modeSteps>>

\* The connection is lost, with what was on its way; the controller stays.
ChairLost ==
    /\ ModeStep
    /\ chairIn # {}
    /\ chairIn' = {}
    /\ whoAsked' = {}
    /\ modeCmds' = {}
    /\ UNCHANGED <<serverVars, modeKeys, tracked, given, accounts, pendingSweep>>

ModesNext ==
    \/ \E n \in Bob : BobQuits(n) \/ BobLogsIn(n) \/ BobLogsOut(n)
    \/ \E c \in Hall :
        \/ OtherMode(c) \/ ChairJoins(c) \/ NamesReply(c) \/ WhoReply(c) \/ SweepCommand(c)
        \/ \E n \in Bob : BobJoins(n, c) \/ ModeTaken(c, n)
    \/ \E g \in modeCmds : ServerSets(g)
    \/ ChairLost

ModesSpec == ModesInit /\ [][ModesNext]_modeVars

\* Whatever lines ask for the same grant (JOIN, ACCOUNT, NAMES, WHO, !sweep),
\* the chair sends its MODE once, until it sees the mode taken back.
GrantsOnce == [][\A g \in modeCmds' \ modeCmds : g \notin given]_modeVars
=============================================================================
