------------------------------ MODULE Recycle -------------------------------
(***************************************************************************)
(* !recycle (FR #197, #211): the chair checks who asks, holds back repeats *)
(* for a cooldown, and routes RECYCLE to the local seat of one machine or  *)
(* to the whole fleet.  It runs nothing itself.                            *)
(*                                                                         *)
(* The gate is in the memory of the chair and keyed by what is recycled: a *)
(* machine, or the fleet.  A machine has several names; other names are of *)
(* none.  Times are ages in ticks, up to the cooldown.                     *)
(***************************************************************************)
EXTENDS Naturals, FiniteSets

CONSTANTS
    Machine,        \* FLEET_RECYCLE_MACHINES
    MachineName,    \* what !recycle is given: ids, aliases, "all", others
    MachineNamed,   \* the machine of a name, or Fleet, or NoMachine
    Fleet, NoMachine,
    Operator,       \* the nicks that ask and may be allowed: the owner and bobs
    Cooldown,       \* cooldown_s, in ticks
    MaxRoutes,      \* bound: routes to a machine that are told apart
    MaxChairStarts  \* bound: restarts of the chair

ASSUME RecycleAssumption ==
    /\ Fleet \notin Machine /\ NoMachine \notin Machine \cup {Fleet}
    /\ MachineNamed \in [MachineName -> Machine \cup {Fleet, NoMachine}]
    /\ Cooldown \in Nat \ {0} /\ MaxRoutes \in Nat /\ MaxChairStarts \in Nat

VARIABLES
    gate,           \* the age of the last route of a key
    known,          \* the operators whose services account the chair knows
    routed,         \* history: how many routes of each age a machine was sent
    restartAge,     \* history: the age of the last restart
    chairStarts

recycleVars == <<gate, known, routed, restartAge, chairStarts>>

\* A route is sent in #bobiverse and the shop, or in both of them: one here.
GateKey == MachineName \cup Machine \cup {Fleet}

RecycleTypeOK ==
    /\ gate \in [GateKey -> 0 .. Cooldown]
    /\ known \subseteq Operator
    /\ routed \in [Machine -> [0 .. Cooldown - 1 -> 0 .. MaxRoutes]]
    /\ restartAge \in 0 .. Cooldown
    /\ chairStarts \in 0 .. MaxChairStarts

RecycleInit ==
    /\ gate = [k \in GateKey |-> Cooldown]
    /\ known = {}
    /\ routed = [m \in Machine |-> [a \in 0 .. Cooldown - 1 |-> 0]]
    /\ restartAge = Cooldown
    /\ chairStarts = 0

\* The variant that keys the gate by the name that was given.
KeyAsNamed(name) == name

\* resolve_recycle_target_machine
KeyOf(name) == MachineNamed[name]

\* decide_recycle: who is not known, a name that is of no machine, and a repeat,
\* are turned down.
Allowed(o, name) ==
    /\ o \in known
    /\ MachineNamed[name] # NoMachine
    /\ gate[KeyOf(name)] >= Cooldown

\* The machines that hear the line: all of them in #bobiverse, or the one in its
\* own shop.
Hears(name) == {m \in Machine : MachineNamed[name] \in {m, Fleet}}

\* _handle_recycle
RecycleCmd(o, name) ==
    /\ Allowed(o, name)
    /\ gate' = [gate EXCEPT ![KeyOf(name)] = 0]
    /\ \A m \in Machine : routed[m][0] < MaxRoutes
    /\ routed' = [m \in Machine |->
                    IF m \in Hears(name) THEN [routed[m] EXCEPT ![0] = @ + 1] ELSE routed[m]]
    /\ UNCHANGED <<known, restartAge, chairStarts>>

\* An ACCOUNT line, or the answer to WHO
AccountLine(o) ==
    /\ known' = IF o \in known THEN known \ {o} ELSE known \cup {o}
    /\ UNCHANGED <<gate, routed, restartAge, chairStarts>>

RestartChair ==
    /\ chairStarts < MaxChairStarts
    /\ chairStarts' = chairStarts + 1
    /\ gate' = [k \in GateKey |-> Cooldown]
    /\ known' = {}
    /\ restartAge' = 0
    /\ UNCHANGED routed

RecycleTick ==
    /\ gate' = [k \in GateKey |-> IF gate[k] < Cooldown THEN gate[k] + 1 ELSE Cooldown]
    /\ routed' = [m \in Machine |->
                    [a \in 0 .. Cooldown - 1 |-> IF a = 0 THEN 0 ELSE routed[m][a - 1]]]
    /\ restartAge' = IF restartAge < Cooldown THEN restartAge + 1 ELSE Cooldown
    /\ UNCHANGED <<known, chairStarts>>

RecycleNext ==
    \/ \E o \in Operator : AccountLine(o) \/ \E name \in MachineName : RecycleCmd(o, name)
    \/ RestartChair
    \/ RecycleTick

RecycleSpec == RecycleInit /\ [][RecycleNext]_recycleVars

\* The routes that a machine was sent within the window, numbered by their age.
RoutesTo(m) == UNION {{a} \X (1 .. routed[m][a]) : a \in 0 .. Cooldown - 1}

\* "Duplicate prevention: one open recycle route per machine within this window"
\* (recycle.py), as far as the code keeps it: one under the name of the machine,
\* whatever alias is used and whoever asks, and one for the fleet, and as many
\* again for a restart in the window.
FewRecycles ==
    \A m \in Machine :
        Cardinality(RoutesTo(m)) <= IF restartAge < Cooldown THEN 2 * (1 + chairStarts) ELSE 2
=============================================================================
