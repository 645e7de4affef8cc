----------------------------- MODULE Periphery ------------------------------
(***************************************************************************)
(* The components around the queue, side by side.  They share no state, so *)
(* an initial choice of the component that acts (part) is enough for TLC   *)
(* and keeps the state spaces beside each other instead of multiplied.     *)
(***************************************************************************)
EXTENDS Outbox, ChairLink, ModeGrants, QuitGrace, Focus, Intake, Exceptions, Singleton,
        Recycle, HandoffWatch, LengthSafe, FleetDigest

VARIABLE part

-----------------------------------------------------------------------------
peripheryVars == <<part, outboxVars, linkVars, modeVars, graceVars, focusVars, intakeVars, reportVars, singletonVars,
                   recycleVars, watchVars, lengthVars,
                   digestVars>>

PeripheryInit ==
    /\ part \in {"outbox", "link", "modes", "grace", "focus", "intake", "exceptions",
                "singleton", "recycle", "watch", "length", "digest"}
    /\ OutboxInit
    /\ LinkInit
    /\ ModesInit
    /\ GraceInit
    /\ FocusInit
    /\ IntakeInit
    /\ ExceptionsInit
    /\ SingletonInit
    /\ RecycleInit
    /\ WatchInit
    /\ LengthInit
    /\ DigestInit

PeripheryNext ==
    /\ UNCHANGED part
    /\ IF part = "outbox" THEN OutboxNext ELSE UNCHANGED outboxVars
    /\ IF part = "link" THEN LinkNext ELSE UNCHANGED linkVars
    /\ IF part = "modes" THEN ModesNext ELSE UNCHANGED modeVars
    /\ IF part = "grace" THEN GraceNext ELSE UNCHANGED graceVars
    /\ IF part = "focus" THEN FocusNext ELSE UNCHANGED focusVars
    /\ IF part = "intake" THEN IntakeNext ELSE UNCHANGED intakeVars
    /\ IF part = "exceptions" THEN ExceptionsNext ELSE UNCHANGED reportVars
    /\ IF part = "singleton" THEN SingletonNext ELSE UNCHANGED singletonVars
    /\ IF part = "recycle" THEN RecycleNext ELSE UNCHANGED recycleVars
    /\ IF part = "watch" THEN WatchNext ELSE UNCHANGED watchVars
    /\ IF part = "length" THEN LengthNext ELSE UNCHANGED lengthVars
    /\ IF part = "digest" THEN DigestNext ELSE UNCHANGED digestVars


\* The fairness of FairGraceSpec and FairFocusSpec, of the part that acts.
PeripheryFairness ==
    /\ WF_graceVars(part = "grace" /\ Tick)
    /\ WF_graceVars(part = "grace" /\ FlushHolds)
    /\ WF_graceVars(part = "grace" /\ SweepStale)
    /\ \A t \in Thread : WF_focusVars(part = "focus" /\ Save(t))
    /\ WF_focusVars(part = "focus" /\ ClearItems)
    /\ SF_focusVars(part = "focus" /\ Purge("receiver"))
    /\ WF_focusVars(part = "focus" /\ \E mv \in moves : Retarget(mv[1], mv[2]))

PeripherySpec == PeripheryInit /\ [][PeripheryNext]_peripheryVars /\ PeripheryFairness

-----------------------------------------------------------------------------
\* The variables of every component keep their types.
PeripheryTypeOK ==
    /\ OutboxTypeOK
    /\ LinkTypeOK
    /\ ModesTypeOK
    /\ GraceTypeOK
    /\ FocusTypeOK
    /\ IntakeTypeOK
    /\ ExceptionsTypeOK
    /\ SingletonTypeOK
    /\ RecycleTypeOK
    /\ WatchTypeOK
    /\ LengthTypeOK
    /\ DigestTypeOK

=============================================================================
