-------------------------- MODULE PeripheryProofs ---------------------------
(***************************************************************************)
(* The components beside each other: what is proved of each one alone is   *)
(* true of it in the run of all of them, and the type invariant of the     *)
(* whole follows.                                                          *)
(***************************************************************************)
EXTENDS Periphery, StoreProofs, ServiceProofs

-----------------------------------------------------------------------------
(* Each component runs as its own specification says.                      *)

\* The outbox of the chair's lines.
LEMMA OutboxRuns == PeripherySpec => OutboxSpec
  <1>1. PeripheryInit => OutboxInit BY DEF PeripheryInit
  <1>2. [PeripheryNext]_peripheryVars => [OutboxNext]_outboxVars BY DEF PeripheryNext, peripheryVars
  <1> QED BY <1>1, <1>2, PTL DEF PeripherySpec, OutboxSpec

\* The chair's connection and its channels.
LEMMA LinkRuns == PeripherySpec => LinkSpec
  <1>1. PeripheryInit => LinkInit BY DEF PeripheryInit
  <1>2. [PeripheryNext]_peripheryVars => [LinkNext]_linkVars BY DEF PeripheryNext, peripheryVars
  <1> QED BY <1>1, <1>2, PTL DEF PeripherySpec, LinkSpec

\* The mode grants.
LEMMA ModesRuns == PeripherySpec => ModesSpec
  <1>1. PeripheryInit => ModesInit BY DEF PeripheryInit
  <1>2. [PeripheryNext]_peripheryVars => [ModesNext]_modeVars BY DEF PeripheryNext, peripheryVars
  <1> QED BY <1>1, <1>2, PTL DEF PeripherySpec, ModesSpec

\* The quit grace.
LEMMA GraceRuns == PeripherySpec => GraceSpec
  <1>1. PeripheryInit => GraceInit BY DEF PeripheryInit
  <1>2. [PeripheryNext]_peripheryVars => [GraceNext]_graceVars BY DEF PeripheryNext, peripheryVars
  <1> QED BY <1>1, <1>2, PTL DEF PeripherySpec, GraceSpec

\* The focus of the operators.
LEMMA FocusRuns == PeripherySpec => FocusSpec
  <1>1. PeripheryInit => FocusInit BY DEF PeripheryInit
  <1>2. [PeripheryNext]_peripheryVars => [FocusNext]_focusVars BY DEF PeripheryNext, peripheryVars
  <1> QED BY <1>1, <1>2, PTL DEF PeripherySpec, FocusSpec

\* The intake of submissions.
LEMMA IntakeRuns == PeripherySpec => IntakeSpec
  <1>1. PeripheryInit => IntakeInit BY DEF PeripheryInit
  <1>2. [PeripheryNext]_peripheryVars => [IntakeNext]_intakeVars BY DEF PeripheryNext, peripheryVars
  <1> QED BY <1>1, <1>2, PTL DEF PeripherySpec, IntakeSpec

\* The exception reports.
LEMMA ExceptionsRuns == PeripherySpec => ExceptionsSpec
  <1>1. PeripheryInit => ExceptionsInit BY DEF PeripheryInit
  <1>2. [PeripheryNext]_peripheryVars => [ExceptionsNext]_reportVars BY DEF PeripheryNext, peripheryVars
  <1> QED BY <1>1, <1>2, PTL DEF PeripherySpec, ExceptionsSpec

\* The start of the service.
LEMMA SingletonRuns == PeripherySpec => SingletonSpec
  <1>1. PeripheryInit => SingletonInit BY DEF PeripheryInit
  <1>2. [PeripheryNext]_peripheryVars => [SingletonNext]_singletonVars BY DEF PeripheryNext, peripheryVars
  <1> QED BY <1>1, <1>2, PTL DEF PeripherySpec, SingletonSpec

\* The routes to recycle a machine.
LEMMA RecycleRuns == PeripherySpec => RecycleSpec
  <1>1. PeripheryInit => RecycleInit BY DEF PeripheryInit
  <1>2. [PeripheryNext]_peripheryVars => [RecycleNext]_recycleVars BY DEF PeripheryNext, peripheryVars
  <1> QED BY <1>1, <1>2, PTL DEF PeripherySpec, RecycleSpec

\* The watch on hand-offs.
LEMMA WatchRuns == PeripherySpec => WatchSpec
  <1>1. PeripheryInit => WatchInit BY DEF PeripheryInit
  <1>2. [PeripheryNext]_peripheryVars => [WatchNext]_watchVars BY DEF PeripheryNext, peripheryVars
  <1> QED BY <1>1, <1>2, PTL DEF PeripherySpec, WatchSpec

\* The length of a webhook's line.
LEMMA LengthRuns == PeripherySpec => LengthSpec
  <1>1. PeripheryInit => LengthInit BY DEF PeripheryInit
  <1>2. [PeripheryNext]_peripheryVars => [LengthNext]_lengthVars BY DEF PeripheryNext, peripheryVars
  <1> QED BY <1>1, <1>2, PTL DEF PeripherySpec, LengthSpec

\* The digest of the fleet.
LEMMA DigestRuns == PeripherySpec => DigestSpec
  <1>1. PeripheryInit => DigestInit BY DEF PeripheryInit
  <1>2. [PeripheryNext]_peripheryVars => [DigestNext]_digestVars BY DEF PeripheryNext, peripheryVars
  <1> QED BY <1>1, <1>2, PTL DEF PeripherySpec, DigestSpec

-----------------------------------------------------------------------------
(* The types of the whole.                                                 *)

\* Every variable of every component keeps its type, whatever the sets of
\* seats, channels, items, reports, machines and lines are.
THEOREM PeripheryTypes == PeripherySpec => []PeripheryTypeOK
  <1>1. PeripherySpec => []OutboxTypeOK BY OutboxRuns, OutboxTypes, PTL
  <1>2. PeripherySpec => []LinkTypeOK BY LinkRuns, LinkTypes, PTL
  <1>3. PeripherySpec => []ModesTypeOK BY ModesRuns, ModesTypes, PTL
  <1>4. PeripherySpec => []GraceTypeOK BY GraceRuns, GraceTypes, PTL
  <1>5. PeripherySpec => []FocusTypeOK BY FocusRuns, FocusTypes, PTL
  <1>6. PeripherySpec => []IntakeTypeOK BY IntakeRuns, IntakeTypes, PTL
  <1>7. PeripherySpec => []ExceptionsTypeOK BY ExceptionsRuns, ExceptionsTypes, PTL
  <1>8. PeripherySpec => []SingletonTypeOK BY SingletonRuns, SingletonTypes, PTL
  <1>9. PeripherySpec => []RecycleTypeOK BY RecycleRuns, RecycleTypes, PTL
  <1>10. PeripherySpec => []WatchTypeOK BY WatchRuns, WatchTypes, PTL DEF WatchSpec
  <1>11. PeripherySpec => []LengthTypeOK
    BY LengthRuns, LengthTypes, LengthInvariant, PTL DEF LengthSpec
  <1>12. PeripherySpec => []DigestTypeOK BY DigestRuns, DigestTypes, PTL
  <1> QED
    BY <1>1, <1>2, <1>3, <1>4, <1>5, <1>6, <1>7, <1>8, <1>9, <1>10, <1>11, <1>12, PTL
       DEF PeripheryTypeOK

-----------------------------------------------------------------------------
(* The safety of the whole.                                                *)

\* What the components promise one by one (announced lines, seats, focus,
\* digest, submissions, reports, the service's start, recycling and the watch)
\* holds of them together.
THEOREM PeripheryIsSafe ==
    PeripherySpec =>
        /\ []LinesAccounted
        /\ []LineReadsBack
        /\ []GraceKeepsSeats
        /\ []RanksInOrder
        /\ []TilesTrue
        /\ []ToldIsKept
        /\ []MadeOnce
        /\ []ReportsKept
        /\ []RateKept
        /\ []OneIssuePerTrouble
        /\ []OneInstance
        /\ []FewRecycles
        /\ []FindsOpenAcks
        /\ []FindsDualAssigns
        /\ NoReplay
        /\ RefusedStaysOut
        /\ StormBacksOff
        /\ GrantsOnce
  <1>1. PeripherySpec => []LinesAccounted BY OutboxRuns, LinesStayAccounted, PTL
  <1>2. PeripherySpec => []LineReadsBack BY LengthRuns, LinesReadBack, PTL
  <1>3. PeripherySpec => []GraceKeepsSeats BY GraceRuns, GraceIsKept, PTL
  <1>4. PeripherySpec => []RanksInOrder BY FocusRuns, RanksStayInOrder, PTL
  <1>5. PeripherySpec => []TilesTrue BY DigestRuns, TilesStayTrue, PTL
  <1>6. PeripherySpec => []ToldIsKept BY IntakeRuns, ToldStaysKept, PTL
  <1>7. PeripherySpec => []MadeOnce BY IntakeRuns, SubmissionsMadeOnce, PTL
  <1>8. PeripherySpec => []ReportsKept BY ExceptionsRuns, NoReportIsLost, PTL
  <1>9. PeripherySpec => []RateKept BY ExceptionsRuns, RateIsBounded, PTL
  <1>10. PeripherySpec => []OneIssuePerTrouble BY ExceptionsRuns, TroubleIsOneIssue, PTL
  <1>11. PeripherySpec => []OneInstance BY SingletonRuns, InstanceIsSingle, PTL
  <1>12. PeripherySpec => []FewRecycles BY RecycleRuns, RecyclesAreFew, PTL
  <1>13. PeripherySpec => []FindsOpenAcks BY WatchRuns, OpenAcksAreFound, PTL
  <1>14. PeripherySpec => []FindsDualAssigns BY WatchRuns, DoubleAssignsAreFound, PTL
  <1>15. PeripherySpec => NoReplay BY OutboxRuns, LinesAreNotReplayed
  <1>16. PeripherySpec => RefusedStaysOut BY LinkRuns, RefusalsStand
  <1>17. PeripherySpec => StormBacksOff BY LinkRuns, StormsBackOff
  <1>18. PeripherySpec => GrantsOnce BY ModesRuns, GrantsAreSentOnce
  <1> QED
    BY <1>1, <1>2, <1>3, <1>4, <1>5, <1>6, <1>7, <1>8, <1>9, <1>10, <1>11, <1>12, <1>13,
       <1>14, <1>15, <1>16, <1>17, <1>18
=============================================================================
