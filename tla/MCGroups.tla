--------------------------- MODULE MCGroups ---------------------------
(***************************************************************************)
(* What is done to groups and with their money: the mediation of a group's *)
(* state, its edits, templates and standing of members, penalties,         *)
(* instalment plans, the pricing of payouts, and what is read from the     *)
(* chain. The components share no state, so one run takes them one at a    *)
(* time: a behaviour belongs to one subject, and the variables of the      *)
(* others stay as they began.                                              *)
(***************************************************************************)
EXTENDS GroupMediation, GroupLifecycle, GroupTemplates, MemberStanding,
        PenaltyLedger, InstallmentPlans, PayoutPricing, ChainReading,
        StellarRpc, TLC

CONSTANTS
  Subjects,  \* the components a run looks at
  m1, m2, ct1

VARIABLE subject

\* The payout order of the two members.
InOrder == (m1 :> 0) @@ (m2 :> 1)

\* What the node reports of a transaction at the least.
Silent == [direct |-> "nothing", amount |-> FALSE, envelope |-> "unreadable"]

\* Only its own behaviours begin with a component in different states.
GroupsInit ==
  /\ subject \in Subjects
  /\ MediationInit
  /\ GroupInit /\ (subject = "lifecycle" \/ ~groupRow.contract)
  /\ TemplateInit
  /\ StandingInit
  /\ PenaltyInit
  /\ PlanInit
  /\ PricingInit /\ (subject = "pricing" \/ (converts /\ market = 85))
  /\ ReadingInit /\ (subject = "reading"
                        \/ (tx.kind = "classic" /\ report = Silent))
  /\ RpcInit

\* The other components than s, and the subject, stay as they are.
OthersStay(s) ==
  /\ UNCHANGED subject
  /\ IF s = "mediation" THEN TRUE ELSE UNCHANGED mediationVars
  /\ IF s = "lifecycle" THEN TRUE ELSE UNCHANGED groupVars
  /\ IF s = "templates" THEN TRUE ELSE UNCHANGED templateVars
  /\ IF s = "standing" THEN TRUE ELSE UNCHANGED standingVars
  /\ IF s = "penalties" THEN TRUE ELSE UNCHANGED penaltyVars
  /\ IF s = "plans" THEN TRUE ELSE UNCHANGED planVars
  /\ IF s = "pricing" THEN TRUE ELSE UNCHANGED pricingVars
  /\ IF s = "reading" THEN TRUE ELSE UNCHANGED readingVars
  /\ IF s = "rpc" THEN TRUE ELSE UNCHANGED rpcVars

MediationStep == subject = "mediation" /\ MediationNext /\ OthersStay("mediation")
GroupStep == subject = "lifecycle" /\ GroupNext /\ OthersStay("lifecycle")
TemplateStep == subject = "templates" /\ TemplateNext /\ OthersStay("templates")
StandingStep == subject = "standing" /\ StandingNext /\ OthersStay("standing")
PenaltyStep == subject = "penalties" /\ PenaltyNext /\ OthersStay("penalties")
PlanStep == subject = "plans" /\ PlanNext /\ OthersStay("plans")
PricingStep == subject = "pricing" /\ PricingNext /\ OthersStay("pricing")
ReadingStep == subject = "reading" /\ ReadingNext /\ OthersStay("reading")
RpcStep == subject = "rpc" /\ RpcNext /\ OthersStay("rpc")

GroupsNext ==
  \/ MediationStep \/ GroupStep \/ TemplateStep
  \/ StandingStep \/ PenaltyStep \/ PlanStep
  \/ PricingStep \/ ReadingStep \/ RpcStep

groupsVars == <<subject, mediationVars, groupVars, templateVars, standingVars,
  penaltyVars, planVars, pricingVars, readingVars, rpcVars>>

GroupsSpec == GroupsInit /\ [][GroupsNext]_groupsVars

\* The variables of the subject have the types its module gives them.
GroupsTypeOK ==
  /\ subject \in Subjects
  /\ subject = "mediation" => MediationTypeOK
  /\ subject = "lifecycle" => GroupTypeOK
  /\ subject = "templates" => TemplateTypeOK
  /\ subject = "standing" => StandingTypeOK
  /\ subject = "penalties" => PenaltyTypeOK
  /\ subject = "plans" => PlanTypeOK
  /\ subject = "pricing" => PricingTypeOK
  /\ subject = "reading" => ReadingTypeOK
  /\ subject = "rpc" => RpcTypeOK

\* What several nodes of the network say in turn is heard: the ways to ask for
\* a transaction do not contradict each other, what is verified is a call of
\* the group's contract, and a call is given up only when every node has failed
\* it (StellarService).
NodesAreHeard == AnswersAgree /\ VerifiedIsOurs /\ GivesUpAfterAllNodes

\* Groups made of a template can hold its rounds, and each use it counts is a
\* group that exists (GroupTemplatesService).
TemplatesHold == GroupsFitTheirRounds /\ UsageIsReal

\* A payout that is recorded stays recorded, and a round that closed without
\* everybody's contribution has a cause: overlapping saves, a suspension
\* (MembershipsService.recordPayout, RoundService).
StandingHolds == PayoutsAreKept /\ ShortRoundsHaveACause

\* No payout costs more than its quote allows, and a spend beyond the daily
\* threshold is alerted (PayoutService, StellarService).
PricesHold == SlippageIsNeverWorse /\ AlertIsRaised
=============================================================================
