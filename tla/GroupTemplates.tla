---------------------------- MODULE GroupTemplates ----------------------------
(***************************************************************************)
(* Templates of groups (group-templates.service.ts) and the creation of      *)
(* groups from them (groups.service.ts createGroup): the terms a group gets  *)
(* and the count of the groups a template has been used for.                 *)
(***************************************************************************)
EXTENDS Integers, FiniteSets, Sequences

CONSTANTS
  Owners,              \* users; any of them may own the template
  Makers,              \* requests under way
  TemplateRounds,      \* numbers of rounds a request or a template may name
  MaxMade,             \* bound: groups made from the template
  MaxTemplateFaults    \* bound: calls that fail half-way

ASSUME TemplateAssumption ==
  /\ IsFiniteSet(Owners) /\ IsFiniteSet(Makers)
  /\ IsFiniteSet(TemplateRounds) /\ TemplateRounds \subseteq Nat \ {0}
  /\ {MaxMade, MaxTemplateFaults} \subseteq Nat

VARIABLES
  template,      \* the row of the template, or NoTemplate
  made,          \* limits of the groups made from it, in order of creation
  maker,         \* what each request is at
  templateFaults

templateVars == <<template, made, maker, templateFaults>>

-----------------------------------------------------------------------------
NotGiven == 0
MaybeRounds == TemplateRounds \cup {NotGiven}

\* What a request or a template says of the size of a group.
Limits == [total : MaybeRounds, max : MaybeRounds, min : MaybeRounds]

NoTemplate == [owner |-> "none"]
Template ==
  [owner : Owners, public : BOOLEAN, config : Limits, usage : 0 .. MaxMade,
   deleted : BOOLEAN]

Making ==
  [at : {"create", "count", "update", "delete"}, limits : Limits]
Updating == [at : {"update", "delete"}, row : Template]
NotMaking == [at |-> "none"]

TemplateTypeOK ==
  /\ template \in Template \cup {NoTemplate}
  /\ \A i \in DOMAIN made : made[i] \in Limits
  /\ \A r \in Makers : maker[r] \in Making \cup Updating \cup {NotMaking}
  /\ templateFaults \in 0 .. MaxTemplateFaults

MakerAt(r, state) == maker' = [maker EXCEPT ![r] = state]
Found == template # NoTemplate /\ ~template.deleted

\* findTemplates, findTemplateById: one's own and the public ones.
Visible(user) == Found /\ (template.public \/ template.owner = user)

-----------------------------------------------------------------------------
\* createTemplate, from a configuration or from the limits of a group.
CreateTemplate(r) ==
  /\ maker[r] = NotMaking /\ template = NoTemplate
  /\ \E owner \in Owners, public \in BOOLEAN, config \in Limits :
       /\ config.total # NotGiven /\ config.min # NotGiven
       /\ template' = [owner |-> owner, public |-> public, config |-> config,
                       usage |-> 0, deleted |-> FALSE]
  /\ UNCHANGED <<made, maker, templateFaults>>

\* mergeTemplateConfig: what the request does not say, the template does.
MergeTemplateConfig(config, dto) ==
  [f \in {"total", "max", "min"} |-> IF dto[f] = NotGiven THEN config[f]
                                     ELSE dto[f]]

\* createGroup takes totalRounds for maxMembers, and wants them equal.
WithMax(limits) ==
  IF limits.max = NotGiven THEN [limits EXCEPT !.max = limits.total]
  ELSE limits
Acceptable(limits) ==
  WithMax(limits).max = limits.total /\ ~(limits.min > WithMax(limits).max)

\* createGroup: the template is found by its owner, or by anyone when public.
CreateFromTemplate(r) ==
  /\ maker[r] = NotMaking
  /\ \E user \in Owners : Visible(user)
  /\ \E dto \in Limits :
       LET limits == MergeTemplateConfig(template.config, dto)
       IN  /\ Acceptable(limits)
           /\ MakerAt(r, [at |-> "create", limits |-> WithMax(limits)])
  /\ UNCHANGED <<template, made, templateFaults>>

\* Mutation of SaveNewGroup: a save that fails is counted all the same.
SaveNewGroupUnchecked(r) ==
  /\ maker[r].at = "create"
  /\ UNCHANGED made
  /\ MakerAt(r, [maker[r] EXCEPT !.at = "count"])
  /\ UNCHANGED <<template, templateFaults>>

SaveNewGroup(r) ==
  /\ maker[r].at = "create" /\ Len(made) < MaxMade
  /\ made' = Append(made, maker[r].limits)
  /\ MakerAt(r, [maker[r] EXCEPT !.at = "count"])
  /\ UNCHANGED <<template, templateFaults>>

\* incrementUsageCount, one statement of the database; when it fails the
\* request fails, though the group is there.
IncrementUsageCount(r) ==
  /\ maker[r].at = "count"
  /\ \/ /\ template' = [template EXCEPT !.usage = @ + 1]
        /\ UNCHANGED templateFaults
     \/ /\ templateFaults < MaxTemplateFaults
        /\ templateFaults' = templateFaults + 1
        /\ UNCHANGED template
  /\ MakerAt(r, NotMaking)
  /\ UNCHANGED made

-----------------------------------------------------------------------------
\* What the owner's request makes of the row it has read.
EditedTemplate(public, rounds) ==
  [template EXCEPT !.public = public, !.config.total = rounds]

\* updateTemplate: the owner's whole row is saved, with the count it had when
\* it was read.
FindTemplateForUpdate(r) ==
  /\ maker[r] = NotMaking /\ Found
  /\ \E public \in BOOLEAN, rounds \in TemplateRounds :
       MakerAt(r, [at |-> "update", row |-> EditedTemplate(public, rounds)])
  /\ UNCHANGED <<template, made, templateFaults>>

UpdateTemplate(r) ==
  /\ maker[r].at = "update"
  /\ template' = maker[r].row
  /\ MakerAt(r, NotMaking)
  /\ UNCHANGED <<made, templateFaults>>

\* deleteTemplate writes deletedAt only.
FindTemplateForDelete(r) ==
  /\ maker[r] = NotMaking /\ Found
  /\ MakerAt(r, [at |-> "delete", row |-> template])
  /\ UNCHANGED <<template, made, templateFaults>>

DeleteTemplate(r) ==
  /\ maker[r].at = "delete"
  /\ template' = [template EXCEPT !.deleted = TRUE]
  /\ MakerAt(r, NotMaking)
  /\ UNCHANGED <<made, templateFaults>>

-----------------------------------------------------------------------------
TemplateInit ==
  /\ template = NoTemplate
  /\ made = <<>>
  /\ maker = [r \in Makers |-> NotMaking]
  /\ templateFaults = 0

CreateGroup(r) ==
  CreateFromTemplate(r) \/ SaveNewGroup(r) \/ IncrementUsageCount(r)
PatchTemplate(r) == FindTemplateForUpdate(r) \/ UpdateTemplate(r)
RemoveTemplate(r) == FindTemplateForDelete(r) \/ DeleteTemplate(r)

\* The endpoints of templates; those that list and show them change nothing.
TemplateRequest(r) == CreateTemplate(r) \/ PatchTemplate(r) \/ RemoveTemplate(r)

TemplateNext == \E r \in Makers : CreateGroup(r) \/ TemplateRequest(r)

TemplateSpec == TemplateInit /\ [][TemplateNext]_templateVars

-----------------------------------------------------------------------------
\* Whatever of its size a group takes from the template and whatever from the
\* request, it is saved with as many places as rounds and at least as many as
\* it needs to start (createGroup judges the merged request), also when the
\* template changes while the group is being made.
GroupsFitTheirRounds ==
  \A i \in DOMAIN made :
    made[i].max = made[i].total /\ made[i].min <= made[i].max

\* The count of a template never exceeds the groups made from it: a use is
\* counted after its group is saved, once (an update may lose counts).
UsageIsReal == template # NoTemplate => template.usage <= Len(made)
=============================================================================
