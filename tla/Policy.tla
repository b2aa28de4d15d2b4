------------------------------- MODULE Policy -------------------------------
(***************************************************************************)
(* policy.py and egress.py: what the policy engine answers for a step      *)
(* (assess, production_block_reason, decide), and the capability grants    *)
(* whose uses are counted when a step has been verified.                   *)
(*                                                                         *)
(* A step stands for the step and its tool: the engine reads both.  Risk   *)
(* is a number from 1 (low) to 4 (critical).  Hosts, methods and tools are *)
(* compared as they are: their normalisation is left out.                  *)
(***************************************************************************)
EXTENDS Integers, Sequences, FiniteSets

CONSTANTS
    Profiles,       \* the policy profiles: the built-in ones and custom ones
    StepPermissions, \* permissions the steps ask for
    Steps,          \* steps with the specification of their tool
    MaxPolicyTime   \* bound: clock

\* A grant has limits; a rule denies or asks a human, never approves
\* (PolicyRule.__post_init__); a risk is one of four.
ASSUME PolicyAssumption ==
    /\ \A p \in Profiles : \A k \in DOMAIN p.grants :
         k \in Nat \ {0} /\ p.grants[k].expires \in Nat /\ p.grants[k].maxUses \in Nat
    /\ \A p \in Profiles : \A k \in DOMAIN p.rules :
         /\ k \in Nat \ {0} /\ p.rules[k].decision \in {"denied", "needs_human"}
         /\ p.rules[k].riskAtLeast \in Nat
    /\ \A p \in Profiles : p.maxRisk \in Nat
    /\ \A p \in Profiles : \A k \in DOMAIN p.grants : p.grants[k].maxRisk \in Nat
    /\ \A s \in Steps :
         /\ {"tool", "permissions", "risk", "destructive", "reversibility"} \subseteq DOMAIN s
         /\ s.risk \in 1 .. 4 /\ s.destructive \in BOOLEAN
         /\ s.reversibility \in {"reversible", "compensatable", "irreversible"}

VARIABLES
    polProfile,   \* profile the engine was made from
    polStep,      \* step between its decision and its verification, or NoStep
    polDecision,  \* what the engine and the approval gate said of it
    polGrant,     \* history: the grant that approved it, 0 when none did
    polUses,      \* _uses of each grant
    polApproved,  \* history: verified steps each grant approved
    polNow        \* clock

polVars == <<polProfile, polStep, polDecision, polGrant, polUses, polApproved, polNow>>

NoStep == [tool |-> "none"]
Low == 1
Medium == 2
High == 3
Critical == 4
Never == 99

\* A profile with everything off, as PolicyEngine.__init__ has it.
PlainProfile ==
    [name |-> "custom", granted |-> {}, maxRisk |-> Medium, human |-> {}, deny |-> {},
     rules |-> <<>>, grants |-> <<>>, production |-> FALSE, strongSandbox |-> FALSE,
     mediumChecks |-> FALSE, typedGoals |-> FALSE, hosts |-> {}, methods |-> {},
     egress |-> FALSE, tools |-> {}]

AllMethods == {"GET", "POST", "PATCH", "PUT", "DELETE"}

\* BUILT_IN_POLICY_PROFILES, without permissions no step here asks for.
PersonalSafe ==
    [PlainProfile EXCEPT !.name = "personal_safe", !.maxRisk = Low,
        !.human = {"send_message", "financial", "delete", "system_config"}]
DeveloperLocal ==
    [PlainProfile EXCEPT !.name = "developer_local",
        !.granted = {"read_files", "write_files", "execute_code"},
        !.deny = {"network", "financial", "delete", "system_config"}]
Production ==
    [PlainProfile EXCEPT !.name = "production", !.maxRisk = Low,
        !.human = {"write_files", "send_message", "financial", "delete",
                   "execute_code", "system_config"}]
ProductionLockedDown ==
    [PlainProfile EXCEPT !.name = "production_locked_down", !.maxRisk = Low,
        !.human = {"network", "write_files", "send_message", "execute_code",
                   "read_memory", "write_memory"},
        !.deny = {"financial", "delete", "system_config"},
        !.production = TRUE, !.strongSandbox = TRUE, !.mediumChecks = TRUE,
        !.typedGoals = TRUE]
ProductionGithubOnlyTools == {"github_update_file", "echo"}
ProductionGithubOnly ==
    [ProductionLockedDown EXCEPT !.name = "production_github_only",
        !.human = {"write_files", "send_message", "execute_code", "read_memory",
                   "write_memory"},
        !.deny = {"financial", "system_config"},
        !.egress = TRUE, !.hosts = {"api.github.com"}, !.methods = AllMethods,
        !.tools = ProductionGithubOnlyTools]
BuiltInProfiles == {PersonalSafe, DeveloperLocal, Production, ProductionLockedDown,
            ProductionGithubOnly}

-----------------------------------------------------------------------------
(* The step and its tool.                                                   *)

\* assess
Assess(s) ==
    IF s.permissions \cap {"delete", "financial", "system_config"} # {} THEN Critical
    ELSE IF s.destructive THEN High ELSE s.risk

IsNetwork(s) == s.network \/ "network" \in s.permissions

\* The host of the arguments, else the declared one.
HostOf(s) == IF s.argHost = "none" THEN s.host ELSE s.argHost

Consequential(s) == s.permissions # {} \/ Assess(s) >= Medium

\* _egress_methods_for_step: the declared methods, and the requested one.
EgressMethods(s) == s.methods \cup (IF s.method = "none" THEN {} ELSE {s.method})

\* EgressPolicy.allows
EgressAllows(p, host, method) ==
    /\ host \notin {"", "localhost"}
    /\ method \in p.methods
    /\ host \in p.hosts

\* Defect: only the forward methods are compared with the policy.
EgressBlocks_ForwardOnly(p, s) ==
    /\ p.production
    /\ IsNetwork(s)
    /\ \/ ~p.egress
       \/ HostOf(s) = ""
       \/ EgressMethods(s) = {}
       \/ \E m \in EgressMethods(s) : ~EgressAllows(p, HostOf(s), m)

\* production_egress_assessment, for the two production profiles only.
EgressBlocks(p, s) ==
    /\ p.production
    /\ IsNetwork(s)
    /\ \/ ~p.egress
       \/ HostOf(s) = ""
       \/ EgressMethods(s) = {}
       \/ \E m \in EgressMethods(s) : ~EgressAllows(p, HostOf(s), m)
       \/ /\ s.reversibility \in {"reversible", "compensatable"}
          /\ \/ s.rollbackMethods = {}
             \/ \E m \in s.rollbackMethods : ~EgressAllows(p, HostOf(s), m)

\* _rollback_egress_block_reason: the same question when the step is taken back,
\* asked of the declared host alone.
RollbackEgressBlocks(p, s) ==
    /\ p.production
    /\ IsNetwork(s)
    /\ \/ ~p.egress
       \/ s.host = ""
       \/ s.rollbackMethods = {}
       \/ \E m \in s.rollbackMethods : ~EgressAllows(p, s.host, m)

\* _runtime_attestation_block_reason: what the client of the tool says of its
\* own egress, mode "none" when it says nothing or raises.
AttestationBlocks(p, s) ==
    /\ p.production
    /\ IsNetwork(s)
    /\ \/ s.runtime.mode \notin {"enforced", "in_memory"}
       \/ p.name = "production_github_only" /\ s.runtime.mode = "in_memory"
       \/ ~s.runtime.enforced \/ ~s.runtime.configured
       \/ /\ s.runtime.mode = "enforced"
          /\ \/ s.host = "" \/ s.runtime.host # s.host
             \/ ~s.runtime.answers
             \/ ~ (s.methods \cup s.rollbackMethods) \subseteq s.runtime.methods

\* production_block_reason is not None
ProductionBlocks(p, s) ==
    /\ p.production
    /\ \/ p.tools # {} /\ s.tool \notin p.tools
       \/ EgressBlocks(p, s)
       \/ p.strongSandbox /\ "execute_code" \in s.permissions /\ s.workspaceSandbox
       \/ /\ Assess(s) >= Medium
          /\ p.mediumChecks
          /\ ~s.contract \/ s.timeout <= 0 \/ ~s.outputSchema

-----------------------------------------------------------------------------
(* decide                                                                   *)

\* PolicyRule.matches: every condition of the rule holds.
RuleMatches(r, p, s) ==
    /\ r.profile \in {"any", p.name}
    /\ r.tool \in {"any", s.tool}
    /\ r.permissions = {} \/ r.permissions \cap s.permissions # {}
    /\ Assess(s) >= r.riskAtLeast
    /\ r.reversibility \in {"any", s.reversibility}

\* _decide_by_rules: the first rule that matches; "none" when there is none.
DecideByRules(p, s) ==
    LET hits == {k \in DOMAIN p.rules : RuleMatches(p.rules[k], p, s)}
    IN  IF hits = {} THEN "none"
        ELSE p.rules[CHOOSE k \in hits : \A l \in hits : k <= l].decision

\* Defect: a grant may be used once more than it says.
GrantApplies_OffByOne(g, tool, uses, now) ==
    /\ g.principal = "me"
    /\ g.tools = {} \/ tool \in g.tools
    /\ now <= g.expires
    /\ uses <= g.maxUses

\* CapabilityGrant.applies_to, for the principal of the engine.
GrantApplies(g, tool, uses, now) ==
    /\ g.principal = "me"
    /\ g.tools = {} \/ tool \in g.tools
    /\ now <= g.expires
    /\ uses < g.maxUses

\* _matching_grant: the first grant that applies, 0 when none does.
MatchingGrant(p, s) ==
    LET fit == {k \in DOMAIN p.grants : GrantApplies(p.grants[k], s.tool, polUses[k], polNow)}
    IN  IF fit = {} THEN 0 ELSE CHOOSE k \in fit : \A l \in fit : k <= l

\* The part of decide that is the same with and without a grant.
Demands(p, s, granted, maxRisk) ==
    IF s.permissions \cap p.human # {} THEN "needs_human"
    ELSE IF ~ s.permissions \subseteq granted THEN "needs_human"
    ELSE IF Assess(s) > maxRisk THEN "needs_human"
    ELSE IF Consequential(s) /\ s.reversibility # "reversible" THEN "needs_human"
    ELSE "approved"

\* decide of a step whose first matching grant is number k.
DecideWith(p, s, k) ==
    IF DecideByRules(p, s) # "none" THEN DecideByRules(p, s)
    ELSE IF s.permissions \cap p.deny # {} THEN "denied"
    ELSE IF k = 0 THEN Demands(p, s, p.granted, p.maxRisk)
    ELSE LET g == p.grants[k]
         IN  IF s.permissions \cap g.deny # {} THEN "denied"
             ELSE Demands(p, s, g.permissions,
                          IF g.maxRisk = 0 THEN p.maxRisk ELSE g.maxRisk)

Decide(p, s) == DecideWith(p, s, MatchingGrant(p, s))

-----------------------------------------------------------------------------
PolicyInit ==
    /\ polProfile \in Profiles
    /\ polStep = NoStep
    /\ polDecision = "none"
    /\ polGrant = 0
    /\ polUses = [k \in DOMAIN polProfile.grants |-> 0]
    /\ polApproved = [k \in DOMAIN polProfile.grants |-> 0]
    /\ polNow = 0

\* ApprovalGate.request: what the approver says; no approver denies.
HumanAnswers == {"human_approved", "denied"}

\* The production blocks come first and nobody can lift them; a human answers
\* only when the engine asks for one.
Propose(s) ==
    /\ polStep = NoStep
    /\ polStep' = s
    /\ LET d == IF AttestationBlocks(polProfile, s) \/ ProductionBlocks(polProfile, s)
                THEN "blocked" ELSE Decide(polProfile, s)
       IN  /\ polDecision' \in IF d = "needs_human" THEN HumanAnswers ELSE {d}
           /\ polGrant' = IF d = "approved" THEN MatchingGrant(polProfile, s) ELSE 0
    /\ UNCHANGED <<polProfile, polUses, polApproved, polNow>>

\* _record_grant_use: the grant is looked up again, and need not be the one
\* that approved the step: it may have expired while the step ran.
Verified ==
    /\ polDecision \in {"approved", "human_approved"}
    /\ LET k == MatchingGrant(polProfile, polStep)
       IN  polUses' = IF k = 0 THEN polUses ELSE [polUses EXCEPT ![k] = @ + 1]
    /\ polApproved' = IF polGrant = 0 THEN polApproved
                      ELSE [polApproved EXCEPT ![polGrant] = @ + 1]
    /\ polStep' = NoStep /\ polDecision' = "none" /\ polGrant' = 0
    /\ UNCHANGED <<polProfile, polNow>>

\* The step failed, or was never executed.
Dropped ==
    /\ polStep # NoStep
    /\ polStep' = NoStep /\ polDecision' = "none" /\ polGrant' = 0
    /\ UNCHANGED <<polProfile, polUses, polApproved, polNow>>

PolicyTick ==
    /\ polProfile.grants # <<>> /\ polNow < MaxPolicyTime
    /\ polNow' = polNow + 1
    /\ UNCHANGED <<polProfile, polStep, polDecision, polGrant, polUses, polApproved>>

PolicyNext ==
    \/ polStep = NoStep /\ \E s \in Steps : Propose(s)
    \/ Verified \/ Dropped \/ PolicyTick

-----------------------------------------------------------------------------
\* The step s with one more permission or a higher risk.
AsksMore(s) ==
    {[s EXCEPT !.permissions = @ \cup {q}] : q \in StepPermissions}
    \cup {[s EXCEPT !.risk = r] : r \in s.risk .. Critical}

\* A step that runs without a human asks for nothing the profile denies or
\* keeps for humans, and a step that asks for more never gets through where the
\* engine stops one that asks for less, whichever rule, grant or profile
\* decides.  In the three production profiles nothing that needs a permission
\* runs without a human.  A network step of a hardened profile reaches only
\* hosts and methods that the profile lists and that an enforcing client lets
\* through, and one that has to be taken back can be, if it went to the host
\* its tool declares.
PolicyIsMonotone ==
    /\ polDecision = "approved" =>
         /\ polStep.permissions \cap (polProfile.deny \cup polProfile.human) = {}
         /\ polProfile \in {Production, ProductionLockedDown, ProductionGithubOnly} =>
              polStep.permissions = {} /\ Assess(polStep) = Low
    /\ polStep # NoStep /\ Decide(polProfile, polStep) # "approved" =>
         \A t \in AsksMore(polStep) : Decide(polProfile, t) # "approved"
    /\ polDecision \in {"approved", "human_approved"} /\ polProfile.production
         /\ IsNetwork(polStep) =>
              /\ HostOf(polStep) \in polProfile.hosts
              /\ EgressMethods(polStep) \subseteq polProfile.methods
              /\ polStep.runtime.mode = "enforced" =>
                   polStep.methods \subseteq polStep.runtime.methods
              /\ polProfile.name = "production_github_only" =>
                   polStep.runtime.mode = "enforced"
              /\ polStep.reversibility # "irreversible" /\ HostOf(polStep) = polStep.host =>
                   ~RollbackEgressBlocks(polProfile, polStep)

\* No grant approves more verified steps than it has uses, although its uses
\* are counted after the step and against whichever grant matches then.
GrantsAreBounded ==
    \A k \in DOMAIN polApproved : polApproved[k] <= polProfile.grants[k].maxUses
=============================================================================
