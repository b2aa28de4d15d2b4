----------------------------- MODULE MCServices -----------------------------
(***************************************************************************)
(* The services around the kernel, each on its own small instance.  They   *)
(* share no state, so one of them is chosen in the initial state and the   *)
(* others stay as they are: the run explores the sum of their state        *)
(* spaces, not the product.                                                *)
(***************************************************************************)
EXTENDS AuditLog, RuntimeStore, MemoryStore, Policy, Workspace, CredentialVault,
        GitHubAppAuth, GitHubTools, OperatorServer, ServerGate,
        ProductionSmoke

VARIABLE part    \* the service this behaviour is about

Parts == {"audit", "store", "memory", "policy", "workspace", "vault", "app",
          "github", "server", "smoke", "queue_smoke", "gate"}

\* A service that is not looked at has one initial state.
ServicesInit ==
    /\ part \in Parts
    /\ AuditInit
    /\ StoreInit
    /\ part # "store" => storeKind = "jsonl"
    /\ MemoryInit
    /\ PolicyInit
    /\ part # "policy" => polProfile = PersonalSafe
    /\ WorkspaceInit
    /\ part # "workspace" =>
         /\ wsFiles = [p \in AnyPath |-> EmptyText]
         /\ wsRuntimes = {}
         /\ wsRunner = [policy |-> "workspace", runner |-> "workspace"]
    /\ VaultInit
    /\ part # "vault" => vaultKind = "memory"
    /\ AppInit
    /\ part # "app" => appEnv = [pat |-> TRUE, settings |-> "none"]
    /\ GitHubToolsInit
    /\ part # "github" =>
         ghHead = 0 /\ ghFile = NoFile /\ ghPr = [state |-> "none", kind |-> "same"] /\ ghVault
    /\ ConfigInit
    /\ part # "server" =>
         /\ cfgExplicit = NotThere /\ cfgByEnv /\ cfgDefault = NotThere
         /\ cfgEnv = Nothing /\ cfgOverrides = Nothing /\ cfgKeys = "strong"
    /\ SmokeInit
    /\ QueueSmokeInit
    /\ GateInit

ServicesVars ==
    <<part, auditVars, storeVars, memVars, polVars, wsVars, vaultVars, appVars, ghVars,
      cfgVars, smVars, qsVars, gateVars>>

\* The services other than the one named, and the choice itself.
Others(p) ==
    /\ part = p /\ UNCHANGED part
    /\ p # "audit" => UNCHANGED auditVars
    /\ p # "store" => UNCHANGED storeVars
    /\ p # "memory" => UNCHANGED memVars
    /\ p # "policy" => UNCHANGED polVars
    /\ p # "workspace" => UNCHANGED wsVars
    /\ p # "vault" => UNCHANGED vaultVars
    /\ p # "app" => UNCHANGED appVars
    /\ p # "github" => UNCHANGED ghVars
    /\ p # "server" => UNCHANGED cfgVars
    /\ p # "smoke" => UNCHANGED smVars
    /\ p # "queue_smoke" => UNCHANGED qsVars
    /\ p # "gate" => UNCHANGED gateVars

ServicesNext ==
    \/ part = "audit" /\ AuditNext /\ Others("audit")
    \/ part = "store" /\ StoreNext /\ Others("store")
    \/ part = "memory" /\ MemoryNext /\ Others("memory")
    \/ part = "policy" /\ PolicyNext /\ Others("policy")
    \/ part = "workspace" /\ WorkspaceNext /\ Others("workspace")
    \/ part = "vault" /\ VaultNext /\ Others("vault")
    \/ part = "app" /\ AppNext /\ Others("app")
    \/ part = "github" /\ GitHubToolsNext /\ Others("github")
    \/ part = "server" /\ ConfigNext /\ Others("server")
    \/ part = "smoke" /\ SmokeNext /\ Others("smoke")
    \/ part = "queue_smoke" /\ QueueSmokeNext /\ Others("queue_smoke")
    \/ part = "gate" /\ GateNext /\ Others("gate")

ServicesSpec == ServicesInit /\ [][ServicesNext]_ServicesVars

-----------------------------------------------------------------------------
(* The steps and the profiles the policy engine is asked about.             *)

Rule(permissions, risk, reversibility, decision) ==
    [profile |-> "any", tool |-> "any", permissions |-> permissions, riskAtLeast |-> risk,
     reversibility |-> reversibility, decision |-> decision]

Grant(permissions, tools, maxRisk, deny, expires, maxUses) ==
    [principal |-> "me", permissions |-> permissions, tools |-> tools,
     maxRisk |-> maxRisk, deny |-> deny, expires |-> expires, maxUses |-> maxUses]

\* Two rules and two grants: one for a single tool that expires, one for ever.
CustomProfile ==
    [PlainProfile EXCEPT
        !.human = {"delete"},
        !.rules = <<Rule({"network"}, High, "any", "denied"),
                    Rule({}, High, "compensatable", "needs_human")>>,
        !.grants = <<Grant({"write_files", "network"}, {"github_update_file"}, High,
                           {"execute_code"}, 1, 1),
                     Grant({"write_files"}, {}, 0, {}, Never, 1)>>]

\* "crlf" is "x" with the other newlines.
MCTranslated == [c \in Contents |-> IF c = "crlf" THEN "x" ELSE c]

MCProfiles == BuiltInProfiles \cup {CustomProfile}
MCPermissions == {"write_files", "network", "execute_code", "delete"}

Enforcing(methods) ==
    [mode |-> "enforced", enforced |-> TRUE, configured |-> TRUE, host |-> "api.github.com",
     answers |-> TRUE, methods |-> methods]

PlainStep ==
    [tool |-> "github_update_file", permissions |-> {}, risk |-> Low, destructive |-> FALSE,
     reversibility |-> "reversible", network |-> FALSE, host |-> "api.github.com",
     argHost |-> "none", methods |-> {"GET"}, rollbackMethods |-> {"GET"},
     method |-> "none", workspaceSandbox |-> FALSE, contract |-> TRUE, timeout |-> 1,
     outputSchema |-> TRUE, runtime |-> Enforcing(AllMethods)]

\* What a step asks for; where a network step goes; what its client attests;
\* what its tool declares.
MCSteps ==
    {[PlainStep EXCEPT !.permissions = p, !.risk = r, !.destructive = d, !.reversibility = v] :
       p \in SUBSET MCPermissions, r \in Low .. Critical, d \in BOOLEAN,
       v \in {"reversible", "compensatable", "irreversible"}}
    \cup
    {[PlainStep EXCEPT !.network = TRUE, !.host = h, !.argHost = a, !.methods = ms,
                       !.rollbackMethods = rs, !.method = m, !.reversibility = v] :
       h \in {"", "api.github.com"}, a \in {"none", "api.github.com", "localhost"},
       ms \in {{}, {"GET"}, {"GET", "PURGE"}}, rs \in {{}, {"GET"}, {"PURGE"}},
       m \in {"none", "PURGE"}, v \in {"reversible", "irreversible"}}
    \cup
    {[PlainStep EXCEPT !.network = TRUE,
                       !.runtime = [mode |-> mode, enforced |-> e, configured |-> c,
                                    host |-> h, answers |-> a, methods |-> ms]] :
       mode \in {"none", "in_memory", "enforced"}, e \in BOOLEAN, c \in BOOLEAN,
       h \in {"", "api.github.com"}, a \in BOOLEAN, ms \in {{}, {"GET"}}}
    \cup
    {[PlainStep EXCEPT !.tool = t, !.permissions = p, !.risk = r, !.workspaceSandbox = w,
                       !.contract = c, !.timeout = s, !.outputSchema = o] :
       t \in {"github_update_file", "other"}, p \in {{}, {"execute_code"}}, r \in {Low, Medium},
       w \in BOOLEAN, c \in BOOLEAN, s \in {0, 1}, o \in BOOLEAN}
=============================================================================
