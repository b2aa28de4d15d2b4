---------------------------- MODULE MCAgentLoop ----------------------------
(* A registry with a harmless, a writing and a critical tool.              *)
EXTENDS AgentLoop, TLC

MCRegistered == {"run_tests", "open_pr", "deploy"}
MCRisk == "run_tests" :> 1 @@ "open_pr" :> 2 @@ "deploy" :> 4
MCObserves == "run_tests" :> "tests_ok" @@ "open_pr" :> "github_pr"
              @@ "deploy" :> "github_ci_status"

Proposal(tools, ok) == [tools |-> tools, worthwhile |-> ok]

MCProposals ==
    {Proposal(<<"run_tests", "open_pr">>, TRUE),
     Proposal(<<"run_tests">>, FALSE),
     Proposal(<<"deploy">>, TRUE),
     Proposal(<<"unregistered">>, TRUE),
     Proposal(<<>>, TRUE)}

Config(ev, criteria, typed, repair, maxCalls) ==
    [evaluator |-> ev, criteria |-> criteria, typed |-> typed,
     repair |-> repair, maxCalls |-> maxCalls]

Typed(key, op, value, required) ==
    [key |-> key, op |-> op, value |-> value, required |-> required]

MCConfigs ==
    {Config(TRUE, {"tests pass", "pr opened"}, {}, TRUE, 3),
     Config(TRUE, {"tests pass", "other"}, {}, FALSE, 0),
     Config(TRUE, {"other"}, {}, TRUE, 3),
     Config(TRUE, {"file updated"},
            {Typed("github_pr", "exists", "", TRUE),
             Typed("tests_ok", "not_equals", "true", FALSE)}, FALSE, 4),
     Config(TRUE, {"tests pass"},
            {Typed("github_pr", "not_in", {"empty"}, TRUE),
             Typed("file_written", "contains", {"written"}, FALSE),
             Typed("github_ci_status", "missing", "", TRUE)}, TRUE, 4),
     Config(FALSE, {"pr opened"}, {}, TRUE, 3)}
=============================================================================
