------------------------------ MODULE Workspace -----------------------------
(***************************************************************************)
(* The tools that work on files: safe_file_write (tools.py), patch_file,   *)
(* read_file, list_files and run_tests (dev_tools.py), sandbox_command     *)
(* with its runners (sandbox.py, sandbox_backends.py).  A plan runs them   *)
(* one after the other, its rollback undoes the writes in reverse. While a *)
(* step waits for its approval people edit files or put links in their     *)
(* place, and what a command that timed out left running goes on writing.  *)
(* An error that a tool raises leaves execute_plan, and nothing is undone. *)
(* Paths are names, those outside the workspace in a set of their own;     *)
(* directories are left out, and a name is followed and its file opened in *)
(* one step.                                                               *)
(***************************************************************************)
EXTENDS Integers, Sequences

CONSTANTS
    InsidePaths, OutsidePaths,
    Contents,        \* what a file may hold
    EmptyText,
    Translated,      \* the text that read_text makes of a content: \r\n becomes \n
    Undecodable,     \* contents that are not UTF-8
    MaxToolCalls,    \* bound: executions of tools
    MaxEdits         \* bound: edits by people, and late writes

VARIABLES
    wsPc,        \* "running", "rolling_back", "done", or "raised" out of execute_plan
    wsFiles,     \* content of every path, Missing when there is no file
    wsLink,      \* where a name leads: to itself, or to a path outside
    wsStep,      \* step between its dry run and its execution, or NoCall
    wsStack,     \* rollback tokens of the executed writes
    wsRuntimes,  \* container runtimes installed now
    wsRunner,    \* runner of sandbox_command, chosen when the tool is made
    wsOrphans,   \* a command that timed out may still be running
    wsCalls, wsEdits,
    wsReported,  \* paths for which a manual recovery is recorded
    wsSwapped,   \* history: names in whose place a link was put
    wsUndone,    \* history: paths that the rollback wrote or removed
    wsBefore,    \* history: content before the first write of the plan
    wsRead,      \* history: paths whose content a tool observed
    wsRan        \* history: policy, runner, runtimes and cwd of the commands that ran

wsVars == <<wsPc, wsFiles, wsLink, wsStep, wsStack, wsRuntimes, wsRunner, wsOrphans,
            wsCalls, wsEdits, wsReported, wsSwapped, wsUndone, wsBefore, wsRead, wsRan>>

Missing == "missing file"
Untouched == "untouched"
AnyPath == InsidePaths \cup OutsidePaths
Containers == {"docker", "podman", "runsc"}
NoCall == [tool |-> "none", path |-> "none", content |-> EmptyText, expected |-> Untouched]

\* A path leads out of the workspace or not, and the mark of a path that the plan
\* has not written is not the text of a file.
ASSUME WorkspaceAssumption ==
    /\ InsidePaths \cap OutsidePaths = {}
    /\ Untouched \notin Contents
    /\ Missing \notin Contents
    /\ EmptyText \in Contents
    /\ Translated \in [Contents -> Contents]

-----------------------------------------------------------------------------
(* The runners: is_available of each.  A microVM also needs its images.     *)

DockerAvailable(runtimes) == runtimes \cap {"docker", "podman"} # {}
GvisorAvailable(runtimes) == DockerAvailable(runtimes) /\ "runsc" \in runtimes
PodmanAvailable(runtimes) == "podman" \in runtimes
FirecrackerAvailable(runtimes) == "firecracker" \in runtimes

RunnerAvailable(runner, runtimes) ==
    \/ runner = "gvisor" /\ GvisorAvailable(runtimes)
    \/ runner = "podman" /\ PodmanAvailable(runtimes)
    \/ runner = "docker" /\ DockerAvailable(runtimes)

\* resolve_sandbox_runner: the first candidate that is available, in the order
\* preferred; without one it raises, and there is no tool.
ResolveRunner(policy, runtimes, prefer) ==
    LET available == {i \in DOMAIN prefer : RunnerAvailable(prefer[i], runtimes)}
        first == CHOOSE i \in available : \A j \in available : i <= j
    IN  CASE policy = "workspace" -> "workspace"
          [] policy = "container" /\ available # {} -> prefer[first]
          [] policy = "microvm" /\ FirecrackerAvailable(runtimes) -> "firecracker"
          [] OTHER -> "unavailable"

Preferences == {<<"gvisor", "podman", "docker">>, <<"docker", "gvisor", "podman">>}

\* The runtimes that the runners of a policy look for; the rest makes no difference.
LookedFor(policy) ==
    CASE policy = "workspace" -> {}
      [] policy = "container" -> Containers
      [] policy = "microvm" -> {"firecracker"}

WorkspaceInit ==
    /\ wsPc = "running"
    /\ wsFiles \in [AnyPath -> Contents \cup {Missing}]
    /\ \A p \in OutsidePaths : wsFiles[p] = EmptyText
    /\ wsStep = NoCall
    /\ wsStack = <<>>
    /\ \E policy \in {"workspace", "container", "microvm"}, prefer \in Preferences :
         /\ wsRuntimes \in SUBSET LookedFor(policy)
         /\ wsRunner = [policy |-> policy, runner |-> ResolveRunner(policy, wsRuntimes, prefer)]
    /\ wsOrphans = FALSE
    /\ wsCalls = 0 /\ wsEdits = 0
    /\ wsLink = [p \in AnyPath |-> p]
    /\ wsReported = {} /\ wsSwapped = {} /\ wsUndone = {}
    /\ wsBefore = [p \in AnyPath |-> Untouched]
    /\ wsRead = {}
    /\ wsRan = {}

-----------------------------------------------------------------------------
(* The tools on files: safe_file_write, patch_file, read_file, list_files.  *)

\* read_text of a file, with its newlines translated; None for a missing one.
ReadText(p) == IF wsFiles[p] = Missing THEN Missing ELSE Translated[wsFiles[p]]
Text(p) == IF wsFiles[p] = Missing THEN EmptyText ELSE ReadText(p)
Undecoded(p) == wsFiles[p] \in Undecodable

\* _resolve and _resolve_workspace_path raise for a path that leads out.
ResolvePath(p) == wsLink[p] \in InsidePaths
ResolveWorkspacePath(p) == wsLink[p] \in InsidePaths

\* The dry runs.  A patch that expects a content finds it, a file that is to be
\* read is there.
DryRunWrite(c) == ResolvePath(c.path)
DryRunPatch(c) ==
    /\ ResolveWorkspacePath(c.path)
    /\ c.expected # Untouched => Text(c.path) = c.expected
DryRunRead(c) == ResolveWorkspacePath(c.path) /\ wsFiles[c.path] # Missing
DryRunList(c) == ResolveWorkspacePath(c.path)

DryRunOk(c) ==
    CASE c.tool = "safe_file_write" -> DryRunWrite(c)
      [] c.tool = "patch_file" -> DryRunPatch(c)
      [] c.tool = "read_file" -> DryRunRead(c)
      [] c.tool = "list_files" -> DryRunList(c)

\* To compare, a patch reads a file that may not be UTF-8.
DryRunRaises(c) ==
    /\ c.tool = "patch_file" /\ c.expected # Untouched
    /\ ResolveWorkspacePath(c.path) /\ Undecoded(c.path)

\* The transaction manager has the step dry run, then waits for its approval.
DryRun(c) ==
    /\ wsPc = "running" /\ wsStep = NoCall /\ wsCalls < MaxToolCalls
    /\ \/ DryRunRaises(c) /\ wsPc' = "raised" /\ UNCHANGED wsStep
       \/ ~DryRunRaises(c) /\ DryRunOk(c) /\ wsStep' = c /\ UNCHANGED wsPc
       \/ ~DryRunRaises(c) /\ ~DryRunOk(c) /\ wsPc' = "rolling_back" /\ UNCHANGED wsStep
    /\ UNCHANGED <<wsFiles, wsLink, wsStack, wsRuntimes, wsRunner, wsOrphans, wsCalls,
                   wsEdits, wsReported, wsSwapped, wsUndone, wsBefore, wsRead, wsRan>>

\* What an execution leaves behind: the text, and what the rollback needs.
Write(p, token) ==
    /\ wsFiles' = [wsFiles EXCEPT ![p] = wsStep.content]
    /\ wsStack' = Append(wsStack, token)
    /\ wsBefore' = [wsBefore EXCEPT ![p] = IF @ = Untouched THEN wsFiles[p] ELSE @]
    /\ UNCHANGED <<wsPc, wsRead>>
Observe(paths) ==
    /\ wsRead' = wsRead \cup paths
    /\ UNCHANGED <<wsPc, wsFiles, wsStack, wsBefore>>
Fail ==
    /\ wsPc' = "rolling_back"
    /\ UNCHANGED <<wsFiles, wsStack, wsBefore, wsRead>>
\* An error leaves execute, and with it execute_plan: no rollback.
Raise ==
    /\ wsPc' = "raised"
    /\ UNCHANGED <<wsFiles, wsStack, wsBefore, wsRead>>
\* So does one of the write itself, when the file may have been emptied.
WriteRaises(p) ==
    /\ wsPc' = "raised"
    /\ wsFiles' = [wsFiles EXCEPT ![p] = EmptyText]
    /\ UNCHANGED <<wsStack, wsBefore, wsRead>>

\* execute of safe_file_write resolves the path again and nothing else: a file
\* may have got there since the dry run.  A link that leads out raises, bytes that
\* are not UTF-8 do, and so may the directory or the opening of the file.
ExecuteWrite ==
    LET p == wsStep.path
    IN  \/ Raise
        \/ /\ ResolvePath(p) /\ ~Undecoded(p)
           /\ \/ WriteRaises(p)
              \/ Write(p, [tool |-> wsStep.tool, path |-> p,
                           previous |-> ReadText(p), existed |-> TRUE])

\* The others run their dry run again.
ExecutePatch ==
    LET p == wsStep.path
    IN  \/ Raise
        \/ ~DryRunRaises(wsStep) /\ ~DryRunPatch(wsStep) /\ Fail
        \/ /\ DryRunPatch(wsStep) /\ ~Undecoded(p)
           /\ \/ WriteRaises(p)
              \/ Write(p, [tool |-> wsStep.tool, path |-> p, previous |-> ReadText(p),
                           existed |-> wsFiles[p] # Missing])
ExecuteRead ==
    \/ ~DryRunRead(wsStep) /\ Fail
    \/ DryRunRead(wsStep) /\ Raise
    \/ DryRunRead(wsStep) /\ ~Undecoded(wsStep.path) /\ Observe({wsStep.path})
ExecuteList == IF DryRunList(wsStep) THEN Observe(InsidePaths) ELSE Fail

Execute ==
    /\ wsPc = "running" /\ wsStep # NoCall
    /\ wsStep' = NoCall
    /\ wsCalls' = wsCalls + 1
    /\ \/ wsStep.tool = "safe_file_write" /\ ExecuteWrite
       \/ wsStep.tool = "patch_file" /\ ExecutePatch
       \/ wsStep.tool = "read_file" /\ ExecuteRead
       \/ wsStep.tool = "list_files" /\ ExecuteList
    /\ UNCHANGED <<wsLink, wsRuntimes, wsRunner, wsOrphans, wsEdits, wsReported,
                   wsSwapped, wsUndone, wsRan>>

\* Defect: an empty previous text is taken for "there was no file".
RestoreWrite_Falsy(token) == IF token.previous \in {Missing, EmptyText} THEN Missing ELSE token.previous

\* rollback of the two tools: unlink what was not there, rewrite what was.
RestoreWrite(token) == IF token.previous = Missing THEN Missing ELSE token.previous
RestorePatch(token) == IF token.existed THEN token.previous ELSE Missing

\* The path of a token was resolved when it was made: a removal takes the name,
\* but a write follows a link that was put there since.
PutBackFile(p, content) ==
    LET at == IF content = Missing THEN p ELSE wsLink[p]
    IN  /\ wsFiles' = [wsFiles EXCEPT ![at] = content]
        /\ wsLink' = IF content = Missing THEN [wsLink EXCEPT ![p] = p] ELSE wsLink
        /\ wsUndone' = wsUndone \cup {at}

\* The compensation raises: the file is as it was, or emptied.
PutBackRaises(p) ==
    /\ \/ UNCHANGED <<wsFiles, wsUndone>>
       \/ /\ wsFiles' = [wsFiles EXCEPT ![wsLink[p]] = EmptyText]
          /\ wsUndone' = wsUndone \cup {wsLink[p]}
    /\ wsReported' = wsReported \cup {p}
    /\ UNCHANGED wsLink

\* The loop of the transaction manager, from the last token to the first; it
\* goes on after a compensation that raised.
RollbackOne ==
    /\ wsPc = "rolling_back"
    /\ IF wsStack = <<>>
       THEN wsPc' = "done" /\ UNCHANGED <<wsFiles, wsLink, wsStack, wsReported, wsUndone>>
       ELSE LET token == wsStack[Len(wsStack)]
            IN  /\ \/ /\ PutBackFile(token.path, IF token.tool = "patch_file"
                                                 THEN RestorePatch(token)
                                                 ELSE RestoreWrite(token))
                      /\ UNCHANGED wsReported
                   \/ PutBackRaises(token.path)
                /\ wsStack' = SubSeq(wsStack, 1, Len(wsStack) - 1)
                /\ UNCHANGED wsPc
    /\ UNCHANGED <<wsStep, wsRuntimes, wsRunner, wsOrphans, wsCalls, wsEdits,
                   wsSwapped, wsBefore, wsRead, wsRan>>

-----------------------------------------------------------------------------
(* Commands.                                                                *)

\* What others do to files: leave them alone, write or remove one of those they
\* reach, or put a link that leads out in the place of one.
Scribble(paths) ==
    \/ UNCHANGED <<wsFiles, wsLink, wsSwapped>>
    \/ \E p \in paths, c \in Contents \cup {Missing} :
         /\ wsFiles' = [wsFiles EXCEPT ![p] = c]
         /\ wsLink' = [wsLink EXCEPT ![p] = p]
         /\ UNCHANGED wsSwapped
    \/ \E p \in InsidePaths, o \in OutsidePaths :
         /\ wsLink' = [wsLink EXCEPT ![p] = o]
         /\ wsSwapped' = wsSwapped \cup {p}
         /\ UNCHANGED wsFiles

\* What a command does to files, and how it ends.  A timeout kills the process
\* that was started; what that process started may go on.
CommandEffect(paths) ==
    /\ Scribble(paths)
    /\ \/ UNCHANGED <<wsPc, wsOrphans>>                              \* exit code 0
       \/ wsPc' = "rolling_back" /\ UNCHANGED wsOrphans              \* any other
       \/ wsPc' = "rolling_back" /\ wsOrphans' = TRUE                \* timeout
       \/ wsPc' = "raised" /\ UNCHANGED wsOrphans                    \* output not UTF-8

\* run_tests: always a plain subprocess in the workspace, which reaches all.  A
\* program that is not there raises too.
RunTests ==
    /\ wsPc = "running" /\ wsStep = NoCall /\ wsCalls < MaxToolCalls
    /\ wsCalls' = wsCalls + 1
    /\ CommandEffect(AnyPath)
    /\ UNCHANGED <<wsStep, wsStack, wsRuntimes, wsRunner, wsEdits, wsReported, wsUndone,
                   wsBefore, wsRead, wsRan>>

\* run of each runner: whether it starts the command.  All of them raise for a
\* cwd that leads out of the workspace; a container runner looks for its runtime
\* again; the microVM runner cannot run anything yet.
RunWorkspace(cwd) == wsRunner.runner = "workspace" /\ ResolvePath(cwd)
RunDocker(cwd) == wsRunner.runner = "docker" /\ ResolvePath(cwd) /\ DockerAvailable(wsRuntimes)
RunGvisor(cwd) == wsRunner.runner = "gvisor" /\ ResolvePath(cwd) /\ GvisorAvailable(wsRuntimes)
RunPodman(cwd) == wsRunner.runner = "podman" /\ ResolvePath(cwd) /\ PodmanAvailable(wsRuntimes)
RunFirecracker(cwd) == FALSE

\* sandbox_command
RunSandboxed(cwd) ==
    /\ wsPc = "running" /\ wsStep = NoCall /\ wsCalls < MaxToolCalls
    /\ wsRunner.runner # "unavailable"
    /\ wsCalls' = wsCalls + 1
    /\ IF \/ RunWorkspace(cwd) \/ RunDocker(cwd) \/ RunGvisor(cwd) \/ RunPodman(cwd)
          \/ RunFirecracker(cwd)
       THEN /\ CommandEffect(IF wsRunner.runner = "workspace" THEN AnyPath ELSE InsidePaths)
            /\ wsRan' = wsRan \cup {[policy |-> wsRunner.policy, runner |-> wsRunner.runner,
                                     runtimes |-> wsRuntimes, cwd |-> cwd]}
       ELSE /\ wsPc' = "raised"
            /\ UNCHANGED <<wsFiles, wsLink, wsSwapped, wsOrphans, wsRan>>
    /\ UNCHANGED <<wsStep, wsStack, wsRuntimes, wsRunner, wsEdits, wsReported, wsUndone,
                   wsBefore, wsRead>>

-----------------------------------------------------------------------------
(* The surroundings.                                                        *)

\* Someone edits a file while the plan runs; a runtime comes or goes.
PeopleEdit ==
    /\ wsPc = "running" /\ wsEdits < MaxEdits
    /\ wsEdits' = wsEdits + 1
    /\ \/ Scribble(AnyPath) /\ UNCHANGED wsRuntimes
       \/ wsRuntimes' \in {wsRuntimes \cup {r} : r \in LookedFor(wsRunner.policy)} \cup
                          {wsRuntimes \ {r} : r \in LookedFor(wsRunner.policy)}
          /\ UNCHANGED <<wsFiles, wsLink, wsSwapped>>
    /\ UNCHANGED <<wsPc, wsStep, wsStack, wsRunner, wsOrphans, wsCalls, wsReported,
                   wsUndone, wsBefore, wsRead, wsRan>>

LateWrite ==
    /\ wsOrphans /\ wsEdits < MaxEdits
    /\ wsEdits' = wsEdits + 1
    /\ Scribble(AnyPath)
    /\ UNCHANGED <<wsPc, wsStep, wsStack, wsRuntimes, wsRunner, wsOrphans, wsCalls,
                   wsReported, wsUndone, wsBefore, wsRead, wsRan>>

Texts == Contents \ Undecodable

Calls ==
    [tool : {"safe_file_write"}, path : AnyPath, content : Texts, expected : {Untouched}]
    \cup [tool : {"patch_file"}, path : AnyPath, content : Texts,
          expected : Texts \cup {Untouched}]
    \cup [tool : {"read_file", "list_files"}, path : AnyPath, content : {EmptyText},
          expected : {Untouched}]

WorkspaceNext ==
    \/ \E c \in Calls : DryRun(c)
    \/ \E p \in AnyPath : RunSandboxed(p)
    \/ Execute \/ RollbackOne \/ RunTests
    \/ PeopleEdit \/ LateWrite

-----------------------------------------------------------------------------
Restored(content) == IF content = Missing THEN Missing ELSE Translated[content]

\* A plan stays in its workspace and can be taken back there.  When its rollback
\* is through, every file it wrote has the content it had before the first of
\* these writes, with its newlines translated, empty files and missing ones told
\* apart, whatever people and commands did to it in between; or a manual
\* recovery is recorded for it.  Only a command that outlived its timeout, and a
\* link put in the place of the file, can spoil that.  (A plan that an error ends
\* is not rolled back at all.)  No tool reads or writes a file outside, and a
\* rollback does so only through such a link; no command starts outside, and one
\* that asks for a container or a microVM runs in one or not at all.
WorkspaceConfines ==
    /\ wsPc = "done" /\ ~wsOrphans =>
         \A p \in InsidePaths \ (wsReported \cup wsSwapped) :
             wsBefore[p] # Untouched => wsFiles[p] = Restored(wsBefore[p])
    /\ \A p \in OutsidePaths : wsBefore[p] = Untouched /\ p \notin wsRead
    /\ wsSwapped = {} => wsUndone \subseteq InsidePaths
    /\ \A r \in wsRan :
         /\ r.cwd \in InsidePaths
         /\ r.policy # "microvm"
         /\ r.policy = "container" =>
              r.runner # "workspace" /\ r.runtimes \cap {"docker", "podman"} # {}
=============================================================================
