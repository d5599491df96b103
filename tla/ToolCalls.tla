----------------------------- MODULE ToolCalls -----------------------------
(***************************************************************************)
(* Calls of ToolRegistry.call (tools/tool_registry.py): the catalog, the   *)
(* capability scope (tools/capability_scope.py), the one-thread pool with  *)
(* its timeout, the Docker sandbox (tools/sandbox.py) and the one          *)
(* tool.call event in which a call is meant to end.                        *)
(*                                                                         *)
(* The function of a tool runs in a thread that the caller leaves behind   *)
(* when it times out; the function of a sandboxed tool only returns the    *)
(* command that a container then runs.                                     *)
(***************************************************************************)
EXTENDS Naturals, Sequences

CONSTANTS Callers,      \* threads that call a tool, once each
          AgentTypes,   \* what they call as
          ToolNames     \* the names they know, registered or not

VARIABLES catalog,      \* ToolRegistry._tools: how each name is registered
          request,      \* the arguments of the call
          spec,         \* the ToolSpec the call looked up
          pc,           \* where the caller stands
          thread,       \* the pool's thread, on the function of the tool
          container,    \* the container of a sandboxed call
          failure,      \* the exception the caller is about to report
          events,       \* the tool.call events of the call
          outcome       \* what the call returned or raised

vars == <<catalog, request, spec, pc, thread, container, failure, events, outcome>>

Registrations == {"absent", "host", "sandboxed"}
Requests == [agent : AgentTypes, tool : ToolNames,
             \* a review_id; no review_id; emit_event=False
             context : {"traced", "unnamed", "silent"}]
Locations == {"idle", "gate", "wait", "command", "probe", "container", "remove",
              "report", "succeed", "done"}
\* "exited": the function raised what is no Exception, such as SystemExit.
Threads == {"none", "submitted", "running", "returned", "raised", "exited", "cancelled"}
Containers == {"none", "running", "exited", "failed", "removed"}
Kinds == {"ok", "error", "denied"}
\* What call() has handlers for. "own" is an exception of the tool or of the pool;
\* "SandboxTimeout" is the ToolError that is raised from a SandboxTimeoutError.
Failures == {"none", "ToolTimeoutError", "own", "ToolError", "SandboxTimeout"}
\* The last three: emit_agent_event raised; no review_id; an exception that call() and
\* _run_sandboxed have no handler for and do not report.
Outcomes == Failures \cup {"result", "UnknownToolError", "CapabilityError",
                           "InsertFailed", "ValueError", "uncaught"}

ReadTools == {"read_file", "grep", "list_dir"}
Scopes == [security |-> ReadTools,
           quality  |-> ReadTools,
           docs     |-> ReadTools \ {"list_dir"},
           tests    |-> ReadTools \cup {"run_tests"}]
AllowedTools(agent) == IF agent \in DOMAIN Scopes THEN Scopes[agent] ELSE {}

TypeOK ==
    /\ catalog \in [ToolNames -> Registrations]
    /\ request \in [Callers -> Requests]
    /\ spec \in [Callers -> Registrations]
    /\ pc \in [Callers -> Locations]
    /\ thread \in [Callers -> Threads]
    /\ container \in [Callers -> Containers]
    /\ failure \in [Callers -> Failures]
    /\ events \in [Callers -> Seq(Kinds)]
    /\ outcome \in [Callers -> Outcomes]

Init ==
    /\ catalog = [t \in ToolNames |-> "absent"]
    /\ request \in [Callers -> Requests]
    /\ spec = [c \in Callers |-> "absent"]
    /\ pc = [c \in Callers |-> "idle"]
    /\ thread = [c \in Callers |-> "none"]
    /\ container = [c \in Callers |-> "none"]
    /\ failure = [c \in Callers |-> "none"]
    /\ events = [c \in Callers |-> <<>>]
    /\ outcome = [c \in Callers |-> "none"]
-----------------------------------------------------------------------------
\* register; a name that is taken raises DuplicateToolError and changes nothing.
Register(t, how) ==
    /\ how # "absent"
    /\ catalog[t] = "absent"
    /\ catalog' = [catalog EXCEPT ![t] = how]
    /\ UNCHANGED <<request, spec, pc, thread, container, failure, events, outcome>>

Goto(c, location) == pc' = [pc EXCEPT ![c] = location]
Fail(c, error) == Goto(c, "report") /\ failure' = [failure EXCEPT ![c] = error]
End(c, how) == Goto(c, "done") /\ outcome' = [outcome EXCEPT ![c] = how]

\* _emit and _emit_denial, and then what the call meant to return or raise. The
\* INSERT may raise, committed or not; its exception replaces what was meant.
Emit(c, kind, meant) ==
    LET logged == [events EXCEPT ![c] = Append(@, kind)] IN
    /\ UNCHANGED <<catalog, request, spec>>
    /\ CASE request[c].context = "silent" -> End(c, meant) /\ UNCHANGED events
         [] request[c].context = "unnamed" ->
                End(c, IF kind = "denied" THEN meant ELSE "ValueError") /\ UNCHANGED events
         [] OTHER -> \/ End(c, meant) /\ events' = logged
                     \/ End(c, "InsertFailed") /\ events' \in {events, logged}

\* self._tools.get(name)
Lookup(c) ==
    /\ pc[c] = "idle"
    /\ spec' = [spec EXCEPT ![c] = catalog[request[c].tool]]
    /\ Goto(c, "gate")
    /\ UNCHANGED <<catalog, request, thread, container, failure, events, outcome>>

InScope(c) == request[c].tool \in AllowedTools(request[c].agent)

RefuseUnknown(c) ==
    /\ pc[c] = "gate" /\ spec[c] = "absent"
    /\ Emit(c, "denied", "UnknownToolError")
    /\ UNCHANGED <<thread, container, failure>>

RefuseUnscoped(c) ==
    /\ pc[c] = "gate" /\ spec[c] # "absent" /\ ~InScope(c)
    /\ Emit(c, "denied", "CapabilityError")
    /\ UNCHANGED <<thread, container, failure>>

Submit(c) ==
    /\ pc[c] = "gate" /\ spec[c] # "absent" /\ InScope(c)
    /\ thread' = [thread EXCEPT ![c] = "submitted"]
    /\ Goto(c, "wait")
    /\ UNCHANGED <<catalog, request, spec, container, failure, events, outcome>>

\* pool.submit raises, as when no thread can be started.
SubmitFails(c) ==
    /\ pc[c] = "gate" /\ spec[c] # "absent" /\ InScope(c)
    /\ Fail(c, "own")
    /\ UNCHANGED <<catalog, request, spec, thread, container, events, outcome>>

\* The pool's thread takes the function up, and ends one way or the other, waited for or not.
ThreadStarts(c) ==
    /\ thread[c] = "submitted"
    /\ thread' = [thread EXCEPT ![c] = "running"]
    /\ UNCHANGED <<catalog, request, spec, pc, container, failure, events, outcome>>

ThreadEnds(c) ==
    /\ thread[c] = "running"
    /\ \E how \in {"returned", "raised", "exited"} : thread' = [thread EXCEPT ![c] = how]
    /\ UNCHANGED <<catalog, request, spec, pc, container, failure, events, outcome>>

TakeResult(c) ==
    /\ pc[c] = "wait" /\ thread[c] = "returned"
    /\ Goto(c, IF spec[c] = "sandboxed" THEN "command" ELSE "succeed")
    /\ UNCHANGED <<catalog, request, spec, thread, container, failure, events, outcome>>

\* A TimeoutError of the tool's own is the class that future.result raises.
ToolRaises(c) ==
    /\ pc[c] = "wait" /\ thread[c] = "raised"
    /\ Fail(c, "own") \/ Fail(c, "ToolTimeoutError")
    /\ UNCHANGED <<catalog, request, spec, thread, container, events, outcome>>

\* future.result raises what `except Exception` lets pass.
ToolExits(c) ==
    /\ pc[c] = "wait" /\ thread[c] = "exited"
    /\ End(c, "uncaught")
    /\ UNCHANGED <<catalog, request, spec, thread, container, failure, events>>

\* A fault to compare WaitTimesOut with: no timeout.
WaitForEver(c) == FALSE

WaitTimesOut(c) ==
    /\ pc[c] = "wait" /\ thread[c] \in {"submitted", "running"}
    /\ Fail(c, "ToolTimeoutError")
    /\ UNCHANGED <<catalog, request, spec, thread, container, events, outcome>>

\* The function of a sandboxed tool did not return a list of strings.
RejectCommand(c) ==
    /\ pc[c] = "command"
    /\ Fail(c, "ToolError")
    /\ UNCHANGED <<catalog, request, spec, thread, container, events, outcome>>

AcceptCommand(c) ==
    /\ pc[c] = "command"
    /\ Goto(c, "probe")
    /\ UNCHANGED <<catalog, request, spec, thread, container, failure, events, outcome>>

\* A fault to compare NoDocker with: without Docker the command runs on the host.
RunOnHost(c) ==
    /\ pc[c] = "probe"
    /\ Goto(c, "succeed")
    /\ UNCHANGED <<catalog, request, spec, thread, container, failure, events, outcome>>

\* docker_available is False, for whatever reason.
NoDocker(c) ==
    /\ pc[c] = "probe"
    /\ Fail(c, "ToolError")
    /\ UNCHANGED <<catalog, request, spec, thread, container, events, outcome>>

\* docker run; it may fail before there is a container.
RunContainer(c) ==
    /\ pc[c] = "probe"
    /\ Goto(c, "container")
    /\ container' \in {[container EXCEPT ![c] = s] : s \in {"running", "failed"}}
    /\ UNCHANGED <<catalog, request, spec, thread, failure, events, outcome>>

\* The command ends with exit code 0 or another, and --rm removes its container.
ContainerEnds(c) ==
    /\ container[c] = "running"
    /\ container' \in {[container EXCEPT ![c] = s] : s \in {"exited", "failed"}}
    /\ UNCHANGED <<catalog, request, spec, pc, thread, failure, events, outcome>>

CommandSucceeds(c) ==
    /\ pc[c] = "container" /\ container[c] = "exited"
    /\ Goto(c, "succeed")
    /\ UNCHANGED <<catalog, request, spec, thread, container, failure, events, outcome>>

CommandFails(c) ==
    /\ pc[c] = "container" /\ container[c] = "failed"
    /\ Fail(c, "ToolError")
    /\ UNCHANGED <<catalog, request, spec, thread, container, events, outcome>>

\* subprocess.run raises something else than TimeoutExpired, which is no SandboxError: the
\* docker client cannot be started, or the output is no text. A container that runs goes on.
RunRaises(c) ==
    /\ pc[c] \in {"probe", "container"}
    /\ End(c, "uncaught")
    /\ UNCHANGED <<catalog, request, spec, thread, container, failure, events>>

\* A fault to compare RunTimesOut with: the container of a timed-out command is forgotten.
LeaveContainer(c) ==
    /\ pc[c] = "container"
    /\ Fail(c, "ToolError")
    /\ UNCHANGED <<catalog, request, spec, thread, container, events, outcome>>

\* subprocess.run kills the docker client.
RunTimesOut(c) ==
    /\ pc[c] = "container"
    /\ Goto(c, "remove")
    /\ UNCHANGED <<catalog, request, spec, thread, container, failure, events, outcome>>

\* What docker rm -f may do to the container, however the client ends.
ForceRemoved(c) ==
    \/ container' = [container EXCEPT ![c] = IF @ = "running" THEN "removed" ELSE @]
    \/ UNCHANGED container

\* docker rm -f; its exit code is not looked at.
Remove(c) ==
    /\ pc[c] = "remove"
    /\ ForceRemoved(c)
    /\ Fail(c, "SandboxTimeout")
    /\ UNCHANGED <<catalog, request, spec, thread, events, outcome>>

\* docker rm itself times out or cannot be started: no SandboxError either.
RemoveRaises(c) ==
    /\ pc[c] = "remove"
    /\ ForceRemoved(c)
    /\ End(c, "uncaught")
    /\ UNCHANGED <<catalog, request, spec, thread, failure, events>>

\* The error event, the exception, and pool.shutdown(wait=False, cancel_futures=True).
Report(c) ==
    /\ pc[c] = "report"
    /\ Emit(c, "error", failure[c])
    /\ thread' = [thread EXCEPT ![c] = IF @ = "submitted" THEN "cancelled" ELSE @]
    /\ UNCHANGED <<container, failure>>

Succeed(c) ==
    /\ pc[c] = "succeed"
    /\ Emit(c, "ok", "result")
    /\ UNCHANGED <<thread, container, failure>>
-----------------------------------------------------------------------------
CallStep(c) ==
    \/ Lookup(c) \/ RefuseUnknown(c) \/ RefuseUnscoped(c) \/ Submit(c) \/ SubmitFails(c)
    \/ TakeResult(c) \/ ToolRaises(c) \/ ToolExits(c) \/ WaitTimesOut(c)
    \/ RejectCommand(c) \/ AcceptCommand(c) \/ NoDocker(c) \/ RunContainer(c)
    \/ CommandSucceeds(c) \/ CommandFails(c) \/ RunTimesOut(c) \/ RunRaises(c)
    \/ Remove(c) \/ RemoveRaises(c) \/ Report(c) \/ Succeed(c)

ToolStep(c) == ThreadStarts(c) \/ ThreadEnds(c) \/ ContainerEnds(c)

Next ==
    \/ \E t \in ToolNames, how \in Registrations : Register(t, how)
    \/ \E c \in Callers : CallStep(c) \/ ToolStep(c)

Spec == Init /\ [][Next]_vars

\* The caller is scheduled and its timeouts fire; a tool or a command may hang for ever.
FairSpec == Spec /\ \A c \in Callers : WF_vars(CallStep(c))
-----------------------------------------------------------------------------
\* A traced call leaves one event that says how it ended: ok for a result, denied for a
\* refusal, error for a failure. It may be missing when the INSERT raised, and is always
\* missing when the call raises what it has no handler for: that is never an ordinary
\* exception of a host tool, only what is no Exception, or what happened around a container.
\* Without a review_id nothing but a refusal or such an exception can be the answer: the
\* event fails the call after the tool has run.
EventTellsOutcome ==
    \A c \in Callers : pc[c] = "done" =>
        /\ outcome[c] = "uncaught" =>
              thread[c] = "exited" \/ (thread[c] = "returned" /\ spec[c] = "sandboxed")
        /\ CASE request[c].context = "traced" ->
                   CASE outcome[c] = "result" -> events[c] = <<"ok">>
                     [] outcome[c] \in {"UnknownToolError", "CapabilityError"} -> events[c] = <<"denied">>
                     [] outcome[c] \in Failures -> events[c] = <<"error">>
                     [] outcome[c] = "uncaught" -> events[c] = <<>>
                     [] OTHER -> Len(events[c]) <= 1
             [] request[c].context = "unnamed" ->
                   /\ events[c] = <<>>
                   /\ outcome[c] \in {"UnknownToolError", "CapabilityError", "ValueError", "uncaught"}
             [] OTHER -> events[c] = <<>>

\* An ok event, and a result, mean that the tool did its work where the catalog says it
\* must: its function returned, and the command of a sandboxed tool ended with exit code 0
\* in a container. There is no way around the sandbox when Docker is missing, when the
\* function returns no command, or when a name is registered again.
SuccessIsReal ==
    \A c \in Callers : (outcome[c] = "result" \/ events[c] = <<"ok">>) =>
        /\ thread[c] = "returned"
        /\ catalog[request[c].tool] = "sandboxed" => container[c] = "exited"

\* The function of a tool never runs for an agent whose scope does not hold the tool, not
\* even in a thread that outlives the call.
OnlyScopedToolsRun ==
    \A c \in Callers : thread[c] # "none" =>
        /\ request[c].agent \in DOMAIN Scopes
        /\ request[c].tool \in Scopes[request[c].agent]
        /\ outcome[c] \notin {"UnknownToolError", "CapabilityError"}

\* The trace and the answer of a call are true, and its tool was in scope.
ToolCallsAreSound == TypeOK /\ EventTellsOutcome /\ SuccessIsReal /\ OnlyScopedToolsRun

\* Something of a call is still at work after it returned only if the call told its caller
\* of a timeout, of the event that could not be written instead, or, when it is a
\* container, raised what it does not handle; no queued function starts once the call has
\* returned.
LeftoverMeansTimeout ==
    \A c \in Callers : pc[c] = "done" =>
        /\ thread[c] # "submitted"
        /\ thread[c] = "running" => outcome[c] \in {"ToolTimeoutError", "InsertFailed", "ValueError"}
        /\ container[c] = "running" =>
              outcome[c] \in {"SandboxTimeout", "uncaught", "InsertFailed", "ValueError"}

\* Every call returns, whether its tool or its container ever ends or not.
EveryCallReturns == \A c \in Callers : <>(pc[c] = "done")
=============================================================================
