--------------------------- MODULE ToolCallsProofs ---------------------------
(***************************************************************************)
(* Proofs about ToolCalls, for any set of callers, agent types and names:  *)
(* what a call has done so far follows from where its caller stands.       *)
(***************************************************************************)
EXTENDS ToolCalls, TLAPS

\* What the location of a caller says of its thread, its container and its answer.
Standing(c) ==
    /\ pc[c] = "idle" => spec[c] = "absent"
    /\ spec[c] # "absent" => spec[c] = catalog[request[c].tool]
    /\ pc[c] \in {"idle", "gate"} => thread[c] = "none"
    /\ thread[c] # "none" =>
          spec[c] # "absent" /\ InScope(c) /\ outcome[c] \notin {"UnknownToolError", "CapabilityError"}
    /\ pc[c] \in {"idle", "gate", "wait", "command", "probe"} => container[c] = "none"
    /\ pc[c] = "wait" => thread[c] \in {"submitted", "running", "returned", "raised", "exited"}
    /\ pc[c] \in {"command", "probe", "container", "remove", "succeed"} => thread[c] = "returned"
    /\ pc[c] \in {"container", "remove"} => container[c] # "none"
    /\ pc[c] \in {"command", "probe", "container", "remove"} \/ container[c] # "none" =>
          spec[c] = "sandboxed"
    /\ pc[c] = "succeed" /\ spec[c] = "sandboxed" => container[c] = "exited"
    /\ pc[c] = "report" =>
          /\ thread[c] # "cancelled"
          /\ failure[c] # "none"
          /\ thread[c] \in {"submitted", "running"} => failure[c] = "ToolTimeoutError"
          /\ container[c] = "running" => failure[c] = "SandboxTimeout"
    /\ pc[c] # "done" => events[c] = <<>> /\ outcome[c] = "none"

\* EventTellsOutcome, one answer at a time.
Told(c) ==
    \/ /\ request[c].context = "traced"
       /\ \/ outcome[c] = "result" /\ events[c] = <<"ok">>
          \/ outcome[c] \in {"UnknownToolError", "CapabilityError"} /\ events[c] = <<"denied">>
          \/ outcome[c] \in Failures \ {"none"} /\ events[c] = <<"error">>
          \/ outcome[c] = "uncaught" /\ events[c] = <<>>
          \/ outcome[c] = "InsertFailed" /\ events[c] \in {<<>>, <<"ok">>, <<"denied">>, <<"error">>}
    \/ /\ request[c].context = "unnamed"
       /\ events[c] = <<>>
       /\ outcome[c] \in {"UnknownToolError", "CapabilityError", "ValueError", "uncaught"}
    \/ request[c].context = "silent" /\ events[c] = <<>> /\ outcome[c] # "none"

\* What a call may raise without a handler for it.
Escaped(c) ==
    outcome[c] = "uncaught" => thread[c] = "exited" \/ (thread[c] = "returned" /\ spec[c] = "sandboxed")

\* SuccessIsReal, by what the call looked up.
Real(c) ==
    outcome[c] = "result" \/ events[c] = <<"ok">> =>
        /\ thread[c] = "returned"
        /\ spec[c] = "sandboxed" => container[c] = "exited"

Answered(c) == pc[c] = "done" => Told(c) /\ Escaped(c) /\ Real(c)

IInv ==
    /\ TypeOK
    /\ \A c \in Callers : Standing(c) /\ Answered(c)
    /\ LeftoverMeansTimeout

USE DEF Registrations, Requests, Locations, Threads, Containers, Kinds, Failures, Outcomes

\* Before the first call nothing has been registered, started or written.
LEMMA InitInv == Init => IInv
BY DEF Init, IInv, TypeOK, Standing, Answered, LeftoverMeansTimeout

\* A tool is in the scope of an agent only if the agent has a scope that holds it.
LEMMA ScopeIsExplicit ==
    ASSUME NEW c \in Callers, InScope(c)
    PROVE  request[c].agent \in DOMAIN Scopes /\ request[c].tool \in Scopes[request[c].agent]
BY DEF InScope, AllowedTools

\* The sequence with one event is none of the others.
LEMMA OneEvent ==
    /\ <<"ok">> \notin {<<>>, <<"denied">>, <<"error">>}
    /\ \A k : Len(<<k>>) = 1
    /\ Len(<<>>) = 0
OBVIOUS

\* What Emit leaves, as the context of the call decides.
Left(c, kind, meant, e, o) ==
    /\ events' = [events EXCEPT ![c] = e]
    /\ outcome' = [outcome EXCEPT ![c] = o]
    /\ pc' = [pc EXCEPT ![c] = "done"]
    /\ UNCHANGED <<catalog, request, spec>>
    /\ \/ /\ request[c].context = "traced"
          /\ \/ o = meant /\ e = <<kind>>
             \/ o = "InsertFailed" /\ e \in {<<>>, <<kind>>}
       \/ /\ request[c].context = "unnamed" /\ e = <<>>
          /\ o = IF kind = "denied" THEN meant ELSE "ValueError"
       \/ request[c].context = "silent" /\ e = <<>> /\ o = meant

\* Emit ends the call in one of these ways.
LEMMA EmitLeaves ==
    ASSUME IInv, NEW c \in Callers, pc[c] # "done", NEW kind \in Kinds, NEW meant \in Outcomes,
           Emit(c, kind, meant)
    PROVE  \E e \in Seq(Kinds), o \in Outcomes : Left(c, kind, meant, e, o)
<1>1. /\ events \in [Callers -> Seq(Kinds)] /\ events[c] = <<>> /\ <<>> \in Seq(Kinds)
      /\ request[c].context \in {"traced", "unnamed", "silent"}
    BY DEF IInv, TypeOK, Standing
<1>2. Append(events[c], kind) = <<kind>> /\ <<kind>> \in Seq(Kinds)
    BY <1>1
<1>3. [events EXCEPT ![c] = events[c]] = events
    BY <1>1
<1>4. CASE request[c].context = "traced"
  <2>1. CASE End(c, meant) /\ events' = [events EXCEPT ![c] = <<kind>>]
      BY <1>2, <1>4, <2>1 DEF Emit, End, Goto, Left
  <2>2. CASE End(c, "InsertFailed") /\ events' = [events EXCEPT ![c] = <<kind>>]
      BY <1>2, <1>4, <2>2 DEF Emit, End, Goto, Left
  <2>3. CASE End(c, "InsertFailed") /\ events' = [events EXCEPT ![c] = <<>>]
      BY <1>1, <1>4, <2>3 DEF Emit, End, Goto, Left
  <2> QED BY <1>1, <1>2, <1>3, <1>4, <2>1, <2>2, <2>3 DEF Emit
<1>5. CASE request[c].context = "unnamed"
  <2>1. End(c, IF kind = "denied" THEN meant ELSE "ValueError") /\ UNCHANGED events
      BY <1>5 DEF Emit
  <2> QED BY <1>1, <1>3, <1>5, <2>1 DEF Emit, End, Goto, Left
<1>6. CASE request[c].context = "silent"
  <2>1. End(c, meant) /\ UNCHANGED events
      BY <1>6 DEF Emit
  <2> QED BY <1>1, <1>3, <1>6, <2>1 DEF Emit, End, Goto, Left
<1> QED BY <1>1, <1>4, <1>5, <1>6

\* docker rm leaves every container one, and changes that of the call only.
LEMMA ForceRemovedLeaves ==
    ASSUME container \in [Callers -> Containers], NEW c \in Callers, ForceRemoved(c)
    PROVE  /\ container' \in [Callers -> Containers]
           /\ \A b \in Callers \ {c} : container'[b] = container[b]
<1>1. CASE UNCHANGED container
    BY <1>1
<1>2. CASE container' = [container EXCEPT ![c] = IF @ = "running" THEN "removed" ELSE @]
    BY <1>2 DEF Containers
<1> QED
    BY <1>1, <1>2 DEF ForceRemoved

\* One step of one caller, of its thread or of its container leaves the others alone.
LEMMA CallerInv ==
    ASSUME IInv, NEW c \in Callers, CallStep(c) \/ ToolStep(c)
    PROVE  IInv'
<1> USE DEF IInv, TypeOK, Standing, Answered, Told, Escaped, Real, LeftoverMeansTimeout, Goto, Fail, End
<1>1. CASE Lookup(c)
  <2>1. TypeOK' BY <1>1 DEF Lookup
  <2>2. (\A b \in Callers : Standing(b))' BY <1>1 DEF Lookup, InScope
  <2>3. (\A b \in Callers : Answered(b))' BY <1>1 DEF Lookup
  <2>4. LeftoverMeansTimeout' BY <1>1 DEF Lookup
  <2> QED BY <2>1, <2>2, <2>3, <2>4
<1>2. CASE RefuseUnknown(c)
  <2>1. pc[c] = "gate" /\ Emit(c, "denied", "UnknownToolError") /\ "UnknownToolError" \in Outcomes /\ "denied" \in Kinds
      BY <1>2 DEF RefuseUnknown
  <2>2. PICK e \in Seq(Kinds), o \in Outcomes : Left(c, "denied", "UnknownToolError", e, o)
      BY <2>1, EmitLeaves
  <2>3. TypeOK' BY <1>2, <2>1, <2>2 DEF RefuseUnknown, Left
  <2>4. (\A b \in Callers : Standing(b))' BY <1>2, <2>2 DEF RefuseUnknown, Left, InScope
  <2>5. (\A b \in Callers : Answered(b))'
    <3>1. ASSUME NEW b \in Callers, b # c PROVE Answered(b)'
        BY <1>2, <2>2, <3>1 DEF RefuseUnknown, Left
    <3>2. Told(c)' BY <1>2, <2>1, <2>2 DEF RefuseUnknown, Left
    <3>3. e # <<"ok">> /\ o \notin {"result", "uncaught"}
        BY <2>1, <2>2, OneEvent DEF Left
    <3>4. events'[c] = e /\ outcome'[c] = o
        BY <2>2 DEF Left
    <3>5. Escaped(c)' /\ Real(c)' BY <3>3, <3>4
    <3> QED BY <3>1, <3>2, <3>5
  <2>6. LeftoverMeansTimeout' BY <1>2, <2>1, <2>2 DEF RefuseUnknown, Left
  <2> QED BY <2>3, <2>4, <2>5, <2>6
<1>3. CASE RefuseUnscoped(c)
  <2>1. pc[c] = "gate" /\ Emit(c, "denied", "CapabilityError") /\ "CapabilityError" \in Outcomes /\ "denied" \in Kinds
      BY <1>3 DEF RefuseUnscoped
  <2>2. PICK e \in Seq(Kinds), o \in Outcomes : Left(c, "denied", "CapabilityError", e, o)
      BY <2>1, EmitLeaves
  <2>3. TypeOK' BY <1>3, <2>1, <2>2 DEF RefuseUnscoped, Left
  <2>4. (\A b \in Callers : Standing(b))' BY <1>3, <2>2 DEF RefuseUnscoped, Left, InScope
  <2>5. (\A b \in Callers : Answered(b))'
    <3>1. ASSUME NEW b \in Callers, b # c PROVE Answered(b)'
        BY <1>3, <2>2, <3>1 DEF RefuseUnscoped, Left
    <3>2. Told(c)' BY <1>3, <2>1, <2>2 DEF RefuseUnscoped, Left
    <3>3. e # <<"ok">> /\ o \notin {"result", "uncaught"}
        BY <2>1, <2>2, OneEvent DEF Left
    <3>4. events'[c] = e /\ outcome'[c] = o
        BY <2>2 DEF Left
    <3>5. Escaped(c)' /\ Real(c)' BY <3>3, <3>4
    <3> QED BY <3>1, <3>2, <3>5
  <2>6. LeftoverMeansTimeout' BY <1>3, <2>1, <2>2 DEF RefuseUnscoped, Left
  <2> QED BY <2>3, <2>4, <2>5, <2>6
<1>4. CASE Submit(c)
  <2>1. TypeOK' BY <1>4 DEF Submit
  <2>2. (\A b \in Callers : Standing(b))' BY <1>4 DEF Submit, InScope
  <2>3. (\A b \in Callers : Answered(b))' BY <1>4 DEF Submit
  <2>4. LeftoverMeansTimeout' BY <1>4 DEF Submit
  <2> QED BY <2>1, <2>2, <2>3, <2>4
<1>5. CASE TakeResult(c)
  <2>1. TypeOK' BY <1>5 DEF TakeResult
  <2>2. (\A b \in Callers : Standing(b))' BY <1>5 DEF TakeResult, InScope
  <2>3. (\A b \in Callers : Answered(b))' BY <1>5 DEF TakeResult
  <2>4. LeftoverMeansTimeout' BY <1>5 DEF TakeResult
  <2> QED BY <2>1, <2>2, <2>3, <2>4
<1>6. CASE ToolRaises(c)
  <2>1. TypeOK'
    <3>1. PICK f \in Failures : failure' = [failure EXCEPT ![c] = f]
        BY <1>6 DEF ToolRaises
    <3>2. /\ pc' = [pc EXCEPT ![c] = "report"]
          /\ UNCHANGED <<catalog, request, spec, thread, container, events, outcome>>
        BY <1>6 DEF ToolRaises
    <3> QED BY <3>1, <3>2
  <2>2. (\A b \in Callers : Standing(b))' BY <1>6 DEF ToolRaises, InScope
  <2>3. (\A b \in Callers : Answered(b))' BY <1>6 DEF ToolRaises
  <2>4. LeftoverMeansTimeout' BY <1>6 DEF ToolRaises
  <2> QED BY <2>1, <2>2, <2>3, <2>4
<1>7. CASE WaitTimesOut(c)
  <2>1. TypeOK' BY <1>7 DEF WaitTimesOut
  <2>2. (\A b \in Callers : Standing(b))' BY <1>7 DEF WaitTimesOut, InScope
  <2>3. (\A b \in Callers : Answered(b))' BY <1>7 DEF WaitTimesOut
  <2>4. LeftoverMeansTimeout' BY <1>7 DEF WaitTimesOut
  <2> QED BY <2>1, <2>2, <2>3, <2>4
<1>8. CASE RejectCommand(c)
  <2>1. TypeOK' BY <1>8 DEF RejectCommand
  <2>2. (\A b \in Callers : Standing(b))' BY <1>8 DEF RejectCommand, InScope
  <2>3. (\A b \in Callers : Answered(b))' BY <1>8 DEF RejectCommand
  <2>4. LeftoverMeansTimeout' BY <1>8 DEF RejectCommand
  <2> QED BY <2>1, <2>2, <2>3, <2>4
<1>9. CASE AcceptCommand(c)
  <2>1. TypeOK' BY <1>9 DEF AcceptCommand
  <2>2. (\A b \in Callers : Standing(b))' BY <1>9 DEF AcceptCommand, InScope
  <2>3. (\A b \in Callers : Answered(b))' BY <1>9 DEF AcceptCommand
  <2>4. LeftoverMeansTimeout' BY <1>9 DEF AcceptCommand
  <2> QED BY <2>1, <2>2, <2>3, <2>4
<1>10. CASE NoDocker(c)
  <2>1. TypeOK' BY <1>10 DEF NoDocker
  <2>2. (\A b \in Callers : Standing(b))' BY <1>10 DEF NoDocker, InScope
  <2>3. (\A b \in Callers : Answered(b))' BY <1>10 DEF NoDocker
  <2>4. LeftoverMeansTimeout' BY <1>10 DEF NoDocker
  <2> QED BY <2>1, <2>2, <2>3, <2>4
<1>11. CASE RunContainer(c)
  <2>1. TypeOK'
    <3>1. PICK s \in Containers : container' = [container EXCEPT ![c] = s]
        BY <1>11 DEF RunContainer
    <3> QED BY <1>11, <3>1 DEF RunContainer
  <2>2. (\A b \in Callers : Standing(b))' BY <1>11 DEF RunContainer, InScope
  <2>3. (\A b \in Callers : Answered(b))' BY <1>11 DEF RunContainer
  <2>4. LeftoverMeansTimeout' BY <1>11 DEF RunContainer
  <2> QED BY <2>1, <2>2, <2>3, <2>4
<1>12. CASE CommandSucceeds(c)
  <2>1. TypeOK' BY <1>12 DEF CommandSucceeds
  <2>2. (\A b \in Callers : Standing(b))' BY <1>12 DEF CommandSucceeds, InScope
  <2>3. (\A b \in Callers : Answered(b))' BY <1>12 DEF CommandSucceeds
  <2>4. LeftoverMeansTimeout' BY <1>12 DEF CommandSucceeds
  <2> QED BY <2>1, <2>2, <2>3, <2>4
<1>13. CASE CommandFails(c)
  <2>1. TypeOK' BY <1>13 DEF CommandFails
  <2>2. (\A b \in Callers : Standing(b))' BY <1>13 DEF CommandFails, InScope
  <2>3. (\A b \in Callers : Answered(b))' BY <1>13 DEF CommandFails
  <2>4. LeftoverMeansTimeout' BY <1>13 DEF CommandFails
  <2> QED BY <2>1, <2>2, <2>3, <2>4
<1>14. CASE RunTimesOut(c)
  <2>1. TypeOK' BY <1>14 DEF RunTimesOut
  <2>2. (\A b \in Callers : Standing(b))' BY <1>14 DEF RunTimesOut, InScope
  <2>3. (\A b \in Callers : Answered(b))' BY <1>14 DEF RunTimesOut
  <2>4. LeftoverMeansTimeout' BY <1>14 DEF RunTimesOut
  <2> QED BY <2>1, <2>2, <2>3, <2>4
<1>15. CASE Remove(c)
  <2>1. TypeOK' BY <1>15 DEF Remove, ForceRemoved
  <2>2. (\A b \in Callers : Standing(b))' BY <1>15 DEF Remove, ForceRemoved, InScope
  <2>3. (\A b \in Callers : Answered(b))' BY <1>15 DEF Remove, ForceRemoved
  <2>4. LeftoverMeansTimeout' BY <1>15 DEF Remove, ForceRemoved
  <2> QED BY <2>1, <2>2, <2>3, <2>4
<1>16. CASE RemoveRaises(c)
  <2>1. TypeOK'
    <3>1. container \in [Callers -> Containers] /\ ForceRemoved(c)
        BY <1>16 DEF RemoveRaises
    <3>2. container' \in [Callers -> Containers]
        BY <3>1, ForceRemovedLeaves
    <3> QED BY <1>16, <3>2 DEF RemoveRaises
  <2>2. (\A b \in Callers : Standing(b))' BY <1>16 DEF RemoveRaises, ForceRemoved, InScope
  <2>3. (\A b \in Callers : Answered(b))'
    <3>1. ASSUME NEW b \in Callers, b # c PROVE Answered(b)'
        BY <1>16, <3>1 DEF RemoveRaises, ForceRemoved
    <3>2. /\ events'[c] = <<>> /\ outcome'[c] = "uncaught" /\ request'[c].context = request[c].context
          /\ thread'[c] = "returned" /\ spec'[c] = "sandboxed"
        BY <1>16 DEF RemoveRaises, ForceRemoved
    <3>3. Told(c)' /\ Escaped(c)' BY <3>2
    <3>4. Real(c)' BY <3>2, OneEvent
    <3> QED BY <3>1, <3>3, <3>4
  <2>4. LeftoverMeansTimeout' BY <1>16 DEF RemoveRaises, ForceRemoved
  <2> QED BY <2>1, <2>2, <2>3, <2>4
<1>17. CASE Report(c)
  <2>1. /\ pc[c] = "report" /\ Emit(c, "error", failure[c]) /\ "error" \in Kinds
        /\ failure[c] \in Outcomes /\ failure[c] \in Failures \ {"none"} /\ failure[c] \notin {"result", "uncaught"}
      BY <1>17 DEF Report
  <2>2. PICK e \in Seq(Kinds), o \in Outcomes : Left(c, "error", failure[c], e, o)
      BY <2>1, EmitLeaves
  <2>3. TypeOK' BY <1>17, <2>1, <2>2 DEF Report, Left
  <2>4. (\A b \in Callers : Standing(b))'
    <3>1. ASSUME NEW b \in Callers, b # c PROVE Standing(b)'
        BY <1>17, <2>2, <3>1 DEF Report, Left, InScope
    <3>2. thread'[c] # "none" => thread[c] # "none"
        BY <1>17 DEF Report
    <3>3. o \notin {"UnknownToolError", "CapabilityError"}
        BY <2>1, <2>2 DEF Left
    <3>4. /\ pc'[c] = "done" /\ outcome'[c] = o
          /\ UNCHANGED <<catalog, request, spec, container, failure>>
        BY <1>17, <2>2 DEF Report, Left
    <3>5. Standing(c)' BY <3>2, <3>3, <3>4 DEF InScope
    <3> QED BY <3>1, <3>5
  <2>5. (\A b \in Callers : Answered(b))'
    <3>1. ASSUME NEW b \in Callers, b # c PROVE Answered(b)'
        BY <1>17, <2>2, <3>1 DEF Report, Left
    <3>2. Told(c)' BY <1>17, <2>1, <2>2 DEF Report, Left
    <3>3. e # <<"ok">> /\ o \notin {"result", "uncaught"}
        BY <2>1, <2>2, OneEvent DEF Left
    <3>4. events'[c] = e /\ outcome'[c] = o
        BY <2>2 DEF Left
    <3>5. Escaped(c)' /\ Real(c)'
        BY <3>3, <3>4 DEF Escaped, Real
    <3> QED BY <3>1, <3>2, <3>5
  <2>6. LeftoverMeansTimeout' BY <1>17, <2>1, <2>2 DEF Report, Left
  <2> QED BY <2>3, <2>4, <2>5, <2>6
<1>18. CASE Succeed(c)
  <2>1. pc[c] = "succeed" /\ Emit(c, "ok", "result") /\ "result" \in Outcomes /\ "ok" \in Kinds
      BY <1>18 DEF Succeed
  <2>2. PICK e \in Seq(Kinds), o \in Outcomes : Left(c, "ok", "result", e, o)
      BY <2>1, EmitLeaves
  <2>3. TypeOK' BY <1>18, <2>1, <2>2 DEF Succeed, Left
  <2>4. (\A b \in Callers : Standing(b))' BY <1>18, <2>2 DEF Succeed, Left, InScope
  <2>5. (\A b \in Callers : Answered(b))'
    <3>1. ASSUME NEW b \in Callers, b # c PROVE Answered(b)'
        BY <1>18, <2>2, <3>1 DEF Succeed, Left
    <3>2. Told(c)' BY <1>18, <2>1, <2>2 DEF Succeed, Left
    <3>3. Escaped(c)' /\ Real(c)' BY <1>18, <2>1, <2>2, OneEvent DEF Succeed, Left
    <3> QED BY <3>1, <3>2, <3>3
  <2>6. LeftoverMeansTimeout'
    <3>1. thread[c] = "returned" /\ container[c] # "running"
        BY <2>1
    <3>2. UNCHANGED <<thread, container>>
        BY <1>18 DEF Succeed
    <3> QED BY <2>2, <3>1, <3>2 DEF Left
  <2> QED BY <2>3, <2>4, <2>5, <2>6
<1>19. CASE ThreadStarts(c)
  <2>1. TypeOK' BY <1>19 DEF ThreadStarts
  <2>2. (\A b \in Callers : Standing(b))' BY <1>19 DEF ThreadStarts, InScope
  <2>3. (\A b \in Callers : Answered(b))' BY <1>19 DEF ThreadStarts
  <2>4. LeftoverMeansTimeout' BY <1>19 DEF ThreadStarts
  <2> QED BY <2>1, <2>2, <2>3, <2>4
<1>20. CASE ThreadEnds(c)
  <2>1. TypeOK' BY <1>20 DEF ThreadEnds
  <2>2. (\A b \in Callers : Standing(b))' BY <1>20 DEF ThreadEnds, InScope
  <2>3. (\A b \in Callers : Answered(b))' BY <1>20 DEF ThreadEnds
  <2>4. LeftoverMeansTimeout' BY <1>20 DEF ThreadEnds
  <2> QED BY <2>1, <2>2, <2>3, <2>4
<1>21. CASE ContainerEnds(c)
  <2>1. TypeOK'
    <3>1. PICK s \in Containers : container' = [container EXCEPT ![c] = s]
        BY <1>21 DEF ContainerEnds
    <3> QED BY <1>21, <3>1 DEF ContainerEnds
  <2>2. (\A b \in Callers : Standing(b))' BY <1>21 DEF ContainerEnds, InScope
  <2>3. (\A b \in Callers : Answered(b))' BY <1>21 DEF ContainerEnds
  <2>4. LeftoverMeansTimeout' BY <1>21 DEF ContainerEnds
  <2> QED BY <2>1, <2>2, <2>3, <2>4
<1>22. CASE ToolExits(c)
  <2>1. TypeOK' BY <1>22 DEF ToolExits
  <2>2. (\A b \in Callers : Standing(b))' BY <1>22 DEF ToolExits, InScope
  <2>3. (\A b \in Callers : Answered(b))'
    <3>1. ASSUME NEW b \in Callers, b # c PROVE Answered(b)'
        BY <1>22, <3>1 DEF ToolExits
    <3>2. /\ events'[c] = <<>> /\ outcome'[c] = "uncaught" /\ request'[c].context = request[c].context
          /\ thread'[c] = "exited"
        BY <1>22 DEF ToolExits
    <3>3. Told(c)' /\ Escaped(c)' BY <3>2
    <3>4. Real(c)' BY <3>2, OneEvent
    <3> QED BY <3>1, <3>3, <3>4
  <2>4. LeftoverMeansTimeout' BY <1>22 DEF ToolExits
  <2> QED BY <2>1, <2>2, <2>3, <2>4
<1>23. CASE RunRaises(c)
  <2>1. TypeOK' BY <1>23 DEF RunRaises
  <2>2. (\A b \in Callers : Standing(b))' BY <1>23 DEF RunRaises, InScope
  <2>3. (\A b \in Callers : Answered(b))'
    <3>1. ASSUME NEW b \in Callers, b # c PROVE Answered(b)'
        BY <1>23, <3>1 DEF RunRaises
    <3>2. /\ events'[c] = <<>> /\ outcome'[c] = "uncaught" /\ request'[c].context = request[c].context
          /\ thread'[c] = "returned" /\ spec'[c] = "sandboxed"
        BY <1>23 DEF RunRaises
    <3>3. Told(c)' /\ Escaped(c)' BY <3>2
    <3>4. Real(c)' BY <3>2, OneEvent
    <3> QED BY <3>1, <3>3, <3>4
  <2>4. LeftoverMeansTimeout' BY <1>23 DEF RunRaises
  <2> QED BY <2>1, <2>2, <2>3, <2>4
<1>24. CASE SubmitFails(c)
  <2>1. TypeOK' BY <1>24 DEF SubmitFails
  <2>2. (\A b \in Callers : Standing(b))' BY <1>24 DEF SubmitFails, InScope
  <2>3. (\A b \in Callers : Answered(b))' BY <1>24 DEF SubmitFails
  <2>4. LeftoverMeansTimeout' BY <1>24 DEF SubmitFails
  <2> QED BY <2>1, <2>2, <2>3, <2>4
<1> QED BY <1>1, <1>2, <1>3, <1>4, <1>5, <1>6, <1>7, <1>8, <1>9, <1>10, <1>11, <1>12, <1>13,
           <1>14, <1>15, <1>16, <1>17, <1>18, <1>19, <1>20, <1>21, <1>22, <1>23, <1>24
        DEF CallStep, ToolStep

\* A registration adds a name that no call has found yet.
LEMMA RegisterInv ==
    ASSUME IInv, NEW t \in ToolNames, NEW how \in Registrations, Register(t, how)
    PROVE  IInv'
<1>1. catalog' \in [ToolNames -> Registrations]
    BY DEF IInv, TypeOK, Register
<1>2. \A c \in Callers : spec[c] # "absent" => catalog'[request[c].tool] = catalog[request[c].tool]
    BY DEF IInv, TypeOK, Standing, Register
<1>3. UNCHANGED <<request, spec, pc, thread, container, failure, events, outcome>>
    BY DEF Register
<1>4. TypeOK' BY <1>1, <1>3 DEF IInv, TypeOK
<1>5. (\A c \in Callers : Standing(c))'
    BY <1>2, <1>3 DEF IInv, Standing, InScope
<1>6. ((\A c \in Callers : Answered(c)) /\ LeftoverMeansTimeout)'
    BY <1>3 DEF IInv, Answered, Told, Escaped, Real, LeftoverMeansTimeout
<1> QED BY <1>4, <1>5, <1>6 DEF IInv

\* A registration, a step of a call and a stutter keep the invariant.
LEMMA StepInv == IInv /\ [Next]_vars => IInv'
<1> SUFFICES ASSUME IInv, [Next]_vars PROVE IInv'
    OBVIOUS
<1>1. CASE UNCHANGED vars
    BY <1>1 DEF vars, IInv, TypeOK, Standing, Answered, Told, Escaped, Real, LeftoverMeansTimeout, InScope
<1> QED BY <1>1, CallerInv, RegisterInv DEF Next

\* The strengthened invariant, from which the others follow.
THEOREM InvariantHolds == Spec => []IInv
BY InitInv, StepInv, PTL DEF Spec

\* The trace and the answer of ToolRegistry.call are true, and no tool outside the scope
\* of its caller runs, however the pool's thread, Docker and the INSERT behave.
THEOREM CallsSound == Spec => []ToolCallsAreSound
<1> SUFFICES ASSUME IInv PROVE ToolCallsAreSound
    BY InvariantHolds, PTL
<1>1. EventTellsOutcome
  <2> SUFFICES ASSUME NEW c \in Callers, pc[c] = "done"
               PROVE  EventTellsOutcome!(c)!2
      BY DEF EventTellsOutcome
  <2>1. Told(c) /\ Escaped(c)
      BY DEF IInv, Answered
  <2>2. CASE request[c].context = "traced"
    <3>1. CASE outcome[c] = "InsertFailed"
      <4>1. events[c] \in {<<>>, <<"ok">>, <<"denied">>, <<"error">>}
          BY <2>1, <2>2, <3>1 DEF Told
      <4>2. Len(events[c]) <= 1
        <5>1. Len(events[c]) \in {0, 1} BY <4>1, OneEvent
        <5>2. \A n \in {0, 1} : n <= 1 OBVIOUS
        <5> QED BY <5>1, <5>2
      <4> QED BY <2>2, <3>1, <4>2
    <3>2. CASE outcome[c] = "uncaught"
        BY <2>1, <2>2, <3>2 DEF Told, Escaped
    <3>3. CASE outcome[c] \in Failures
        BY <2>1, <2>2, <3>3 DEF Told, Escaped
    <3>4. CASE outcome[c] = "result"
        BY <2>1, <2>2, <3>4 DEF Told, Escaped
    <3>5. CASE outcome[c] \in {"UnknownToolError", "CapabilityError"}
        BY <2>1, <2>2, <3>5 DEF Told, Escaped
    <3> QED BY <2>1, <2>2, <3>1, <3>2, <3>3, <3>4, <3>5 DEF Told, Escaped
  <2>3. CASE request[c].context = "unnamed"
      BY <2>1, <2>3 DEF Told, Escaped
  <2>4. CASE request[c].context = "silent"
      BY <2>1, <2>4 DEF Told, Escaped
  <2> QED BY <2>1, <2>2, <2>3, <2>4 DEF Told
<1>2. \A c \in Callers : outcome[c] = "result" \/ events[c] = <<"ok">> => pc[c] = "done"
    BY OneEvent DEF IInv, Standing
<1>3. \A c \in Callers : thread[c] # "none" => spec[c] = catalog[request[c].tool]
    BY DEF IInv, Standing
<1>4. SuccessIsReal
    BY <1>2, <1>3 DEF IInv, Answered, Real, SuccessIsReal
<1>5. OnlyScopedToolsRun
    BY ScopeIsExplicit DEF IInv, Standing, OnlyScopedToolsRun
<1> QED BY <1>1, <1>4, <1>5 DEF IInv, ToolCallsAreSound

\* Whatever a call leaves at work behind it, it told its caller of a timeout or of the
\* event it could not write.
THEOREM LeftoverTold == Spec => []LeftoverMeansTimeout
<1>1. IInv => LeftoverMeansTimeout BY DEF IInv
<1> QED BY <1>1, InvariantHolds, PTL
=============================================================================
