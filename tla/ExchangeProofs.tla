--------------------------- MODULE ExchangeProofs ---------------------------
(***************************************************************************)
(* Theorems about what commands, answers and notifications establish: an   *)
(* answer that is accepted belongs to the command sent, a driver that is   *)
(* up has a device that forwards packets, a stopped one does not, a        *)
(* running one shows the link of the last announcement it acted upon, and  *)
(* stops listening only at a completion that it drops.                     *)
(***************************************************************************)
EXTENDS DriverLifecycleProofs

\* A handler that has sent its command and has not returned from rndisCommand.
Waiting == {"wait", "tick", "get", "retry"}

----------------------------------------------------------------------------
(***************************************************************************)
(* A handler keeps the dispatch queue, except in IOSleep.                  *)
(***************************************************************************)
QueueInv == \A t \in Threads : pc[t] \notin {"idle"} \cup Sleeping => queue = t

\* A step of handler t: it holds the queue or takes it, and gives it up only
\* when it sleeps or returns.
HandlerStep(t) ==
  /\ queue \in {t, "free"}
  /\ \A u \in Threads \ {t} : pc'[u] = pc[u] /\ call'[u] = call[u]
  /\ queue' = t \/ (queue' = "free" /\ pc'[t] \in {"idle"} \cup Sleeping)

LEMMA GotoHandler ==
  ASSUME TypeInv, NEW t \in Threads, queue = t,
         \/ \E l \in Labels : Goto(t, l) /\ (call' = call \/ \E c : call' = [call EXCEPT ![t] = c])
         \/ \E l \in Sleeping : Sleep(t, l) /\ (call' = call \/ \E c : call' = [call EXCEPT ![t] = c])
         \/ Finish(t)
  PROVE  HandlerStep(t)
BY DEF TypeInv, ControlOK, Goto, Sleep, Finish, HandlerStep, Sleeping

LEMMA StartHandler ==
  ASSUME TypeInv, StartSteps
  PROVE  HandlerStep("start")
<1>0. "start" \in Threads
  BY DEF Threads
<1>1. queue = "start"
  BY Zenon DEF StartSteps, OpenCommInterface, OpenDataInterface, OpenInterruptPipe, CreateCmdBuf,
     AfterInit, AfterPermanentAddress, AfterCurrentAddress, AllocateTransferResources,
     SetupNetworkInterface, StartCompletes, StartFailsLate, Returned, At
<1>2. \/ \E l \in Labels : Goto("start", l) /\ call' = call
      \/ \E r : Issue("start", r)
      \/ Finish("start")
  <2> USE DEF Labels
  <2>1. CASE OpenCommInterface \/ OpenDataInterface \/ AllocateTransferResources
    BY <2>1, Zenon DEF OpenCommInterface, OpenDataInterface, AllocateTransferResources, Acquire
  <2>2. CASE OpenInterruptPipe \/ CreateCmdBuf
    BY <2>2, Zenon DEF OpenInterruptPipe, CreateCmdBuf
  <2>3. CASE AfterInit \/ AfterPermanentAddress \/ AfterCurrentAddress
    BY <2>3 DEF AfterInit, AfterPermanentAddress, AfterCurrentAddress
  <2>4. CASE SetupNetworkInterface \/ StartCompletes \/ StartFailsLate
    BY <2>4, Zenon DEF SetupNetworkInterface, StartCompletes, StartFailsLate
  <2> QED BY <2>1, <2>2, <2>3, <2>4 DEF StartSteps
<1> QED BY <1>0, <1>1, <1>2, GotoHandler DEF Issue, Labels

LEMMA StopHandler ==
  ASSUME TypeInv, NEW t \in Threads, StopSteps(t)
  PROVE  HandlerStep(t)
<1>1. queue = t
  BY Zenon DEF StopSteps, StopFilter, AfterFilterOff, Release, Returned, At
<1>2. \/ \E l \in Labels : Goto(t, l) /\ call' = call
      \/ \E r : Issue(t, r)
      \/ Finish(t)
  BY DEF StopSteps, StopFilter, AfterFilterOff, Release, Labels
<1> QED BY <1>1, <1>2, GotoHandler DEF Issue, Labels

LEMMA CommandHandler ==
  ASSUME TypeInv, NEW t \in Threads, Command(t)
  PROVE  HandlerStep(t)
<1>1. CASE WakeTick(t) \/ WakeRetry(t)
  BY <1>1 DEF WakeTick, WakeRetry, Wake, HandlerStep, TypeInv, ControlOK
<1>2. CASE ~(WakeTick(t) \/ WakeRetry(t))
  <2>1. queue = t
    BY <1>2, Zenon DEF Command, CommandDereferencesNull, CommandRefused, SendCommand, WaitOver,
       WaitTick, PollsExhausted, GetDereferencesNull, GetFails, GetStub, GetAnswer, Polling, At
  <2>2. \/ \E l \in Labels : Goto(t, l) /\ (call' = call \/ \E c : call' = [call EXCEPT ![t] = c])
        \/ \E l \in Sleeping :
             Sleep(t, l) /\ (call' = call \/ \E c : call' = [call EXCEPT ![t] = c])
    <3> USE DEF Labels, Sleeping
    <3>1. CASE CommandDereferencesNull(t) \/ GetDereferencesNull(t) \/ WaitOver(t) \/ WaitTick(t)
      BY <3>1 DEF CommandDereferencesNull, GetDereferencesNull, WaitOver, WaitTick
    <3>2. CASE CommandRefused(t) \/ PollsExhausted(t) \/ GetFails(t) \/ GetStub(t) \/ GetAnswer(t)
      <4>1. Retry(t) \/ \E r : Return(t, r)
        BY <3>2, Zenon DEF CommandRefused, PollsExhausted, GetFails, GetStub, GetAnswer
      <4> QED BY <4>1 DEF Retry, Return
    <3>3. CASE SendCommand(t)
      BY <3>3 DEF SendCommand
    <3> QED BY <1>2, <3>1, <3>2, <3>3 DEF Command
  <2> QED BY <2>1, <2>2, GotoHandler
<1> QED BY <1>1, <1>2

LEMMA ControlStep ==
  ASSUME TypeInv, [Next]_vars
  PROVE  UNCHANGED <<queue, pc, call>> \/ \E t \in Threads : HandlerStep(t)
<1>0. "start" \in Threads /\ "stop" \in Threads /\ pc \in [Threads -> Labels]
  BY DEF TypeInv, ControlOK, Threads
<1>1. CASE StartEntry
  BY <1>0, <1>1 DEF StartEntry, HandlerStep
<1>2. CASE StopEntry
  BY <1>0, <1>2 DEF StopEntry, HandlerStep
<1>3. CASE StartSuperFails \/ InterruptReadComplete \/ UNCHANGED vars
  BY <1>3, Zenon DEF StartSuperFails, InterruptReadComplete, vars
<1>4. CASE Environment
  BY <1>4, Zenon DEF Environment, DeviceAnswers, DeviceNotifies, ReadCompletes, Unplug
<1> QED BY <1>0, <1>1, <1>2, <1>3, <1>4, StartHandler, StopHandler, CommandHandler DEF Next

LEMMA QueueNext ==
  ASSUME TypeInv, QueueInv, [Next]_vars
  PROVE  QueueInv'
<1>1. CASE UNCHANGED <<queue, pc, call>>
  BY <1>1 DEF QueueInv
<1>2. CASE \E t \in Threads : HandlerStep(t)
  <2>1. PICK t \in Threads : HandlerStep(t)
    BY <1>2
  <2> QED BY <2>1 DEF QueueInv, HandlerStep, Threads
<1> QED BY <1>1, <1>2, ControlStep

----------------------------------------------------------------------------
(***************************************************************************)
(* What the steps of a handler do to a command it waits for.               *)
(***************************************************************************)
StepOf(t) == Command(t) \/ StopSteps(t) \/ (t = "start" /\ StartSteps)

\* A handler does not come to wait, nor return with an answer, except by
\* sending a command and by reading one.
Quiet(t) ==
  /\ pc'[t] \in Waiting =>
       pc[t] \in Waiting /\ call'[t].xid = call[t].xid /\ call'[t].serial = call[t].serial
  /\ pc'[t] = "ret" => call'[t].ret = "error"
  /\ UNCHANGED <<inbox, outbox, serial, rndisXid>>
  /\ cmdBuf' = cmdBuf \/ (cmdBuf' = NoMessage /\ pc'[t] = "idle")

LEMMA QuietStart ==
  ASSUME TypeInv, StartSteps
  PROVE  Quiet("start")
<1>0. "start" \in Threads /\ pc \in [Threads -> Labels]
  BY DEF Threads, TypeInv, ControlOK
<1>1. \E l \in Labels \ (Waiting \cup {"ret"}) : pc' = [pc EXCEPT !["start"] = l]
  <2> USE DEF Labels, Sleeping, Waiting
  <2>1. CASE OpenCommInterface \/ OpenDataInterface \/ AllocateTransferResources
    BY <2>1, Zenon DEF OpenCommInterface, OpenDataInterface, AllocateTransferResources, Acquire,
       Goto
  <2>2. CASE OpenInterruptPipe \/ CreateCmdBuf
    BY <2>2, Zenon DEF OpenInterruptPipe, CreateCmdBuf, Issue, Goto
  <2>3. CASE AfterInit \/ AfterPermanentAddress \/ AfterCurrentAddress
    BY <2>3 DEF AfterInit, AfterPermanentAddress, AfterCurrentAddress, Issue, Goto
  <2>4. CASE SetupNetworkInterface \/ StartCompletes \/ StartFailsLate
    BY <2>4, Zenon DEF SetupNetworkInterface, StartCompletes, StartFailsLate, Issue, Goto, Finish
  <2> QED BY <2>1, <2>2, <2>3, <2>4 DEF StartSteps
<1>2. UNCHANGED <<inbox, outbox, serial, rndisXid, cmdBuf>>
  BY Zenon DEF StartSteps, OpenCommInterface, OpenDataInterface, AllocateTransferResources,
     Acquire, OpenInterruptPipe, CreateCmdBuf, AfterInit, AfterPermanentAddress,
     AfterCurrentAddress, SetupNetworkInterface, StartCompletes, StartFailsLate, ivarVars, devVars
<1> QED BY <1>0, <1>1, <1>2 DEF Quiet

LEMMA QuietStop ==
  ASSUME TypeInv, NEW t \in Threads, StopSteps(t)
  PROVE  Quiet(t)
<1>0. pc \in [Threads -> Labels]
  BY DEF TypeInv, ControlOK
<1>1. \E l \in Labels \ (Waiting \cup {"ret"}) : pc' = [pc EXCEPT ![t] = l]
  BY DEF StopSteps, StopFilter, AfterFilterOff, Release, Issue, Goto, Finish,
     Labels, Sleeping, Waiting
<1>2. UNCHANGED <<inbox, outbox, serial, rndisXid>>
  BY Zenon DEF StopSteps, StopFilter, AfterFilterOff, Release, ivarVars, devVars
<1>3. cmdBuf' = cmdBuf \/ (cmdBuf' = NoMessage /\ pc'[t] = "idle")
  BY <1>0 DEF StopSteps, StopFilter, AfterFilterOff, Release, Finish, ivarVars
<1> QED BY <1>0, <1>1, <1>2, <1>3 DEF Quiet

LEMMA QuietCommand ==
  ASSUME TypeInv, NEW t \in Threads, Command(t), ~SendCommand(t), ~GetAnswer(t)
  PROVE  Quiet(t)
<1>0. pc \in [Threads -> Labels] /\ call \in [Threads -> Calls] /\ call[t] \in Calls
  BY DEF TypeInv, ControlOK
<1>1. UNCHANGED <<inbox, outbox, serial, rndisXid, cmdBuf>>
  BY Zenon DEF Command, CommandDereferencesNull, CommandRefused, WaitOver, WaitTick, WakeTick,
     WakeRetry, PollsExhausted, GetDereferencesNull, GetFails, GetStub, ivarVars, devVars
<1>2. CASE CommandDereferencesNull(t) \/ GetDereferencesNull(t)
  <2>1. pc'[t] = "crashed"
    BY <1>0, <1>2 DEF CommandDereferencesNull, GetDereferencesNull, Goto
  <2> QED BY <1>1, <2>1 DEF Quiet, Waiting
<1>3. CASE CommandRefused(t) \/ PollsExhausted(t) \/ GetFails(t)
  <2>1. Return(t, "error")
    BY <1>3, Zenon DEF CommandRefused, PollsExhausted, GetFails
  <2>2. pc'[t] = "ret" /\ call'[t].ret = "error"
    BY <1>0, <2>1 DEF Return, Goto, Calls
  <2> QED BY <1>1, <2>2 DEF Quiet, Waiting
<1>4. CASE WaitOver(t) \/ WaitTick(t) \/ WakeRetry(t) \/ GetStub(t)
  <2>1. pc[t] \in Waiting /\ pc'[t] \in Waiting
    BY <1>0, <1>4 DEF WaitOver, WaitTick, WakeRetry, GetStub, Retry, Polling, At, Wake, Goto,
       Sleep, Waiting
  <2>2. call'[t].xid = call[t].xid /\ call'[t].serial = call[t].serial
    BY <1>0, <1>4 DEF WaitOver, WaitTick, WakeRetry, GetStub, Retry, Calls
  <2> QED BY <1>1, <2>1, <2>2 DEF Quiet, Waiting
<1>5. CASE WakeTick(t)
  BY <1>0, <1>1, <1>5 DEF WakeTick, Wake, Quiet, Waiting, Calls
<1> QED BY <1>2, <1>3, <1>4, <1>5 DEF Command

\* What sending a command does: a request with the next id and serial number,
\* which may have reached the device even when the command fails at once.
LEMMA SendEffect ==
  ASSUME TypeInv, NEW t \in Threads, SendCommand(t)
  PROVE  /\ serial' = serial + 1 /\ outbox' = outbox
         /\ rndisXid' = AssignXid(rndisXid).next
         /\ \E m \in Messages :
              /\ m.xid = AssignXid(rndisXid).xid /\ m.serial = serial + 1
              /\ m.req = call[t].req
              /\ inbox' = inbox \/ inbox' = Append(inbox, m)
         /\ call'[t].req = call[t].req
         /\ \/ /\ pc'[t] \in {"wait", "get"}
               /\ call'[t].xid = AssignXid(rndisXid).xid /\ call'[t].serial = serial + 1
            \/ pc'[t] = "ret" /\ call'[t].ret = "error"
<1> DEFINE x == AssignXid(rndisXid).xid
           request == [req |-> call[t].req, xid |-> x, serial |-> serial + 1,
                       verdict |-> "request"]
           lim == IF "int" \in held THEN 0 ELSE MaxAttempts
           begun == [call[t] EXCEPT !.xid = x, !.serial = serial + 1, !.limit = lim]
           failed == [begun EXCEPT !.ret = "error", !.limit = 0]
<1>0. /\ pc \in [Threads -> Labels] /\ call \in [Threads -> Calls] /\ call[t] \in Calls
      /\ serial \in Nat /\ x \in 0 .. XidMod - 1 /\ call[t].req \in Requests
  BY CallFields, AssignXidType DEF TypeInv, ControlOK, DataOK
<1>1. /\ serial' = serial + 1 /\ outbox' = outbox /\ rndisXid' = AssignXid(rndisXid).next
      /\ inbox' = inbox \/ inbox' = Append(inbox, request)
  BY DEF SendCommand
<1>2. \/ pc'[t] \in {"wait", "get"} /\ call'[t] = begun
      \/ pc'[t] = "ret" /\ call'[t] = failed
  BY <1>0 DEF SendCommand, Goto
<1> HIDE DEF x, lim
<1>3. request \in Messages /\ request.xid = x /\ request.serial = serial + 1
      /\ request.req = call[t].req
  <2>1. serial + 1 \in Nat
    BY <1>0
  <2> QED BY <1>0, <2>1 DEF Messages
<1>4. /\ begun.xid = x /\ begun.serial = serial + 1 /\ begun.req = call[t].req
      /\ failed.ret = "error" /\ failed.req = call[t].req
  BY <1>0 DEF Calls
<1> HIDE DEF begun, failed, request
<1> QED BY <1>1, <1>2, <1>3, <1>4 DEF x

\* What reading an answer does: it is accepted and returned, or the poll is
\* repeated.
LEMMA AnswerEffect ==
  ASSUME TypeInv, NEW t \in Threads, GetAnswer(t)
  PROVE  /\ 1 \in DOMAIN outbox /\ outbox[1] \in Messages /\ cmdBuf' = outbox[1]
         /\ \A i \in DOMAIN outbox' : i + 1 \in DOMAIN outbox /\ outbox'[i] = outbox[i + 1]
         /\ UNCHANGED <<serial, rndisXid, inbox>>
         /\ call'[t].req = call[t].req /\ call'[t].xid = call[t].xid
         /\ call'[t].serial = call[t].serial
         /\ \/ /\ pc'[t] = "ret" /\ IsCompletionOf(call[t], outbox[1])
               /\ call'[t].ret = outbox[1].verdict
            \/ pc'[t] = "retry"
<1>0. /\ pc \in [Threads -> Labels] /\ call \in [Threads -> Calls] /\ call[t] \in Calls
      /\ outbox \in Seq(Messages)
  BY DEF TypeInv, ControlOK, DataOK
<1>1. /\ UNCHANGED <<serial, rndisXid, inbox>> /\ outbox # <<>>
      /\ outbox' = Tail(outbox) /\ cmdBuf' = Head(outbox)
  BY Zenon DEF GetAnswer
<1>2. /\ 1 \in DOMAIN outbox /\ Head(outbox) = outbox[1] /\ Head(outbox) \in Messages
      /\ \A i \in DOMAIN Tail(outbox) : i + 1 \in DOMAIN outbox /\ Tail(outbox)[i] = outbox[i + 1]
  BY <1>0, <1>1, SMT
<1>3. CASE IsCompletionOf(call[t], cmdBuf')
  <2>1. Return(t, cmdBuf'.verdict)
    BY <1>3 DEF GetAnswer
  <2>2. /\ pc'[t] = "ret" /\ call'[t].serial = call[t].serial /\ call'[t].req = call[t].req
        /\ call'[t].xid = call[t].xid /\ call'[t].ret = cmdBuf'.verdict
    BY <1>0, <2>1 DEF Return, Goto, Calls
  <2> QED BY <1>1, <1>2, <1>3, <2>2
<1>4. CASE ~IsCompletionOf(call[t], cmdBuf')
  <2>1. Retry(t)
    BY <1>4 DEF GetAnswer
  <2>2. /\ pc'[t] = "retry" /\ call'[t].serial = call[t].serial /\ call'[t].req = call[t].req
        /\ call'[t].xid = call[t].xid
    BY <1>0, <2>1 DEF Retry, Sleep, Calls
  <2> QED BY <1>1, <1>2, <2>2
<1> QED BY <1>3, <1>4

----------------------------------------------------------------------------
(***************************************************************************)
(* The pointers that a handler with an answer goes on to use are held.     *)
(***************************************************************************)
Answered(t) == pc[t] = "ret" /\ call[t].ret \in {"ok", "short"}

\* commInterface becomes non-NULL only in Start_Impl before its first command,
\* when no other handler is under way: a handler that waits and still finds
\* commInterface is in the session in which it sent its command, and cmdBuf is
\* held as well.
HeldInv ==
  /\ pc["start"] \in Opening => pc["stop"] = "idle"
  /\ \A t \in Threads : pc[t] \in Waiting /\ "comm" \in held => "cmd" \in held
  /\ \A t \in Threads : Answered(t) => {"comm", "cmd"} \subseteq held

\* Where held changes.
LEMMA HeldStart ==
  ASSUME StartSteps
  PROVE  /\ held \subseteq held'
         /\ "comm" \in held' => "comm" \in held \/ pc["start"] \in Opening
<1>1. CASE OpenCommInterface \/ OpenDataInterface \/ AllocateTransferResources
  BY <1>1 DEF OpenCommInterface, OpenDataInterface, AllocateTransferResources, Acquire, At, Opening
<1>2. CASE OpenInterruptPipe \/ CreateCmdBuf
  BY <1>2 DEF OpenInterruptPipe, CreateCmdBuf, At, Opening
<1>3. CASE SetupNetworkInterface
  BY <1>3 DEF SetupNetworkInterface
<1>4. CASE AfterInit \/ AfterPermanentAddress \/ AfterCurrentAddress \/ StartCompletes \/ StartFailsLate
  <2>1. held' = held
    BY <1>4, Zenon DEF AfterInit, AfterPermanentAddress, AfterCurrentAddress, StartCompletes,
       StartFailsLate, ivarVars
  <2> QED BY <2>1
<1> QED BY <1>1, <1>2, <1>3, <1>4 DEF StartSteps

LEMMA OpeningStart ==
  ASSUME TypeInv, StartSteps, pc'["start"] \in Opening
  PROVE  pc["start"] \in Opening
<1>0. pc \in [Threads -> Labels] /\ "start" \in Threads
  BY DEF TypeInv, ControlOK, Threads
<1>1. CASE OpenCommInterface \/ OpenDataInterface \/ OpenInterruptPipe \/ CreateCmdBuf
  BY <1>1 DEF OpenCommInterface, OpenDataInterface, OpenInterruptPipe, CreateCmdBuf, At, Opening
<1>2. CASE AllocateTransferResources \/ SetupNetworkInterface
  BY <1>0, <1>2 DEF AllocateTransferResources, Acquire, SetupNetworkInterface, Issue, Goto, Opening
<1>3. CASE AfterInit \/ AfterPermanentAddress \/ AfterCurrentAddress
  BY <1>0, <1>3 DEF AfterInit, AfterPermanentAddress, AfterCurrentAddress, Issue, Goto, Opening
<1>4. CASE StartCompletes \/ StartFailsLate
  BY <1>0, <1>4 DEF StartCompletes, StartFailsLate, Finish, Goto, Opening
<1> QED BY <1>1, <1>2, <1>3, <1>4 DEF StartSteps

LEMMA HeldEntry ==
  ASSUME TypeInv, QueueInv, HeldInv, StartEntry \/ StopEntry
  PROVE  HeldInv'
<1>0. pc \in [Threads -> Labels] /\ Threads = {"start", "stop"} /\ queue = "free"
  BY DEF TypeInv, ControlOK, Threads, StartEntry, StopEntry
<1>1. held' = held /\ call' = call
  BY Zenon DEF StartEntry, StopEntry, ivarVars
<1>2. CASE StartEntry
  <2>1. pc'["start"] = "openComm" /\ pc'["stop"] = "idle"
    BY <1>0, <1>2 DEF StartEntry
  <2> QED BY <1>0, <1>1, <2>1 DEF HeldInv, Answered, Waiting
<1>3. CASE StopEntry
  <2>1. pc["start"] \in {"idle"} \cup Sleeping
    BY <1>0 DEF QueueInv
  <2>2. pc'["stop"] = "stop" /\ pc'["start"] = pc["start"]
    BY <1>0, <1>3 DEF StopEntry
  <2>3. pc'["start"] \notin Opening
    BY <2>1, <2>2 DEF Opening, Sleeping
  <2> QED BY <1>0, <1>1, <2>2, <2>3 DEF HeldInv, Answered, Waiting
<1> QED BY <1>2, <1>3

\* A step of a handler: the other one does not move, and holds no answer, since
\* it would hold the queue with it.
LEMMA HeldHandler ==
  ASSUME TypeInv, QueueInv, HeldInv, NEW t \in Threads, StepOf(t)
  PROVE  HeldInv'
<1>0. /\ pc \in [Threads -> Labels] /\ call \in [Threads -> Calls]
      /\ Threads = {"start", "stop"}
  BY DEF TypeInv, ControlOK, Threads
<1>1. HandlerStep(t)
  BY StartHandler, StopHandler, CommandHandler DEF StepOf
<1>2. \A u \in Threads \ {t} : pc'[u] = pc[u] /\ call'[u] = call[u] /\ pc[u] # "ret"
  BY <1>1, <1>0 DEF HandlerStep, QueueInv, Sleeping
<1>3. pc'["start"] \in Opening => pc'["stop"] = "idle"
  <2>1. CASE t = "start" /\ StartSteps
    BY <1>0, <1>2, <2>1, OpeningStart DEF HeldInv
  <2>2. CASE Command(t)
    <3>1. PICK l \in CommandLabels \cup {"ret", "crashed"} : pc' = [pc EXCEPT ![t] = l]
      BY <2>2, CommandStep
    <3>2. pc[t] \in CommandLabels
      BY <2>2, CommandStep
    <3> QED BY <1>0, <1>2, <3>1, <3>2 DEF HeldInv, Opening, CommandLabels
  <2>3. CASE StopSteps(t)
    <3>1. pc[t] \in {"stop", "ret", "release"} /\ \E l \in {"send", "release", "idle"} :
            pc' = [pc EXCEPT ![t] = l]
      BY <2>3, StopStep DEF StopSteps, Release, At, Finish
    <3> QED BY <1>0, <1>2, <3>1 DEF HeldInv, Opening
  <2> QED BY <2>1, <2>2, <2>3 DEF StepOf
<1>4. CASE StartSteps /\ t = "start"
  <2>1. held \subseteq held' /\ ("comm" \in held' => "comm" \in held \/ pc["start"] \in Opening)
    BY <1>4, HeldStart
  <2>2. Quiet("start") /\ pc["start"] \notin Waiting
    <3>1. pc["start"] \notin Waiting
      BY <1>4 DEF StartSteps, OpenCommInterface, OpenDataInterface, AllocateTransferResources,
         OpenInterruptPipe, CreateCmdBuf, AfterInit, AfterPermanentAddress, AfterCurrentAddress,
         SetupNetworkInterface, StartCompletes, StartFailsLate, Returned, At, Waiting
    <3> QED BY <1>4, <3>1, QuietStart
  <2>3. pc'["start"] \notin Waiting /\ ~Answered("start")'
    BY <2>2 DEF Quiet, Answered
  <2>4. pc'["stop"] = pc["stop"] /\ call'["stop"] = call["stop"] /\ pc["stop"] # "ret"
    BY <1>0, <1>2, <1>4
  <2>5. pc'["stop"] \in Waiting /\ "comm" \in held' => "cmd" \in held'
    BY <1>0, <2>1, <2>4 DEF HeldInv, Waiting
  <2> QED BY <1>0, <1>3, <2>3, <2>4, <2>5 DEF HeldInv, Answered
<1>5. CASE StopSteps(t)
  <2>1. Quiet(t) /\ pc[t] \notin Waiting
    BY <1>5, QuietStop DEF StopSteps, StopFilter, AfterFilterOff, Release, Returned, At, Waiting
  <2>2. held' = held \/ held' = {}
    BY <1>5, Zenon DEF StopSteps, StopFilter, AfterFilterOff, Release, ivarVars
  <2>3. pc'[t] \notin Waiting /\ ~Answered(t)'
    BY <2>1 DEF Quiet, Answered
  <2> QED BY <1>2, <1>3, <2>2, <2>3 DEF HeldInv, Answered
<1>6. CASE Command(t)
  <2>0. held' = held
    BY <1>6, CommandStep
  <2>1. CASE SendCommand(t)
    <3>1. {"cmd", "comm"} \subseteq held
      BY <2>1 DEF SendCommand
    <3> QED BY <1>2, <1>3, <2>0, <3>1 DEF HeldInv, Answered
  <2>2. CASE GetAnswer(t)
    <3>1. "comm" \in held /\ pc[t] = "get"
      BY <2>2 DEF GetAnswer, Polling, At
    <3>2. "cmd" \in held
      BY <3>1 DEF HeldInv, Waiting
    <3> QED BY <1>2, <1>3, <2>0, <3>1, <3>2 DEF HeldInv, Answered
  <2>3. CASE ~SendCommand(t) /\ ~GetAnswer(t)
    <3>1. Quiet(t)
      BY <1>6, <2>3, QuietCommand
    <3> QED BY <1>2, <1>3, <2>0, <3>1 DEF HeldInv, Answered, Quiet
  <2> QED BY <2>1, <2>2, <2>3
<1> QED BY <1>4, <1>5, <1>6 DEF StepOf

LEMMA HeldNext ==
  ASSUME TypeInv, QueueInv, HeldInv, [Next]_vars
  PROVE  HeldInv'
<1>1. CASE StartSuperFails \/ InterruptReadComplete \/ Environment \/ UNCHANGED vars
  <2>1. UNCHANGED <<pc, call, held>>
    BY <1>1, Zenon DEF StartSuperFails, InterruptReadComplete, Environment, DeviceAnswers,
       DeviceNotifies, ReadCompletes, Unplug, vars, ivarVars
  <2> QED BY <2>1 DEF HeldInv, Answered
<1>2. ASSUME NEW t \in Threads, StepOf(t) PROVE HeldInv'
  BY <1>2, HeldHandler
<1>3. "start" \in Threads
  BY DEF Threads
<1> QED BY <1>1, <1>2, <1>3, HeldEntry, Zenon DEF Next, StepOf

LEMMA HeldInvariant == Spec => [](QueueInv /\ HeldInv)
<1>1. Init => QueueInv /\ HeldInv
  BY DEF Init, QueueInv, HeldInv, Answered, Threads, Opening, Waiting
<1> QED BY <1>1, QueueNext, HeldNext, TypeInvariant, PTL DEF Spec

----------------------------------------------------------------------------
(***************************************************************************)
(* Answers belong to the command sent.  rndisXid comes round after 2^32 - 1 *)
(* commands, so the id of a command says which one it is among the last    *)
(* 2^32 - 1: what is assumed is that no request or answer is older.        *)
(***************************************************************************)
\* The id of the s-th command: 1, 2, ..., XidMod - 1, and again from 1.
XidOf(s) == ((s - 1) % (XidMod - 1)) + 1

Sent == 1 .. serial

\* Fewer commands than there are ids have been sent since the s-th.
Fresh(s) == serial < s + (XidMod - 1)

Numbered(q) == \A i \in DOMAIN q : q[i].serial \in Sent /\ q[i].xid = XidOf(q[i].serial)

XidInv ==
  /\ AssignXid(rndisXid).xid = XidOf(serial + 1)
  /\ Numbered(inbox) /\ Numbered(outbox)
  /\ \A t \in Threads : pc[t] \in Waiting \/ Answered(t) =>
       call[t].serial \in Sent /\ call[t].xid = XidOf(call[t].serial)
  /\ \A t \in Threads : Answered(t) =>
       /\ cmdBuf # NoMessage /\ cmdBuf.serial \in Sent
       /\ XidOf(cmdBuf.serial) = XidOf(call[t].serial)

\* Every message in transit, every command that a handler waits for or goes on
\* after, and the answer it goes on with, are among the last 2^32 - 1.
Recent ==
  /\ \A m \in InTransit : Fresh(m.serial)
  /\ \A t \in Threads : pc[t] \in Waiting => Fresh(call[t].serial)
  /\ \A t \in Threads : Answered(t) => Fresh(call[t].serial) /\ Fresh(cmdBuf.serial)

\* Division with remainder, and that it is unique.
LEMMA DivMod ==
  ASSUME NEW a \in Nat, NEW n \in Nat, n > 0
  PROVE  a % n \in 0 .. n - 1 /\ a \div n \in Nat /\ a = n * (a \div n) + (a % n)
OBVIOUS

LEMMA QuotientUnique ==
  ASSUME NEW n \in Nat, n > 0, NEW q \in Nat, NEW p \in Nat,
         NEW r \in 0 .. n - 1, NEW u \in 0 .. n - 1, n * q + r = n * p + u
  PROVE  r = u
OBVIOUS

\* Two numbers of one remainder that are less than n apart are equal.
LEMMA RemainderTells ==
  ASSUME NEW n \in Nat, n > 0, NEW q \in Nat, NEW p \in Nat, NEW r \in 0 .. n - 1,
         NEW a \in Nat, NEW b \in Nat, a = n * q + r, b = n * p + r, a <= b, b < a + n
  PROVE  a = b
OBVIOUS

LEMMA RemainderNext ==
  ASSUME NEW a \in Nat, NEW n \in Nat, n > 0
  PROVE  (a + 1) % n = IF a % n = n - 1 THEN 0 ELSE (a % n) + 1
<1> DEFINE r == a % n
           q == a \div n
           u == (a + 1) % n
           p == (a + 1) \div n
<1>1. r \in 0 .. n - 1 /\ q \in Nat /\ a = n * q + r
  BY DivMod
<1>2. u \in 0 .. n - 1 /\ p \in Nat /\ a + 1 = n * p + u
  BY DivMod
<1> HIDE DEF r, q, u, p
<1>3. CASE r = n - 1
  <2>1. n * (q + 1) + 0 = n * p + u
    BY <1>1, <1>2, <1>3
  <2>2. 0 \in 0 .. n - 1 /\ q + 1 \in Nat
    BY <1>1
  <2>3. u = 0
    BY <1>2, <2>1, <2>2, QuotientUnique
  <2> QED BY <1>3, <2>3 DEF r, u
<1>4. CASE r # n - 1
  <2>1. n * q + (r + 1) = n * p + u
    BY <1>1, <1>2
  <2>2. r + 1 \in 0 .. n - 1
    BY <1>1, <1>4
  <2>3. u = r + 1
    BY <1>1, <1>2, <2>1, <2>2, QuotientUnique
  <2> QED BY <1>4, <2>3 DEF r, u
<1> QED BY <1>3, <1>4

LEMMA XidOfFirst == XidOf(1) = 1
<1>1. 0 % (XidMod - 1) = 0
  BY ConstantFacts, SMT
<1> QED BY <1>1 DEF XidOf

\* The ids of two commands that follow one another.
LEMMA XidOfNext ==
  ASSUME NEW s \in Nat, s > 0
  PROVE  /\ XidOf(s) \in 1 .. XidMod - 1
         /\ XidOf(s + 1) = IF XidOf(s) = XidMod - 1 THEN 1 ELSE XidOf(s) + 1
<1> DEFINE n == XidMod - 1
           a == s - 1
<1>1. n \in Nat /\ n > 0 /\ a \in Nat /\ XidMod \in Nat
  BY ConstantFacts
<1>2. a % n \in 0 .. n - 1
  BY <1>1, DivMod
<1>3. (a + 1) % n = IF a % n = n - 1 THEN 0 ELSE (a % n) + 1
  BY <1>1, RemainderNext
<1>4. XidOf(s) = (a % n) + 1 /\ XidOf(s + 1) = ((a + 1) % n) + 1
  <2>1. (s + 1) - 1 = a + 1
    OBVIOUS
  <2> QED BY <2>1 DEF XidOf
<1>5. n = XidMod - 1
  OBVIOUS
<1> HIDE DEF n, a
<1> QED BY <1>1, <1>2, <1>3, <1>4, <1>5

\* Of commands that are fresh the id tells which one it is.
LEMMA XidTells ==
  ASSUME serial \in Nat, NEW s \in Sent, NEW u \in Sent, Fresh(s), Fresh(u), XidOf(s) = XidOf(u)
  PROVE  s = u
<1> DEFINE n == XidMod - 1
           a == s - 1
           b == u - 1
<1>1. n \in Nat /\ n > 0 /\ a \in Nat /\ b \in Nat /\ s = a + 1 /\ u = b + 1
  BY ConstantFacts DEF Sent
<1>2. a < b + n /\ b < a + n
  BY ConstantFacts DEF Sent, Fresh
<1>3. a % n = b % n
  <2>1. a % n \in 0 .. n - 1 /\ b % n \in 0 .. n - 1
    BY <1>1, DivMod
  <2>2. XidOf(s) = (a % n) + 1 /\ XidOf(u) = (b % n) + 1
    BY DEF XidOf
  <2> HIDE DEF n, a, b
  <2> QED BY <1>1, <2>1, <2>2
<1> DEFINE r == a % n
           q == a \div n
           p == b \div n
<1>4. r \in 0 .. n - 1 /\ q \in Nat /\ p \in Nat /\ a = n * q + r /\ b = n * p + r
  BY <1>1, <1>3, DivMod
<1> HIDE DEF n, a, b, r, q, p
<1>5. CASE a <= b
  BY <1>1, <1>2, <1>4, <1>5, RemainderTells
<1>6. CASE b <= a
  BY <1>1, <1>2, <1>4, <1>6, RemainderTells
<1> QED BY <1>1, <1>5, <1>6

\* Each command gets the next id: rndisXid skips 0 when it comes round.
LEMMA NextXid ==
  ASSUME TypeInv, AssignXid(rndisXid).xid = XidOf(serial + 1)
  PROVE  AssignXid(AssignXid(rndisXid).next).xid = XidOf(serial + 2)
<1>1. serial + 1 \in Nat /\ serial + 1 > 0 /\ rndisXid \in 0 .. XidMod - 1 /\ XidMod \in Nat
      /\ XidMod > 2 /\ (serial + 1) + 1 = serial + 2
  BY ConstantFacts DEF TypeInv, DataOK
<1> DEFINE x == AssignXid(rndisXid).xid
<1>2. /\ x \in 1 .. XidMod - 1
      /\ XidOf(serial + 2) = IF x = XidMod - 1 THEN 1 ELSE x + 1
  BY <1>1, XidOfNext
<1>3. AssignXid(rndisXid).next = (x + 1) % XidMod
  BY <1>1, SMT DEF AssignXid
<1> HIDE DEF x
<1>4. (x + 1) % XidMod = IF x = XidMod - 1 THEN 0 ELSE x + 1
  BY <1>1, <1>2
<1>5. CASE x = XidMod - 1
  BY <1>2, <1>3, <1>4, <1>5 DEF AssignXid
<1>6. CASE x # XidMod - 1
  <2>1. x + 1 # 0
    BY <1>2
  <2> QED BY <1>2, <1>3, <1>4, <1>6, <2>1 DEF AssignXid
<1> QED BY <1>5, <1>6

\* What the queues of a step contain: no message of a command to come.
LEMMA SequenceFacts ==
  ASSUME NEW q \in Seq(Messages), NEW m \in Messages
  PROVE  /\ DOMAIN Append(q, m) = DOMAIN q \cup {Len(q) + 1}
         /\ \A i \in DOMAIN q : Append(q, m)[i] = q[i]
         /\ Append(q, m)[Len(q) + 1] = m
         /\ q # <<>> => \A i \in DOMAIN Tail(q) : i + 1 \in DOMAIN q /\ Tail(q)[i] = q[i + 1]
         /\ q # <<>> => 1 \in DOMAIN q /\ Head(q) = q[1] /\ Head(q) \in Messages
BY SMT

LEMMA XidSend ==
  ASSUME TypeInv, QueueInv, XidInv, NEW t \in Threads, SendCommand(t)
  PROVE  XidInv'
<1>0. inbox \in Seq(Messages) /\ outbox \in Seq(Messages) /\ serial \in Nat
  BY DEF TypeInv, DataOK
<1>1. /\ serial' = serial + 1 /\ outbox' = outbox /\ rndisXid' = AssignXid(rndisXid).next
      /\ Sent \subseteq Sent' /\ serial + 1 \in Sent'
  BY <1>0, SendEffect DEF Sent
<1>2. AssignXid(rndisXid').xid = XidOf(serial' + 1)
  <2>1. serial' + 1 = serial + 2
    BY <1>0, <1>1
  <2> QED BY <1>1, <2>1, NextXid DEF XidInv
<1>3. AssignXid(rndisXid).xid = XidOf(serial + 1) /\ Numbered(inbox) /\ Numbered(outbox)
  BY DEF XidInv
<1>4. Numbered(outbox)'
  BY <1>1, <1>3 DEF Numbered
<1>5. Numbered(inbox)'
  <2>1. PICK m \in Messages : /\ m.xid = XidOf(serial + 1) /\ m.serial = serial + 1
                              /\ inbox' = inbox \/ inbox' = Append(inbox, m)
    BY <1>3, SendEffect
  <2>2. \A i \in DOMAIN inbox' : inbox'[i] = m \/ (i \in DOMAIN inbox /\ inbox'[i] = inbox[i])
    BY <1>0, <2>1, SequenceFacts
  <2> QED BY <1>1, <1>3, <2>1, <2>2 DEF Numbered
<1>6. /\ pc'[t] \in Waiting =>
           call'[t].serial = serial + 1 /\ call'[t].xid = XidOf(serial + 1)
      /\ ~Answered(t)'
  BY <1>3, SendEffect DEF Answered, Waiting
<1>7. \A u \in Threads \ {t} : pc'[u] = pc[u] /\ call'[u] = call[u] /\ pc[u] # "ret"
  <2>1. HandlerStep(t)
    BY CommandHandler DEF Command
  <2> QED BY <2>1 DEF HandlerStep, QueueInv, Sleeping, Threads
<1>8. \A u \in Threads \ {t} : ~Answered(u)'
  BY <1>7 DEF Answered
<1>9. \A u \in Threads : pc'[u] \in Waiting =>
        call'[u].serial \in Sent' /\ call'[u].xid = XidOf(call'[u].serial)
  BY <1>1, <1>6, <1>7 DEF XidInv
<1> QED BY <1>2, <1>4, <1>5, <1>6, <1>8, <1>9 DEF XidInv

\* What is accepted has the id of the command, and of any command with that id.
LEMMA XidAnswer ==
  ASSUME TypeInv, QueueInv, XidInv, NEW t \in Threads, GetAnswer(t)
  PROVE  XidInv'
<1>1. UNCHANGED <<serial, rndisXid, inbox>> /\ Sent' = Sent
  BY AnswerEffect DEF Sent
<1>2. /\ Numbered(inbox) /\ Numbered(outbox)
      /\ call[t].serial \in Sent /\ call[t].xid = XidOf(call[t].serial)
  BY DEF XidInv, GetAnswer, Polling, At, Waiting
<1>3. Numbered(outbox)' /\ Numbered(inbox)'
  BY <1>1, <1>2, AnswerEffect DEF Numbered
<1>4. /\ call'[t].xid = call[t].xid /\ call'[t].serial = call[t].serial
      /\ Answered(t)' => cmdBuf'.xid = call[t].xid
  BY AnswerEffect DEF IsCompletionOf, Answered
<1>5. cmdBuf' # NoMessage /\ cmdBuf'.serial \in Sent /\ cmdBuf'.xid = XidOf(cmdBuf'.serial)
  <2>1. \A m \in Messages : m # NoMessage
    BY DEF Messages, NoMessage, Requests
  <2> QED BY <1>2, <2>1, AnswerEffect DEF Numbered
<1>6. \A u \in Threads \ {t} : pc'[u] = pc[u] /\ call'[u] = call[u] /\ pc[u] # "ret"
  <2>1. HandlerStep(t)
    BY CommandHandler DEF Command
  <2>2. queue = t
    BY DEF GetAnswer, Polling, At
  <2> QED BY <2>1, <2>2 DEF HandlerStep, QueueInv, Sleeping
<1>7. \A u \in Threads \ {t} : ~Answered(u)'
  BY <1>6 DEF Answered
<1>8. \A u \in Threads : pc'[u] \in Waiting \/ Answered(u)' =>
        call'[u].serial \in Sent' /\ call'[u].xid = XidOf(call'[u].serial)
  BY <1>1, <1>2, <1>4, <1>6, <1>7 DEF XidInv
<1>9. Answered(t)' => XidOf(cmdBuf'.serial) = XidOf(call'[t].serial)
  BY <1>2, <1>4, <1>5
<1> QED BY <1>1, <1>3, <1>5, <1>7, <1>8, <1>9 DEF XidInv

LEMMA XidQuiet ==
  ASSUME TypeInv, QueueInv, XidInv, NEW t \in Threads, StepOf(t), Quiet(t)
  PROVE  XidInv'
<1>1. HandlerStep(t)
  BY StartHandler, StopHandler, CommandHandler DEF StepOf
<1>2. \A u \in Threads \ {t} : pc'[u] = pc[u] /\ call'[u] = call[u] /\ pc[u] # "ret"
  BY <1>1 DEF HandlerStep, QueueInv, Sleeping, Threads
<1>3. UNCHANGED <<inbox, outbox, serial, rndisXid>> /\ ~Answered(t)'
  BY DEF Quiet, Answered
<1>4. /\ Sent' = Sent
      /\ (Numbered(inbox) => Numbered(inbox)') /\ (Numbered(outbox) => Numbered(outbox)')
  BY <1>3 DEF Sent, Numbered
<1>5. pc'[t] \in Waiting => pc[t] \in Waiting /\ call'[t].xid = call[t].xid
                           /\ call'[t].serial = call[t].serial
  BY DEF Quiet
<1>6. \A u \in Threads : ~Answered(u)'
  BY <1>2, <1>3 DEF Answered
<1>7. \A u \in Threads : pc'[u] \in Waiting =>
        call'[u].serial \in Sent' /\ call'[u].xid = XidOf(call'[u].serial)
  BY <1>2, <1>4, <1>5 DEF XidInv
<1> QED BY <1>3, <1>4, <1>6, <1>7 DEF XidInv

LEMMA XidElsewhere ==
  ASSUME TypeInv, XidInv,
         StartSuperFails \/ StartEntry \/ StopEntry \/ InterruptReadComplete \/ Environment
           \/ UNCHANGED vars
  PROVE  XidInv'
<1>0. /\ pc \in [Threads -> Labels] /\ Threads = {"start", "stop"}
      /\ inbox \in Seq(Messages) /\ outbox \in Seq(Messages)
  BY DEF TypeInv, ControlOK, DataOK, Threads
<1>1. UNCHANGED <<call, serial, rndisXid, cmdBuf>> /\ Sent' = Sent
  <2>1. UNCHANGED <<call, serial, rndisXid, cmdBuf>>
    BY Zenon DEF StartSuperFails, StartEntry, StopEntry, InterruptReadComplete, Environment,
       DeviceAnswers, DeviceNotifies, ReadCompletes, Unplug, vars, ivarVars
  <2> QED BY <2>1 DEF Sent
<1>2. \A u \in Threads : (pc'[u] \in Waiting => pc[u] \in Waiting) /\ (Answered(u)' => Answered(u))
  <2>1. CASE StartEntry \/ StopEntry
    BY <1>0, <1>1, <2>1 DEF StartEntry, StopEntry, Waiting, Answered
  <2>2. CASE ~(StartEntry \/ StopEntry)
    <3>1. pc' = pc
      BY <2>2, Zenon DEF StartSuperFails, InterruptReadComplete, Environment, DeviceAnswers,
         DeviceNotifies, ReadCompletes, Unplug, vars
    <3> QED BY <1>1, <3>1 DEF Answered
  <2> QED BY <2>1, <2>2
<1>3. Numbered(inbox) /\ Numbered(outbox) => Numbered(inbox)' /\ Numbered(outbox)'
  <2>1. CASE DeviceAnswers
    <3>1. inbox # <<>> /\ inbox' = Tail(inbox)
      BY <2>1, Zenon DEF DeviceAnswers
    <3>2. PICK v \in Verdicts(Head(inbox).req) :
            outbox' = Append(outbox, [Head(inbox) EXCEPT !.verdict = v])
      BY <2>1, Zenon DEF DeviceAnswers
    <3> DEFINE m == [Head(inbox) EXCEPT !.verdict = v]
    <3>3. /\ 1 \in DOMAIN inbox /\ Head(inbox) = inbox[1] /\ Head(inbox) \in Messages
          /\ \A i \in DOMAIN Tail(inbox) : i + 1 \in DOMAIN inbox /\ Tail(inbox)[i] = inbox[i + 1]
      BY <1>0, <3>1, SMT
    <3>4. v \in {"ok", "error", "short"}
      BY DEF Verdicts
    <3>5. m \in Messages /\ m.xid = inbox[1].xid /\ m.serial = inbox[1].serial
      BY <3>3, <3>4 DEF Messages
    <3> HIDE DEF m
    <3>6. \A i \in DOMAIN outbox' : outbox'[i] = m \/ (i \in DOMAIN outbox /\ outbox'[i] = outbox[i])
      <4>1. outbox' = Append(outbox, m)
        BY <3>2 DEF m
      <4> QED BY <1>0, <3>5, <4>1, SequenceFacts
    <3> QED BY <1>1, <3>1, <3>3, <3>5, <3>6 DEF Numbered
  <2>2. CASE Unplug
    <3>1. DOMAIN inbox' = {} /\ DOMAIN outbox' = {}
      BY <2>2, SMT DEF Unplug
    <3> QED BY <3>1 DEF Numbered
  <2>3. CASE ~DeviceAnswers /\ ~Unplug
    <3>1. UNCHANGED <<inbox, outbox>>
      BY <2>3, Zenon DEF StartSuperFails, StartEntry, StopEntry, InterruptReadComplete,
         Environment, DeviceNotifies, ReadCompletes, vars, devVars
    <3> QED BY <1>1, <3>1 DEF Numbered
  <2> QED BY <2>1, <2>2, <2>3
<1> QED BY <1>1, <1>2, <1>3, Zenon DEF XidInv

LEMMA XidNext ==
  ASSUME TypeInv, QueueInv, XidInv, [Next]_vars
  PROVE  XidInv'
<1>1. ASSUME NEW t \in Threads, StepOf(t) PROVE XidInv'
  <2>1. CASE SendCommand(t) \/ GetAnswer(t)
    BY <2>1, XidSend, XidAnswer
  <2>2. CASE ~SendCommand(t) /\ ~GetAnswer(t)
    <3>1. Quiet(t)
      BY <1>1, <2>2, QuietStart, QuietStop, QuietCommand DEF StepOf
    <3> QED BY <1>1, <3>1, XidQuiet
  <2> QED BY <2>1, <2>2
<1>2. "start" \in Threads
  BY DEF Threads
<1> QED BY <1>1, <1>2, XidElsewhere, Zenon DEF Next, StepOf

LEMMA XidInvariant == Spec => []XidInv
<1>1. Init => XidInv
  <2> SUFFICES ASSUME Init PROVE XidInv
    OBVIOUS
  <2>1. DOMAIN inbox = {} /\ DOMAIN outbox = {}
    BY SMT DEF Init
  <2>2. AssignXid(rndisXid).xid = XidOf(serial + 1)
    <3>1. rndisXid = 1 /\ serial + 1 = 1
      BY DEF Init
    <3> QED BY <3>1, XidOfFirst DEF AssignXid
  <2> QED BY <2>1, <2>2 DEF Init, XidInv, Numbered, Answered, Waiting
<1> QED BY <1>1, XidNext, HeldInvariant, TypeInvariant, PTL DEF Spec

\* What is assumed holds at least until 2^32 - 1 commands have been sent.
LEMMA RecentAtFirst == Spec => [](serial < XidMod => Recent)
<1>1. TypeInv /\ XidInv => (serial < XidMod => Recent)
  <2> SUFFICES ASSUME TypeInv, XidInv, serial < XidMod PROVE Recent
    OBVIOUS
  <2>1. \A s \in Sent : Fresh(s)
    BY ConstantFacts DEF TypeInv, DataOK, Sent, Fresh
  <2>2. \A m \in InTransit : m.serial \in Sent
    BY DEF XidInv, Numbered, InTransit
  <2> QED BY <2>1, <2>2 DEF XidInv, Recent
<1> QED BY <1>1, XidInvariant, TypeInvariant, PTL

\* In every state in which no request or answer is as old as 2^32 - 1 commands:
\* an exchange that rndisCommand reports as completed left in cmdBuf the answer
\* to the very command it sent, and its caller finds the pointers it goes on
\* with, even when rndisXid has come round, and when Stop is dispatched while
\* Start sleeps and both wait for an answer.
THEOREM AcceptedAnswerIsMine == Spec => [](Recent => AnswerIsMine)
<1>1. TypeInv /\ HeldInv /\ XidInv => (Recent => AnswerIsMine)
  <2> SUFFICES ASSUME TypeInv, HeldInv, XidInv, Recent, NEW t \in Threads, Answered(t)
               PROVE  /\ cmdBuf # NoMessage /\ cmdBuf.serial = call[t].serial
                      /\ {"comm", "cmd"} \subseteq held
    BY DEF AnswerIsMine, Answered
  <2>1. /\ cmdBuf # NoMessage /\ cmdBuf.serial \in Sent /\ call[t].serial \in Sent
        /\ XidOf(cmdBuf.serial) = XidOf(call[t].serial)
    BY DEF XidInv
  <2>2. Fresh(cmdBuf.serial) /\ Fresh(call[t].serial) /\ serial \in Nat
    BY DEF Recent, TypeInv, DataOK
  <2>3. cmdBuf.serial = call[t].serial
    BY <2>1, <2>2, XidTells
  <2> QED BY <2>1, <2>3 DEF HeldInv
<1> QED BY <1>1, HeldInvariant, XidInvariant, TypeInvariant, PTL

\* In every state in which no request or answer is as old as 2^32 - 1 commands,
\* no message in transit has the id 0, and two of one type with one id are of
\* one command.
THEOREM IdsTellCommandsApart == Spec => [](Recent => IdsDistinguish)
<1>1. TypeInv /\ XidInv => (Recent => IdsDistinguish)
  <2> SUFFICES ASSUME TypeInv, XidInv, Recent PROVE IdsDistinguish
    OBVIOUS
  <2>1. serial \in Nat
    BY DEF TypeInv, DataOK
  <2>2. \A m \in InTransit : m.xid = XidOf(m.serial) /\ m.serial \in Sent /\ Fresh(m.serial)
    BY DEF XidInv, Numbered, InTransit, Recent
  <2>3. \A m \in InTransit : m.xid # 0
    <3> SUFFICES ASSUME NEW m \in InTransit PROVE m.xid # 0
      OBVIOUS
    <3>1. m.serial \in Nat /\ m.serial > 0
      BY <2>1, <2>2 DEF Sent
    <3>2. m.xid \in 1 .. XidMod - 1
      BY <2>2, <3>1, XidOfNext
    <3> QED BY <3>2
  <2>4. \A m, n \in InTransit : m.xid = n.xid => m.serial = n.serial
    BY <2>1, <2>2, XidTells
  <2> QED BY <2>3, <2>4 DEF IdsDistinguish
<1> QED BY <1>1, XidInvariant, TypeInvariant, PTL

----------------------------------------------------------------------------
(***************************************************************************)
(* A driver that is up is configured, when Stop does not overlap Start.    *)
(***************************************************************************)
Interfaces == {"comm", "data", "in", "out"}

\* What Start_Impl holds at each of its labels; a command tells by its request
\* which part of Start issued it, and "filterOff" that Start bailed out.
StageInv ==
  /\ pc["start"] = "openData" => "comm" \in held
  /\ pc["start"] \in {"openInt", "cmdBuf"} => Interfaces \subseteq held
  /\ pc["start"] \in CommandLabels \cup {"ret"} =>
       /\ call["start"].req # "filterOff" => Interfaces \cup {"cmd"} \subseteq held
       /\ call["start"].req \in {"permanent", "current", "filterOn"} => rndisInitDone
       /\ call["start"].req = "filterOn" => Resources \ {"int"} \subseteq held
  /\ pc["start"] \in {"alloc", "setup"} => Interfaces \cup {"cmd"} \subseteq held /\ rndisInitDone
  /\ pc["start"] = "setup" => "bufs" \in held
  /\ running => Resources \ {"int"} \subseteq held /\ rndisInitDone

\* A handler's request is that of its current command.
LEMMA RequestKept ==
  ASSUME TypeInv, NEW t \in Threads, Command(t)
  PROVE  call'[t].req = call[t].req
<1>0. call \in [Threads -> Calls] /\ call[t] \in Calls
  BY DEF TypeInv, ControlOK
<1>1. CASE SendCommand(t) \/ GetAnswer(t)
  BY <1>1, SendEffect, AnswerEffect
<1>2. CASE CommandDereferencesNull(t) \/ GetDereferencesNull(t) \/ WaitTick(t) \/ WakeRetry(t)
  <2>1. call' = call
    BY <1>2, Zenon DEF CommandDereferencesNull, GetDereferencesNull, WaitTick, WakeRetry
  <2> QED BY <2>1
<1>3. CASE CommandRefused(t) \/ PollsExhausted(t) \/ GetFails(t)
  <2>1. Return(t, "error")
    BY <1>3, Zenon DEF CommandRefused, PollsExhausted, GetFails
  <2> QED BY <1>0, <2>1 DEF Return, Calls
<1>4. CASE WaitOver(t)
  BY <1>0, <1>4 DEF WaitOver, Calls
<1>5. CASE WakeTick(t)
  BY <1>0, <1>5 DEF WakeTick, Calls
<1>6. CASE GetStub(t)
  BY <1>0, <1>6 DEF GetStub, Retry, Calls
<1> QED BY <1>1, <1>2, <1>3, <1>4, <1>5, <1>6 DEF Command

LEMMA StageStart ==
  ASSUME TypeInv, TeardownInv, StageInv, StartSteps
  PROVE  StageInv'
<1>0. /\ pc \in [Threads -> Labels] /\ call \in [Threads -> Calls] /\ "start" \in Threads
      /\ running \in BOOLEAN /\ rndisInitDone \in BOOLEAN
  BY DEF TypeInv, ControlOK, DataOK, Threads
<1> USE DEF CommandLabels, Interfaces
<1>1. pc["start"] # "idle" /\ ~running
  <2>1. pc["start"] # "idle"
    BY StartStep DEF StartCompletes, Returned, At
  <2> QED BY <2>1 DEF TeardownInv
<1>2. CASE OpenCommInterface
  BY <1>0, <1>1, <1>2 DEF OpenCommInterface, Acquire, Goto, At, StageInv
<1>3. CASE OpenDataInterface
  BY <1>0, <1>1, <1>3 DEF OpenDataInterface, Acquire, Goto, At, StageInv
<1>4. CASE OpenInterruptPipe
  BY <1>0, <1>1, <1>4 DEF OpenInterruptPipe, Goto, At, StageInv
<1>5. CASE CreateCmdBuf
  <2>1. UNCHANGED <<running, rndisInitDone>> /\ pc["start"] = "cmdBuf"
    BY <1>5 DEF CreateCmdBuf, At
  <2>2. \/ held' = held \cup {"cmd"} /\ pc'["start"] = "send" /\ call'["start"].req = "init"
        \/ pc'["start"] = "stop"
    BY <1>0, <1>5 DEF CreateCmdBuf, Issue, Goto, NoCall
  <2> QED BY <1>1, <2>1, <2>2 DEF StageInv
<1>6. CASE AfterInit
  <2>1. UNCHANGED <<running, held>> /\ pc["start"] = "ret" /\ call["start"].req = "init"
    BY <1>6 DEF AfterInit, Returned, At
  <2>2. \/ /\ pc'["start"] = "send" /\ call'["start"].req = "permanent" /\ rndisInitDone'
        \/ pc'["start"] = "stop"
    BY <1>0, <1>6 DEF AfterInit, Issue, Goto, NoCall
  <2> QED BY <1>1, <2>1, <2>2 DEF StageInv
<1>7. CASE AfterPermanentAddress \/ AfterCurrentAddress
  <2>1. /\ UNCHANGED <<running, held, rndisInitDone>> /\ pc["start"] = "ret"
        /\ call["start"].req \in {"permanent", "current"}
    BY <1>7 DEF AfterPermanentAddress, AfterCurrentAddress, Returned, At, ivarVars
  <2>2. \/ pc'["start"] = "send" /\ call'["start"].req = "current"
        \/ pc'["start"] \in {"alloc", "stop"}
    BY <1>0, <1>7 DEF AfterPermanentAddress, AfterCurrentAddress, Issue, Goto, NoCall
  <2> QED BY <1>1, <2>1, <2>2 DEF StageInv
<1>8. CASE AllocateTransferResources
  BY <1>0, <1>1, <1>8 DEF AllocateTransferResources, Acquire, Goto, At, StageInv
<1>9. CASE SetupNetworkInterface
  <2>1. UNCHANGED <<running, rndisInitDone>> /\ pc["start"] = "setup"
    BY <1>9 DEF SetupNetworkInterface, At
  <2>2. \/ /\ held' = held \cup {"pool", "tx", "rx"}
           /\ pc'["start"] = "send" /\ call'["start"].req = "filterOn"
        \/ pc'["start"] = "stop"
    BY <1>0, <1>9 DEF SetupNetworkInterface, Issue, Goto, NoCall
  <2> QED BY <1>1, <2>1, <2>2 DEF StageInv, Resources
<1>10. CASE StartCompletes
  <2>1. UNCHANGED <<rndisInitDone, held>> /\ pc["start"] = "ret" /\ call["start"].req = "filterOn"
    BY <1>10 DEF StartCompletes, Returned, At
  <2>2. pc'["start"] = "idle"
    BY <1>0, <1>10 DEF StartCompletes, Finish
  <2> QED BY <2>1, <2>2 DEF StageInv
<1>11. CASE StartFailsLate
  <2>1. running' = running /\ pc'["start"] = "stop"
    BY <1>0, <1>11 DEF StartFailsLate, Goto, ivarVars
  <2> QED BY <1>1, <2>1 DEF StageInv
<1> QED
  BY <1>2, <1>3, <1>4, <1>5, <1>6, <1>7, <1>8, <1>9, <1>10, <1>11 DEF StartSteps

LEMMA StageNext ==
  ASSUME TypeInv, TeardownInv, StageInv, [Next]_vars
  PROVE  StageInv'
<1>0. /\ pc \in [Threads -> Labels] /\ call \in [Threads -> Calls]
      /\ Threads = {"start", "stop"} /\ running \in BOOLEAN
  BY DEF TypeInv, ControlOK, DataOK, Threads
<1>1. CASE StartSuperFails \/ InterruptReadComplete \/ Environment \/ UNCHANGED vars
  <2>1. UNCHANGED <<pc, call, held, running, rndisInitDone>>
    BY <1>1, Zenon DEF StartSuperFails, InterruptReadComplete, Environment, DeviceAnswers,
       DeviceNotifies, ReadCompletes, Unplug, vars, ivarVars
  <2> QED BY <2>1 DEF StageInv
<1>2. CASE StartEntry \/ StopEntry
  <2>1. UNCHANGED <<call, held, running, rndisInitDone>>
    BY <1>2, Zenon DEF StartEntry, StopEntry, ivarVars
  <2>2. pc'["start"] = "openComm" \/ pc'["start"] = pc["start"]
    BY <1>0, <1>2 DEF StartEntry, StopEntry
  <2> QED BY <2>1, <2>2 DEF StageInv, CommandLabels
<1>3. ASSUME NEW t \in Threads, Command(t) PROVE StageInv'
  <2>1. UNCHANGED <<held, running, rndisInitDone>>
    BY <1>3, CommandStep
  <2>2. HandlerStep(t)
    BY <1>3, CommandHandler
  <2>3. CASE t = "start"
    <3>1. pc["start"] \in CommandLabels /\ pc'["start"] \in CommandLabels \cup {"ret", "crashed"}
      BY <1>0, <1>3, <2>3, CommandStep
    <3>2. call'["start"].req = call["start"].req
      BY <1>3, <2>3, RequestKept
    <3> QED BY <2>1, <3>1, <3>2 DEF StageInv, CommandLabels
  <2>4. CASE t = "stop"
    <3>1. pc'["start"] = pc["start"] /\ call'["start"] = call["start"]
      BY <1>0, <2>2, <2>4 DEF HandlerStep
    <3> QED BY <2>1, <3>1 DEF StageInv
  <2> QED BY <1>0, <2>3, <2>4
<1>4. ASSUME NEW t \in Threads, StopSteps(t) PROVE StageInv'
  <2>1. HandlerStep(t)
    BY <1>4, StopHandler
  <2>2. CASE Release(t)
    <3>1. pc[t] = "release" /\ running' = running /\ ~running
      BY <1>0, <2>2 DEF Release, At, TeardownInv
    <3>2. pc'["start"] = "idle"
      BY <1>0, <2>1, <2>2, <3>1 DEF Release, Finish, TeardownInv
    <3> QED BY <3>1, <3>2 DEF StageInv, CommandLabels
  <2>3. CASE StopFilter(t) \/ AfterFilterOff(t)
    <3>1. UNCHANGED <<held, rndisInitDone>> /\ (running' = FALSE \/ running' = running)
      BY <2>3, StopStep
    <3>2. CASE t = "start"
      <4>1. \/ pc'["start"] = "send" /\ call'["start"].req = "filterOff"
            \/ pc'["start"] = "release"
        BY <1>0, <2>3, <3>2 DEF StopFilter, AfterFilterOff, Issue, Goto, NoCall
      <4> QED BY <3>1, <4>1 DEF StageInv, CommandLabels
    <3>3. CASE t = "stop"
      <4>1. pc'["start"] = pc["start"] /\ call'["start"] = call["start"]
        BY <1>0, <2>1, <3>3 DEF HandlerStep
      <4> QED BY <3>1, <4>1 DEF StageInv
    <3> QED BY <1>0, <3>2, <3>3
  <2> QED BY <1>4, <2>2, <2>3 DEF StopSteps
<1> QED
  BY <1>1, <1>2, <1>3, <1>4, StageStart, Zenon DEF Next

----------------------------------------------------------------------------
(***************************************************************************)
(* What an answer says of the device: it is initialised, and it forwards   *)
(* packets until the next command.  The device executes commands in order, *)
(* so when the newest one is answered no other is left to be executed.     *)
(***************************************************************************)
OkTo(t, r) == pc[t] = "ret" /\ call[t].req = r /\ call[t].ret = "ok"

InOrder ==
  /\ \A i, j \in DOMAIN inbox : i < j => inbox[i].serial < inbox[j].serial
  /\ \A i \in DOMAIN outbox, j \in DOMAIN inbox : outbox[i].serial < inbox[j].serial

\* The command a handler waits for is the newest one.
WaitsForNewest ==
  \A t \in Threads : pc[t] \in Waiting =>
    /\ call[t].serial = serial
    /\ \A i \in DOMAIN inbox : inbox[i].serial = serial => inbox[i].req = call[t].req
    /\ \A i \in DOMAIN outbox : outbox[i].serial = serial => outbox[i].req = call[t].req

AnswersTrue ==
  \A i \in DOMAIN outbox : outbox[i].verdict = "ok" =>
    /\ outbox[i].req = "init" => devReady
    /\ outbox[i].req = "filterOn" /\ outbox[i].serial = serial => devFilter
    /\ outbox[i].req = "filterOff" /\ outbox[i].serial = serial => ~devFilter

DeviceInv ==
  /\ InOrder /\ WaitsForNewest /\ AnswersTrue
  /\ alive => /\ rndisInitDone => devReady
              /\ \A t \in Threads : OkTo(t, "init") => devReady
              /\ \A t \in Threads : OkTo(t, "filterOn") => devFilter /\ DOMAIN inbox = {}
              /\ running => devFilter /\ DOMAIN inbox = {}

LEMMA DeviceUntouched ==
  ASSUME NEW t \in Threads, StepOf(t)
  PROVE  UNCHANGED <<alive, devReady, devFilter>>
<1>1. CASE StartSteps
  BY <1>1, Zenon DEF StartSteps, OpenCommInterface, OpenDataInterface, AllocateTransferResources,
     Acquire, OpenInterruptPipe, CreateCmdBuf, AfterInit, AfterPermanentAddress,
     AfterCurrentAddress, SetupNetworkInterface, StartCompletes, StartFailsLate, devVars
<1>2. CASE StopSteps(t)
  BY <1>2, Zenon DEF StopSteps, StopFilter, AfterFilterOff, Release, devVars
<1>3. CASE Command(t)
  BY <1>3, Zenon DEF Command, CommandDereferencesNull, CommandRefused, WaitOver, WaitTick, WakeTick,
     WakeRetry, PollsExhausted, GetDereferencesNull, GetFails, GetStub, GetAnswer, SendCommand,
     devVars
<1> QED BY <1>1, <1>2, <1>3 DEF StepOf

\* A handler under way is alone, and the driver is not up while it commands.
LEMMA Alone ==
  ASSUME TypeInv, TeardownInv, NEW t \in Threads, Command(t)
  PROVE  /\ ~running
         /\ \A u \in Threads \ {t} : pc[u] = "idle" /\ pc'[u] = "idle"
         /\ UNCHANGED <<running, rndisInitDone>>
<1>1. pc[t] \in CommandLabels /\ UNCHANGED <<running, rndisInitDone>>
  BY CommandStep
<1>2. pc[t] \notin {"idle", "stop"}
  BY <1>1 DEF CommandLabels
<1>3. HandlerStep(t)
  BY CommandHandler
<1> QED BY <1>1, <1>2, <1>3 DEF TeardownInv, HandlerStep, Threads

LEMMA DeviceSend ==
  ASSUME TypeInv, TeardownInv, XidInv, DeviceInv, NEW t \in Threads, SendCommand(t)
  PROVE  DeviceInv'
<1>0. inbox \in Seq(Messages) /\ serial \in Nat
  BY DEF TypeInv, DataOK
<1>1. Command(t) /\ StepOf(t)
  BY DEF Command, StepOf
<1>2. serial' = serial + 1 /\ outbox' = outbox
  BY SendEffect
<1>3. Numbered(inbox) /\ Numbered(outbox)
  BY DEF XidInv
<1>4. UNCHANGED <<alive, devReady, devFilter, running, rndisInitDone>> /\ ~running
  BY <1>1, DeviceUntouched, Alone
<1>5. PICK m \in Messages : /\ m.serial = serial + 1 /\ m.req = call[t].req
                            /\ inbox' = inbox \/ inbox' = Append(inbox, m)
  BY SendEffect
<1>6. \A i \in DOMAIN inbox' : \/ inbox'[i] = m /\ \A j \in DOMAIN inbox : j < i
                               \/ i \in DOMAIN inbox /\ inbox'[i] = inbox[i]
  BY <1>0, <1>5, SMT
<1>7. InOrder'
  <2>1. \A i \in DOMAIN inbox : inbox[i].serial \in Nat /\ inbox[i].serial < serial + 1
    BY <1>0, <1>3 DEF Numbered, Sent
  <2>2. \A i \in DOMAIN outbox : outbox[i].serial \in Nat /\ outbox[i].serial < serial + 1
    BY <1>0, <1>3 DEF Numbered, Sent
  <2>3. DOMAIN inbox' \subseteq Nat /\ DOMAIN inbox \subseteq Nat
    BY <1>0, <1>5, SMT
  <2>4. \A i, j \in DOMAIN inbox' : i < j => inbox'[i].serial < inbox'[j].serial
    <3> SUFFICES ASSUME NEW i \in DOMAIN inbox', NEW j \in DOMAIN inbox', i < j
                 PROVE  inbox'[i].serial < inbox'[j].serial
      OBVIOUS
    <3>1. i \in DOMAIN inbox /\ inbox'[i] = inbox[i]
      <4>1. CASE inbox'[i] = m /\ \A k \in DOMAIN inbox : k < i
        <5>1. j \notin DOMAIN inbox /\ ~(\A k \in DOMAIN inbox' : k \in DOMAIN inbox)
          BY <2>3, <4>1
        <5>2. inbox' = Append(inbox, m)
          BY <1>5, <5>1
        <5>3. j = Len(inbox) + 1 /\ (i \in DOMAIN inbox \/ i = Len(inbox) + 1)
          BY <1>0, <5>1, <5>2, SequenceFacts
        <5> QED BY <1>0, <1>5, <2>3, <4>1, <5>2, <5>3, SequenceFacts
      <4> QED BY <1>6, <4>1
    <3> QED BY <1>2, <1>5, <1>6, <2>1, <3>1 DEF DeviceInv, InOrder
  <2>5. \A i \in DOMAIN outbox', j \in DOMAIN inbox' : outbox'[i].serial < inbox'[j].serial
    BY <1>2, <1>5, <1>6, <2>2 DEF DeviceInv, InOrder
  <2> QED BY <2>4, <2>5 DEF InOrder
<1>8. /\ \A i \in DOMAIN outbox' : outbox'[i].serial # serial'
      /\ \A i \in DOMAIN inbox' : inbox'[i].serial = serial' => inbox'[i].req = call[t].req
  BY <1>0, <1>2, <1>3, <1>5, <1>6 DEF Numbered, Sent
<1>9. WaitsForNewest'
  <2>1. \A u \in Threads : pc'[u] \in Waiting => u = t
    BY <1>1, Alone DEF Waiting
  <2>2. call'[t].req = call[t].req /\ (pc'[t] \in Waiting => call'[t].serial = serial + 1)
    BY SendEffect DEF Waiting
  <2> QED BY <1>2, <1>8, <2>1, <2>2 DEF WaitsForNewest
<1>10. AnswersTrue'
  BY <1>2, <1>4, <1>8 DEF AnswersTrue, DeviceInv
<1>11. \A u \in Threads, r \in Requests : ~OkTo(u, r)'
  <2>1. \A u \in Threads \ {t} : pc'[u] # "ret"
    BY <1>1, Alone
  <2>2. pc'[t] = "ret" => call'[t].ret = "error"
    BY SendEffect
  <2> QED BY <2>1, <2>2 DEF OkTo
<1> QED BY <1>2, <1>4, <1>7, <1>9, <1>10, <1>11 DEF DeviceInv, Requests

\* An accepted answer is to the newest command, and the device has no other left.
LEMMA AcceptedIsNewest ==
  ASSUME TypeInv, XidInv, Recent, DeviceInv, NEW t \in Threads, GetAnswer(t), pc'[t] = "ret"
  PROVE  /\ 1 \in DOMAIN outbox /\ outbox[1].verdict = call'[t].ret
         /\ outbox[1].req = call'[t].req /\ outbox[1].serial = serial
         /\ DOMAIN inbox = {}
<1>0. inbox \in Seq(Messages) /\ serial \in Nat
  BY DEF TypeInv, DataOK
<1>1. /\ pc[t] = "get" /\ call[t].serial = serial
      /\ call[t].serial \in Sent /\ call[t].xid = XidOf(call[t].serial)
  BY DEF DeviceInv, WaitsForNewest, XidInv, GetAnswer, Polling, At, Waiting
<1>2. /\ 1 \in DOMAIN outbox /\ outbox[1].verdict = call'[t].ret
      /\ outbox[1].xid = call[t].xid /\ call'[t].req = call[t].req
  BY AnswerEffect DEF IsCompletionOf
<1>3. outbox[1].serial = serial
  <2>1. outbox[1].serial \in Sent /\ outbox[1].xid = XidOf(outbox[1].serial)
    BY <1>2 DEF XidInv, Numbered
  <2>2. Fresh(outbox[1].serial) /\ Fresh(call[t].serial)
    BY <1>1, <1>2 DEF Recent, InTransit, Waiting
  <2> QED BY <1>0, <1>1, <1>2, <2>1, <2>2, XidTells
<1>4. outbox[1].req = call[t].req
  BY <1>1, <1>2, <1>3 DEF DeviceInv, WaitsForNewest, Waiting
<1>5. DOMAIN inbox = {}
  <2>1. \A j \in DOMAIN inbox : serial < inbox[j].serial /\ inbox[j].serial \in 1 .. serial
    BY <1>2, <1>3 DEF DeviceInv, InOrder, XidInv, Numbered, Sent
  <2> QED BY <1>0, <2>1
<1> QED BY <1>2, <1>3, <1>4, <1>5

LEMMA DeviceAnswer ==
  ASSUME TypeInv, TeardownInv, XidInv, Recent, DeviceInv, NEW t \in Threads, GetAnswer(t)
  PROVE  DeviceInv'
<1>0. inbox \in Seq(Messages) /\ outbox \in Seq(Messages) /\ serial \in Nat
  BY DEF TypeInv, DataOK
<1>1. Command(t) /\ StepOf(t)
  BY DEF Command, StepOf
<1>2. UNCHANGED <<serial, inbox>>
  BY AnswerEffect
<1>3. UNCHANGED <<alive, devReady, devFilter, running, rndisInitDone>> /\ ~running
  BY <1>1, DeviceUntouched, Alone
<1>4. \A i \in DOMAIN outbox' : \E j \in DOMAIN outbox : outbox'[i] = outbox[j]
  BY AnswerEffect
<1>5. InOrder' /\ AnswersTrue'
  BY <1>2, <1>3, <1>4 DEF DeviceInv, InOrder, AnswersTrue
<1>6. \A u \in Threads \ {t} : pc'[u] = "idle"
  BY <1>1, Alone
<1>7. pc[t] = "get" /\ call[t].serial = serial
  BY DEF DeviceInv, WaitsForNewest, GetAnswer, Polling, At, Waiting
<1>8. WaitsForNewest'
  <2>1. call'[t].req = call[t].req /\ call'[t].serial = call[t].serial
    BY AnswerEffect
  <2> QED BY <1>2, <1>4, <1>6, <1>7, <2>1 DEF DeviceInv, WaitsForNewest, Waiting
<1>9. ASSUME pc'[t] = "ret", call'[t].ret = "ok"
      PROVE  /\ call'[t].req = "init" => devReady
             /\ call'[t].req = "filterOn" => devFilter /\ DOMAIN inbox = {}
  BY <1>2, <1>9, AcceptedIsNewest DEF DeviceInv, AnswersTrue
<1> QED BY <1>2, <1>3, <1>5, <1>6, <1>8, <1>9 DEF DeviceInv, OkTo

LEMMA DeviceQuiet ==
  ASSUME TypeInv, QueueInv, TeardownInv, DeviceInv, NEW t \in Threads, StepOf(t), Quiet(t)
  PROVE  DeviceInv'
<1>0. /\ pc \in [Threads -> Labels] /\ call \in [Threads -> Calls] /\ Threads = {"start", "stop"}
      /\ running \in BOOLEAN /\ rndisInitDone \in BOOLEAN
  BY DEF TypeInv, ControlOK, DataOK, Threads
<1>1. UNCHANGED <<alive, devReady, devFilter, inbox, outbox, serial>>
  BY DeviceUntouched DEF Quiet
<1>2. HandlerStep(t)
  BY StartHandler, StopHandler, CommandHandler DEF StepOf
<1>3. \A u \in Threads \ {t} : pc'[u] = pc[u] /\ call'[u] = call[u]
  BY <1>2 DEF HandlerStep
<1>4. InOrder => InOrder'
  BY <1>1 DEF InOrder
<1>5. AnswersTrue => AnswersTrue'
  BY <1>1 DEF AnswersTrue
<1>6. WaitsForNewest => WaitsForNewest'
  <2>1. CASE pc'[t] \in Waiting
    <3>1. pc[t] \in Waiting /\ call'[t].serial = call[t].serial /\ call'[t].req = call[t].req
      <4>1. pc[t] \in Waiting /\ call'[t].serial = call[t].serial
        BY <2>1 DEF Quiet
      <4>2. Command(t)
        BY <4>1, <1>0 DEF StepOf, Waiting, StopSteps, StopFilter, AfterFilterOff, Release, Returned,
           At, StartSteps, OpenCommInterface, OpenDataInterface, AllocateTransferResources,
           OpenInterruptPipe, CreateCmdBuf, AfterInit, AfterPermanentAddress,
           AfterCurrentAddress, SetupNetworkInterface, StartCompletes, StartFailsLate
      <4> QED BY <4>1, <4>2, RequestKept
    <3> QED BY <1>1, <1>3, <3>1 DEF WaitsForNewest
  <2>2. CASE pc'[t] \notin Waiting
    BY <1>1, <1>3, <2>2 DEF WaitsForNewest
  <2> QED BY <2>1, <2>2
<1>7. \A u \in Threads, r \in Requests : OkTo(u, r)' => OkTo(u, r)
  BY <1>3 DEF OkTo, Quiet
<1>8. rndisInitDone' => rndisInitDone \/ OkTo("start", "init")
  <2>1. CASE AfterInit
    BY <2>1 DEF AfterInit, Returned, Succeeded, At, OkTo
  <2>2. CASE Release(t)
    BY <2>2 DEF Release, ClearFlags
  <2>3. CASE StartSteps /\ ~AfterInit
    <3>1. rndisInitDone' = rndisInitDone
      BY <2>3, Zenon DEF StartSteps, OpenCommInterface, OpenDataInterface,
         AllocateTransferResources, Acquire, OpenInterruptPipe, CreateCmdBuf,
         AfterPermanentAddress, AfterCurrentAddress, SetupNetworkInterface, StartCompletes,
         StartFailsLate, ivarVars
    <3> QED BY <3>1
  <2>4. CASE Command(t) \/ StopFilter(t) \/ AfterFilterOff(t)
    BY <2>4, CommandStep, StopStep
  <2> QED BY <2>1, <2>2, <2>3, <2>4 DEF StepOf, StopSteps
<1>9. running' => running \/ OkTo("start", "filterOn")
  <2>1. CASE StartCompletes
    BY <2>1 DEF StartCompletes, Returned, FilterAccepted, Succeeded, At, OkTo
  <2>2. CASE StartSteps /\ ~StartCompletes
    BY <2>2, StartStep
  <2>3. CASE Command(t) \/ StopFilter(t) \/ AfterFilterOff(t)
    BY <2>3, CommandStep, StopStep
  <2>4. CASE Release(t)
    BY <2>4, Zenon DEF Release
  <2> QED BY <2>1, <2>2, <2>3, <2>4 DEF StepOf, StopSteps
<1> QED BY <1>0, <1>1, <1>4, <1>5, <1>6, <1>7, <1>8, <1>9 DEF DeviceInv, Requests

\* The device takes the oldest request: an answer to the newest one leaves
\* none behind it.
LEMMA DeviceTakes ==
  ASSUME TypeInv, XidInv, DeviceInv, DeviceAnswers
  PROVE  DeviceInv'
<1>0. /\ inbox \in Seq(Messages) /\ outbox \in Seq(Messages) /\ serial \in Nat
      /\ devReady \in BOOLEAN
  BY DEF TypeInv, DataOK
<1>1. /\ inbox # <<>> /\ inbox' = Tail(inbox)
      /\ UNCHANGED <<pc, call, serial, alive, running, rndisInitDone>>
  BY Zenon DEF DeviceAnswers, ivarVars
<1>2. PICK v \in Verdicts(Head(inbox).req) :
        /\ outbox' = Append(outbox, [Head(inbox) EXCEPT !.verdict = v])
        /\ Execute(Head(inbox)) \/ (v = "error" /\ UNCHANGED <<devReady, devFilter>>)
  BY Zenon DEF DeviceAnswers
<1> DEFINE m == [Head(inbox) EXCEPT !.verdict = v]
<1>3. /\ 1 \in DOMAIN inbox /\ Head(inbox) = inbox[1] /\ Head(inbox) \in Messages
      /\ \A i \in DOMAIN inbox' : i \in Nat /\ 1 < i + 1 /\ i + 1 \in DOMAIN inbox
                                  /\ inbox'[i] = inbox[i + 1]
  BY <1>0, <1>1, SMT
<1>4. /\ m \in Messages /\ m.verdict = v /\ m.serial = inbox[1].serial
      /\ m.req = inbox[1].req
  <2>1. v \in {"ok", "error", "short"}
    BY DEF Verdicts
  <2> QED BY <1>3, <2>1 DEF Messages
<1>5. outbox' = Append(outbox, m)
  BY <1>2
<1> HIDE DEF m
<1>6. \A i \in DOMAIN outbox' : outbox'[i] = m \/ (i \in DOMAIN outbox /\ outbox'[i] = outbox[i])
  BY <1>0, <1>4, <1>5, SequenceFacts
<1>7. InOrder /\ WaitsForNewest /\ AnswersTrue /\ Numbered(inbox)
  BY DEF DeviceInv, XidInv
<1>8. DOMAIN inbox # {} /\ (devReady => devReady')
  BY <1>0, <1>2, <1>3 DEF Execute
<1>9. \A i \in DOMAIN outbox : outbox[i].serial # serial
  BY <1>0, <1>3, <1>7 DEF InOrder, Numbered, Sent
<1>10. InOrder'
  <2>1. \A i, j \in DOMAIN inbox' : i < j => inbox'[i].serial < inbox'[j].serial
    BY <1>3, <1>7 DEF InOrder
  <2>2. \A i \in DOMAIN outbox', j \in DOMAIN inbox' : outbox'[i].serial < inbox'[j].serial
    BY <1>3, <1>4, <1>6, <1>7 DEF InOrder
  <2> QED BY <2>1, <2>2 DEF InOrder
<1>11. WaitsForNewest'
  BY <1>1, <1>3, <1>4, <1>6, <1>7 DEF WaitsForNewest
<1>12. AnswersTrue'
  <2>1. v = "ok" /\ m.req = "init" => devReady'
    BY <1>2, <1>3, <1>4 DEF Execute
  <2>2. v = "ok" /\ m.req = "filterOn" => devFilter'
    BY <1>2, <1>3, <1>4 DEF Execute
  <2>3. v = "ok" /\ m.req = "filterOff" => ~devFilter'
    BY <1>2, <1>3, <1>4 DEF Execute
  <2> QED BY <1>1, <1>4, <1>6, <1>7, <1>8, <1>9, <2>1, <2>2, <2>3 DEF AnswersTrue
<1> QED BY <1>1, <1>8, <1>10, <1>11, <1>12 DEF DeviceInv, OkTo

LEMMA DeviceElsewhere ==
  ASSUME TypeInv, XidInv, DeviceInv,
         StartSuperFails \/ StartEntry \/ StopEntry \/ InterruptReadComplete \/ Environment
           \/ UNCHANGED vars
  PROVE  DeviceInv'
<1>0. pc \in [Threads -> Labels] /\ Threads = {"start", "stop"}
  BY DEF TypeInv, ControlOK, Threads
<1>1. CASE DeviceAnswers
  BY <1>1, DeviceTakes
<1>2. UNCHANGED <<call, serial, running, rndisInitDone>>
  BY Zenon DEF StartSuperFails, StartEntry, StopEntry, InterruptReadComplete, Environment,
     DeviceAnswers, DeviceNotifies, ReadCompletes, Unplug, vars, ivarVars
<1>3. CASE Unplug
  <2>1. DOMAIN inbox' = {} /\ DOMAIN outbox' = {}
    BY <1>3, SMT DEF Unplug
  <2>2. pc' = pc /\ alive' = FALSE
    BY <1>3, Zenon DEF Unplug
  <2> QED BY <1>2, <2>1, <2>2 DEF DeviceInv, InOrder, WaitsForNewest, AnswersTrue
<1>4. CASE ~DeviceAnswers /\ ~Unplug
  <2>1. UNCHANGED <<inbox, outbox, alive, devReady, devFilter>>
    BY <1>4, Zenon DEF StartSuperFails, StartEntry, StopEntry, InterruptReadComplete,
       Environment, DeviceNotifies, ReadCompletes, vars, devVars
  <2>2. \A u \in Threads :
          (pc'[u] \in Waiting => pc[u] \in Waiting) /\ (pc'[u] = "ret" => pc[u] = "ret")
    <3>1. CASE StartEntry \/ StopEntry
      BY <1>0, <3>1 DEF StartEntry, StopEntry, Waiting
    <3>2. CASE ~(StartEntry \/ StopEntry)
      <4>1. pc' = pc
        BY <1>4, <3>2, Zenon DEF StartSuperFails, InterruptReadComplete, Environment,
           DeviceNotifies, ReadCompletes, vars
      <4> QED BY <4>1
    <3> QED BY <3>1, <3>2
  <2>3. InOrder' /\ AnswersTrue'
    BY <1>2, <2>1 DEF DeviceInv, InOrder, AnswersTrue
  <2>4. WaitsForNewest'
    BY <1>2, <2>1, <2>2 DEF DeviceInv, WaitsForNewest
  <2>5. \A u \in Threads, r \in Requests : OkTo(u, r)' => OkTo(u, r)
    BY <1>2, <2>2 DEF OkTo
  <2> QED BY <1>2, <2>1, <2>3, <2>4, <2>5 DEF DeviceInv, Requests
<1> QED BY <1>1, <1>3, <1>4

LEMMA DeviceNext ==
  ASSUME TypeInv, QueueInv, TeardownInv, XidInv, Recent, DeviceInv, [Next]_vars
  PROVE  DeviceInv'
<1>1. ASSUME NEW t \in Threads, StepOf(t) PROVE DeviceInv'
  <2>1. CASE SendCommand(t) \/ GetAnswer(t)
    BY <2>1, DeviceSend, DeviceAnswer
  <2>2. CASE ~SendCommand(t) /\ ~GetAnswer(t)
    <3>1. Quiet(t)
      BY <1>1, <2>2, QuietStart, QuietStop, QuietCommand DEF StepOf
    <3> QED BY <1>1, <3>1, DeviceQuiet
  <2> QED BY <2>1, <2>2
<1>2. "start" \in Threads
  BY DEF Threads
<1> QED BY <1>1, <1>2, DeviceElsewhere, Zenon DEF Next, StepOf

\* In a behaviour in which no request or answer gets as old as 2^32 - 1 commands
\* and the framework does not dispatch Stop while Start sleeps: while running is
\* set every pointer of the data path is held, the handshake is done, and a
\* device that is plugged in is initialised and forwards packets.
THEOREM RunningIsConfigured ==
  ASSUME StopOverlapsStart = FALSE
  PROVE  Spec /\ []Recent => []UpMeansConfigured
<1>1. Init => TeardownInv /\ StageInv /\ DeviceInv
  <2>1. Init => DOMAIN inbox = {} /\ DOMAIN outbox = {}
    BY SMT DEF Init
  <2> QED BY <2>1 DEF Init, TeardownInv, DownMeansReleased, Threads, StageInv, CommandLabels,
          DeviceInv, InOrder, WaitsForNewest, AnswersTrue, Waiting, OkTo
<1>2. TypeInv /\ TeardownInv /\ [Next]_vars => TeardownInv'
  BY TeardownNext
<1>3. TypeInv /\ TeardownInv /\ StageInv /\ [Next]_vars => StageInv'
  BY StageNext
<1>4. TypeInv /\ QueueInv /\ TeardownInv /\ XidInv /\ Recent /\ DeviceInv /\ [Next]_vars
        => DeviceInv'
  BY DeviceNext
<1>5. StageInv /\ DeviceInv => UpMeansConfigured
  BY DEF StageInv, DeviceInv, UpMeansConfigured
<1> QED BY <1>1, <1>2, <1>3, <1>4, <1>5, TypeInvariant, HeldInvariant, XidInvariant, PTL DEF Spec

----------------------------------------------------------------------------
(***************************************************************************)
(* The link shown is the link announced, when Stop does not overlap Start. *)
(***************************************************************************)
NoNote(q) == \A i \in DOMAIN q : q[i] \notin LinkNotes
LastNote(q, n) == \E i \in DOMAIN q : q[i] = n /\ \A j \in DOMAIN q : j > i => q[j] \notin LinkNotes

\* The link a device last announced is on its way as the last announcement in
\* flight, at the device or posted; or it has been acted upon, and then by a
\* running driver, so the link shown is the one announced.  Until a running driver
\* has acted upon one, and in a session without interrupt pipe, the link shown is
\* the one that Start reported.
LinkInv ==
  /\ alive /\ media # "unknown" =>
       \/ \E n \in LinkNotes : /\ LinkOf(n) = media
                               /\ LastNote(pending, n) \/ (NoNote(pending) /\ LastNote(done, n))
       \/ /\ NoNote(pending) /\ NoNote(done) /\ link = media
          /\ pc["start"] = "idle" /\ (running \/ pc["stop"] # "idle")
  /\ media = "unknown" => NoNote(pending) /\ NoNote(done)
  /\ running /\ (media = "unknown" \/ "int" \notin held) => link = "active"

LEMMA NotesIn ==
  ASSUME NEW p \in Seq(Completions), NEW d \in Seq(Completions)
  PROVE  LinkNoteIn(p \o d) <=> ~(NoNote(p) /\ NoNote(d))
<1>1. /\ DOMAIN p = 1 .. Len(p) /\ DOMAIN d = 1 .. Len(d) /\ Len(p) \in Nat /\ Len(d) \in Nat
      /\ DOMAIN (p \o d) = 1 .. Len(p) + Len(d)
      /\ \A i \in 1 .. Len(p) + Len(d) :
           (p \o d)[i] = IF i <= Len(p) THEN p[i] ELSE d[i - Len(p)]
  BY SMT
<1>2. ASSUME NEW i \in DOMAIN p PROVE i \in DOMAIN (p \o d) /\ (p \o d)[i] = p[i]
  BY <1>1
<1>3. ASSUME NEW i \in DOMAIN d
      PROVE  Len(p) + i \in DOMAIN (p \o d) /\ (p \o d)[Len(p) + i] = d[i]
  BY <1>1
<1>4. ASSUME NEW i \in DOMAIN (p \o d)
      PROVE  \/ i \in DOMAIN p /\ (p \o d)[i] = p[i]
             \/ i - Len(p) \in DOMAIN d /\ (p \o d)[i] = d[i - Len(p)]
  BY <1>1
<1> QED BY <1>2, <1>3, <1>4 DEF LinkNoteIn, NoNote

LEMMA NoteAppended ==
  ASSUME NEW q \in Seq(Completions), NEW c \in Completions, NEW n \in LinkNotes
  PROVE  /\ NoNote(q) /\ c \notin LinkNotes => NoNote(Append(q, c))
         /\ LastNote(q, n) /\ c \notin LinkNotes => LastNote(Append(q, c), n)
         /\ c = n => LastNote(Append(q, c), n)
<1>1. /\ DOMAIN Append(q, c) = DOMAIN q \cup {Len(q) + 1}
      /\ \A i \in DOMAIN q : Append(q, c)[i] = q[i] /\ i < Len(q) + 1
      /\ Append(q, c)[Len(q) + 1] = c /\ Len(q) \in Nat
  BY SMT
<1> QED BY <1>1 DEF NoNote, LastNote

LEMMA NoteTaken ==
  ASSUME NEW q \in Seq(Completions), q # <<>>, NEW n \in LinkNotes
  PROVE  /\ NoNote(q) => Head(q) \notin LinkNotes /\ NoNote(Tail(q))
         /\ LastNote(q, n) => LastNote(Tail(q), n) \/ (Head(q) = n /\ NoNote(Tail(q)))
<1>1. /\ 1 \in DOMAIN q /\ Head(q) = q[1] /\ DOMAIN q \subseteq Nat
      /\ \A i \in DOMAIN Tail(q) : i + 1 \in DOMAIN q /\ Tail(q)[i] = q[i + 1] /\ i \in Nat /\ i > 0
      /\ \A i \in DOMAIN q : i # 1 => i - 1 \in DOMAIN Tail(q) /\ Tail(q)[i - 1] = q[i]
  BY SMT
<1>2. NoNote(q) => Head(q) \notin LinkNotes /\ NoNote(Tail(q))
  BY <1>1 DEF NoNote
<1>3. ASSUME NEW i \in DOMAIN q, q[i] = n, \A j \in DOMAIN q : j > i => q[j] \notin LinkNotes
      PROVE  LastNote(Tail(q), n) \/ (Head(q) = n /\ NoNote(Tail(q)))
  <2>1. CASE i = 1
    BY <1>1, <1>3, <2>1 DEF NoNote
  <2>2. CASE i # 1
    <3>1. i - 1 \in DOMAIN Tail(q) /\ Tail(q)[i - 1] = n
      BY <1>1, <1>3, <2>2
    <3>2. \A j \in DOMAIN Tail(q) : j > i - 1 => Tail(q)[j] \notin LinkNotes
      BY <1>1, <1>3
    <3> QED BY <3>1, <3>2 DEF LastNote
  <2> QED BY <2>1, <2>2
<1> QED BY <1>2, <1>3 DEF LastNote

\* The reads aborted by Release complete behind what is posted already.
LEMMA NoteAborted ==
  ASSUME NEW q \in Seq(Completions), NEW k \in Nat, NEW n \in LinkNotes
  PROVE  /\ NoNote(q) => NoNote(q \o [i \in 1 .. k |-> "gone"])
         /\ LastNote(q, n) => LastNote(q \o [i \in 1 .. k |-> "gone"], n)
<1> DEFINE g == [i \in 1 .. k |-> "gone"]
<1>1. g \in Seq(Completions) /\ Len(g) = k
  BY SMT DEF Completions
<1>2. \A i \in 1 .. k : g[i] = "gone"
  OBVIOUS
<1> HIDE DEF g
<1>3. /\ DOMAIN (q \o g) = 1 .. Len(q) + k /\ DOMAIN q = 1 .. Len(q) /\ Len(q) \in Nat
      /\ \A i \in DOMAIN q : (q \o g)[i] = q[i]
      /\ \A i \in 1 .. Len(q) + k : i > Len(q) => (q \o g)[i] = g[i - Len(q)] /\ i - Len(q) \in 1 .. k
  BY <1>1, SMT
<1>4. \A j \in DOMAIN (q \o g) \ DOMAIN q : (q \o g)[j] \notin LinkNotes
  <2> SUFFICES ASSUME NEW j \in DOMAIN (q \o g) \ DOMAIN q PROVE (q \o g)[j] \notin LinkNotes
    OBVIOUS
  <2>1. (q \o g)[j] = "gone"
    BY <1>2, <1>3
  <2> QED BY <2>1 DEF LinkNotes
<1>5. DOMAIN q \subseteq DOMAIN (q \o g)
  BY <1>3
<1>6. NoNote(q) => NoNote(q \o g)
  BY <1>3, <1>4 DEF NoNote
<1>7. ASSUME LastNote(q, n) PROVE LastNote(q \o g, n)
  <2>1. PICK i \in DOMAIN q : q[i] = n /\ \A j \in DOMAIN q : j > i => q[j] \notin LinkNotes
    BY <1>7 DEF LastNote
  <2>2. i \in DOMAIN (q \o g) /\ (q \o g)[i] = n
    BY <1>3, <1>5, <2>1
  <2>3. \A j \in DOMAIN (q \o g) : j > i => (q \o g)[j] \notin LinkNotes
    BY <1>3, <1>4, <2>1
  <2> QED BY <2>2, <2>3 DEF LastNote
<1> QED BY <1>6, <1>7 DEF g

LEMMA QueuesOfNotes ==
  ASSUME TypeInv
  PROVE  pending \in Seq(Completions) /\ done \in Seq(Completions)
<1>1. pending \in Seq(Notes) /\ done \in Seq(Completions) /\ Notes \subseteq Completions
  BY DEF TypeInv, DataOK, Completions
<1> QED BY <1>1, SMT

\* The steps of a handler but StartCompletes and Release keep the link and the
\* notifications, and a driver that has shown the announced link stays up, or
\* is being stopped.
LEMMA LinkHandler ==
  ASSUME TypeInv, TeardownInv, LinkInv, NEW t \in Threads, StepOf(t)
  PROVE  LinkInv'
<1>0. /\ pc \in [Threads -> Labels] /\ call \in [Threads -> Calls] /\ Threads = {"start", "stop"}
      /\ pending \in Seq(Completions) /\ done \in Seq(Completions) /\ reads \in Nat
  BY QueuesOfNotes DEF TypeInv, ControlOK, DataOK, Threads
<1>1. CASE Release(t)
  <2>1. /\ pending' = pending /\ alive' = alive /\ running' = running
        /\ done' = done \o [i \in 1 .. reads |-> "gone"]
        /\ media' = IF LinkNoteIn(pending \o done) THEN media ELSE "unknown"
    BY <1>1 DEF Release, devVars
  <2>2. ~running'
    <3>1. pc[t] = "release"
      BY <1>1 DEF Release, At
    <3> QED BY <1>0, <2>1, <3>1 DEF TeardownInv
  <2>3. "connect" \in LinkNotes
    BY DEF LinkNotes
  <2>4. CASE NoNote(pending) /\ NoNote(done)
    <3>1. media' = "unknown" /\ NoNote(pending') /\ NoNote(done')
      BY <1>0, <2>1, <2>3, <2>4, NotesIn, NoteAborted
    <3> QED BY <2>2, <3>1 DEF LinkInv
  <2>5. CASE ~(NoNote(pending) /\ NoNote(done))
    <3>1. media' = media /\ media # "unknown"
      BY <1>0, <2>1, <2>5, NotesIn DEF LinkInv
    <3>2. SUFFICES ASSUME alive
                   PROVE  \E n \in LinkNotes :
                            /\ LinkOf(n) = media'
                            /\ LastNote(pending', n) \/ (NoNote(pending') /\ LastNote(done', n))
      BY <2>1, <2>2, <3>1 DEF LinkInv
    <3>3. PICK n \in LinkNotes : /\ LinkOf(n) = media
                                 /\ LastNote(pending, n) \/ (NoNote(pending) /\ LastNote(done, n))
      BY <2>5, <3>1, <3>2 DEF LinkInv
    <3>4. LastNote(done, n) => LastNote(done', n)
      BY <1>0, <2>1, NoteAborted
    <3> QED BY <2>1, <3>1, <3>3, <3>4
  <2> QED BY <2>4, <2>5
<1>2. CASE StartSteps /\ t = "start"
  <2>1. pc["start"] # "idle" /\ UNCHANGED <<pending, done, media, alive>>
    <3>1. pc["start"] # "idle"
      BY <1>2, StartStep DEF StartCompletes, Returned, At
    <3>2. UNCHANGED <<pending, done, media>>
      BY <1>2, Zenon DEF StartSteps, OpenCommInterface, OpenDataInterface,
         AllocateTransferResources, Acquire, OpenInterruptPipe, CreateCmdBuf, AfterInit,
         AfterPermanentAddress, AfterCurrentAddress, SetupNetworkInterface, StartCompletes,
         StartFailsLate, intVars
    <3> QED BY <1>2, <3>1, <3>2, DeviceUntouched
  <2>2. running' => link' = "active"
    <3>1. CASE StartCompletes
      BY <3>1 DEF StartCompletes
    <3>2. CASE ~StartCompletes
      BY <1>2, <2>1, <3>2, StartStep DEF TeardownInv
    <3> QED BY <3>1, <3>2
  <2> QED BY <2>1, <2>2 DEF LinkInv
<1>3. CASE Command(t) \/ StopFilter(t) \/ AfterFilterOff(t)
  <2>1. /\ UNCHANGED <<pending, done, media, alive, link, held>>
        /\ running' = FALSE \/ running' = running
    <3>1. UNCHANGED <<pending, done, media>>
      BY <1>3, Zenon DEF Command, CommandDereferencesNull, CommandRefused, WaitOver, WaitTick,
         WakeTick, WakeRetry, PollsExhausted, GetDereferencesNull, GetFails, GetStub, GetAnswer,
         SendCommand, StopFilter, AfterFilterOff, intVars
    <3>2. link' = link /\ held' = held /\ (running' = FALSE \/ running' = running)
      BY <1>3, CommandStep, StopStep
    <3> QED BY <3>1, <3>2, DeviceUntouched
  <2>2. \E l \in Labels \ {"idle"} : pc' = [pc EXCEPT ![t] = l]
    <3>1. CASE Command(t)
      BY <3>1, CommandStep DEF CommandLabels, Labels, Sleeping
    <3>2. CASE StopFilter(t) \/ AfterFilterOff(t)
      BY <3>2, StopStep DEF Labels
    <3> QED BY <1>3, <3>1, <3>2
  <2>3. pc[t] # "idle"
    BY <1>3, CommandStep, StopStep DEF CommandLabels
  <2>4. pc["start"] = "idle" => pc'["start"] = "idle" /\ pc'["stop"] # "idle"
    BY <1>0, <2>2, <2>3
  <2> QED BY <2>1, <2>4 DEF LinkInv
<1> QED BY <1>1, <1>2, <1>3 DEF StepOf, StopSteps

LEMMA LinkInterrupt ==
  ASSUME TypeInv, TeardownInv, LinkInv, InterruptReadComplete
  PROVE  LinkInv'
<1> DEFINE c == Head(done)
           handled == ~Ignored(c) /\ "int" \in held
<1>0. pending \in Seq(Completions) /\ done \in Seq(Completions) /\ "connect" \in LinkNotes
  BY QueuesOfNotes DEF LinkNotes
<1>1. /\ done # <<>> /\ done' = Tail(done) /\ UNCHANGED <<pending, pc, running, alive, held>>
      /\ link' = IF handled /\ c \in LinkNotes THEN LinkOf(c) ELSE link
      /\ media' = IF ~handled /\ c \in LinkNotes /\ ~LinkNoteIn(pending \o done')
                  THEN "unknown" ELSE media
  BY Zenon DEF InterruptReadComplete, devVars
<1>2. done' \in Seq(Completions)
  BY <1>0, <1>1, SMT
<1>3. LinkNoteIn(pending \o done') <=> ~(NoNote(pending') /\ NoNote(done'))
  BY <1>0, <1>1, <1>2, NotesIn
<1>4. handled => running /\ "int" \in held
  BY DEF Ignored
<1> HIDE DEF handled
<1>5. CASE NoNote(pending) /\ NoNote(done)
  <2>1. c \notin LinkNotes /\ NoNote(pending') /\ NoNote(done')
    BY <1>0, <1>1, <1>5, NoteTaken
  <2>2. \A n \in LinkNotes : ~LastNote(pending, n) /\ ~LastNote(done, n)
    BY <1>5 DEF NoNote, LastNote
  <2>3. link' = link /\ media' = media
    BY <1>1, <2>1
  <2> QED BY <1>1, <2>1, <2>2, <2>3 DEF LinkInv
<1>6. CASE ~(NoNote(pending) /\ NoNote(done))
  <2>1. media # "unknown"
    BY <1>6 DEF LinkInv
  <2>2. CASE ~handled /\ c \in LinkNotes /\ NoNote(pending') /\ NoNote(done')
    <3>1. media' = "unknown" /\ link' = link
      BY <1>1, <1>3, <2>2
    <3>2. running => "int" \notin held
      <4>1. c # "gone"
        BY <2>2 DEF LinkNotes
      <4> QED BY <2>2, <4>1 DEF handled, Ignored
    <3> QED BY <1>1, <2>2, <3>1, <3>2 DEF LinkInv
  <2>3. CASE ~(~handled /\ c \in LinkNotes /\ NoNote(pending') /\ NoNote(done'))
    <3>1. media' = media
      BY <1>1, <1>3, <2>3
    <3>2. running' /\ "int" \notin held' => link' = "active"
      BY <1>1, <1>4 DEF LinkInv
    <3>3. SUFFICES ASSUME alive
                   PROVE  \/ \E n \in LinkNotes :
                               /\ LinkOf(n) = media
                               /\ \/ LastNote(pending, n)
                                  \/ NoNote(pending) /\ LastNote(done', n)
                          \/ /\ NoNote(pending) /\ NoNote(done') /\ link' = media
                             /\ pc["start"] = "idle" /\ running
      BY <1>1, <2>1, <3>1, <3>2 DEF LinkInv
    <3>4. PICK n \in LinkNotes : /\ LinkOf(n) = media
                                 /\ LastNote(pending, n) \/ (NoNote(pending) /\ LastNote(done, n))
      BY <1>6, <2>1, <3>3 DEF LinkInv
    <3>5. CASE LastNote(pending, n)
      BY <3>4, <3>5
    <3>6. CASE NoNote(pending) /\ LastNote(done, n)
      <4>1. LastNote(done', n) \/ (c = n /\ NoNote(done'))
        BY <1>0, <1>1, <3>6, NoteTaken
      <4>2. CASE LastNote(done', n)
        BY <3>4, <3>6, <4>2
      <4>3. CASE c = n /\ NoNote(done')
        <5>1. handled
          BY <1>1, <2>3, <3>6, <4>3
        <5>2. running /\ link' = LinkOf(n) /\ pc["start"] = "idle"
          BY <1>1, <1>4, <4>3, <5>1 DEF TeardownInv
        <5> QED BY <3>4, <3>6, <4>3, <5>2
      <4> QED BY <4>1, <4>2, <4>3
    <3> QED BY <3>4, <3>5, <3>6
  <2> QED BY <2>2, <2>3
<1> QED BY <1>5, <1>6

LEMMA LinkDevice ==
  ASSUME TypeInv, TeardownInv, LinkInv, Environment
  PROVE  LinkInv'
<1>0. /\ pending \in Seq(Completions) /\ done \in Seq(Completions)
      /\ "connect" \in LinkNotes
  BY QueuesOfNotes DEF LinkNotes
<1>1. UNCHANGED <<pc, running, link, held>> /\ (alive' => alive' = alive)
  BY Zenon DEF Environment, DeviceAnswers, DeviceNotifies, ReadCompletes, Unplug, ivarVars, devVars
<1>2. CASE Unplug
  <2>1. alive' = FALSE /\ pending' = <<>> /\ UNCHANGED <<done, media>>
    BY <1>2, Zenon DEF Unplug
  <2>2. NoNote(<<>>)
    BY DEF NoNote
  <2> QED BY <1>1, <2>1, <2>2 DEF LinkInv
<1>3. CASE DeviceAnswers
  <2>1. done' = done /\ media' = media /\ (pending' = pending \/ pending' = Append(pending, "response"))
    BY <1>3, Zenon DEF DeviceAnswers
  <2>2. CASE pending' = pending
    BY <1>1, <2>1, <2>2 DEF LinkInv
  <2>3. CASE pending' = Append(pending, "response")
    <3>1. "response" \in Completions /\ "response" \notin LinkNotes
      BY DEF Completions, Notes, LinkNotes
    <3>2. /\ NoNote(pending) => NoNote(pending')
          /\ \A n \in LinkNotes : LastNote(pending, n) => LastNote(pending', n)
      BY <1>0, <2>3, <3>1, NoteAppended
    <3> QED BY <1>1, <2>1, <3>2 DEF LinkInv
  <2> QED BY <2>1, <2>2, <2>3
<1>4. CASE DeviceNotifies
  <2>1. PICK n \in LinkNotes : pending' = Append(pending, n) /\ media' = LinkOf(n)
    BY <1>4, Zenon DEF DeviceNotifies
  <2>2. LastNote(pending', n)
    <3>1. n \in Completions
      BY DEF Completions, Notes
    <3> QED BY <1>0, <2>1, <3>1, NoteAppended
  <2>3. media' # "unknown"
    BY <2>1 DEF LinkOf
  <2>4. running' /\ "int" \notin held' => link' = "active"
    BY <1>1 DEF LinkInv
  <2> QED BY <2>1, <2>2, <2>3, <2>4 DEF LinkInv
<1>5. CASE ReadCompletes
  <2>1. media' = media /\ alive' = alive
    BY <1>5, Zenon DEF ReadCompletes, devVars
  <2>2. CASE pending # <<>> /\ pending' = Tail(pending) /\ done' = Append(done, Head(pending))
    <3>1. Head(pending) \in Completions
      BY <1>0, <2>2, SMT
    <3>2. running' /\ (media' = "unknown" \/ "int" \notin held') => link' = "active"
      BY <1>1, <2>1 DEF LinkInv
    <3>3. CASE NoNote(pending)
      <4>1. Head(pending) \notin LinkNotes /\ NoNote(pending')
        BY <1>0, <2>2, <3>3, NoteTaken
      <4>2. /\ NoNote(done) => NoNote(done')
            /\ \A n \in LinkNotes : LastNote(done, n) => LastNote(done', n)
        BY <1>0, <2>2, <3>1, <4>1, NoteAppended
      <4>3. \A n \in LinkNotes : ~LastNote(pending, n)
        BY <3>3 DEF NoNote, LastNote
      <4> QED BY <1>1, <2>1, <3>3, <4>1, <4>2, <4>3 DEF LinkInv
    <3>4. CASE ~NoNote(pending)
      <4>1. media # "unknown"
        BY <3>4 DEF LinkInv
      <4>2. SUFFICES ASSUME alive
                     PROVE  \E n \in LinkNotes :
                              /\ LinkOf(n) = media
                              /\ LastNote(pending', n) \/ (NoNote(pending') /\ LastNote(done', n))
        BY <2>1, <3>2, <4>1 DEF LinkInv
      <4>3. PICK n \in LinkNotes : LinkOf(n) = media /\ LastNote(pending, n)
        BY <3>4, <4>1, <4>2 DEF LinkInv
      <4>4. LastNote(pending', n) \/ (Head(pending) = n /\ NoNote(pending'))
        BY <1>0, <2>2, <4>3, NoteTaken
      <4>5. Head(pending) = n => LastNote(done', n)
        BY <1>0, <2>2, <3>1, NoteAppended
      <4> QED BY <4>3, <4>4, <4>5
    <3> QED BY <3>3, <3>4
  <2>3. CASE pending' = pending /\ \E c \in {"stalled", "gone"} : done' = Append(done, c)
    <3>1. PICK c \in {"stalled", "gone"} : done' = Append(done, c)
      BY <2>3
    <3>2. c \in Completions /\ c \notin LinkNotes
      BY DEF Completions, Notes, LinkNotes
    <3>3. /\ NoNote(done) => NoNote(done')
          /\ \A n \in LinkNotes : LastNote(done, n) => LastNote(done', n)
      BY <1>0, <3>1, <3>2, NoteAppended
    <3> QED BY <1>1, <2>1, <2>3, <3>3 DEF LinkInv
  <2> QED BY <1>5, <2>2, <2>3, Zenon DEF ReadCompletes
<1> QED BY <1>2, <1>3, <1>4, <1>5 DEF Environment

LEMMA LinkNext ==
  ASSUME TypeInv, TeardownInv, LinkInv, [Next]_vars
  PROVE  LinkInv'
<1>0. pc \in [Threads -> Labels] /\ Threads = {"start", "stop"}
  BY DEF TypeInv, ControlOK, Threads
<1>1. CASE StartEntry \/ StopEntry \/ StartSuperFails \/ UNCHANGED vars
  <2>1. UNCHANGED <<pending, done, media, alive, link, running, held>>
    BY <1>1, Zenon DEF StartEntry, StopEntry, StartSuperFails, vars, ivarVars, devVars, intVars
  <2>2. pc["start"] = "idle" /\ (running \/ pc["stop"] # "idle") =>
          pc'["start"] = "idle" /\ (running' \/ pc'["stop"] # "idle")
    <3>1. CASE StartEntry
      BY <1>0, <3>1 DEF StartEntry, TeardownInv, DownMeansReleased
    <3>2. CASE StopEntry
      BY <1>0, <3>2 DEF StopEntry
    <3>3. CASE StartSuperFails \/ UNCHANGED vars
      <4>1. pc' = pc
        BY <3>3, Zenon DEF StartSuperFails, vars
      <4> QED BY <2>1, <4>1
    <3> QED BY <1>1, <3>1, <3>2, <3>3
  <2> QED BY <2>1, <2>2 DEF LinkInv
<1>2. ASSUME NEW t \in Threads, StepOf(t) PROVE LinkInv'
  BY <1>2, LinkHandler
<1>3. "start" \in Threads
  BY DEF Threads
<1> QED BY <1>1, <1>2, <1>3, LinkInterrupt, LinkDevice, Zenon DEF Next, StepOf

\* When the framework does not dispatch Stop while Start sleeps, a running driver
\* shows the link of the last announcement that it dispatched while running, and
\* the active link that Start reported as long as there is none.  An announcement
\* dispatched before Start set running is not shown, whatever it said.
THEOREM LinkShownIsAnnounced ==
  ASSUME StopOverlapsStart = FALSE
  PROVE  Spec => []LinkIsAnnounced
<1>1. Init => TeardownInv /\ LinkInv
  BY DEF Init, TeardownInv, DownMeansReleased, Threads, LinkInv, NoNote
<1>2. TypeInv /\ TeardownInv /\ [Next]_vars => TeardownInv'
  BY TeardownNext
<1>3. TypeInv /\ TeardownInv /\ LinkInv /\ [Next]_vars => LinkInv'
  BY LinkNext
<1>4. TypeInv /\ LinkInv => LinkIsAnnounced
  <2> SUFFICES ASSUME TypeInv, LinkInv, running, alive, ~LinkNoteIn(pending \o done)
               PROVE  link = IF media = "unknown" THEN "active" ELSE media
    BY DEF LinkIsAnnounced
  <2>1. NoNote(pending) /\ NoNote(done)
    BY QueuesOfNotes, NotesIn
  <2>2. \A n \in LinkNotes : ~LastNote(pending, n) /\ ~LastNote(done, n)
    BY <2>1 DEF NoNote, LastNote
  <2> QED BY <2>2 DEF LinkInv
<1> QED BY <1>1, <1>2, <1>3, <1>4, TypeInvariant, PTL DEF Spec

----------------------------------------------------------------------------
(***************************************************************************)
(* An orderly teardown silences the device, when Stop does not overlap     *)
(* Start.                                                                  *)
(***************************************************************************)
\* The filter was cleared, and the handler has not released the pipes yet.
Silenced(t) ==
  pc[t] \in {"ret", "release"} /\ call[t].req = "filterOff" /\ call[t].ret = "ok"

\* A result of an earlier filter command is not left in the locals of a handler
\* that goes to release without sending one.
SilentInv ==
  /\ \A t \in Threads : pc[t] \notin CommandLabels \cup {"ret", "release", "crashed"} =>
       call[t].req # "filterOff"
  /\ \A t \in Threads : Silenced(t) => ~devFilter /\ DOMAIN inbox = {}

LEMMA SilentHandler ==
  ASSUME TypeInv, TeardownInv, QueueInv, XidInv, Recent, DeviceInv, SilentInv,
         NEW t \in Threads, StepOf(t)
  PROVE  SilentInv'
<1>0. pc \in [Threads -> Labels] /\ call \in [Threads -> Calls]
  BY DEF TypeInv, ControlOK
<1>1. HandlerStep(t)
  BY StartHandler, StopHandler, CommandHandler DEF StepOf
<1>2. \A u \in Threads \ {t} : pc'[u] = pc[u] /\ call'[u] = call[u]
  BY <1>1 DEF HandlerStep
<1>3. UNCHANGED <<alive, devReady, devFilter>>
  BY DeviceUntouched
<1>4. CASE Command(t)
  <2>1. /\ pc[t] \in CommandLabels /\ pc'[t] \in CommandLabels \cup {"ret", "crashed"}
        /\ \A u \in Threads \ {t} : pc'[u] = "idle"
    BY <1>0, <1>4, CommandStep, Alone
  <2>2. ASSUME Silenced(t)' PROVE ~devFilter /\ DOMAIN inbox' = {}
    <3>1. pc'[t] = "ret" /\ call'[t].ret = "ok" /\ call'[t].req = "filterOff"
      BY <2>1, <2>2 DEF Silenced, CommandLabels
    <3>2. ~SendCommand(t)
      BY <3>1, SendEffect
    <3>3. GetAnswer(t)
      BY <1>4, <3>1, <3>2, QuietCommand DEF Quiet
    <3>4. inbox' = inbox
      BY <3>3, AnswerEffect
    <3> QED BY <3>1, <3>3, <3>4, AcceptedIsNewest DEF DeviceInv, AnswersTrue
  <2> QED BY <1>2, <1>3, <2>1, <2>2 DEF SilentInv, Silenced
<1>5. CASE ~Command(t)
  <2>0. Quiet(t)
    BY <1>5, QuietStart, QuietStop DEF StepOf
  <2>1. UNCHANGED <<inbox, serial>>
    BY <2>0 DEF Quiet
  <2>2. CASE StopFilter(t)
    <3>1. pc[t] = "stop" /\ ((pc'[t] = "send") \/ (pc'[t] = "release" /\ call' = call))
      BY <1>0, <2>2 DEF StopFilter, Issue, Goto, At
    <3>2. ~Silenced(t)'
      BY <3>1 DEF SilentInv, Silenced, CommandLabels
    <3> QED BY <1>2, <1>3, <2>1, <3>1, <3>2 DEF SilentInv, Silenced, CommandLabels
  <2>3. CASE AfterFilterOff(t)
    <3>1. pc[t] = "ret" /\ pc'[t] = "release" /\ call' = call
      BY <1>0, <2>3 DEF AfterFilterOff, Returned, Goto, At
    <3> QED BY <1>2, <1>3, <2>1, <3>1 DEF SilentInv, Silenced
  <2>4. CASE Release(t)
    <3>1. pc'[t] = "idle" /\ call'[t].req = "init"
      BY <1>0, <2>4 DEF Release, Finish, NoCall
    <3> QED BY <1>2, <1>3, <2>1, <3>1 DEF SilentInv, Silenced
  <2>5. CASE t = "start" /\ StartSteps
    <3>1. pc'["start"] \notin {"ret", "release"}
      BY <1>0, <2>5 DEF StartSteps, OpenCommInterface, OpenDataInterface,
         AllocateTransferResources, Acquire, OpenInterruptPipe, CreateCmdBuf, AfterInit,
         AfterPermanentAddress, AfterCurrentAddress, SetupNetworkInterface, StartCompletes,
         StartFailsLate, Issue, Goto, Finish
    <3>2. pc["start"] # "ret" => call["start"].req # "filterOff"
      BY <2>5 DEF StartSteps, OpenCommInterface, OpenDataInterface,
         AllocateTransferResources, OpenInterruptPipe, CreateCmdBuf, AfterInit,
         AfterPermanentAddress, AfterCurrentAddress, SetupNetworkInterface, StartCompletes,
         StartFailsLate, Returned, At, SilentInv, CommandLabels
    <3>3. pc["start"] = "ret" => call["start"].req # "filterOff"
      BY <2>5 DEF StartSteps, OpenCommInterface, OpenDataInterface,
         AllocateTransferResources, OpenInterruptPipe, CreateCmdBuf, AfterInit,
         AfterPermanentAddress, AfterCurrentAddress, SetupNetworkInterface, StartCompletes,
         StartFailsLate, Returned, At
    <3>4. call' = call \/ call'["start"].req = "init" \/ pc'["start"] = "send"
      BY <1>0, <2>5 DEF StartSteps, OpenCommInterface, OpenDataInterface,
         AllocateTransferResources, Acquire, OpenInterruptPipe, CreateCmdBuf, AfterInit,
         AfterPermanentAddress, AfterCurrentAddress, SetupNetworkInterface, StartCompletes,
         StartFailsLate, Issue, Goto, Finish, NoCall
    <3> QED BY <1>2, <1>3, <2>1, <2>5, <3>1, <3>2, <3>3, <3>4
            DEF SilentInv, Silenced, CommandLabels
  <2> QED BY <1>5, <2>2, <2>3, <2>4, <2>5 DEF StepOf, StopSteps
<1> QED BY <1>4, <1>5

LEMMA SilentNext ==
  ASSUME TypeInv, TeardownInv, QueueInv, XidInv, Recent, DeviceInv, SilentInv, [Next]_vars
  PROVE  SilentInv'
<1>0. pc \in [Threads -> Labels] /\ Threads = {"start", "stop"} /\ inbox \in Seq(Messages)
  BY DEF TypeInv, ControlOK, DataOK, Threads
<1>1. CASE \/ StartSuperFails \/ StartEntry \/ StopEntry \/ InterruptReadComplete \/ Environment
           \/ UNCHANGED vars
  <2>1. UNCHANGED <<call, serial>>
    BY <1>1, Zenon DEF StartSuperFails, StartEntry, StopEntry, InterruptReadComplete, Environment,
       DeviceAnswers, DeviceNotifies, ReadCompletes, Unplug, vars, ivarVars
  <2>2. \A u \in Threads :
          pc'[u] = pc[u] \/ (pc[u] = "idle" /\ pc'[u] \notin {"ret", "release"})
    <3>1. CASE StartEntry \/ StopEntry
      BY <1>0, <3>1 DEF StartEntry, StopEntry
    <3>2. CASE ~(StartEntry \/ StopEntry)
      <4>1. pc' = pc
        BY <1>1, <3>2, Zenon DEF StartSuperFails, InterruptReadComplete, Environment,
           DeviceAnswers, DeviceNotifies, ReadCompletes, Unplug, vars
      <4> QED BY <4>1
    <3> QED BY <3>1, <3>2
  <2>3. DOMAIN inbox = {} /\ ~devFilter => DOMAIN inbox' = {} /\ ~devFilter'
    <3>1. CASE DeviceAnswers
      <4>1. inbox # <<>>
        BY <3>1, Zenon DEF DeviceAnswers
      <4>2. Len(inbox) \in Nat /\ Len(inbox) # 0
        BY <1>0, <4>1, LenProperties
      <4>3. 1 \in DOMAIN inbox
        BY <1>0, <4>2, LenProperties
      <4> QED BY <4>3
    <3>2. CASE Unplug
      BY <3>2, SMT DEF Unplug
    <3>3. CASE ~DeviceAnswers /\ ~Unplug
      <4>1. UNCHANGED <<inbox, devFilter>>
        BY <1>1, <3>3, Zenon DEF StartSuperFails, StartEntry, StopEntry, InterruptReadComplete,
           Environment, DeviceNotifies, ReadCompletes, vars, devVars
      <4> QED BY <4>1
    <3> QED BY <3>1, <3>2, <3>3
  <2>4. \A u \in Threads : Silenced(u)' => Silenced(u)
    BY <2>1, <2>2 DEF Silenced
  <2>5. \A u \in Threads : pc'[u] \notin CommandLabels \cup {"ret", "release", "crashed"} =>
          pc[u] \notin CommandLabels \cup {"ret", "release", "crashed"}
    BY <2>2 DEF CommandLabels
  <2> QED BY <2>1, <2>3, <2>4, <2>5 DEF SilentInv
<1>2. ASSUME NEW t \in Threads, StepOf(t) PROVE SilentInv'
  BY <1>2, SilentHandler
<1>3. "start" \in Threads
  BY DEF Threads
<1> QED BY <1>1, <1>2, <1>3, Zenon DEF Next, StepOf

\* In a behaviour in which no request or answer gets as old as 2^32 - 1 commands
\* and Stop is not dispatched while Start sleeps: when a teardown whose filter command was
\* answered with success releases the pipes, the device forwards no packets,
\* whatever answers to earlier filter commands came late.
THEOREM StopSilencesDevice ==
  ASSUME StopOverlapsStart = FALSE
  PROVE  Spec /\ []Recent => OrderlyStopSilencesDevice
<1> DEFINE Orderly ==
      \A t \in Threads : pc[t] = "release" /\ pc'[t] = "idle" /\ call[t].req = "filterOff"
                         /\ call[t].ret = "ok" => ~devFilter'
<1>1. Init => TeardownInv /\ DeviceInv /\ SilentInv
  <2>1. Init => DOMAIN inbox = {} /\ DOMAIN outbox = {}
    BY SMT DEF Init
  <2>2. Init => \A t \in Threads : pc[t] = "idle" /\ call[t].req = "init"
    BY DEF Init, NoCall
  <2> QED BY <2>1, <2>2 DEF Init, TeardownInv, DownMeansReleased, Threads, CommandLabels,
          DeviceInv, InOrder, WaitsForNewest, AnswersTrue, Waiting, OkTo, SilentInv, Silenced
<1>2. TypeInv /\ TeardownInv /\ [Next]_vars => TeardownInv'
  BY TeardownNext
<1>3. TypeInv /\ QueueInv /\ TeardownInv /\ XidInv /\ Recent /\ DeviceInv /\ [Next]_vars
        => DeviceInv'
  BY DeviceNext
<1>4. TypeInv /\ TeardownInv /\ QueueInv /\ XidInv /\ Recent /\ DeviceInv /\ SilentInv
        /\ [Next]_vars => SilentInv'
  BY SilentNext
<1>5. TypeInv /\ QueueInv /\ TeardownInv /\ SilentInv /\ [Next]_vars => [Orderly]_vars
  <2> SUFFICES ASSUME TypeInv, QueueInv, TeardownInv, SilentInv, [Next]_vars, ~UNCHANGED vars,
                      NEW t \in Threads, pc[t] = "release", pc'[t] = "idle",
                      call[t].req = "filterOff", call[t].ret = "ok"
               PROVE  ~devFilter'
    OBVIOUS
  <2>1. ~devFilter
    BY DEF SilentInv, Silenced
  <2>2. UNCHANGED devFilter \/ DeviceAnswers \/ Unplug
    <3>1. ASSUME NEW u \in Threads, StepOf(u) PROVE UNCHANGED devFilter
      BY <3>1, DeviceUntouched
    <3>2. StartSuperFails \/ StartEntry \/ StopEntry \/ InterruptReadComplete \/ DeviceNotifies
            \/ ReadCompletes => UNCHANGED devFilter
      BY Zenon DEF StartSuperFails, StartEntry, StopEntry, InterruptReadComplete, DeviceNotifies,
         ReadCompletes, devVars
    <3>3. "start" \in Threads
      BY DEF Threads
    <3> QED BY <3>1, <3>2, <3>3, Zenon DEF Next, StepOf, Environment
  <2>3. DeviceAnswers \/ Unplug => pc' = pc
    BY Zenon DEF DeviceAnswers, Unplug
  <2> QED BY <2>1, <2>2, <2>3
<1>6. [][Orderly]_vars => OrderlyStopSilencesDevice
  BY PTL DEF OrderlyStopSilencesDevice
<1> HIDE DEF Orderly
<1> QED BY <1>1, <1>2, <1>3, <1>4, <1>5, <1>6, TypeInvariant, HeldInvariant, XidInvariant, PTL
        DEF Spec

----------------------------------------------------------------------------
(***************************************************************************)
(* How a driver that listens can stop listening.                           *)
(***************************************************************************)
\* Before a command leaves, a read is out or is queued: intArmed is not set in vain.
LEMMA CommandListens ==
  ASSUME ArmMayFail = FALSE, TypeInv, ArmedInv, NEW t \in Threads, SendCommand(t),
         alive', "int" \in held'
  PROVE  Listening'
<1>1. EnsureArmed /\ UNCHANGED <<done, alive, held>>
  BY Zenon DEF SendCommand
<1>2. Len(done) \in Nat /\ reads \in Nat
  BY DoneLength
<1>3. CASE intArmed
  BY <1>1, <1>3 DEF ArmedInv, EnsureArmed, Listening
<1>4. CASE ~intArmed
  <2>1. reads' = reads + 1
    BY <1>1, <1>4 DEF EnsureArmed, ArmInterruptRead
  <2> QED BY <1>1, <1>2, <2>1 DEF Listening
<1> QED BY <1>3, <1>4

\* A step of a handler that leaves the pipe open takes no read away, and sends a
\* command only as SendCommand.
LEMMA ListenHandler ==
  ASSUME TypeInv, NEW t \in Threads, StepOf(t), "int" \in held'
  PROVE  /\ Listening => Listening'
         /\ serial' # serial => SendCommand(t)
<1>0. Len(done) \in Nat /\ reads \in Nat
  BY DoneLength
<1>1. ~Release(t)
  BY DEF Release
<1>2. done' = done /\ (EnsureArmed \/ ArmInterruptRead(intArmed) \/ reads' = reads)
  <2>1. Command(t) \/ StopFilter(t) \/ AfterFilterOff(t) => done' = done /\ (EnsureArmed \/ reads' = reads)
    BY CommandStep, StopStep
  <2>2. StartSteps => done' = done
    BY StartStep, Zenon DEF StartCompletes, intVars
  <2>3. StartSteps => ArmInterruptRead(intArmed) \/ reads' = reads
    BY Zenon DEF StartSteps, OpenCommInterface, OpenDataInterface, AllocateTransferResources,
       Acquire, OpenInterruptPipe, CreateCmdBuf, AfterInit, AfterPermanentAddress,
       AfterCurrentAddress, SetupNetworkInterface, StartCompletes, StartFailsLate, intVars
  <2> QED BY <1>1, <2>1, <2>2, <2>3 DEF StepOf, StopSteps
<1>3. reads' = reads \/ reads' = reads + 1
  BY <1>2 DEF EnsureArmed, ArmInterruptRead
<1>4. Listening => Listening'
  BY <1>0, <1>2, <1>3 DEF Listening
<1>5. CASE StartSteps
  <2>1. serial' = serial
    BY <1>5, Zenon DEF StartSteps, OpenCommInterface, OpenDataInterface,
       AllocateTransferResources, Acquire, OpenInterruptPipe, CreateCmdBuf, AfterInit,
       AfterPermanentAddress, AfterCurrentAddress, SetupNetworkInterface, StartCompletes,
       StartFailsLate
  <2> QED BY <1>4, <2>1
<1>6. CASE (Command(t) /\ ~SendCommand(t)) \/ StopFilter(t) \/ AfterFilterOff(t)
  <2>1. serial' = serial
    BY <1>6, Zenon DEF Command, CommandDereferencesNull, CommandRefused, WaitOver, WaitTick,
       WakeTick, WakeRetry, PollsExhausted, GetDereferencesNull, GetFails, GetStub, GetAnswer,
       StopFilter, AfterFilterOff
  <2> QED BY <1>4, <2>1
<1> QED BY <1>1, <1>4, <1>5, <1>6, Zenon DEF StepOf, StopSteps, Command

\* When AsyncIO accepts every read of a device that is there, a driver with an
\* interrupt pipe stops listening on it only at a completion that it dispatches
\* before running is set or after it is cleared, or that reports the device gone;
\* and a command, which makes it listen again, never leaves with no read to hear
\* of its answer.  In every session, whether or not Stop overlaps Start.
THEOREM ListenerKeepsListening ==
  ASSUME ArmMayFail = FALSE
  PROVE  Spec => KeepsListening
<1> DEFINE Keeps == alive' /\ "int" \in held' =>
                      /\ Listening => Listening' \/ DroppedUnread
                      /\ serial' # serial => Listening'
<1>1. TypeInv /\ ArmedInv /\ [Next]_vars => [Keeps]_vars
  <2> SUFFICES ASSUME TypeInv, ArmedInv, [Next]_vars, alive', "int" \in held'
               PROVE  /\ Listening => Listening' \/ DroppedUnread
                      /\ serial' # serial => Listening'
    OBVIOUS
  <2>0. reads \in Nat /\ Len(done) \in Nat
    BY DoneLength
  <2>1. CASE InterruptReadComplete
    <3>1. serial' = serial /\ held' = held /\ alive' = alive /\ done' = Tail(done) /\ done # <<>>
      BY <2>1, ReadDispatched, Zenon DEF InterruptReadComplete, devVars
    <3>2. CASE Ignored(Head(done))
      BY <3>1, <3>2, Zenon DEF Ignored, DroppedUnread
    <3>3. CASE ~Ignored(Head(done))
      <4>1. reads' = reads + 1
        BY <2>1, <3>1, <3>3, ReadDispatched DEF ArmInterruptRead
      <4>2. Len(done') \in Nat
        BY <2>0, <2>1, ReadDispatched
      <4> QED BY <2>0, <3>1, <4>1, <4>2 DEF Listening
    <3> QED BY <3>2, <3>3
  <2>2. CASE ReadCompletes
    BY <2>0, <2>2, ReadPosted DEF Listening
  <2>3. ASSUME NEW t \in Threads, StepOf(t)
        PROVE  (Listening => Listening') /\ (serial' # serial => Listening')
    BY <2>3, ListenHandler, CommandListens
  <2>4. CASE \/ StartSuperFails \/ StartEntry \/ StopEntry \/ DeviceAnswers \/ DeviceNotifies
             \/ Unplug \/ UNCHANGED vars
    <3>1. UNCHANGED <<reads, done, serial>>
      BY <2>4, Zenon DEF StartSuperFails, StartEntry, StopEntry, DeviceAnswers, DeviceNotifies,
         Unplug, vars, intVars
    <3> QED BY <3>1 DEF Listening
  <2>5. "start" \in Threads
    BY DEF Threads
  <2> QED BY <2>1, <2>2, <2>3, <2>4, <2>5, Zenon DEF Next, StepOf, Environment
<1>2. [][Keeps]_vars => KeepsListening
  BY PTL DEF KeepsListening
<1> HIDE DEF Keeps
<1> QED BY <1>1, <1>2, ArmedInvariant, TypeInvariant, PTL DEF Spec

----------------------------------------------------------------------------
(***************************************************************************)
(* A handler never goes back: the safety part of its return.               *)
(***************************************************************************)
\* No poll is counted before the first one, and none after the last.
BudgetInv ==
  \A t \in Threads :
    /\ pc[t] \in {"send", "wait", "tick"} => call[t].tries = 0
    /\ pc[t] \in {"get", "retry"} => call[t].tries <= call[t].limit /\ call[t].limit <= MostPolls

Stays(t) == pc'[t] = pc[t] /\ call'[t] = call[t]

Advances(t) ==
  \/ StagesLeft(t)' < StagesLeft(t)
  \/ StagesLeft(t)' = StagesLeft(t) /\ BudgetLeft(t)' < BudgetLeft(t)

\* Stages and budgets are natural numbers, so a handler takes a bounded number
\* of steps.
Bounded(t) ==
  /\ StagesLeft(t) \in 0 .. 13
  /\ BudgetLeft(t) \in 0 .. 2 * WaitMaxTicks + 2 * MostPolls + 6

LEMMA WorkIsBounded ==
  ASSUME TypeInv, BudgetInv, NEW t \in Threads
  PROVE  Bounded(t)
<1>1. StagesLeft(t) \in 0 .. 13
  BY DEF StagesLeft
<1>2. /\ call[t].ticks \in 0 .. WaitMaxTicks /\ call[t].tries \in Nat /\ call[t].limit \in Nat
      /\ WaitMaxTicks \in Nat /\ MostPolls \in Nat
  BY CallFields, ConstantFacts DEF TypeInv, ControlOK, MostPolls
<1>3. TicksAhead(t) \in 0 .. WaitMaxTicks
  BY <1>2 DEF TicksAhead
<1>4. pc[t] \in {"get", "retry"} => PollsAhead(t) \in 0 .. MostPolls
  BY <1>2 DEF BudgetInv, PollsAhead
<1> QED BY <1>1, <1>2, <1>3, <1>4 DEF BudgetLeft, Bounded

\* A step of rndisCommand, and what it leaves of its budget.
LEMMA CommandAdvances ==
  ASSUME TypeInv, BudgetInv, NEW t \in Threads, Command(t)
  PROVE  /\ Advances(t)
         /\ pc'[t] \in {"send", "wait", "tick"} => call'[t].tries = 0
         /\ pc'[t] \in {"get", "retry"} =>
              call'[t].tries <= call'[t].limit /\ call'[t].limit <= MostPolls
<1>0. /\ pc \in [Threads -> Labels] /\ call \in [Threads -> Calls] /\ call[t] \in Calls
      /\ WaitMaxTicks \in Nat /\ MaxAttempts \in Nat /\ PostNotifyAttempts \in Nat
      /\ MostPolls = MaxAttempts + PostNotifyAttempts /\ MostPolls \in Nat
  BY ConstantFacts DEF TypeInv, ControlOK, MostPolls
<1>1. /\ call[t].ticks \in 0 .. WaitMaxTicks /\ call[t].tries \in Nat /\ call[t].limit \in Nat
      /\ pc[t] = "tick" => call[t].ticks < WaitMaxTicks
  BY <1>0, CallFields DEF TypeInv, ControlOK, TicksLeft
<1>2. StagesLeft(t)' = StagesLeft(t)
  <2>1. pc[t] \in CommandLabels /\ pc'[t] \in CommandLabels \cup {"ret", "crashed"}
    BY <1>0, CommandStep
  <2>2. StageOf(t)' = StageOf(t)
    BY <2>1, RequestKept DEF StageOf, InCommand, CommandLabels, Sleeping
  <2> QED BY <2>2 DEF StagesLeft
<1> USE <1>0, <1>1, <1>2 DEF Advances, BudgetLeft, BudgetInv, TicksAhead, PollsAhead
<1>3. CASE pc'[t] \in {"ret", "crashed"}
  <2>1. pc[t] \in CommandLabels
    BY CommandStep
  <2> QED BY <1>3, <2>1 DEF CommandLabels
<1>4. CASE SendCommand(t) /\ pc'[t] \notin {"ret", "crashed"}
  <2> DEFINE lim == IF "int" \in held THEN 0 ELSE MaxAttempts
             begun == [call[t] EXCEPT !.xid = AssignXid(rndisXid).xid, !.serial = serial + 1,
                                      !.limit = lim]
  <2>1. /\ pc[t] = "send" /\ pc'[t] = (IF "int" \in held THEN "wait" ELSE "get")
        /\ call'[t] = begun
    BY <1>4 DEF SendCommand, At, Goto
  <2>2. begun.tries = call[t].tries /\ begun.ticks = call[t].ticks /\ begun.limit = lim
    BY DEF Calls
  <2> HIDE DEF begun
  <2> QED BY <2>1, <2>2
<1>5. CASE WaitOver(t)
  <2>1. /\ pc[t] = "wait" /\ pc'[t] = "get" /\ call'[t].tries = call[t].tries
        /\ call'[t].limit \in {MaxAttempts, PostNotifyAttempts}
    BY <1>5 DEF WaitOver, At, Goto, Calls
  <2> QED BY <2>1
<1>6. CASE WaitTick(t) \/ WakeRetry(t)
  BY <1>6 DEF WaitTick, WakeRetry, At, Sleep, Wake
<1>7. CASE WakeTick(t) /\ pc'[t] \notin {"ret", "crashed"}
  <2>1. /\ pc[t] = "tick" /\ pc'[t] = "wait"
        /\ call'[t].ticks = call[t].ticks + 1 /\ call'[t].tries = call[t].tries
    BY <1>7 DEF WakeTick, Wake, Calls
  <2> QED BY <2>1
<1>8. CASE (GetStub(t) \/ GetAnswer(t)) /\ pc'[t] \notin {"ret", "crashed"}
  <2>1. Retry(t) /\ Polling(t)
    BY <1>8 DEF GetStub, GetAnswer, Return, Goto
  <2>2. /\ pc[t] = "get" /\ pc'[t] = "retry" /\ call[t].tries < call[t].limit
        /\ call'[t].tries = call[t].tries + 1 /\ call'[t].limit = call[t].limit
    BY <2>1 DEF Retry, Polling, At, Sleep, Calls
  <2> QED BY <2>2
<1>9. CASE \/ CommandRefused(t) \/ PollsExhausted(t) \/ GetFails(t)
           \/ CommandDereferencesNull(t) \/ GetDereferencesNull(t)
  <2>1. pc'[t] \in {"ret", "crashed"}
    BY <1>9 DEF CommandRefused, PollsExhausted, GetFails, CommandDereferencesNull,
       GetDereferencesNull, Return, Goto
  <2> QED BY <1>3, <2>1
<1> QED BY <1>3, <1>4, <1>5, <1>6, <1>7, <1>8, <1>9 DEF Command

LEMMA StopAdvances ==
  ASSUME TypeInv, NEW t \in Threads, StopSteps(t)
  PROVE  Advances(t) /\ pc'[t] \in {"send", "release", "idle"}
         /\ (pc'[t] = "send" => call'[t].tries = 0)
<1>0. pc \in [Threads -> Labels] /\ call \in [Threads -> Calls]
  BY DEF TypeInv, ControlOK
<1> USE <1>0 DEF Advances, StagesLeft, StageOf, InCommand, Sleeping
<1>1. CASE StopFilter(t)
  <2>1. pc[t] = "stop"
    BY <1>1 DEF StopFilter, At
  <2>2. \/ pc'[t] = "release"
        \/ pc'[t] = "send" /\ call'[t].req = "filterOff" /\ call'[t].tries = 0
    BY <1>1 DEF StopFilter, Issue, Goto, NoCall
  <2> QED BY <2>1, <2>2
<1>2. CASE AfterFilterOff(t)
  <2>1. pc[t] = "ret" /\ call[t].req = "filterOff" /\ pc'[t] = "release"
    BY <1>2 DEF AfterFilterOff, Returned, At, Goto
  <2> QED BY <2>1
<1>3. CASE Release(t)
  <2>1. pc[t] = "release" /\ pc'[t] = "idle"
    BY <1>3 DEF Release, At, Finish
  <2> QED BY <2>1
<1> QED BY <1>1, <1>2, <1>3 DEF StopSteps

LEMMA StartAdvances ==
  ASSUME TypeInv, StartSteps
  PROVE  Advances("start") /\ pc'["start"] \notin {"wait", "tick", "get", "retry"}
         /\ (pc'["start"] = "send" => call'["start"].tries = 0)
<1>0. /\ "start" \in Threads /\ pc \in [Threads -> Labels] /\ call \in [Threads -> Calls]
  BY DEF TypeInv, ControlOK, Threads
<1> DEFINE l == pc["start"]
           r == call["start"].req
           k == pc'["start"]
           s == call'["start"].req
<1>1. k = "send" => call'["start"].tries = 0
  <2>1. \/ \E q : Issue("start", q)
        \/ \E q \in Labels \ {"send"} : pc' = [pc EXCEPT !["start"] = q]
    BY DEF StartSteps, OpenCommInterface, OpenDataInterface, AllocateTransferResources, Acquire,
       OpenInterruptPipe, CreateCmdBuf, AfterInit, AfterPermanentAddress, AfterCurrentAddress,
       SetupNetworkInterface, StartCompletes, StartFailsLate, Issue, Goto, Finish, Labels
  <2> QED BY <1>0, <2>1 DEF Issue, NoCall
<1>2. \/ l = "openComm" /\ k \in {"openData", "stop"}
      \/ l = "openData" /\ k \in {"openInt", "stop"}
      \/ l = "openInt" /\ k = "cmdBuf"
      \/ l = "cmdBuf" /\ (k = "stop" \/ (k = "send" /\ s = "init"))
      \/ l = "ret" /\ r = "init" /\ (k = "stop" \/ (k = "send" /\ s = "permanent"))
      \/ l = "ret" /\ r = "permanent" /\ (k = "alloc" \/ (k = "send" /\ s = "current"))
      \/ l = "ret" /\ r = "current" /\ k \in {"alloc", "stop"}
      \/ l = "alloc" /\ k \in {"setup", "stop"}
      \/ l = "setup" /\ (k = "stop" \/ (k = "send" /\ s = "filterOn"))
      \/ l = "ret" /\ r = "filterOn" /\ k \in {"idle", "stop"}
  <2>1. CASE OpenCommInterface \/ OpenDataInterface \/ AllocateTransferResources
    BY <1>0, <2>1 DEF OpenCommInterface, OpenDataInterface, AllocateTransferResources, Acquire, At,
       Goto
  <2>2. CASE OpenInterruptPipe \/ CreateCmdBuf
    BY <1>0, <2>2 DEF OpenInterruptPipe, CreateCmdBuf, Issue, Goto, At, NoCall
  <2>3. CASE AfterInit \/ AfterPermanentAddress \/ AfterCurrentAddress
    BY <1>0, <2>3 DEF AfterInit, AfterPermanentAddress, AfterCurrentAddress, Issue, Goto, At,
       Returned, NoCall
  <2>4. CASE SetupNetworkInterface \/ StartCompletes \/ StartFailsLate
    BY <1>0, <2>4 DEF SetupNetworkInterface, StartCompletes, StartFailsLate, Issue, Goto, Finish,
       At, Returned, NoCall
  <2> QED BY <2>1, <2>2, <2>3, <2>4 DEF StartSteps
<1>3. StagesLeft("start")' < StagesLeft("start")
  BY <1>2 DEF StagesLeft, StageOf, InCommand, Sleeping
<1>4. k \notin {"wait", "tick", "get", "retry"}
  BY <1>2
<1> QED BY <1>1, <1>3, <1>4 DEF Advances

\* The handler that moves advances, the other stays; and nothing but a handler
\* moves one that is under way.
LEMMA OwnStep ==
  ASSUME TypeInv, BudgetInv, NEW t \in Threads, StepOf(t)
  PROVE  BudgetInv' /\ Advances(t) /\ \A u \in Threads \ {t} : Stays(u)
<1>1. \A u \in Threads \ {t} : Stays(u)
  BY StartHandler, StopHandler, CommandHandler DEF StepOf, HandlerStep, Stays
<1>2. /\ Advances(t)
      /\ pc'[t] \in {"send", "wait", "tick"} => call'[t].tries = 0
      /\ pc'[t] \in {"get", "retry"} =>
           call'[t].tries <= call'[t].limit /\ call'[t].limit <= MostPolls
  <2>1. CASE Command(t)
    BY <2>1, CommandAdvances
  <2>2. CASE StopSteps(t)
    BY <2>2, StopAdvances
  <2>3. CASE t = "start" /\ StartSteps
    BY <2>3, StartAdvances
  <2> QED BY <2>1, <2>2, <2>3 DEF StepOf
<1> QED BY <1>1, <1>2 DEF BudgetInv, Stays

LEMMA OtherStep ==
  ASSUME TypeInv, BudgetInv,
         \/ StartSuperFails \/ StartEntry \/ StopEntry \/ InterruptReadComplete \/ Environment
         \/ UNCHANGED vars
  PROVE  BudgetInv' /\ \A t \in Threads : pc[t] # "idle" => Stays(t)
<1>0. pc \in [Threads -> Labels] /\ Threads = {"start", "stop"}
  BY DEF TypeInv, ControlOK, Threads
<1>1. call' = call
  BY Zenon DEF StartSuperFails, StartEntry, StopEntry, InterruptReadComplete, Environment,
     DeviceAnswers, DeviceNotifies, ReadCompletes, Unplug, vars
<1>2. \A u \in Threads : pc'[u] = pc[u] \/ (pc[u] = "idle" /\ pc'[u] \in {"openComm", "stop"})
  <2>1. CASE StartEntry \/ StopEntry
    BY <1>0, <2>1 DEF StartEntry, StopEntry
  <2>2. CASE ~(StartEntry \/ StopEntry)
    <3>1. pc' = pc
      BY <2>2, Zenon DEF StartSuperFails, InterruptReadComplete, Environment, DeviceAnswers,
         DeviceNotifies, ReadCompletes, Unplug, vars
    <3> QED BY <3>1
  <2> QED BY <2>1, <2>2
<1> QED BY <1>1, <1>2 DEF BudgetInv, Stays

\* A handler under way never goes back, and never has more left than its stages
\* and its budget: Start and Stop return within a number of their own steps that
\* depends on the retry constants only, whatever the device answers and however
\* Start and Stop are interleaved.
THEOREM HandlersNeverGoBack ==
  Spec => NeverGoesBack /\ [](\A t \in Threads : Bounded(t))
<1> DEFINE Onward ==
      \A t \in Threads : pc[t] # "idle" =>
        \/ pc'[t] = pc[t] /\ call'[t] = call[t]
        \/ StagesLeft(t)' < StagesLeft(t)
        \/ StagesLeft(t)' = StagesLeft(t) /\ BudgetLeft(t)' < BudgetLeft(t)
<1>1. Init => BudgetInv
  BY DEF Init, BudgetInv
<1>2. TypeInv /\ BudgetInv /\ [Next]_vars => BudgetInv' /\ Onward
  <2> SUFFICES ASSUME TypeInv, BudgetInv, [Next]_vars PROVE BudgetInv' /\ Onward
    OBVIOUS
  <2>1. ASSUME NEW t \in Threads, StepOf(t) PROVE BudgetInv' /\ Onward
    BY <2>1, OwnStep DEF Advances, Stays
  <2>2. CASE \/ StartSuperFails \/ StartEntry \/ StopEntry \/ InterruptReadComplete
             \/ Environment \/ UNCHANGED vars
    BY <2>2, OtherStep DEF Stays
  <2>3. "start" \in Threads
    BY DEF Threads
  <2> QED BY <2>1, <2>2, <2>3, Zenon DEF Next, StepOf
<1>3. [][Onward]_vars => NeverGoesBack
  BY PTL DEF NeverGoesBack
<1>4. TypeInv /\ BudgetInv => \A t \in Threads : Bounded(t)
  BY WorkIsBounded
<1> HIDE DEF Onward
<1> QED BY <1>1, <1>2, <1>3, <1>4, TypeInvariant, PTL DEF Spec

=============================================================================
