----------------------- MODULE DriverLifecycleProofs -----------------------
(***************************************************************************)
(* Theorems about Start, Stop, the RNDIS commands and the interrupt pipe,  *)
(* for any number of ticks, polls, request ids and sessions: type          *)
(* correctness, that two interrupt reads never share a buffer, and that a  *)
(* stopped driver holds nothing.                                           *)
(***************************************************************************)
EXTENDS DriverLifecycle, SequenceTheorems, TLAPS

\* A handler that sleeps in the wait loop has a tick left to count.
TicksLeft == \A t \in Threads : pc[t] = "tick" => call[t].ticks < WaitMaxTicks

\* The variables that the handlers' control flow does not touch.
DataOK ==
  /\ attached \in BOOLEAN /\ starts \in Nat
  /\ held \in SUBSET Resources
  /\ running \in BOOLEAN /\ rndisInitDone \in BOOLEAN
  /\ intArmed \in BOOLEAN /\ responseAvailable \in BOOLEAN
  /\ rndisXid \in 0 .. XidMod - 1
  /\ cmdBuf \in Messages \cup {NoMessage}
  /\ link \in {"none", "invalid", "active", "inactive"}
  /\ serial \in Nat
  /\ alive \in BOOLEAN /\ devReady \in BOOLEAN /\ devFilter \in BOOLEAN
  /\ inbox \in Seq(Messages) /\ outbox \in Seq(Messages)
  /\ pending \in Seq(Notes) /\ notes \in Nat
  /\ reads \in Nat /\ done \in Seq(Completions)
  /\ media \in {"unknown", "active", "inactive"}

ControlOK ==
  /\ queue \in Threads \cup {"free"}
  /\ pc \in [Threads -> Labels] /\ call \in [Threads -> Calls] /\ TicksLeft

TypeInv == DataOK /\ ControlOK

----------------------------------------------------------------------------
(***************************************************************************)
(* Types of what the helpers assign.                                       *)
(***************************************************************************)
LEMMA EmptySequences ==
  <<>> \in Seq(Messages) /\ <<>> \in Seq(Notes) /\ <<>> \in Seq(Completions)
BY EmptySeq

LEMMA CallFields ==
  ASSUME NEW c \in Calls
  PROVE  /\ c.req \in Requests /\ c.xid \in 0 .. XidMod - 1 /\ c.serial \in Nat
         /\ c.ticks \in 0 .. WaitMaxTicks /\ c.tries \in Nat /\ c.limit \in Nat
         /\ c.ret \in {"pending", "ok", "short", "error"}
BY DEF Calls

LEMMA ConstantFacts ==
  /\ WaitMaxTicks \in Nat /\ MaxAttempts \in Nat /\ PostNotifyAttempts \in Nat
  /\ XidMod \in Nat /\ XidMod > 2 /\ 0 \in 0 .. XidMod - 1 /\ 0 \in 0 .. WaitMaxTicks
BY BoundsAssumption, XidAssumption, SMT

LEMMA NoCallType == NoCall \in Calls
BY ConstantFacts DEF NoCall, Calls, Requests

LEMMA IssueType ==
  ASSUME TypeInv, NEW t \in Threads, NEW r \in Requests, Issue(t, r)
  PROVE  /\ pc' \in [Threads -> Labels] /\ queue' = queue
         /\ call' \in [Threads -> Calls] /\ TicksLeft'
<1>1. [NoCall EXCEPT !.req = r] \in Calls
  BY ConstantFacts DEF NoCall, Calls
<1>2. call' \in [Threads -> Calls]
  BY <1>1 DEF Issue, TypeInv, DataOK, ControlOK
<1>3. pc' \in [Threads -> Labels] /\ queue' = queue
  BY DEF Issue, Goto, TypeInv, DataOK, ControlOK, Labels
<1>4. TicksLeft'
  BY DEF Issue, Goto, TypeInv, DataOK, ControlOK, TicksLeft
<1> QED BY <1>2, <1>3, <1>4

LEMMA GotoType ==
  ASSUME TypeInv, NEW t \in Threads, NEW l \in Labels \ {"tick"}, Goto(t, l), call' = call
  PROVE  /\ pc' \in [Threads -> Labels] /\ queue' = queue
         /\ call' \in [Threads -> Calls] /\ TicksLeft'
BY DEF Goto, TypeInv, DataOK, ControlOK, TicksLeft

LEMMA ReturnType ==
  ASSUME TypeInv, NEW t \in Threads, NEW r \in {"ok", "short", "error"}, Return(t, r)
  PROVE  /\ pc' \in [Threads -> Labels] /\ queue' = queue
         /\ call' \in [Threads -> Calls] /\ TicksLeft'
<1>1. [call[t] EXCEPT !.ret = r, !.ticks = 0, !.tries = 0, !.limit = 0] \in Calls
  BY ConstantFacts DEF TypeInv, DataOK, ControlOK, Calls
<1>2. call' = [call EXCEPT ![t] = [call[t] EXCEPT !.ret = r, !.ticks = 0, !.tries = 0, !.limit = 0]]
  BY DEF Return
<1>3. call' \in [Threads -> Calls]
  BY <1>1, <1>2 DEF TypeInv, DataOK, ControlOK
<1>4. pc' \in [Threads -> Labels] /\ queue' = queue
  BY DEF Return, Goto, TypeInv, DataOK, ControlOK, Labels
<1>5. TicksLeft'
  BY <1>2 DEF Return, Goto, TypeInv, DataOK, ControlOK, TicksLeft
<1> QED BY <1>3, <1>4, <1>5

LEMMA FinishType ==
  ASSUME TypeInv, NEW t \in Threads, Finish(t)
  PROVE  /\ pc' \in [Threads -> Labels] /\ queue' = "free"
         /\ call' \in [Threads -> Calls] /\ TicksLeft'
BY NoCallType DEF Finish, TypeInv, DataOK, ControlOK, TicksLeft, Labels

LEMMA RetryType ==
  ASSUME TypeInv, NEW t \in Threads, Retry(t)
  PROVE  /\ pc' \in [Threads -> Labels] /\ queue' = "free"
         /\ call' \in [Threads -> Calls] /\ TicksLeft'
<1> DEFINE n == call[t].tries + 1
<1>0. call[t] \in Calls /\ n \in Nat
  <2>1. call[t] \in Calls
    BY DEF TypeInv, DataOK, ControlOK
  <2>2. call[t].tries \in Nat
    BY <2>1, CallFields
  <2> QED BY <2>1, <2>2, SMT
<1>1. [call[t] EXCEPT !.tries = n] \in Calls
  <2> HIDE DEF n
  <2> QED BY <1>0 DEF Calls
<1>2. call' = [call EXCEPT ![t] = [call[t] EXCEPT !.tries = n]]
  BY DEF Retry
<1>3. call' \in [Threads -> Calls]
  BY <1>1, <1>2 DEF TypeInv, DataOK, ControlOK
<1>4. pc' \in [Threads -> Labels] /\ queue' = "free"
  BY DEF Retry, Sleep, TypeInv, DataOK, ControlOK, Labels, Sleeping
<1>5. TicksLeft'
  BY <1>2 DEF Retry, Sleep, TypeInv, DataOK, ControlOK, TicksLeft
<1> QED BY <1>3, <1>4, <1>5

LEMMA ArmType ==
  ASSUME TypeInv, NEW armed \in BOOLEAN, ArmInterruptRead(armed)
  PROVE  intArmed' \in BOOLEAN /\ reads' \in Nat
<1>1. intArmed \in BOOLEAN /\ reads \in Nat /\ reads + 1 \in Nat
  BY SMT DEF TypeInv, DataOK, ControlOK
<1>2. reads' \in Nat
  BY <1>1, Zenon DEF ArmInterruptRead
<1>3. intArmed' \in BOOLEAN
  BY <1>1, Zenon DEF ArmInterruptRead
<1> QED BY <1>2, <1>3

----------------------------------------------------------------------------
(***************************************************************************)
(* Type correctness of every step.                                         *)
(***************************************************************************)
dataVars == <<attached, starts, ivarVars, link, serial, devVars, intVars>>

LEMMA DataFrame == DataOK /\ UNCHANGED dataVars => DataOK'
BY DEF DataOK, dataVars, ivarVars, devVars, intVars

LEMMA ControlFrame == ControlOK /\ UNCHANGED <<queue, pc, call>> => ControlOK'
BY DEF ControlOK, TicksLeft

LEMMA AcquireType ==
  ASSUME TypeInv, NEW next \in {"openData", "openInt", "setup"},
         NEW got \in SUBSET Resources, NEW partial \in SUBSET SUBSET Resources,
         Acquire(next, got, partial)
  PROVE  TypeInv'
<1> USE DEF TypeInv
<1>1. \E l \in {next, "stop"} : Goto("start", l)
  BY DEF Acquire
<1>2. call' = call
  BY DEF Acquire
<1>3. "start" \in Threads /\ {next, "stop"} \subseteq Labels \ {"tick"}
  BY DEF Threads, Labels
<1>4. ControlOK'
  BY <1>1, <1>2, <1>3, GotoType DEF ControlOK
<1>5. held' \in SUBSET Resources
  BY DEF Acquire, DataOK
<1>6. DataOK'
  BY <1>5 DEF Acquire, DataOK, devVars, intVars
<1> QED BY <1>4, <1>6

\* A handler's step that moves control and nothing else.
LEMMA ControlStepType ==
  ASSUME TypeInv, NEW t \in Threads, UNCHANGED dataVars,
         \/ \E l \in Labels \ {"tick"} : Goto(t, l) /\ call' = call
         \/ \E r \in Requests : Issue(t, r)
         \/ \E r \in {"ok", "short", "error"} : Return(t, r)
         \/ Retry(t)
  PROVE  TypeInv'
<1> USE DEF TypeInv
<1>1. DataOK'
  BY DataFrame
<1>2. ControlOK'
  <2>1. CASE \E l \in Labels \ {"tick"} : Goto(t, l) /\ call' = call
    BY <2>1, GotoType DEF ControlOK
  <2>2. CASE \E r \in Requests : Issue(t, r)
    BY <2>2, IssueType DEF ControlOK
  <2>3. CASE \E r \in {"ok", "short", "error"} : Return(t, r)
    BY <2>3, ReturnType DEF ControlOK
  <2>4. CASE Retry(t)
    BY <2>4, RetryType DEF ControlOK
  <2> QED BY <2>1, <2>2, <2>3, <2>4
<1> QED BY <1>1, <1>2

LEMMA EntryType ==
  ASSUME TypeInv, StartSuperFails \/ StartEntry \/ StopEntry
  PROVE  TypeInv'
<1> USE DEF TypeInv
<1>1. DataOK'
  <2>0. attached \in BOOLEAN /\ starts \in Nat /\ starts + 1 \in Nat
    BY SMT DEF DataOK
  <2>1. attached' \in BOOLEAN /\ starts' \in Nat
    <3>1. /\ starts' = starts + 1 \/ starts' = starts
          /\ attached' = attached \/ attached' = TRUE \/ attached' = FALSE
      BY Zenon DEF StartSuperFails, StartEntry, StopEntry
    <3>2. starts' \in Nat
      BY <2>0, <3>1, Zenon
    <3>3. attached' \in BOOLEAN
      BY <2>0, <3>1, Zenon
    <3> QED BY <3>2, <3>3
  <2>2. UNCHANGED <<ivarVars, link, serial, devVars, intVars>>
    BY Zenon DEF StartSuperFails, StartEntry, StopEntry
  <2> QED BY <2>1, <2>2 DEF DataOK, ivarVars, devVars, intVars
<1>2. ControlOK'
  BY DEF StartSuperFails, StartEntry, StopEntry, ControlOK, TicksLeft, Threads, Labels
<1> QED BY <1>1, <1>2

LEMMA StartStepsType ==
  ASSUME TypeInv, StartSteps
  PROVE  TypeInv'
<1> USE DEF TypeInv
<1>0. "start" \in Threads /\ {"openData", "openInt", "cmdBuf", "setup", "alloc", "stop"} \subseteq Labels \ {"tick"}
  BY DEF Threads, Labels
<1>1. CASE OpenCommInterface
  BY <1>1, AcquireType DEF OpenCommInterface, Resources
<1>2. CASE OpenDataInterface
  BY <1>2, AcquireType DEF OpenDataInterface, Resources
<1>3. CASE AllocateTransferResources
  BY <1>3, AcquireType DEF AllocateTransferResources, Resources
<1>4. CASE OpenInterruptPipe
  <2>1. ControlOK'
    BY <1>0, <1>4, GotoType DEF OpenInterruptPipe, ControlOK
  <2>2. DataOK'
    BY <1>4 DEF OpenInterruptPipe, DataOK, Resources, devVars, intVars
  <2> QED BY <2>1, <2>2
<1>5. CASE CreateCmdBuf
  <2>1. ControlOK'
    <3>1. Issue("start", "init") \/ (Goto("start", "stop") /\ call' = call)
      BY <1>5 DEF CreateCmdBuf
    <3>2. "init" \in Requests
      BY DEF Requests
    <3> QED BY <1>0, <3>1, <3>2, IssueType, GotoType DEF ControlOK
  <2>2. held' \in SUBSET Resources
    BY <1>5 DEF CreateCmdBuf, DataOK, Resources
  <2>3. intArmed' \in BOOLEAN /\ reads' \in Nat
    <3>1. ArmInterruptRead(intArmed) \/ UNCHANGED <<intArmed, reads>>
      BY <1>5 DEF CreateCmdBuf
    <3>2. intArmed \in BOOLEAN /\ reads \in Nat
      BY DEF DataOK
    <3> QED BY <3>1, <3>2, ArmType
  <2>4. DataOK'
    BY <1>5, <2>2, <2>3 DEF CreateCmdBuf, DataOK, devVars
  <2> QED BY <2>1, <2>4
<1>6. CASE AfterInit
  <2>1. ControlOK'
    <3>1. Issue("start", "permanent") \/ (Goto("start", "stop") /\ call' = call)
      BY <1>6 DEF AfterInit
    <3>2. "permanent" \in Requests
      BY DEF Requests
    <3> QED BY <1>0, <3>1, <3>2, IssueType, GotoType DEF ControlOK
  <2>2. rndisInitDone' \in BOOLEAN
    BY <1>6 DEF AfterInit, DataOK
  <2>3. DataOK'
    BY <1>6, <2>2 DEF AfterInit, DataOK, devVars, intVars
  <2> QED BY <2>1, <2>3
<1>7. CASE AfterPermanentAddress
  <2>1. Issue("start", "current") \/ (Goto("start", "alloc") /\ call' = call)
    BY <1>7 DEF AfterPermanentAddress
  <2>2. "current" \in Requests /\ UNCHANGED dataVars
    BY <1>7 DEF AfterPermanentAddress, Requests, dataVars
  <2> QED BY <1>0, <2>1, <2>2, ControlStepType
<1>8. CASE AfterCurrentAddress \/ StartFailsLate
  <2>1. (Goto("start", "alloc") \/ Goto("start", "stop")) /\ call' = call /\ UNCHANGED dataVars
    BY <1>8 DEF AfterCurrentAddress, StartFailsLate, dataVars
  <2> QED BY <1>0, <2>1, ControlStepType
<1>9. CASE SetupNetworkInterface
  <2>1. ControlOK'
    <3>1. Issue("start", "filterOn") \/ (Goto("start", "stop") /\ call' = call)
      BY <1>9 DEF SetupNetworkInterface
    <3>2. "filterOn" \in Requests
      BY DEF Requests
    <3> QED BY <1>0, <3>1, <3>2, IssueType, GotoType DEF ControlOK
  <2>2. held' \in SUBSET Resources
    BY <1>9 DEF SetupNetworkInterface, DataOK, Resources
  <2>3. DataOK'
    BY <1>9, <2>2 DEF SetupNetworkInterface, DataOK, devVars, intVars
  <2> QED BY <2>1, <2>3
<1>10. CASE StartCompletes
  <2>1. ControlOK'
    BY <1>0, <1>10, FinishType DEF StartCompletes, ControlOK
  <2>2. DataOK'
    BY <1>10 DEF StartCompletes, DataOK, devVars, intVars
  <2> QED BY <2>1, <2>2
<1> QED
  BY <1>1, <1>2, <1>3, <1>4, <1>5, <1>6, <1>7, <1>8, <1>9, <1>10 DEF StartSteps

\* A request built by SendCommand, and the answer to it, are messages.
LEMMA MessageTypes ==
  /\ \A m \in Messages : m.verdict \in {"request", "ok", "error", "short"}
  /\ \A m \in Messages, v \in {"request", "ok", "error", "short"} :
       [m EXCEPT !.verdict = v] \in Messages
  /\ \A m \in Messages : m.req \in Requests
BY DEF Messages

LEMMA AssignXidType ==
  ASSUME NEW x \in 0 .. XidMod - 1
  PROVE  AssignXid(x).xid \in 0 .. XidMod - 1 /\ AssignXid(x).next \in 0 .. XidMod - 1
BY ConstantFacts, SMT DEF AssignXid

LEMMA SendCommandType ==
  ASSUME TypeInv, NEW t \in Threads, SendCommand(t)
  PROVE  TypeInv'
<1> USE DEF TypeInv
<1> DEFINE id == AssignXid(rndisXid)
           request == [req |-> call[t].req, xid |-> id.xid, serial |-> serial + 1,
                       verdict |-> "request"]
           lim == IF "int" \in held THEN 0 ELSE MaxAttempts
           begun == [call[t] EXCEPT !.xid = id.xid, !.serial = serial + 1, !.limit = lim]
           failed == [begun EXCEPT !.ret = "error", !.limit = 0]
<1>1. id.xid \in 0 .. XidMod - 1 /\ id.next \in 0 .. XidMod - 1
  BY AssignXidType DEF DataOK
<1>2. call[t] \in Calls /\ call[t].req \in Requests
  BY CallFields DEF ControlOK
<1>3. serial + 1 \in Nat /\ lim \in Nat
  BY ConstantFacts, SMT DEF DataOK
<1>4. request \in Messages
  BY <1>1, <1>2, <1>3 DEF Messages
<1>5. begun \in Calls /\ failed \in Calls /\ begun.ticks = call[t].ticks
  <2> HIDE DEF id, lim
  <2>1. serial + 1 \in Nat
    BY <1>3
  <2> QED BY <1>1, <1>2, <1>3 DEF Calls
<1>6. /\ rndisXid' = id.next /\ cmdBuf' = request /\ serial' = serial + 1
      /\ responseAvailable' = (responseAvailable /\ "int" \notin held) /\ EnsureArmed
      /\ inbox' = Append(inbox, request) \/ inbox' = inbox
      /\ UNCHANGED <<attached, starts, held, running, rndisInitDone, link, alive, devReady,
                     devFilter, outbox, pending, notes, done, media>>
  BY DEF SendCommand
<1>7. \/ Goto(t, IF "int" \in held THEN "wait" ELSE "get") /\ call' = [call EXCEPT ![t] = begun]
      \/ Goto(t, "ret") /\ call' = [call EXCEPT ![t] = failed]
  BY DEF SendCommand
<1> HIDE DEF id, request, begun, failed, lim
<1>8. intArmed' \in BOOLEAN /\ reads' \in Nat
  BY <1>6, ArmType DEF EnsureArmed, DataOK
<1>9. inbox' \in Seq(Messages)
  <2>1. inbox \in Seq(Messages)
    BY Zenon DEF DataOK
  <2>2. Append(inbox, request) \in Seq(Messages)
    BY <1>4, <2>1, AppendProperties
  <2> QED BY <1>6, <2>1, <2>2, Zenon
<1>10. responseAvailable' \in BOOLEAN
  BY <1>6
<1>11. DataOK'
  BY <1>1, <1>3, <1>4, <1>6, <1>8, <1>9, <1>10 DEF DataOK
<1>12. ControlOK'
  <2>1. \E l \in {"wait", "get", "ret"} : Goto(t, l)
    BY <1>7
  <2>2. pc' \in [Threads -> Labels] /\ queue' = queue /\ pc'[t] # "tick"
    BY <2>1 DEF Goto, ControlOK, Labels
  <2>3. call' \in [Threads -> Calls]
    BY <1>5, <1>7 DEF ControlOK
  <2>4. TicksLeft'
    BY <1>7, <2>1, <2>2 DEF Goto, ControlOK, TicksLeft
  <2> QED BY <2>2, <2>3, <2>4 DEF ControlOK
<1> QED BY <1>11, <1>12

LEMMA WaitType ==
  ASSUME TypeInv, NEW t \in Threads, WaitOver(t) \/ WaitTick(t) \/ WakeTick(t) \/ WakeRetry(t)
  PROVE  TypeInv'
<1> USE DEF TypeInv
<1>1. DataOK'
  <2>1. UNCHANGED dataVars
    BY Zenon DEF WaitOver, WaitTick, WakeTick, WakeRetry, dataVars
  <2> QED BY <2>1, DataFrame
<1>2. call[t] \in Calls
  BY DEF ControlOK
<1>3. CASE WaitOver(t)
  <2> DEFINE n == IF call[t].ticks < WaitMaxTicks THEN PostNotifyAttempts ELSE MaxAttempts
  <2>1. n \in Nat
    BY ConstantFacts
  <2>2. Goto(t, "get") /\ call' = [call EXCEPT ![t] = [call[t] EXCEPT !.limit = n]]
    BY <1>3 DEF WaitOver
  <2> HIDE DEF n
  <2>3. [call[t] EXCEPT !.limit = n] \in Calls
    BY <1>2, <2>1 DEF Calls
  <2>4. ControlOK'
    BY <2>2, <2>3 DEF Goto, ControlOK, TicksLeft, Labels
  <2> QED BY <1>1, <2>4
<1>4. CASE WaitTick(t)
  <2>1. ControlOK'
    BY <1>4 DEF WaitTick, Sleep, ControlOK, TicksLeft, Labels, Sleeping
  <2> QED BY <1>1, <2>1
<1>5. CASE WakeTick(t)
  <2> DEFINE n == call[t].ticks + 1
  <2>1. n \in 0 .. WaitMaxTicks
    <3>1. call[t].ticks < WaitMaxTicks /\ call[t].ticks \in 0 .. WaitMaxTicks
      BY <1>2, <1>5, CallFields DEF WakeTick, Wake, ControlOK, TicksLeft
    <3> QED BY <3>1, ConstantFacts, SMT
  <2>2. \/ pc' = [pc EXCEPT ![t] = "wait"] /\ call' = [call EXCEPT ![t] = [call[t] EXCEPT !.ticks = n]]
        \/ /\ pc' = [pc EXCEPT ![t] = "ret"]
           /\ call' = [call EXCEPT ![t] = [call[t] EXCEPT !.ret = "error", !.ticks = 0]]
    BY <1>5 DEF WakeTick
  <2>3. queue' = t
    BY <1>5 DEF WakeTick, Wake
  <2> HIDE DEF n
  <2>4. /\ [call[t] EXCEPT !.ticks = n] \in Calls
        /\ [call[t] EXCEPT !.ret = "error", !.ticks = 0] \in Calls
    BY <1>2, <2>1, ConstantFacts DEF Calls
  <2>5. call' \in [Threads -> Calls] /\ pc' \in [Threads -> Labels]
    BY <2>2, <2>4 DEF ControlOK, Labels
  <2>6. TicksLeft'
    BY <2>2 DEF ControlOK, TicksLeft
  <2> QED BY <1>1, <2>3, <2>5, <2>6 DEF ControlOK
<1>6. CASE WakeRetry(t)
  <2>1. ControlOK'
    BY <1>6 DEF WakeRetry, Wake, ControlOK, TicksLeft, Labels
  <2> QED BY <1>1, <2>1
<1> QED BY <1>3, <1>4, <1>5, <1>6

LEMMA GetAnswerType ==
  ASSUME TypeInv, NEW t \in Threads, GetAnswer(t)
  PROVE  TypeInv'
<1> USE DEF TypeInv
<1>1. Head(outbox) \in Messages /\ Tail(outbox) \in Seq(Messages)
  BY HeadTailProperties DEF GetAnswer, DataOK
<1>2. /\ cmdBuf' = Head(outbox) /\ outbox' = Tail(outbox)
      /\ UNCHANGED <<attached, starts, held, running, rndisInitDone, intArmed,
                     responseAvailable, rndisXid, link, serial, alive, devReady, devFilter,
                     inbox, intVars>>
  BY DEF GetAnswer
<1>3. DataOK'
  BY <1>1, <1>2 DEF DataOK, intVars
<1>4. ControlOK'
  <2>1. CASE IsCompletionOf(call[t], cmdBuf')
    <3>1. cmdBuf'.verdict \in {"ok", "short", "error"} /\ Return(t, cmdBuf'.verdict)
      BY <1>1, <1>2, <2>1, MessageTypes DEF GetAnswer, IsCompletionOf
    <3> QED BY <3>1, ReturnType DEF ControlOK
  <2>2. CASE ~IsCompletionOf(call[t], cmdBuf')
    <3>1. Retry(t)
      BY <2>2 DEF GetAnswer
    <3> QED BY <3>1, RetryType DEF ControlOK
  <2> QED BY <2>1, <2>2
<1> QED BY <1>3, <1>4

LEMMA CommandType ==
  ASSUME TypeInv, NEW t \in Threads, Command(t)
  PROVE  TypeInv'
<1>1. CASE CommandDereferencesNull(t) \/ GetDereferencesNull(t)
  <2>1. Goto(t, "crashed") /\ call' = call /\ UNCHANGED dataVars
    BY <1>1 DEF CommandDereferencesNull, GetDereferencesNull, dataVars
  <2>2. "crashed" \in Labels \ {"tick"}
    BY DEF Labels
  <2> QED BY <2>1, <2>2, ControlStepType
<1>2. CASE CommandRefused(t) \/ PollsExhausted(t) \/ GetFails(t)
  <2>1. Return(t, "error") /\ UNCHANGED dataVars
    BY <1>2 DEF CommandRefused, PollsExhausted, GetFails, dataVars
  <2> QED BY <2>1, ControlStepType
<1>3. CASE GetStub(t)
  <2>1. Retry(t) /\ UNCHANGED dataVars
    BY <1>3 DEF GetStub, dataVars
  <2> QED BY <2>1, ControlStepType
<1> QED
  BY <1>1, <1>2, <1>3, SendCommandType, WaitType, GetAnswerType DEF Command

LEMMA StopStepsType ==
  ASSUME TypeInv, NEW t \in Threads, StopSteps(t)
  PROVE  TypeInv'
<1> USE DEF TypeInv
<1>0. {"release", "stop"} \subseteq Labels \ {"tick"} /\ "filterOff" \in Requests
  BY DEF Labels, Requests
<1>1. CASE StopFilter(t)
  <2>1. ControlOK'
    <3>1. Issue(t, "filterOff") \/ (Goto(t, "release") /\ call' = call)
      BY <1>1 DEF StopFilter
    <3> QED BY <1>0, <3>1, IssueType, GotoType DEF ControlOK
  <2>2. DataOK'
    <3>1. running' \in BOOLEAN
      BY <1>1, Zenon DEF StopFilter
    <3>2. UNCHANGED <<attached, starts, held, rndisInitDone, intArmed, responseAvailable,
                      rndisXid, cmdBuf, link, serial, devVars, intVars>>
      BY <1>1, Zenon DEF StopFilter
    <3> QED BY <3>1, <3>2 DEF DataOK, devVars, intVars
  <2> QED BY <2>1, <2>2
<1>2. CASE AfterFilterOff(t)
  <2>1. Goto(t, "release") /\ call' = call /\ UNCHANGED dataVars
    BY <1>2 DEF AfterFilterOff, dataVars
  <2> QED BY <1>0, <2>1, ControlStepType
<1>3. CASE Release(t)
  <2>1. ControlOK'
    BY <1>3, FinishType DEF Release, ControlOK
  <2>2. done' \in Seq(Completions)
    <3> DEFINE aborted == [i \in 1 .. reads |-> "gone"]
    <3>1. reads \in Nat /\ done \in Seq(Completions)
      BY DEF DataOK
    <3>2. "gone" \in Completions
      BY DEF Completions
    <3>3. aborted \in [1 .. reads -> Completions]
      BY <3>2
    <3>4. aborted \in Seq(Completions)
      BY <3>1, <3>3, SeqDef
    <3>5. done' = done \o aborted
      BY <1>3 DEF Release
    <3> HIDE DEF aborted
    <3> QED BY <3>1, <3>4, <3>5, ConcatProperties
  <2>3. DataOK'
    BY <1>3, <2>2 DEF Release, ClearFlags, DataOK, devVars
  <2> QED BY <2>1, <2>3
<1> QED BY <1>1, <1>2, <1>3 DEF StopSteps

LEMMA InterruptType ==
  ASSUME TypeInv, InterruptReadComplete
  PROVE  TypeInv'
<1> USE DEF TypeInv
<1>1. ControlOK'
  BY ControlFrame DEF InterruptReadComplete
<1>2. done' \in Seq(Completions)
  BY HeadTailProperties DEF InterruptReadComplete, DataOK
<1>3. intArmed' \in BOOLEAN /\ reads' \in Nat
  <2>1. (intArmed' = FALSE /\ UNCHANGED reads) \/ ArmInterruptRead(FALSE)
    BY DEF InterruptReadComplete
  <2>2. reads \in Nat
    BY DEF DataOK
  <2> QED BY <2>1, <2>2, ArmType
<1>4. /\ responseAvailable' \in BOOLEAN /\ link' \in {"none", "invalid", "active", "inactive"}
      /\ media' \in {"unknown", "active", "inactive"}
  BY DEF InterruptReadComplete, LinkOf, DataOK
<1>5. DataOK'
  BY <1>2, <1>3, <1>4 DEF InterruptReadComplete, DataOK, devVars
<1> QED BY <1>1, <1>5

LEMMA EnvironmentType ==
  ASSUME TypeInv, Environment
  PROVE  TypeInv'
<1> USE DEF TypeInv
<1>0. ControlOK'
  <2>1. UNCHANGED <<queue, pc, call>>
    BY Zenon DEF Environment, DeviceAnswers, DeviceNotifies, ReadCompletes, Unplug
  <2> QED BY <2>1, ControlFrame
<1>1. CASE DeviceAnswers
  <2>1. Head(inbox) \in Messages /\ inbox' \in Seq(Messages)
    BY <1>1, HeadTailProperties DEF DeviceAnswers, DataOK
  <2>2. PICK v \in Verdicts(Head(inbox).req) :
          /\ outbox' = Append(outbox, [Head(inbox) EXCEPT !.verdict = v])
          /\ Execute(Head(inbox)) \/ (v = "error" /\ UNCHANGED <<devReady, devFilter>>)
    BY <1>1 DEF DeviceAnswers
  <2>3. [Head(inbox) EXCEPT !.verdict = v] \in Messages
    <3>1. v \in {"request", "ok", "error", "short"}
      BY DEF Verdicts
    <3> QED BY <2>1, <3>1, MessageTypes
  <2>4. outbox' \in Seq(Messages)
    BY <2>2, <2>3, AppendProperties DEF DataOK
  <2>5. devReady' \in BOOLEAN /\ devFilter' \in BOOLEAN
    BY <2>2 DEF Execute, DataOK
  <2>6. pending' \in Seq(Notes) /\ notes' \in Nat
    <3>1. "response" \in Notes
      BY DEF Notes
    <3>2. Append(pending, "response") \in Seq(Notes) /\ notes + 1 \in Nat
      BY <3>1, AppendProperties DEF DataOK
    <3> QED BY <1>1, <3>2 DEF DeviceAnswers, DataOK
  <2>7. DataOK'
    BY <1>1, <2>1, <2>4, <2>5, <2>6 DEF DeviceAnswers, DataOK, ivarVars
  <2> QED BY <1>0, <2>7
<1>2. CASE DeviceNotifies
  <2>1. pending' \in Seq(Notes) /\ notes' \in Nat
    <3>1. PICK n \in LinkNotes : pending' = Append(pending, n)
      BY <1>2 DEF DeviceNotifies
    <3>2. n \in Notes /\ notes + 1 \in Nat
      BY DEF Notes, LinkNotes, DataOK
    <3> QED BY <1>2, <3>1, <3>2, AppendProperties DEF DeviceNotifies, DataOK
  <2>2. DataOK'
    BY <1>2, <2>1 DEF DeviceNotifies, LinkOf, DataOK, ivarVars, devVars
  <2> QED BY <1>0, <2>2
<1>3. CASE ReadCompletes
  <2>1. reads' \in Nat
    BY <1>3, SMT DEF ReadCompletes, DataOK
  <2>2. pending' \in Seq(Notes)
    BY <1>3, HeadTailProperties DEF ReadCompletes, DataOK
  <2>3. done' \in Seq(Completions)
    <3>1. \E c \in Completions : done' = Append(done, c)
      <4>1. pending # <<>> => Head(pending) \in Completions
        BY HeadTailProperties DEF DataOK, Completions
      <4>2. {"stalled", "gone"} \subseteq Completions
        BY DEF Completions
      <4> QED BY <1>3, <4>1, <4>2 DEF ReadCompletes
    <3> QED BY <3>1, AppendProperties DEF DataOK
  <2>4. DataOK'
    BY <1>3, <2>1, <2>2, <2>3 DEF ReadCompletes, DataOK, ivarVars, devVars
  <2> QED BY <1>0, <2>4
<1>4. CASE Unplug
  <2>1. inbox' \in Seq(Messages) /\ outbox' \in Seq(Messages) /\ pending' \in Seq(Notes)
    BY <1>4, EmptySequences, Zenon DEF Unplug
  <2>2. alive' \in BOOLEAN /\ devReady' \in BOOLEAN /\ devFilter' \in BOOLEAN
    BY <1>4, Zenon DEF Unplug
  <2>3. UNCHANGED <<attached, starts, ivarVars, link, serial, notes, reads, done, media>>
    BY <1>4, Zenon DEF Unplug
  <2>4. DataOK'
    BY <2>1, <2>2, <2>3 DEF DataOK, ivarVars
  <2> QED BY <1>0, <2>4
<1> QED BY <1>1, <1>2, <1>3, <1>4 DEF Environment

LEMMA InitType == Init => TypeInv
<1> SUFFICES ASSUME Init PROVE TypeInv
  OBVIOUS
<1>1. ControlOK
  BY NoCallType DEF Init, ControlOK, TicksLeft, Labels
<1>2. 1 \in 0 .. XidMod - 1
  BY ConstantFacts, SMT
<1>3. DataOK
  <2>1. inbox \in Seq(Messages) /\ outbox \in Seq(Messages) /\ pending \in Seq(Notes)
        /\ done \in Seq(Completions)
    BY EmptySequences, Zenon DEF Init
  <2>2. /\ held \in SUBSET Resources /\ starts \in Nat /\ serial \in Nat
        /\ notes \in Nat /\ reads \in Nat
        /\ cmdBuf \in Messages \cup {NoMessage} /\ rndisXid \in 0 .. XidMod - 1
        /\ link \in {"none", "invalid", "active", "inactive"}
        /\ media \in {"unknown", "active", "inactive"}
    BY <1>2 DEF Init
  <2>3. /\ attached \in BOOLEAN /\ running \in BOOLEAN /\ rndisInitDone \in BOOLEAN
        /\ intArmed \in BOOLEAN /\ responseAvailable \in BOOLEAN
        /\ alive \in BOOLEAN /\ devReady \in BOOLEAN /\ devFilter \in BOOLEAN
    BY Zenon DEF Init
  <2> QED BY <2>1, <2>2, <2>3, Zenon DEF DataOK
<1> QED BY <1>1, <1>3 DEF TypeInv

LEMMA NextType == TypeInv /\ [Next]_vars => TypeInv'
<1> SUFFICES ASSUME TypeInv, [Next]_vars PROVE TypeInv'
  OBVIOUS
<1>1. CASE UNCHANGED vars
  BY <1>1, DataFrame, ControlFrame DEF vars, dataVars, TypeInv
<1> QED
  BY <1>1, EntryType, StartStepsType, CommandType, StopStepsType, InterruptType,
     EnvironmentType DEF Next

LEMMA TypeInvariant == Spec => []TypeInv
<1> QED BY InitType, NextType, PTL DEF Spec

\* Every variable keeps its type: rndisXid wraps within its width, the loops of
\* rndisCommand stay within their counts, no pointer is set that is not an ivar.
THEOREM TypeCorrect == Spec => []TypeOK
<1>1. TypeInv => TypeOK
  BY DEF TypeInv, DataOK, ControlOK, TypeOK
<1> QED BY <1>1, TypeInvariant, PTL

----------------------------------------------------------------------------
(***************************************************************************)
(* What a step of a handler leaves alone.                                  *)
(***************************************************************************)
CommandLabels == {"send", "wait", "tick", "retry", "get"}

LEMMA CommandStep ==
  ASSUME NEW t \in Threads, Command(t)
  PROVE  /\ pc[t] \in CommandLabels
         /\ \E l \in CommandLabels \cup {"ret", "crashed"} : pc' = [pc EXCEPT ![t] = l]
         /\ UNCHANGED <<attached, starts, held, running, rndisInitDone, link, done>>
         /\ EnsureArmed \/ UNCHANGED <<intArmed, reads>>
<1> USE DEF CommandLabels
<1>1. CASE CommandDereferencesNull(t) \/ GetDereferencesNull(t)
  BY <1>1, Zenon DEF CommandDereferencesNull, GetDereferencesNull, Polling, At, Goto, ivarVars, intVars
<1>2. CASE CommandRefused(t) \/ PollsExhausted(t) \/ GetFails(t)
  BY <1>2, Zenon DEF CommandRefused, PollsExhausted, GetFails, Polling, At, Return, Goto, ivarVars, intVars
<1>3. CASE GetStub(t)
  BY <1>3, Zenon DEF GetStub, Polling, At, Retry, Sleep, ivarVars, intVars
<1>4. CASE SendCommand(t)
  BY <1>4 DEF SendCommand, At, Goto
<1>5. CASE WaitOver(t) \/ WaitTick(t)
  BY <1>5, Zenon DEF WaitOver, WaitTick, At, Goto, Sleep, ivarVars, intVars
<1>6. CASE WakeTick(t) \/ WakeRetry(t)
  BY <1>6, Zenon DEF WakeTick, WakeRetry, Wake, ivarVars, intVars
<1>7. CASE GetAnswer(t)
  BY <1>7, Zenon DEF GetAnswer, Polling, At, Return, Retry, Goto, Sleep, intVars
<1> QED
  BY <1>1, <1>2, <1>3, <1>4, <1>5, <1>6, <1>7 DEF Command

\* A step of Stop_Impl before its pipes are released.
LEMMA StopStep ==
  ASSUME NEW t \in Threads, StopFilter(t) \/ AfterFilterOff(t)
  PROVE  /\ pc[t] \in {"stop", "ret"} /\ (pc[t] = "stop" => running' = FALSE)
         /\ \E l \in {"send", "release"} : pc' = [pc EXCEPT ![t] = l]
         /\ running' = FALSE \/ running' = running
         /\ UNCHANGED <<attached, starts, held, rndisInitDone, intArmed, reads, link, done>>
BY Zenon DEF StopFilter, AfterFilterOff, Returned, At, Issue, Goto, ivarVars, intVars

\* A step of Start_Impl that acquires resources or examines a result.
LEMMA StartStep ==
  ASSUME StartSteps, ~StartCompletes
  PROVE  /\ pc["start"] # "idle"
         /\ \E l \in Labels \ {"idle"} : pc' = [pc EXCEPT !["start"] = l]
         /\ UNCHANGED <<attached, starts, running, done>>
<1> USE DEF Labels, Sleeping
<1>1. CASE OpenCommInterface \/ OpenDataInterface \/ AllocateTransferResources
  BY <1>1, Zenon DEF OpenCommInterface, OpenDataInterface, AllocateTransferResources, Acquire,
     At, Goto, intVars
<1>2. CASE OpenInterruptPipe \/ CreateCmdBuf
  BY <1>2, Zenon DEF OpenInterruptPipe, CreateCmdBuf, At, Issue, Goto, intVars
<1>3. CASE AfterInit \/ AfterPermanentAddress \/ AfterCurrentAddress
  BY <1>3, Zenon DEF AfterInit, AfterPermanentAddress, AfterCurrentAddress, Returned, At, Issue,
     Goto, ivarVars, intVars
<1>4. CASE SetupNetworkInterface \/ StartFailsLate
  BY <1>4, Zenon DEF SetupNetworkInterface, StartFailsLate, Returned, At, Issue, Goto,
     ivarVars, intVars
<1> QED BY <1>1, <1>2, <1>3, <1>4 DEF StartSteps

----------------------------------------------------------------------------
(***************************************************************************)
(* A stopped driver holds nothing, when Stop does not overlap Start.       *)
(***************************************************************************)
\* Start and Stop exclude each other, and neither leaves running set on its
\* way to a state in which both are idle.
TeardownInv ==
  /\ pc["start"] = "idle" \/ pc["stop"] = "idle"
  /\ pc["start"] # "idle" => attached /\ ~running
  /\ pc["stop"] \notin {"idle", "stop"} => ~running
  /\ DownMeansReleased

LEMMA TeardownHandlerStep ==
  ASSUME TypeInv, TeardownInv, NEW t \in Threads, pc[t] # "idle",
         NEW l \in Labels \ {"idle"}, pc' = [pc EXCEPT ![t] = l], attached' = attached,
         running' = FALSE \/ running' = running,
         pc[t] = "stop" => running' = FALSE, t = "stop" => l # "stop"
  PROVE  TeardownInv'
<1>1. pc \in [Threads -> Labels] /\ "start" \in Threads /\ "stop" \in Threads
  BY DEF TypeInv, ControlOK, Threads
<1>2. pc'[t] # "idle"
  BY <1>1
<1>3. DownMeansReleased'
  BY <1>2 DEF DownMeansReleased
<1>4. t = "start" \/ t = "stop"
  BY DEF Threads
<1>5. CASE t = "start"
  BY <1>1, <1>3, <1>5 DEF TeardownInv
<1>6. CASE t = "stop"
  BY <1>1, <1>3, <1>6 DEF TeardownInv
<1> QED BY <1>4, <1>5, <1>6

LEMMA TeardownRelease ==
  ASSUME TypeInv, TeardownInv, NEW t \in Threads, Release(t)
  PROVE  TeardownInv'
<1>1. pc \in [Threads -> Labels] /\ reads' = 0 /\ held' = {} /\ link' = "invalid"
  BY Zenon DEF TypeInv, ControlOK, Release
<1>2. ~intArmed' /\ ~responseAvailable' /\ ~rndisInitDone' /\ running' = running
  BY Zenon DEF Release, ClearFlags
<1>3. pc[t] = "release" /\ pc' = [pc EXCEPT ![t] = "idle"]
  BY Zenon DEF Release, At, Finish
<1>4. ~running
  BY <1>3 DEF TeardownInv, Threads
<1>5. DownMeansReleased'
  BY <1>1, <1>2, <1>4 DEF DownMeansReleased
<1>6. pc'["start"] = "idle" /\ pc'["stop"] \in {"idle", pc["stop"]}
  BY <1>1, <1>3 DEF TeardownInv, Threads
<1> QED BY <1>2, <1>4, <1>5, <1>6 DEF TeardownInv

\* The steps that no sleeping or running handler takes part in.
LEMMA TeardownElsewhere ==
  ASSUME TypeInv, TeardownInv, InterruptReadComplete \/ Environment \/ StartSuperFails
  PROVE  TeardownInv'
<1>1. CASE InterruptReadComplete
  <2>1. UNCHANGED <<pc, attached, held, running, rndisInitDone>>
    BY <1>1, Zenon DEF InterruptReadComplete
  <2>2. ~running => ~intArmed' /\ UNCHANGED <<responseAvailable, link, reads>>
    <3>1. responseAvailable \in BOOLEAN
      BY DEF TypeInv, DataOK
    <3> QED BY <1>1, <3>1 DEF InterruptReadComplete, Ignored
  <2> QED BY <2>1, <2>2 DEF TeardownInv, DownMeansReleased
<1>2. CASE Environment
  <2>1. UNCHANGED <<pc, attached, ivarVars, link>>
    BY <1>2, Zenon DEF Environment, DeviceAnswers, DeviceNotifies, ReadCompletes, Unplug
  <2>2. reads = 0 => reads' = 0
    BY <1>2 DEF Environment, DeviceAnswers, DeviceNotifies, ReadCompletes, Unplug
  <2> QED BY <2>1, <2>2 DEF TeardownInv, DownMeansReleased, ivarVars
<1>3. CASE StartSuperFails
  <2>1. UNCHANGED <<pc, attached, ivarVars, link, reads>>
    BY <1>3, Zenon DEF StartSuperFails, intVars
  <2> QED BY <2>1 DEF TeardownInv, DownMeansReleased, ivarVars
<1> QED BY <1>1, <1>2, <1>3

LEMMA TeardownNext ==
  ASSUME StopOverlapsStart = FALSE, TypeInv, TeardownInv, [Next]_vars
  PROVE  TeardownInv'
<1>0. pc \in [Threads -> Labels] /\ "start" \in Threads /\ "stop" \in Threads
  BY DEF TypeInv, ControlOK, Threads
<1>1. CASE UNCHANGED vars
  <2>1. UNCHANGED <<pc, attached, ivarVars, link, reads>>
    BY <1>1, Zenon DEF vars, intVars
  <2> QED BY <2>1 DEF TeardownInv, DownMeansReleased, ivarVars
<1>2. CASE StartEntry
  <2>1. pc'["start"] = "openComm" /\ pc'["stop"] = "idle" /\ attached' /\ running' = running
    BY <1>0, <1>2 DEF StartEntry, ivarVars
  <2>2. ~running
    BY <1>2 DEF StartEntry, TeardownInv, DownMeansReleased
  <2> QED BY <2>1, <2>2 DEF TeardownInv, DownMeansReleased
<1>3. CASE StopEntry
  <2>1. pc'["start"] = "idle" /\ pc'["stop"] = "stop"
    BY <1>0, <1>3 DEF StopEntry
  <2> QED BY <1>0, <2>1 DEF TeardownInv, DownMeansReleased
<1>4. CASE StartCompletes
  <2>1. pc' = [pc EXCEPT !["start"] = "idle"] /\ pc["start"] = "ret" /\ attached' = attached
    BY <1>4, Zenon DEF StartCompletes, Returned, At, Finish
  <2>2. pc'["start"] = "idle" /\ pc'["stop"] = "idle" /\ attached'
    BY <1>0, <2>1 DEF TeardownInv
  <2> QED BY <2>2 DEF TeardownInv, DownMeansReleased
<1>5. CASE StartSteps /\ ~StartCompletes
  <2>1. PICK l \in Labels \ {"idle"} : pc' = [pc EXCEPT !["start"] = l]
    BY <1>5, StartStep
  <2>2. pc["start"] # "idle" /\ running' = running /\ attached' = attached /\ ~running
    BY <1>5, StartStep DEF TeardownInv
  <2>3. running' = FALSE
    BY <2>2, Zenon DEF TypeInv, DataOK
  <2> QED BY <1>0, <2>1, <2>2, <2>3, TeardownHandlerStep
<1>6. ASSUME NEW t \in Threads, Command(t) PROVE TeardownInv'
  <2>1. PICK l \in CommandLabels \cup {"ret", "crashed"} : pc' = [pc EXCEPT ![t] = l]
    BY <1>6, CommandStep
  <2>2. pc[t] \notin {"idle", "stop"} /\ running' = running /\ attached' = attached
    BY <1>6, CommandStep DEF CommandLabels
  <2>3. l \in Labels \ {"idle", "stop"}
    BY DEF CommandLabels, Labels, Sleeping
  <2> QED BY <1>0, <2>1, <2>2, <2>3, TeardownHandlerStep
<1>7. ASSUME NEW t \in Threads, StopFilter(t) \/ AfterFilterOff(t) PROVE TeardownInv'
  <2>1. PICK l \in {"send", "release"} : pc' = [pc EXCEPT ![t] = l]
    BY <1>7, StopStep
  <2>2. /\ pc[t] \in {"stop", "ret"} /\ (pc[t] = "stop" => running' = FALSE)
        /\ running' = FALSE \/ running' = running
        /\ attached' = attached
    BY <1>7, StopStep
  <2>3. l \in Labels \ {"idle", "stop"}
    BY DEF Labels
  <2> QED BY <1>0, <2>1, <2>2, <2>3, TeardownHandlerStep
<1>8. ASSUME NEW t \in Threads, StopSteps(t) PROVE TeardownInv'
  BY <1>7, <1>8, TeardownRelease DEF StopSteps
<1>9. StartSteps => TeardownInv'
  BY <1>4, <1>5
<1>10. InterruptReadComplete \/ Environment \/ StartSuperFails => TeardownInv'
  BY TeardownElsewhere
<1> QED
  BY <1>1, <1>2, <1>3, <1>6, <1>8, <1>9, <1>10, Zenon DEF Next

\* After Stop, and after a Start that failed at any step, no pointer is held, the
\* handshake flags are clear, no interrupt read is outstanding and the link is
\* not reported active, provided the framework does not dispatch Stop while
\* Start sleeps (run OverlapRunning shows what happens when it does).
THEOREM StoppedIsReleased ==
  ASSUME StopOverlapsStart = FALSE
  PROVE  Spec => []DownMeansReleased
<1>1. Init => TeardownInv
  BY DEF Init, TeardownInv, DownMeansReleased, Threads
<1>2. TypeInv /\ TeardownInv /\ [Next]_vars => TeardownInv'
  BY TeardownNext
<1>3. TeardownInv => DownMeansReleased
  BY DEF TeardownInv
<1> QED BY <1>1, <1>2, <1>3, TypeInvariant, PTL DEF Spec

----------------------------------------------------------------------------
(***************************************************************************)
(* One interrupt read at a time, and intArmed tells of it.                 *)
(***************************************************************************)
PipeFresh == ~intArmed /\ reads = 0 /\ done = <<>>

\* Where Start_Impl is until the pipe has been opened and its read queued.
Opening == {"openComm", "openData", "openInt", "cmdBuf"}

\* intArmed counts the read wherever it is.  It is needed as well that nothing
\* is outstanding when the pipe is opened, hence in every step that leads there,
\* and that Start keeps the queue until then.
PipeInv ==
  starts <= 1 =>
  /\ intArmed => "int" \in held /\ reads + Len(done) = 1
  /\ ~intArmed /\ "int" \in held => reads + Len(done) = 0
  /\ pc["start"] \in {"openComm", "openData", "openInt"} => PipeFresh /\ "int" \notin held
  /\ pc["start"] = "cmdBuf" => PipeFresh
  /\ pc["start"] \in Opening => queue = "start" /\ pc["stop"] = "idle"
  /\ starts = 0 => PipeFresh /\ held = {} /\ ~attached /\ \A t \in Threads : pc[t] = "idle"

LEMMA DoneLength ==
  ASSUME TypeInv
  PROVE  /\ Len(done) \in Nat /\ reads \in Nat
         /\ Len(done) = 0 <=> done = <<>>
         /\ done # <<>> => Len(Tail(done)) = Len(done) - 1
         /\ \A c \in Completions : Len(Append(done, c)) = Len(done) + 1
BY LenProperties, EmptySeq, HeadTailProperties, AppendProperties DEF TypeInv, DataOK

\* A step by which the pipe is neither opened nor closed, and a read is
\* outstanding at its end exactly when one was or armInterruptRead queued one.
LEMMA PipeStep ==
  ASSUME TypeInv, PipeInv, starts' = starts, starts' > 0, done' = done,
         "int" \in held' <=> "int" \in held,
         UNCHANGED <<intArmed, reads>> \/ EnsureArmed,
         pc'["start"] \notin Opening
  PROVE  PipeInv'
<1>1. intArmed \in BOOLEAN /\ starts \in Nat
  BY DEF TypeInv, DataOK
<1>2. CASE UNCHANGED <<intArmed, reads>>
  BY <1>1, <1>2 DEF Opening, PipeInv, PipeFresh
<1>3. CASE EnsureArmed /\ ~UNCHANGED <<intArmed, reads>>
  <2>1. ~intArmed /\ "int" \in held /\ intArmed' = TRUE /\ reads' = reads + 1
    BY <1>1, <1>3 DEF EnsureArmed, ArmInterruptRead
  <2>2. starts <= 1 => reads' + Len(done') = 1
    BY <2>1, DoneLength DEF Opening, PipeInv
  <2> QED BY <1>1, <1>3, <2>1, <2>2 DEF Opening, PipeInv
<1> QED BY <1>2, <1>3

LEMMA Underway ==
  ASSUME TypeInv, PipeInv, starts <= 1, NEW t \in Threads, pc[t] # "idle"
  PROVE  starts > 0
BY DEF TypeInv, DataOK, PipeInv

LEMMA PipeEntry ==
  ASSUME TypeInv, PipeInv, StartSuperFails \/ StartEntry \/ StopEntry
  PROVE  PipeInv'
<1>0. starts \in Nat /\ pc \in [Threads -> Labels] /\ "start" \in Threads
  BY DEF TypeInv, DataOK, ControlOK, Threads
<1>1. UNCHANGED <<held, intArmed, reads, done>>
  BY Zenon DEF StartSuperFails, StartEntry, StopEntry, ivarVars, intVars
<1>2. CASE StartSuperFails
  <2>1. starts' = starts + 1 /\ pc' = pc /\ queue' = queue
    BY <1>2, Zenon DEF StartSuperFails
  <2> QED BY <1>0, <1>1, <2>1 DEF Opening, PipeInv, PipeFresh
<1>3. CASE StartEntry
  <2>1. /\ starts' = starts + 1 /\ pc'["start"] = "openComm"
        /\ queue' = "start" /\ pc'["stop"] = "idle"
    BY <1>0, <1>3 DEF StartEntry, Threads
  <2>2. starts <= 1 => starts = 0 \/ starts' > 1
    BY <1>0, <2>1
  <2> QED BY <1>0, <1>1, <2>1, <2>2 DEF Opening, PipeInv, PipeFresh
<1>4. CASE StopEntry
  <2>1. starts' = starts /\ pc'["start"] = pc["start"] /\ attached /\ queue = "free"
    BY <1>0, <1>4 DEF StopEntry
  <2> QED BY <1>0, <1>1, <2>1 DEF Opening, PipeInv, PipeFresh
<1> QED BY <1>2, <1>3, <1>4

LEMMA PipeStartSteps ==
  ASSUME TypeInv, PipeInv, StartSteps, starts <= 1
  PROVE  PipeInv'
<1>0. /\ starts \in Nat /\ pc \in [Threads -> Labels] /\ "start" \in Threads
      /\ intArmed \in BOOLEAN
  BY DEF TypeInv, DataOK, ControlOK, Threads
<1>1. pc["start"] # "idle" /\ UNCHANGED <<starts, done>>
  <2>1. CASE StartCompletes
    BY <2>1, Zenon DEF StartCompletes, Returned, At, intVars
  <2> QED BY <2>1, StartStep
<1>2. starts > 0 /\ starts' > 0
  BY <1>0, <1>1, Underway
<1>3. CASE OpenCommInterface \/ OpenDataInterface
  <2>1. /\ pc["start"] \in {"openComm", "openData"}
        /\ UNCHANGED <<intArmed, reads>> /\ ("int" \in held' <=> "int" \in held)
    BY <1>3 DEF OpenCommInterface, OpenDataInterface, Acquire, At, intVars
  <2>2. /\ pc'["start"] \in {"openData", "openInt", "stop"}
        /\ queue' = queue /\ pc'["stop"] = pc["stop"]
    <3>1. \E l \in {"openData", "openInt", "stop"} : Goto("start", l)
      BY <1>3, Zenon DEF OpenCommInterface, OpenDataInterface, Acquire
    <3> QED BY <1>0, <3>1 DEF Goto, Threads
  <2> QED BY <1>1, <1>2, <2>1, <2>2 DEF Opening, PipeInv, PipeFresh
<1>4. CASE OpenInterruptPipe
  <2>1. pc["start"] = "openInt" /\ UNCHANGED <<intArmed, reads>>
    BY <1>4, Zenon DEF OpenInterruptPipe, At, intVars
  <2>2. pc'["start"] = "cmdBuf" /\ queue' = queue /\ pc'["stop"] = pc["stop"]
    BY <1>0, <1>4 DEF OpenInterruptPipe, Goto, Threads
  <2>3. PipeFresh /\ PipeFresh' /\ reads + Len(done) = 0
    BY <1>1, <2>1, DoneLength DEF Opening, PipeInv, PipeFresh
  <2> QED BY <1>1, <1>2, <2>1, <2>2, <2>3 DEF Opening, PipeInv, PipeFresh
<1>5. CASE CreateCmdBuf
  <2>1. /\ pc["start"] = "cmdBuf" /\ ("int" \in held' <=> "int" \in held)
        /\ UNCHANGED <<intArmed, reads>> \/ ArmInterruptRead(intArmed)
    BY <1>5 DEF CreateCmdBuf, At
  <2>2. UNCHANGED <<intArmed, reads>> \/ EnsureArmed
    BY <1>0, <2>1, Zenon DEF EnsureArmed, ArmInterruptRead, PipeInv, PipeFresh
  <2>3. pc'["start"] \in {"send", "stop"}
    BY <1>0, <1>5 DEF CreateCmdBuf, Issue, Goto
  <2> QED BY <1>1, <1>2, <2>1, <2>2, <2>3, PipeStep DEF Opening
<1>6. CASE AllocateTransferResources \/ SetupNetworkInterface
  <2>1. UNCHANGED <<intArmed, reads>> /\ ("int" \in held' <=> "int" \in held)
    BY <1>6 DEF AllocateTransferResources, SetupNetworkInterface, Acquire, intVars
  <2>2. pc'["start"] \in {"setup", "send", "stop"}
    BY <1>0, <1>6 DEF AllocateTransferResources, SetupNetworkInterface, Acquire, Issue, Goto
  <2> QED BY <1>1, <1>2, <2>1, <2>2, PipeStep DEF Opening
<1>7. CASE AfterInit \/ AfterPermanentAddress \/ AfterCurrentAddress
  <2>1. UNCHANGED <<held, intArmed, reads>>
    BY <1>7, Zenon DEF AfterInit, AfterPermanentAddress, AfterCurrentAddress, ivarVars, intVars
  <2>2. pc'["start"] \in {"send", "alloc", "stop"}
    BY <1>0, <1>7 DEF AfterInit, AfterPermanentAddress, AfterCurrentAddress, Issue, Goto
  <2> QED BY <1>1, <1>2, <2>1, <2>2, PipeStep DEF Opening
<1>8. CASE StartCompletes \/ StartFailsLate
  <2>1. UNCHANGED <<held, intArmed, reads>>
    BY <1>8, Zenon DEF StartCompletes, StartFailsLate, ivarVars, intVars
  <2>2. pc'["start"] \in {"idle", "stop"}
    BY <1>0, <1>8 DEF StartCompletes, StartFailsLate, Finish, Goto
  <2> QED BY <1>1, <1>2, <2>1, <2>2, PipeStep DEF Opening
<1> QED BY <1>3, <1>4, <1>5, <1>6, <1>7, <1>8 DEF StartSteps

LEMMA PipeHandler ==
  ASSUME TypeInv, PipeInv, starts <= 1, NEW t \in Threads, Command(t) \/ StopSteps(t)
  PROVE  PipeInv'
<1>0. /\ starts \in Nat /\ pc \in [Threads -> Labels] /\ "start" \in Threads
  BY DEF TypeInv, DataOK, ControlOK, Threads
<1>1. CASE Command(t)
  <2>1. PICK l \in CommandLabels \cup {"ret", "crashed"} : pc' = [pc EXCEPT ![t] = l]
    BY <1>1, CommandStep
  <2>2. /\ UNCHANGED <<starts, held, done>> /\ pc[t] \in CommandLabels
        /\ UNCHANGED <<intArmed, reads>> \/ EnsureArmed
    BY <1>1, CommandStep
  <2>3. starts > 0
    BY <2>2, Underway DEF CommandLabels
  <2>4. CASE t = "start"
    <3>1. pc'["start"] \notin Opening
      BY <1>0, <2>1, <2>4 DEF CommandLabels, Opening
    <3> QED BY <2>2, <2>3, <3>1, PipeStep
  <2>5. CASE t # "start"
    <3>1. pc'["start"] = pc["start"] /\ t = "stop"
      BY <1>0, <2>1, <2>5 DEF Threads
    <3>2. pc["start"] \notin Opening
      BY <2>2, <3>1 DEF PipeInv, CommandLabels
    <3> QED BY <2>2, <2>3, <3>1, <3>2, PipeStep
  <2> QED BY <2>4, <2>5
<1>2. CASE StopFilter(t) \/ AfterFilterOff(t)
  <2>1. PICK l \in {"send", "release"} : pc' = [pc EXCEPT ![t] = l]
    BY <1>2, StopStep
  <2>2. UNCHANGED <<starts, held, intArmed, reads, done>> /\ pc[t] # "idle"
    BY <1>2, StopStep
  <2>3. starts > 0
    BY <2>2, Underway
  <2>4. pc'["start"] \notin Opening
    BY <1>0, <2>1, <2>2 DEF Opening, PipeInv, Threads
  <2> QED BY <2>2, <2>3, <2>4, PipeStep
<1>3. CASE Release(t)
  <2>1. pc[t] # "idle" /\ held' = {} /\ intArmed' = FALSE /\ starts' = starts
    BY <1>3, Zenon DEF Release, At, ClearFlags
  <2>2. starts > 0
    BY <2>1, Underway
  <2>3. pc' = [pc EXCEPT ![t] = "idle"] /\ pc[t] = "release"
    BY <1>3, Zenon DEF Release, At, Finish
  <2>4. pc'["start"] \notin Opening
    BY <1>0, <2>3 DEF Opening, PipeInv, Threads
  <2> QED BY <2>1, <2>2, <2>4 DEF Opening, PipeInv
<1> QED BY <1>1, <1>2, <1>3 DEF StopSteps

LEMMA PipeElsewhere ==
  ASSUME TypeInv, PipeInv, starts <= 1, InterruptReadComplete \/ ReadCompletes
  PROVE  PipeInv'
<1>1. UNCHANGED <<queue, pc, attached, starts, held>>
  BY Zenon DEF InterruptReadComplete, ReadCompletes, ivarVars
<1>2. intArmed \in BOOLEAN /\ Len(done) \in Nat /\ reads \in Nat
  BY DoneLength DEF TypeInv, DataOK
<1>3. CASE ReadCompletes
  <2>1. reads > 0 /\ reads' = reads - 1 /\ intArmed' = intArmed
    BY <1>3, Zenon DEF ReadCompletes, ivarVars
  <2>2. \E c \in Completions : done' = Append(done, c)
    <3>1. pending # <<>> => Head(pending) \in Completions
      BY HeadTailProperties DEF TypeInv, DataOK, Completions
    <3> QED BY <1>3, <3>1 DEF ReadCompletes, Completions
  <2>3. Len(done') = Len(done) + 1
    BY <2>2, DoneLength
  <2>4. reads' + Len(done') = reads + Len(done)
    BY <1>2, <2>1, <2>3
  <2> QED BY <1>1, <1>2, <2>1, <2>4 DEF PipeInv, PipeFresh, Opening
<1>4. CASE InterruptReadComplete
  <2>1. /\ done # <<>> /\ done' = Tail(done)
        /\ (intArmed' = FALSE /\ reads' = reads) \/ ArmInterruptRead(FALSE)
    BY <1>4 DEF InterruptReadComplete
  <2>2. Len(done') = Len(done) - 1 /\ Len(done) > 0
    BY <1>2, <2>1, DoneLength
  <2>3. "int" \in held => reads = 0 /\ Len(done') = 0
    BY <1>2, <2>2 DEF PipeInv
  <2>4. \/ intArmed' = FALSE /\ reads' = reads
        \/ "int" \in held /\ intArmed' = TRUE /\ reads' = reads + 1
    BY <2>1, Zenon DEF ArmInterruptRead
  <2> QED BY <1>1, <1>2, <2>1, <2>2, <2>3, <2>4 DEF PipeInv, PipeFresh, Opening
<1> QED BY <1>3, <1>4

LEMMA PipeNext ==
  ASSUME TypeInv, PipeInv, [Next]_vars
  PROVE  PipeInv'
<1>0. starts \in Nat
  BY DEF TypeInv, DataOK
<1>1. CASE starts <= 1
  <2>1. CASE UNCHANGED vars \/ DeviceAnswers \/ DeviceNotifies \/ Unplug
    <3>1. UNCHANGED <<queue, pc, attached, starts, held, intArmed, reads, done>>
      BY <2>1, Zenon DEF vars, DeviceAnswers, DeviceNotifies, Unplug, ivarVars, intVars
    <3> QED BY <3>1 DEF PipeInv, PipeFresh, Opening
  <2>2. Environment => PipeInv'
    BY <1>1, <2>1, PipeElsewhere DEF Environment
  <2>3. ASSUME NEW t \in Threads, Command(t) \/ StopSteps(t) PROVE PipeInv'
    BY <1>1, <2>3, PipeHandler
  <2>4. InterruptReadComplete \/ StartSteps => PipeInv'
    BY <1>1, PipeElsewhere, PipeStartSteps
  <2> QED BY <2>1, <2>2, <2>3, <2>4, PipeEntry, Zenon DEF Next
<1>2. CASE ~(starts <= 1)
  <2>1. starts' = starts \/ starts' = starts + 1
    <3>1. ASSUME NEW t \in Threads, Command(t) \/ StopSteps(t) PROVE starts' = starts
      BY <3>1, CommandStep, StopStep, Zenon DEF StopSteps, Release
    <3>2. StartSteps => starts' = starts
      BY StartStep, Zenon DEF StartCompletes
    <3>3. StartSuperFails \/ StartEntry \/ StopEntry => starts' = starts \/ starts' = starts + 1
      BY Zenon DEF StartSuperFails, StartEntry, StopEntry
    <3>4. InterruptReadComplete \/ Environment \/ UNCHANGED vars => starts' = starts
      BY Zenon DEF InterruptReadComplete, Environment, DeviceAnswers, DeviceNotifies,
         ReadCompletes, Unplug, vars
    <3> QED BY <3>1, <3>2, <3>3, <3>4, Zenon DEF Next
  <2> QED BY <1>0, <1>2, <2>1 DEF PipeInv
<1> QED BY <1>1, <1>2

\* In every session: intArmed is set only with a read that is outstanding or not
\* dispatched yet.  A dispatch takes one away, and clears intArmed first.
ArmedInv == intArmed => Listening

LEMMA ArmedHandler ==
  ASSUME TypeInv, ArmedInv, NEW t \in Threads, Command(t) \/ StopSteps(t) \/ StartSteps
  PROVE  ArmedInv'
<1>0. intArmed \in BOOLEAN /\ Len(done) \in Nat /\ reads \in Nat
  BY DoneLength DEF TypeInv, DataOK
<1>1. CASE Release(t)
  <2>1. intArmed' = FALSE
    BY <1>1, Zenon DEF Release, ClearFlags
  <2> QED BY <2>1 DEF ArmedInv
<1>2. CASE ~Release(t)
  <2>1. done' = done /\ (EnsureArmed \/ ArmInterruptRead(intArmed) \/ UNCHANGED <<intArmed, reads>>)
    <3>1. Command(t) \/ StopFilter(t) \/ AfterFilterOff(t) =>
            done' = done /\ (EnsureArmed \/ UNCHANGED <<intArmed, reads>>)
      BY CommandStep, StopStep
    <3>2. StartSteps => done' = done
      BY StartStep, Zenon DEF StartCompletes, intVars
    <3>3. StartSteps => ArmInterruptRead(intArmed) \/ UNCHANGED <<intArmed, reads>>
      BY Zenon DEF StartSteps, OpenCommInterface, OpenDataInterface, AllocateTransferResources,
         Acquire, OpenInterruptPipe, CreateCmdBuf, AfterInit, AfterPermanentAddress,
         AfterCurrentAddress, SetupNetworkInterface, StartCompletes, StartFailsLate, ivarVars,
         intVars
    <3> QED BY <1>2, <3>1, <3>2, <3>3 DEF StopSteps
  <2>2. \/ intArmed' = intArmed /\ reads' = reads
        \/ intArmed' = FALSE /\ reads' = reads
        \/ reads' = reads + 1
    BY <1>0, <2>1 DEF EnsureArmed, ArmInterruptRead
  <2>3. done' = done
    BY <2>1
  <2>4. reads' = reads + 1 => Listening'
    BY <1>0, <2>3 DEF Listening
  <2>5. reads' = reads => (Listening' <=> Listening)
    BY <2>3 DEF Listening
  <2> QED BY <2>2, <2>4, <2>5, Zenon DEF ArmedInv
<1> QED BY <1>1, <1>2

\* What a completion of a read and its dispatch do to the reads.
LEMMA ReadPosted ==
  ASSUME TypeInv, ReadCompletes
  PROVE  /\ reads > 0 /\ reads' = reads - 1 /\ Len(done') = Len(done) + 1
         /\ UNCHANGED <<intArmed, held, serial>>
<1>1. reads > 0 /\ reads' = reads - 1 /\ UNCHANGED <<intArmed, held, serial>>
  BY Zenon DEF ReadCompletes, ivarVars
<1>2. \E c \in Completions : done' = Append(done, c)
  <2>1. pending # <<>> => Head(pending) \in Completions
    BY HeadTailProperties DEF TypeInv, DataOK, Completions
  <2> QED BY <2>1 DEF ReadCompletes, Completions
<1> QED BY <1>1, <1>2, DoneLength

LEMMA ReadDispatched ==
  ASSUME TypeInv, InterruptReadComplete
  PROVE  /\ done # <<>> /\ done' = Tail(done) /\ Len(done') = Len(done) - 1 /\ Len(done) > 0
         /\ UNCHANGED <<held, serial>>
         /\ \/ ~Ignored(Head(done)) /\ ArmInterruptRead(FALSE)
            \/ Ignored(Head(done)) /\ intArmed' = FALSE /\ reads' = reads
<1>1. done # <<>> /\ done' = Tail(done) /\ UNCHANGED <<held, serial>>
  BY Zenon DEF InterruptReadComplete
<1>2. \/ ~Ignored(Head(done)) /\ ArmInterruptRead(FALSE)
      \/ Ignored(Head(done)) /\ intArmed' = FALSE /\ reads' = reads
  BY DEF InterruptReadComplete, RearmAfter
<1>3. Len(done') = Len(done) - 1 /\ Len(done) > 0
  BY <1>1, DoneLength
<1> QED BY <1>1, <1>2, <1>3, Zenon

LEMMA ArmedNext ==
  ASSUME TypeInv, ArmedInv, [Next]_vars
  PROVE  ArmedInv'
<1>0. intArmed \in BOOLEAN /\ Len(done) \in Nat /\ reads \in Nat
  BY DoneLength DEF TypeInv, DataOK
<1>1. CASE \/ StartSuperFails \/ StartEntry \/ StopEntry \/ DeviceAnswers \/ DeviceNotifies
           \/ Unplug \/ UNCHANGED vars
  <2>1. UNCHANGED <<intArmed, reads, done>>
    BY <1>1, Zenon DEF StartSuperFails, StartEntry, StopEntry, DeviceAnswers, DeviceNotifies,
       Unplug, vars, ivarVars, intVars
  <2> QED BY <2>1 DEF ArmedInv, Listening
<1>2. CASE ReadCompletes
  BY <1>0, <1>2, ReadPosted DEF ArmedInv, Listening
<1>3. CASE InterruptReadComplete
  <2>1. intArmed' = FALSE \/ reads' = reads + 1
    BY <1>3, ReadDispatched DEF ArmInterruptRead
  <2>2. Len(done') \in Nat
    BY <1>0, <1>3, ReadDispatched
  <2> QED BY <1>0, <2>1, <2>2 DEF ArmedInv, Listening
<1>4. ASSUME NEW t \in Threads, Command(t) \/ StopSteps(t) \/ StartSteps PROVE ArmedInv'
  BY <1>4, ArmedHandler
<1>5. "start" \in Threads
  BY DEF Threads
<1> QED BY <1>1, <1>2, <1>3, <1>4, <1>5, Zenon DEF Next, Environment

LEMMA ArmedInvariant == Spec => []ArmedInv
<1>1. Init => ArmedInv
  BY DEF Init, ArmedInv
<1> QED BY <1>1, ArmedNext, TypeInvariant, PTL DEF Spec

\* intArmed never says that a read is queued when none is outstanding or waiting to
\* be dispatched; and until a second call of Start there is at most one, the pipe
\* being held, and intArmed says whether there is one: the read that rndisCommand
\* and the completion may both want to queue never shares intBuf with another.
\* All of this whether or not Stop overlaps Start.
THEOREM InterruptReadIsSingle == Spec => []OneInterruptRead
<1>1. Init => PipeInv
  <2>1. Init => Len(done) = 0
    BY EmptySeq DEF Init
  <2> QED BY <2>1 DEF Init, PipeInv, PipeFresh, Opening, Threads
<1>2. TypeInv /\ PipeInv /\ [Next]_vars => PipeInv'
  BY PipeNext
<1>3. ArmedInv /\ PipeInv => OneInterruptRead
  BY DEF ArmedInv, PipeInv, OneInterruptRead
<1> QED BY <1>1, <1>2, <1>3, ArmedInvariant, TypeInvariant, PTL DEF Spec

=============================================================================
