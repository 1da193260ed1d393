-------------------------- MODULE DriverLifecycle --------------------------
(***************************************************************************)
(* Start, Stop, the RNDIS command exchange and the interrupt-IN pipe of    *)
(* TetherKitDriver.cpp, with the USB device and host controller they talk  *)
(* to.                                                                     *)
(*                                                                         *)
(* Every _Impl method and completion runs on the driver's serial dispatch  *)
(* queue.  A handler keeps the queue from its first line to its return,    *)
(* except while it is inside IOSleep(), where the queue is yielded and     *)
(* other handlers run (comment in rndisCommand, TetherKitDriver.cpp        *)
(* 1133-1137).  A step of this module is the code between two points where *)
(* another party can be observed: a USB request or an IOSleep.             *)
(***************************************************************************)
EXTENDS Naturals, Sequences, FiniteSets

CONSTANTS
  WaitMaxTicks,        \* kWaitMaxTicks: 5 ms ticks waited for RESPONSE_AVAILABLE
  MaxAttempts,         \* kMaxAttempts: polls when no notification was seen
  PostNotifyAttempts,  \* kPostNotifyAttempts: polls after a notification
  XidMod,              \* 2^32: rndisXid is a uint32_t
  MaxStarts,           \* bound: calls of Start
  MaxNotes,            \* bound: notifications the device sends
  StopOverlapsStart,   \* Stop may be dispatched while Start sleeps
  ArmMayFail           \* AsyncIO on the interrupt pipe may be refused

ASSUME BoundsAssumption ==
  /\ WaitMaxTicks \in Nat /\ MaxAttempts \in Nat /\ PostNotifyAttempts \in Nat
  /\ MaxStarts \in Nat /\ MaxNotes \in Nat
ASSUME XidAssumption == XidMod \in Nat /\ XidMod > 2
ASSUME SwitchAssumption ==
  StopOverlapsStart \in BOOLEAN /\ ArmMayFail \in BOOLEAN

(***************************************************************************)
(* The two handlers that can be suspended in an IOSleep.  Start's bail     *)
(* label calls Stop_Impl, so "start" also goes through Stop's labels.      *)
(***************************************************************************)
Threads == {"start", "stop"}

\* Where a handler is.  In "tick" and "retry" it is inside IOSleep.
Sleeping == {"tick", "retry"}
Labels == Sleeping \cup
  {"idle", "openComm", "openData", "openInt", "cmdBuf", "send", "wait", "get",
   "ret", "alloc", "setup", "stop", "release", "crashed"}

\* The pointers of TetherKitDriver_IVars that may be non-NULL.  "int" stands
\* for intPipe, intBuf and intAction, which are set and cleared together,
\* "bufs" for the IN and OUT transfer buffers and their actions.
Resources == {"comm", "data", "in", "out", "int", "cmd", "bufs", "pool", "tx", "rx"}

\* The commands: rndisInit, the two MAC queries, and the packet filter set to
\* RNDIS_DEFAULT_FILTER by Start and to 0 by Stop.
Requests == {"init", "permanent", "current", "filterOn", "filterOff"}
MsgType(r) == CASE r = "init" -> "INIT"
                [] r \in {"permanent", "current"} -> "QUERY"
                [] r \in {"filterOn", "filterOff"} -> "SET"

\* What a completed exchange can be: "ok", a status or length the driver
\* rejects, or a query answer without six usable bytes.
Verdicts(r) == {"ok", "error"} \cup IF MsgType(r) = "QUERY" THEN {"short"} ELSE {}

\* A message in cmdBuf or in transit.  verdict = "request" marks the request;
\* any other value marks the completion.  serial is a history value, the
\* position of the command among all commands sent; no step of the driver
\* reads it.
Messages == [req: Requests, xid: 0 .. XidMod - 1, serial: Nat,
             verdict: {"request", "ok", "error", "short"}]
NoMessage == [req |-> "none"]

Calls == [req: Requests, xid: 0 .. XidMod - 1, serial: Nat,
          ticks: 0 .. WaitMaxTicks, tries: Nat, limit: Nat,
          ret: {"pending", "ok", "short", "error"}]

LinkNotes == {"connect", "disconnect"}
LinkOf(n) == IF n = "connect" THEN "active" ELSE "inactive"
Notes == {"response"} \cup LinkNotes
\* A completion the controller has posted for the interrupt read: the
\* notification that was read, a transfer error, or an isUsbGoneStatus.
Completions == Notes \cup {"stalled", "gone"}

VARIABLES
  queue,              \* who holds the dispatch queue: a thread, or "free"
  pc, call,           \* per thread: label, and the locals of rndisCommand
  attached,           \* Start was called and neither failed nor was followed by Stop
  starts,             \* number of calls of Start
  held,               \* ivars pointers that are not NULL
  running, rndisInitDone, intArmed, responseAvailable, rndisXid,
  cmdBuf,             \* contents of the command buffer
  link,               \* last reportLinkStatus
  serial,             \* history: commands sent so far
  alive, devReady, devFilter, \* the device: plugged in, initialised, forwarding packets
  inbox, outbox,      \* the device's control pipe: requests taken, answers waiting
  pending,            \* notifications the device has for the interrupt endpoint
  notes,              \* number of notifications the device has sent
  reads,              \* interrupt reads outstanding at the controller
  done,               \* completions posted to the dispatch queue
  media               \* history: the link the device last announced; unknown when
                      \* that was dropped unread, or in an earlier session

ivarVars == <<held, running, rndisInitDone, intArmed, responseAvailable, rndisXid, cmdBuf>>
devVars  == <<alive, devReady, devFilter, inbox, outbox>>
intVars  == <<pending, notes, reads, done, media>>
vars == <<queue, pc, call, attached, starts, ivarVars, link, serial, devVars, intVars>>

TypeOK ==
  /\ queue \in Threads \cup {"free"}
  /\ pc \in [Threads -> Labels]
  /\ call \in [Threads -> Calls]
  /\ attached \in BOOLEAN /\ starts \in Nat
  /\ held \in SUBSET Resources
  /\ running \in BOOLEAN /\ rndisInitDone \in BOOLEAN
  /\ intArmed \in BOOLEAN /\ responseAvailable \in BOOLEAN
  /\ rndisXid \in 0 .. XidMod - 1
  /\ cmdBuf \in Messages \cup {NoMessage}
  /\ link \in {"none", "invalid", "active", "inactive"}
  /\ serial \in Nat
  /\ alive \in BOOLEAN /\ devReady \in BOOLEAN /\ devFilter \in BOOLEAN
  /\ inbox \in Seq(Messages) /\ outbox \in Seq(Messages)
  /\ pending \in Seq(Notes) /\ notes \in Nat
  /\ reads \in Nat /\ done \in Seq(Completions)
  /\ media \in {"unknown", "active", "inactive"}

NoCall == [req |-> "init", xid |-> 0, serial |-> 0, ticks |-> 0, tries |-> 0,
           limit |-> 0, ret |-> "pending"]

\* init(): the ivars are zeroed and rndisXid is 1.
Init ==
  /\ queue = "free"
  /\ pc = [t \in Threads |-> "idle"] /\ call = [t \in Threads |-> NoCall]
  /\ attached = FALSE /\ starts = 0
  /\ held = {} /\ running = FALSE /\ rndisInitDone = FALSE
  /\ intArmed = FALSE /\ responseAvailable = FALSE /\ rndisXid = 1
  /\ cmdBuf = NoMessage /\ link = "none" /\ serial = 0
  /\ alive = TRUE /\ devReady = FALSE /\ devFilter = FALSE
  /\ inbox = <<>> /\ outbox = <<>> /\ pending = <<>> /\ notes = 0
  /\ reads = 0 /\ done = <<>> /\ media = "unknown"

----------------------------------------------------------------------------
(***************************************************************************)
(* Control flow shared by the handlers.                                    *)
(***************************************************************************)
At(t, l) == queue = t /\ pc[t] = l

Goto(t, l) == pc' = [pc EXCEPT ![t] = l] /\ UNCHANGED queue

\* IOSleep(): the thread is suspended and the queue runs other handlers.  The
\* behaviours of an IOSleep that keeps the queue are among those of this one.
Sleep(t, l) ==
  pc' = [pc EXCEPT ![t] = l] /\ queue' = "free"

\* The sleep is over and the queue dispatches the thread again.
Wake(t, l) == pc[t] = l /\ queue = "free" /\ queue' = t

\* The handler returns to the dispatch queue.
Finish(t) ==
  /\ pc' = [pc EXCEPT ![t] = "idle"] /\ queue' = "free"
  /\ call' = [call EXCEPT ![t] = NoCall]

\* The caller builds message r in cmdBuf and calls rndisCommand.
Issue(t, r) ==
  /\ Goto(t, "send")
  /\ call' = [call EXCEPT ![t] = [NoCall EXCEPT !.req = r]]

\* rndisCommand returns to its caller.
Return(t, r) ==
  /\ Goto(t, "ret")
  /\ call' = [call EXCEPT ![t].ret = r, ![t].ticks = 0, ![t].tries = 0, ![t].limit = 0]

(***************************************************************************)
(* armInterruptRead: queue one interrupt read when there is a pipe and the *)
(* controller accepts it.  armed is intArmed as the caller leaves it.      *)
(***************************************************************************)
ArmInterruptRead(armed) ==
  IF "int" \notin held THEN intArmed' = armed /\ UNCHANGED reads
  ELSE \/ alive /\ intArmed' = TRUE /\ reads' = reads + 1
       \/ (~alive \/ ArmMayFail) /\ intArmed' = armed /\ UNCHANGED reads

----------------------------------------------------------------------------
(***************************************************************************)
(* Start_Impl up to the first command.                                     *)
(***************************************************************************)
\* Start(provider, SUPERDISPATCH) may fail, and Start_Impl then returns
\* without calling Stop_Impl.
StartSuperFails ==
  /\ queue = "free" /\ ~attached /\ starts < MaxStarts
  /\ \A t \in Threads : pc[t] = "idle"
  /\ starts' = starts + 1
  /\ UNCHANGED <<queue, pc, call, attached, ivarVars, link, serial, devVars, intVars>>

StartEntry ==
  /\ queue = "free" /\ ~attached /\ starts < MaxStarts
  /\ \A t \in Threads : pc[t] = "idle"
  /\ starts' = starts + 1 /\ attached' = TRUE
  /\ queue' = "start" /\ pc' = [pc EXCEPT !["start"] = "openComm"]
  /\ UNCHANGED <<call, ivarVars, link, serial, devVars, intVars>>

\* A step of Start_Impl that acquires got and goes on at next, or fails after
\* acquiring part of it and bails out.
Acquire(next, got, partial) ==
  /\ \/ held' = held \cup got /\ Goto("start", next)
     \/ \E some \in partial : held' = held \cup some /\ Goto("start", "stop")
  /\ UNCHANGED <<call, attached, starts, running, rndisInitDone, intArmed,
                 responseAvailable, rndisXid, cmdBuf, link, serial, devVars, intVars>>

\* Either personality: the interface is found and opened.  In the interface
\* personality a descriptor can be missing after commInterface is set.  The scan
\* of the device personality for the interface is left out: it keeps nothing.
OpenCommInterface ==
  At("start", "openComm") /\ Acquire("openData", {"comm"}, {{}, {"comm"}})

\* openDataInterface once its scan for the interface is over: the interface is
\* opened, then both pipes are looked up, and either can be missing.
OpenDataInterface ==
  At("start", "openData") /\
  Acquire("openInt", {"data", "in", "out"}, {{}, {"data"}, {"data", "in"}, {"data", "out"}})

\* openInterruptPipe: absence of the endpoint and any failure are not fatal.
OpenInterruptPipe ==
  /\ At("start", "openInt") /\ Goto("start", "cmdBuf")
  /\ held' \in {held, held \cup {"int"}}
  /\ UNCHANGED <<call, attached, starts, running, rndisInitDone, intArmed,
                 responseAvailable, rndisXid, cmdBuf, link, serial, devVars, intVars>>

\* Creates cmdBuf, arms the interrupt read and calls rndisInit.
CreateCmdBuf ==
  /\ At("start", "cmdBuf")
  /\ \/ /\ held' = held \cup {"cmd"} /\ ArmInterruptRead(intArmed)
        /\ Issue("start", "init")
     \/ Goto("start", "stop") /\ UNCHANGED <<held, intArmed, reads, call>>
  /\ UNCHANGED <<attached, starts, running, rndisInitDone, responseAvailable, rndisXid,
                 cmdBuf, link, serial, devVars, pending, notes, done, media>>

----------------------------------------------------------------------------
(***************************************************************************)
(* rndisCommand.                                                           *)
(***************************************************************************)
\* rndisInit and rndisQuery call cmdBuf->Map without testing the pointer;
\* rndisSetPacketFilter tests it.
CommandDereferencesNull(t) ==
  /\ At(t, "send") /\ "cmd" \notin held
  /\ call[t].req \notin {"filterOn", "filterOff"}
  /\ Goto(t, "crashed")
  /\ UNCHANGED <<call, attached, starts, ivarVars, link, serial, devVars, intVars>>

\* A NULL commInterface or cmdBuf, or a failed Map: nothing is sent.
CommandRefused(t) ==
  /\ At(t, "send")
  /\ "cmd" \in held \/ call[t].req \in {"filterOn", "filterOff"}
  /\ Return(t, "error")
  /\ UNCHANGED <<attached, starts, ivarVars, link, serial, devVars, intVars>>

\* Faulty variants, for the mutation runs.
AssignXid_NoSkip(x) == [xid |-> x, next |-> (x + 1) % XidMod]
IsCompletionOf_AnyId(c, m) == m.verdict # "request" /\ MsgType(m.req) = MsgType(c.req)

AssignXid_NoWrap(x) ==
  IF x = 0 THEN [xid |-> 1, next |-> 2] ELSE [xid |-> x, next |-> x + 1]

\* The request id: rndisXid++, once more when that gave 0.
AssignXid(x) ==
  IF x = 0 THEN [xid |-> 1, next |-> 2] ELSE [xid |-> x, next |-> (x + 1) % XidMod]

\* The answer is a completion of the type sent, and carries the id sent.
IsCompletionOf(c, m) ==
  /\ m.verdict # "request"
  /\ MsgType(m.req) = MsgType(c.req)
  /\ m.xid = c.xid

\* A faulty variant: a read is queued whether or not one is outstanding.
EnsureArmed_Always == ArmInterruptRead(intArmed)
EnsureArmed == IF intArmed THEN UNCHANGED <<intArmed, reads>> ELSE ArmInterruptRead(FALSE)

\* The id is assigned, the gate cleared and the interrupt read armed BEFORE
\* the request leaves.  The request may reach the device though the transfer
\* reports a failure or a short count.
SendCommand(t) ==
  LET id == AssignXid(rndisXid)
      request == [req |-> call[t].req, xid |-> id.xid, serial |-> serial + 1,
                  verdict |-> "request"]
      begun == [call[t] EXCEPT !.xid = id.xid, !.serial = serial + 1,
                               !.limit = IF "int" \in held THEN 0 ELSE MaxAttempts]
  IN /\ At(t, "send") /\ {"cmd", "comm"} \subseteq held
     /\ rndisXid' = id.next /\ cmdBuf' = request /\ serial' = serial + 1
     /\ responseAvailable' = (responseAvailable /\ "int" \notin held)
     /\ EnsureArmed
     /\ \/ /\ alive /\ inbox' = Append(inbox, request)
           /\ Goto(t, IF "int" \in held THEN "wait" ELSE "get")
           /\ call' = [call EXCEPT ![t] = begun]
        \/ /\ (alive /\ inbox' = Append(inbox, request)) \/ UNCHANGED inbox
           /\ Goto(t, "ret")
           /\ call' = [call EXCEPT ![t] = [begun EXCEPT !.ret = "error", !.limit = 0]]
     /\ UNCHANGED <<attached, starts, held, running, rndisInitDone, link, alive, devReady,
                    devFilter, outbox, pending, notes, done, media>>

\* The wait loop ends when a tick begins with the gate open, or the ticks are
\* used up; a gate that opens during the last tick is not looked at.
WaitOver(t) ==
  /\ At(t, "wait")
  /\ responseAvailable \/ call[t].ticks = WaitMaxTicks
  /\ Goto(t, "get")
  /\ call' = [call EXCEPT ![t].limit =
                IF call[t].ticks < WaitMaxTicks THEN PostNotifyAttempts ELSE MaxAttempts]
  /\ UNCHANGED <<attached, starts, ivarVars, link, serial, devVars, intVars>>

WaitTick(t) ==
  /\ At(t, "wait") /\ ~responseAvailable /\ call[t].ticks < WaitMaxTicks
  /\ Sleep(t, "tick")
  /\ UNCHANGED <<call, attached, starts, ivarVars, link, serial, devVars, intVars>>

\* After the tick the driver looks for a teardown that ran meanwhile.
WakeTick(t) ==
  /\ Wake(t, "tick")
  /\ IF "comm" \in held
     THEN /\ pc' = [pc EXCEPT ![t] = "wait"]
          /\ call' = [call EXCEPT ![t].ticks = @ + 1]
     ELSE /\ pc' = [pc EXCEPT ![t] = "ret"]
          /\ call' = [call EXCEPT ![t].ret = "error", ![t].ticks = 0]
  /\ UNCHANGED <<attached, starts, ivarVars, link, serial, devVars, intVars>>

\* A faulty variant: the attempt is not counted.
Retry_Uncounted(t) == Sleep(t, "retry") /\ UNCHANGED call

\* A poll that gave no usable answer: sleep kRetryDelayMs, count the attempt.
Retry(t) == Sleep(t, "retry") /\ call' = [call EXCEPT ![t].tries = @ + 1]

\* Unlike the wait loop, the poll loop does not look at commInterface again
\* after its IOSleep.
WakeRetry(t) ==
  /\ Wake(t, "retry") /\ pc' = [pc EXCEPT ![t] = "get"]
  /\ UNCHANGED <<call, attached, starts, ivarVars, link, serial, devVars, intVars>>

PollsExhausted(t) ==
  /\ At(t, "get") /\ call[t].tries >= call[t].limit /\ Return(t, "error")
  /\ UNCHANGED <<attached, starts, ivarVars, link, serial, devVars, intVars>>

Polling(t) == At(t, "get") /\ call[t].tries < call[t].limit

GetDereferencesNull(t) ==
  /\ Polling(t) /\ "comm" \notin held /\ Goto(t, "crashed")
  /\ UNCHANGED <<call, attached, starts, ivarVars, link, serial, devVars, intVars>>

GetFails(t) ==
  /\ Polling(t) /\ "comm" \in held /\ Return(t, "error")
  /\ UNCHANGED <<attached, starts, ivarVars, link, serial, devVars, intVars>>

\* The device has no answer yet and returns a stub of under kMinResponseBytes.
GetStub(t) ==
  /\ Polling(t) /\ "comm" \in held /\ alive /\ outbox = <<>> /\ Retry(t)
  /\ UNCHANGED <<attached, starts, ivarVars, link, serial, devVars, intVars>>

\* An answer is read into cmdBuf; one that belongs to another request is
\* dropped and the poll repeated.
GetAnswer(t) ==
  /\ Polling(t) /\ "comm" \in held /\ alive /\ outbox # <<>>
  /\ cmdBuf' = Head(outbox) /\ outbox' = Tail(outbox)
  /\ IF IsCompletionOf(call[t], cmdBuf') THEN Return(t, cmdBuf'.verdict) ELSE Retry(t)
  /\ UNCHANGED <<attached, starts, held, running, rndisInitDone, intArmed, responseAvailable,
                 rndisXid, link, serial, alive, devReady, devFilter, inbox, intVars>>

----------------------------------------------------------------------------
(***************************************************************************)
(* Start_Impl after each command.                                          *)
(***************************************************************************)
Returned(t, r) == At(t, "ret") /\ call[t].req = r
Succeeded(t) == call[t].ret = "ok"

\* rndisInit: a failure bails out, success goes on to queryMacAddress.
AfterInit ==
  /\ Returned("start", "init")
  /\ rndisInitDone' = (rndisInitDone \/ Succeeded("start"))
  /\ IF Succeeded("start") THEN Issue("start", "permanent")
     ELSE Goto("start", "stop") /\ UNCHANGED call
  /\ UNCHANGED <<attached, starts, held, running, intArmed, responseAvailable, rndisXid, cmdBuf,
                 link, serial, devVars, intVars>>

\* queryMacAddress: any failure of the permanent address, a short answer
\* included, falls back to the current address.
AfterPermanentAddress ==
  /\ Returned("start", "permanent")
  /\ IF Succeeded("start") THEN Goto("start", "alloc") /\ UNCHANGED call
     ELSE Issue("start", "current")
  /\ UNCHANGED <<attached, starts, ivarVars, link, serial, devVars, intVars>>

AfterCurrentAddress ==
  /\ Returned("start", "current")
  /\ Goto("start", IF Succeeded("start") THEN "alloc" ELSE "stop")
  /\ UNCHANGED <<call, attached, starts, ivarVars, link, serial, devVars, intVars>>

AllocateTransferResources ==
  At("start", "alloc") /\ Acquire("setup", {"bufs"}, {{}, {"bufs"}})

\* Packet pool, queues and RegisterEthernetInterface, then the packet filter.
SetupNetworkInterface ==
  /\ At("start", "setup")
  /\ \/ held' = held \cup {"pool", "tx", "rx"} /\ Issue("start", "filterOn")
     \/ \E some \in {{}, {"pool"}, {"pool", "tx"}, {"pool", "tx", "rx"}} :
          held' = held \cup some /\ Goto("start", "stop") /\ UNCHANGED call
  /\ UNCHANGED <<attached, starts, running, rndisInitDone, intArmed, responseAvailable,
                 rndisXid, cmdBuf, link, serial, devVars, intVars>>

\* A faulty variant: the result of the filter command is not examined.
FilterAccepted_Unchecked(t) == call[t].ret \in {"ok", "error"}
FilterAccepted(t) == Succeeded(t)

\* The filter is set and the inbound reads are queued: the driver is up.
StartCompletes ==
  /\ Returned("start", "filterOn") /\ FilterAccepted("start") /\ Finish("start")
  /\ running' = TRUE /\ link' = "active"
  /\ UNCHANGED <<attached, starts, held, rndisInitDone, intArmed, responseAvailable,
                 rndisXid, cmdBuf, serial, devVars, intVars>>

\* The filter command or scheduleInboundReads failed.
StartFailsLate ==
  /\ Returned("start", "filterOn") /\ Goto("start", "stop")
  /\ UNCHANGED <<call, attached, starts, ivarVars, link, serial, devVars, intVars>>

----------------------------------------------------------------------------
(***************************************************************************)
(* Stop_Impl, called by the framework or from Start's bail label.          *)
(***************************************************************************)
StopEntry ==
  /\ queue = "free" /\ attached /\ pc["stop"] = "idle"
  /\ pc["start"] = "idle" \/ StopOverlapsStart
  /\ attached' = FALSE
  /\ queue' = "stop" /\ pc' = [pc EXCEPT !["stop"] = "stop"]
  /\ UNCHANGED <<call, starts, ivarVars, link, serial, devVars, intVars>>

\* The device is told to stop forwarding when it was ever initialised.
StopFilter(t) ==
  /\ At(t, "stop") /\ running' = FALSE
  /\ IF "comm" \in held /\ rndisInitDone THEN Issue(t, "filterOff")
     ELSE Goto(t, "release") /\ UNCHANGED call
  /\ UNCHANGED <<attached, starts, held, rndisInitDone, intArmed, responseAvailable, rndisXid,
                 cmdBuf, link, serial, devVars, intVars>>

\* The result of the filter command is not examined.
AfterFilterOff(t) ==
  /\ Returned(t, "filterOff") /\ Goto(t, "release")
  /\ UNCHANGED <<call, attached, starts, ivarVars, link, serial, devVars, intVars>>

\* A faulty variant: a later Start would skip the handshake.
ClearFlags_KeepInitDone ==
  intArmed' = FALSE /\ responseAvailable' = FALSE /\ UNCHANGED rndisInitDone
ClearFlags == intArmed' = FALSE /\ responseAvailable' = FALSE /\ rndisInitDone' = FALSE

\* An announcement of the link that the driver has not dispatched yet.
LinkNoteIn(queued) == \E i \in DOMAIN queued : queued[i] \in LinkNotes

\* From the link report to the return of Stop(provider, SUPERDISPATCH).  The
\* pipes are aborted asynchronously: the reads complete later, as aborted.
Release(t) ==
  /\ At(t, "release") /\ Finish(t)
  /\ link' = "invalid" /\ attached' = FALSE
  /\ held' = {} /\ cmdBuf' = NoMessage
  /\ ClearFlags
  /\ reads' = 0 /\ done' = done \o [i \in 1 .. reads |-> "gone"]
  /\ media' = IF LinkNoteIn(pending \o done) THEN media ELSE "unknown"
  /\ UNCHANGED <<starts, running, rndisXid, serial, devVars, pending, notes>>

----------------------------------------------------------------------------
(***************************************************************************)
(* InterruptReadComplete_Impl with handleNotification.                     *)
(***************************************************************************)
\* A faulty variant: notifications that come during Start are handled too.
Ignored_GoneOnly(c) == c = "gone"
\* The early return.
Ignored(c) == ~running \/ c = "gone"

\* A faulty variant: the read is re-armed only after a link notification.
RearmAfter_LinkOnly(c) == c \in {"connect", "disconnect"}
\* Every completion that passes the early return is followed by a re-arm.
RearmAfter(c) == TRUE

\* handleNotification finds no buffer when the pipe has been released (intBufAddr
\* is 0 then).
InterruptReadComplete ==
  /\ queue = "free" /\ done # <<>> /\ done' = Tail(done)
  /\ LET c == Head(done)
         handled == ~Ignored(c) /\ "int" \in held
     IN
     /\ responseAvailable' = (responseAvailable \/ (handled /\ c = "response"))
     /\ link' = IF handled /\ c \in LinkNotes THEN LinkOf(c) ELSE link
     /\ media' = IF ~handled /\ c \in LinkNotes /\ ~LinkNoteIn(pending \o done')
                 THEN "unknown" ELSE media
     /\ IF ~Ignored(c) /\ RearmAfter(c) THEN ArmInterruptRead(FALSE)
        ELSE intArmed' = FALSE /\ UNCHANGED reads
  /\ UNCHANGED <<queue, pc, call, attached, starts, held, running, rndisInitDone, rndisXid,
                 cmdBuf, serial, devVars, pending, notes>>

----------------------------------------------------------------------------
(***************************************************************************)
(* The device and the host controller (outside the repository): how the    *)
(* driver uses them says what they may do.                                 *)
(***************************************************************************)
\* The device executes m, unless it rejects it.
Execute(m) ==
  /\ devReady' = (devReady \/ m.req = "init")
  /\ devFilter' = CASE m.req = "filterOn" -> TRUE
                    [] m.req \in {"init", "filterOff"} -> FALSE
                    [] OTHER -> devFilter

\* Requests are taken in order, each is answered, and most devices announce
\* the answer on the interrupt endpoint.
DeviceAnswers ==
  /\ alive /\ inbox # <<>> /\ inbox' = Tail(inbox)
  /\ \E v \in Verdicts(Head(inbox).req) :
       /\ outbox' = Append(outbox, [Head(inbox) EXCEPT !.verdict = v])
       /\ Execute(Head(inbox)) \/ (v = "error" /\ UNCHANGED <<devReady, devFilter>>)
  /\ \/ UNCHANGED <<pending, notes>>
     \/ notes < MaxNotes /\ notes' = notes + 1 /\ pending' = Append(pending, "response")
  /\ UNCHANGED <<queue, pc, call, attached, starts, ivarVars, link, serial, alive, reads, done,
                 media>>

DeviceNotifies ==
  /\ alive /\ notes < MaxNotes /\ notes' = notes + 1
  /\ \E n \in LinkNotes :
       /\ pending' = Append(pending, n)
       /\ media' = LinkOf(n)
  /\ UNCHANGED <<queue, pc, call, attached, starts, ivarVars, link, serial, devVars, reads, done>>

\* An outstanding interrupt read completes: with the next notification, with
\* a transfer error, or with a status that isUsbGoneStatus names: a live device
\* may fail to respond, or the read be aborted.
ReadCompletes ==
  /\ reads > 0 /\ reads' = reads - 1
  /\ \/ alive /\ pending # <<>> /\ pending' = Tail(pending) /\ done' = Append(done, Head(pending))
     \/ alive /\ done' = Append(done, "stalled") /\ UNCHANGED pending
     \/ done' = Append(done, "gone") /\ UNCHANGED pending
  /\ UNCHANGED <<queue, pc, call, attached, starts, ivarVars, link, serial, devVars, notes, media>>

Unplug ==
  /\ alive /\ alive' = FALSE /\ devReady' = FALSE /\ devFilter' = FALSE
  /\ inbox' = <<>> /\ outbox' = <<>> /\ pending' = <<>>
  /\ UNCHANGED <<queue, pc, call, attached, starts, ivarVars, link, serial, notes, reads, done,
                 media>>

----------------------------------------------------------------------------
Command(t) ==
  \/ CommandDereferencesNull(t) \/ CommandRefused(t) \/ SendCommand(t)
  \/ WaitOver(t) \/ WaitTick(t) \/ WakeTick(t) \/ WakeRetry(t)
  \/ PollsExhausted(t) \/ GetDereferencesNull(t) \/ GetFails(t) \/ GetStub(t) \/ GetAnswer(t)

StartSteps ==
  \/ OpenCommInterface \/ OpenDataInterface \/ OpenInterruptPipe \/ CreateCmdBuf
  \/ AfterInit \/ AfterPermanentAddress \/ AfterCurrentAddress
  \/ AllocateTransferResources \/ SetupNetworkInterface \/ StartCompletes \/ StartFailsLate

StopSteps(t) == StopFilter(t) \/ AfterFilterOff(t) \/ Release(t)

Handler(t) == Command(t) \/ StopSteps(t) \/ (t = "start" /\ StartSteps)

Environment == DeviceAnswers \/ DeviceNotifies \/ ReadCompletes \/ Unplug

Next ==
  \/ StartSuperFails \/ StartEntry \/ StopEntry \/ InterruptReadComplete \/ Environment
  \/ StartSteps
  \/ \E t \in Threads : Command(t) \/ StopSteps(t)

Spec == Init /\ [][Next]_vars

\* A dispatched handler goes on: USB requests carry a timeout (kTimeoutMs),
\* IOSleep returns, and the serial queue dispatches whoever is ready.
FairSpec == Spec /\ \A t \in Threads : WF_vars(Handler(t))

----------------------------------------------------------------------------
(***************************************************************************)
(* Properties.                                                             *)
(***************************************************************************)
\* When rndisCommand reports a completed exchange, cmdBuf holds the answer to
\* the very command it sent (not a late answer to a command that timed out,
\* nor one that the other handler waits for), and the pointers its caller
\* dereferences next are still held.
AnswerIsMine ==
  \A t \in Threads :
    pc[t] = "ret" /\ call[t].ret \in {"ok", "short"} =>
      /\ cmdBuf # NoMessage /\ cmdBuf.serial = call[t].serial
      /\ {"comm", "cmd"} \subseteq held

\* While running is set, every pointer the data path and the completions
\* dereference is held, and the device is initialised and forwards packets:
\* no path through Start reaches running = true around a failed step.
UpMeansConfigured ==
  running => /\ Resources \ {"int"} \subseteq held
             /\ rndisInitDone /\ (alive => devReady /\ devFilter)

\* Once Start has failed or Stop has returned nothing is left behind: no
\* pointer, no flag of the handshake, no outstanding interrupt read, no link.
DownMeansReleased ==
  ~attached /\ (\A t \in Threads : pc[t] = "idle") =>
    /\ held = {} /\ ~running /\ ~rndisInitDone /\ ~intArmed /\ ~responseAvailable
    /\ reads = 0 /\ link # "active"

\* intArmed, by which a command decides not to queue a read, is never set without
\* a read that is outstanding or whose completion is still to be dispatched.  In
\* the first session it tells exactly whether there is one, and there are never two
\* on the one intBuf.  (After a restart an aborted read of the session before may
\* still be dispatched; it clears intArmed while a new read is out.)
Listening == reads + Len(done) > 0
OneInterruptRead ==
  /\ intArmed => Listening
  /\ starts <= 1 => /\ intArmed => reads + Len(done) = 1
                    /\ ~intArmed /\ "int" \in held => reads + Len(done) = 0

\* Request ids tell commands apart across the wrap of rndisXid: none is 0, and
\* two messages of one type in transit with one id are of one command.
InTransit == {inbox[i] : i \in DOMAIN inbox} \cup {outbox[i] : i \in DOMAIN outbox}
IdsDistinguish ==
  /\ \A m \in InTransit : m.xid # 0
  /\ \A m, n \in InTransit :
       MsgType(m.req) = MsgType(n.req) /\ m.xid = n.xid => m.serial = n.serial

\* A running driver shows the link of the last announcement that was dispatched
\* while it ran, and until there is one the active link that Start reported.  An
\* announcement dispatched before Start sets running is dropped, and shows
\* nowhere, even when it was the last one and said disconnected.
LinkIsAnnounced ==
  running /\ alive /\ ~LinkNoteIn(pending \o done) =>
    link = IF media = "unknown" THEN "active" ELSE media

\* A teardown whose filter command succeeded leaves a device that no longer
\* forwards packets, even when an earlier filter command was answered late.
OrderlyStopSilencesDevice ==
  [][\A t \in Threads :
       pc[t] = "release" /\ pc'[t] = "idle" /\ call[t].req = "filterOff" /\ call[t].ret = "ok"
         => ~devFilter']_vars

\* A completion is dispatched that is neither read nor followed by a re-arm.
DroppedUnread ==
  done # <<>> /\ done' = Tail(done) /\ (~running \/ Head(done) = "gone")

\* When AsyncIO accepts every read of a device that is there, a driver with an
\* interrupt pipe stops listening only at a completion that is dispatched before
\* Start sets running or after Stop clears it, or one that reports the device
\* gone, as a live device's may; and it listens again from the next command on.
\* (After the last command of Start nothing makes it listen again: DeafWhileUp.)
KeepsListening ==
  [][alive' /\ "int" \in held' =>
       /\ Listening => Listening' \/ DroppedUnread
       /\ serial' # serial => Listening']_vars

\* How far a handler is from its return: the stages left to Start_Impl and
\* Stop_Impl, a command counting as one, ...
InCommand == {"send", "wait", "get", "ret", "crashed"} \cup Sleeping
StageOf(t) == IF pc[t] \in InCommand THEN call[t].req ELSE pc[t]
StagesLeft(t) ==
  CASE StageOf(t) = "openComm" -> 13 [] StageOf(t) = "openData"  -> 12
    [] StageOf(t) = "openInt"  -> 11 [] StageOf(t) = "cmdBuf"    -> 10
    [] StageOf(t) = "init"     -> 9  [] StageOf(t) = "permanent" -> 8
    [] StageOf(t) = "current"  -> 7  [] StageOf(t) = "alloc"     -> 6
    [] StageOf(t) = "setup"    -> 5  [] StageOf(t) = "filterOn"  -> 4
    [] StageOf(t) = "stop"     -> 3  [] StageOf(t) = "filterOff" -> 2
    [] StageOf(t) = "release"  -> 1  [] OTHER -> 0

\* ... and the steps left to a command: two for each tick it may still wait,
\* then two for each poll it may still make.
TicksAhead(t) == WaitMaxTicks - call[t].ticks
PollsAhead(t) == call[t].limit - call[t].tries
MostPolls == MaxAttempts + PostNotifyAttempts
BudgetLeft(t) ==
  CASE pc[t] = "send"  -> 2 * WaitMaxTicks + 2 * MostPolls + 6
    [] pc[t] = "wait"  -> 2 * TicksAhead(t) + 2 * MostPolls + 5
    [] pc[t] = "tick"  -> 2 * TicksAhead(t) + 2 * MostPolls + 4
    [] pc[t] = "retry" -> 2 * PollsAhead(t) + 3
    [] pc[t] = "get"   -> 2 * PollsAhead(t) + 2
    [] pc[t] = "ret"   -> 1
    [] OTHER -> 0

\* A handler under way never goes back: each step of its own takes it to a later
\* stage or uses up part of what its command may take, whatever the device
\* answers and whatever the other handler did while it slept.
NeverGoesBack ==
  [][\A t \in Threads : pc[t] # "idle" =>
       \/ pc'[t] = pc[t] /\ call'[t] = call[t]
       \/ StagesLeft(t)' < StagesLeft(t)
       \/ StagesLeft(t)' = StagesLeft(t) /\ BudgetLeft(t)' < BudgetLeft(t)]_vars

\* Start and Stop return, whatever the device answers or fails to answer.
HandlersReturn == \A t \in Threads : (pc[t] # "idle") ~> (pc[t] = "idle")

----------------------------------------------------------------------------
(***************************************************************************)
(* What comments and documents say and the code does not do.  Each is the  *)
(* property of a run that shows the counterexample.                        *)
(***************************************************************************)
\* "IOSleep() yields the queue so InterruptReadComplete CAN fire between ticks
\* and set this flag" (TetherKitDriver.cpp 1135-1136): a RESPONSE_AVAILABLE
\* dispatched while a command waits opens its gate.
NotificationOpensGate ==
  [][(\E t \in Threads : pc[t] = "tick") /\ done # <<>> /\ Head(done) = "response"
       /\ done' = Tail(done) => responseAvailable']_vars

\* InterruptReadComplete "... then re-arms the read" (TetherKitDriver.iig
\* 181-184): a running driver with an interrupt pipe listens on it.
ListeningWhileUp == running /\ alive /\ "int" \in held => Listening

\* The wait loop looks after its IOSleep whether "teardown raced us" (the words of
\* docs/superpowers/plans/2026-05-01-tetherkit-followups.md 669 for the test at
\* TetherKitDriver.cpp 1174-1176): no handler goes on with a pointer that a
\* teardown set to NULL.
NoNullDereference == \A t \in Threads : pc[t] # "crashed"

\* Stop "cancels pending I/O, closes USB, deregisters the network interface"
\* (TetherKitDriver.iig 120-122): when it has returned the driver is not up.
StoppedStaysDown ==
  ~attached /\ (\A t \in Threads : pc[t] = "idle") => ~running
=============================================================================
