------------------------- MODULE ExtensionManager -------------------------
(***************************************************************************)
(* The loader app: SystemExtensionManager.swift with the buttons of        *)
(* ContentView.swift, the macOS service that answers its requests, and the *)
(* main queue that runs clicks, callbacks and the blocks of appendStatus   *)
(* one at a time.                                                          *)
(***************************************************************************)
EXTENDS Naturals, Sequences, Functions

CONSTANTS
  MaxLines,  \* lines the log keeps, 200
  MaxIds     \* bound: lines written in one run of the app

ASSUME LineAssumption == MaxLines \in Nat \ {0} /\ MaxIds \in Nat

Operations == {"install", "uninstall"}

\* What macOS has done with the driver, and DriverState.
Actual == {"notInstalled", "installed", "pendingInstallAfterReboot", "pendingUninstallAfterReboot"}
DriverStates == Actual \cup {"unknown", "waitingForApproval"}

VARIABLES
  isBusy, driverState, pendingOperation, stateBeforeRequest,
  nextLineId,
  statusLines,  \* the ids of the lines shown
  mainQueue,    \* the lines of appendStatus blocks not run yet
  view,         \* the buttons enabled when ContentView was last rendered
  requests,     \* operations submitted to macOS and not answered
  actual,       \* the driver as macOS has it
  late          \* history: lines that waited in mainQueue when the log was cleared

stateVars == <<isBusy, driverState, pendingOperation, stateBeforeRequest>>
logVars   == <<nextLineId, statusLines, mainQueue, late>>
vars == <<stateVars, logVars, view, requests, actual>>

Buttons == [install : BOOLEAN, uninstall : BOOLEAN, refresh : BOOLEAN]

TypeOK ==
  /\ isBusy \in BOOLEAN /\ driverState \in DriverStates
  /\ pendingOperation \in Operations \cup {"nil"} /\ stateBeforeRequest \in DriverStates
  /\ nextLineId \in Nat /\ mainQueue \in Seq(Nat)
  /\ statusLines \in Seq(Nat) /\ Len(statusLines) <= MaxLines
  /\ view \in Buttons /\ requests \in Seq(Operations) /\ actual \in Actual
  /\ late \subseteq Nat

canInstall ==
  ~isBusy /\ driverState \notin {"installed", "waitingForApproval", "pendingInstallAfterReboot"}
canUninstall == ~isBusy /\ driverState \notin {"notInstalled", "pendingUninstallAfterReboot"}

\* What is enabled at first: nothing is known of the driver.
AllEnabled == [install |-> TRUE, uninstall |-> TRUE, refresh |-> TRUE]

Init ==
  /\ isBusy = FALSE /\ driverState = "unknown" /\ pendingOperation = "nil"
  /\ stateBeforeRequest = "unknown"
  /\ nextLineId = 1 /\ statusLines = <<0>> /\ mainQueue = <<>> /\ late = {}
  /\ view = AllEnabled /\ requests = <<>> /\ actual \in Actual

----------------------------------------------------------------------------
(***************************************************************************)
(* The activity log.                                                       *)
(***************************************************************************)
\* Faulty variants: nothing is trimmed; the id of the line is used again; the
\* newest line is shown first.
Trim_None(lines) == lines
TakeId_Again == nextLineId' = nextLineId

\* At most MaxLines lines are kept.
Trim(lines) ==
  IF Len(lines) > MaxLines THEN SubSeq(lines, Len(lines) - MaxLines + 1, Len(lines)) ELSE lines

WithLine_First(id) == Trim(<<id>> \o statusLines)
WithLine(id) == Trim(Append(statusLines, id))

NewIds(n) == [i \in 1 .. n |-> nextLineId + i - 1]

\* n calls of appendStatus: each takes its id at once and leaves its line to a
\* block on the main queue.
AppendStatus(n) ==
  /\ nextLineId + n <= MaxIds
  /\ nextLineId' = nextLineId + n
  /\ mainQueue' = mainQueue \o NewIds(n)
  /\ UNCHANGED <<statusLines, late>>

\* The block of appendStatus.
ShowLine ==
  /\ mainQueue # <<>> /\ mainQueue' = Tail(mainQueue)
  /\ statusLines' = WithLine(Head(mainQueue))
  /\ UNCHANGED <<stateVars, nextLineId, late, view, requests, actual>>

TakeId == nextLineId' = nextLineId + 1
ClearLog ==
  /\ nextLineId < MaxIds /\ statusLines' = <<nextLineId>> /\ TakeId
  /\ late' = late \cup Range(mainQueue)
  /\ UNCHANGED <<stateVars, mainQueue, view, requests, actual>>

----------------------------------------------------------------------------
(***************************************************************************)
(* The buttons.  A click is dispatched on the view as it was rendered; the *)
(* state may have changed since.                                           *)
(***************************************************************************)
Render ==
  /\ view' = [install |-> canInstall, uninstall |-> canUninstall, refresh |-> ~isBusy]
  /\ UNCHANGED <<stateVars, logVars, requests, actual>>

\* A faulty variant: the button is relied on.
Guard_None == TRUE

Guard == ~isBusy

InstallDriver ==
  /\ view.install /\ Guard /\ isBusy' = TRUE /\ pendingOperation' = "install"
  /\ stateBeforeRequest' = driverState /\ driverState' = "waitingForApproval"
  /\ AppendStatus(1) /\ requests' = Append(requests, "install")
  /\ UNCHANGED <<view, actual>>

UninstallDriver ==
  /\ view.uninstall /\ Guard /\ isBusy' = TRUE /\ pendingOperation' = "uninstall"
  /\ stateBeforeRequest' = driverState /\ UNCHANGED driverState
  /\ AppendStatus(1) /\ requests' = Append(requests, "uninstall")
  /\ UNCHANGED <<view, actual>>

RefreshStatus ==
  /\ view.refresh /\ AppendStatus(2) /\ UNCHANGED <<stateVars, view, requests, actual>>

----------------------------------------------------------------------------
(***************************************************************************)
(* The callbacks of OSSystemExtensionRequestDelegate.                      *)
(***************************************************************************)
ReplacingExtension ==
  /\ "install" \in Range(requests)
  /\ AppendStatus(1) /\ UNCHANGED <<stateVars, view, requests, actual>>

NeedsUserApproval ==
  /\ requests # <<>> /\ driverState' = "waitingForApproval"
  /\ AppendStatus(2)
  /\ UNCHANGED <<isBusy, pendingOperation, stateBeforeRequest, view, requests, actual>>

Results == {"completed", "willCompleteAfterReboot", "unknown"}

\* What a result means for an operation; a result the app does not know of may
\* stand for anything.
Outcome(operation, result) ==
  CASE result = "completed" ->
         IF operation = "install" THEN "installed" ELSE "notInstalled"
    [] result = "willCompleteAfterReboot" ->
         IF operation = "install" THEN "pendingInstallAfterReboot" ELSE "pendingUninstallAfterReboot"
    [] OTHER -> "unknown"

\* The request is over, and its operation forgotten.
RequestOver ==
  /\ isBusy' = FALSE /\ pendingOperation' = "nil" /\ stateBeforeRequest' = driverState'
  /\ requests' = Tail(requests) /\ UNCHANGED view

DidFinish(result) ==
  /\ requests # <<>>
  /\ driverState' = Outcome(pendingOperation, result) /\ RequestOver
  /\ actual' \in Actual
  /\ result # "unknown" => actual' = Outcome(Head(requests), result)
  /\ AppendStatus(1)

\* A faulty variant: a failed operation is taken to have left no driver.
Restore_NotInstalled == driverState' = "notInstalled"

Restore ==
  driverState' = IF driverState = "waitingForApproval" THEN stateBeforeRequest ELSE driverState

\* The driver stays as it was; there may be a hint beside the message.
DidFail(lines) ==
  /\ requests # <<>> /\ Restore /\ RequestOver /\ UNCHANGED actual /\ AppendStatus(lines)

\* The app, or the machine, is started again; a request under way and a change
\* that waits for a reboot come out as they will.
Relaunch ==
  /\ isBusy' = FALSE /\ driverState' = "unknown" /\ pendingOperation' = "nil"
  /\ stateBeforeRequest' = "unknown"
  /\ nextLineId' = 1 /\ statusLines' = <<0>> /\ mainQueue' = <<>> /\ late' = {}
  /\ view' = AllEnabled /\ requests' = <<>> /\ actual' \in Actual

----------------------------------------------------------------------------
Clicks == ClearLog \/ InstallDriver \/ UninstallDriver \/ RefreshStatus
Callbacks ==
  \/ ReplacingExtension \/ NeedsUserApproval
  \/ (\E result \in Results : DidFinish(result)) \/ \E lines \in 1 .. 2 : DidFail(lines)

Next == ShowLine \/ Render \/ Clicks \/ Callbacks \/ Relaunch

Spec == Init /\ [][Next]_vars

----------------------------------------------------------------------------
(***************************************************************************)
(* Properties.                                                             *)
(***************************************************************************)
\* One request at a time is with macOS, the app is busy exactly while it is, an
\* answer is taken for the operation it answers, and approval is never said to
\* be waited for when nothing is asked: whatever clicks a stale view lets through.
RequestTracked ==
  /\ requests = IF isBusy THEN <<pendingOperation>> ELSE <<>>
  /\ ~isBusy => driverState # "waitingForApproval"

\* When no request is under way the state shown is the one the driver is in, or
\* unknown: after failures, with or without approval, as after results.
ShownIsActual == ~isBusy /\ driverState # "unknown" => driverState = actual

\* No two lines, shown or waiting, have the same id, which the view tells them by.
LineIdsDistinct ==
  /\ \A i, j \in DOMAIN statusLines : statusLines[i] = statusLines[j] => i = j
  /\ \A i, j \in DOMAIN mainQueue : mainQueue[i] = mainQueue[j] => i = j
  /\ Range(statusLines) \cap Range(mainQueue) = {}

\* Lines are shown in the order they were written, but for those that were still
\* waiting when the log was cleared: they come after the line that says so.
LogInOrder ==
  \A i, j \in DOMAIN statusLines :
    i < j => statusLines[i] < statusLines[j] \/ statusLines[j] \in late
===========================================================================
