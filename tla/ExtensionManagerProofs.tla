---------------------- MODULE ExtensionManagerProofs ----------------------
(***************************************************************************)
(* Theorems about the loader app, for a log of any length: requests are    *)
(* tracked one at a time, the state shown is the driver's, and lines have  *)
(* ids of their own and come in order.                                     *)
(***************************************************************************)
EXTENDS ExtensionManager, SequenceTheorems, TLAPS

(***************************************************************************)
(* The request.  stateBeforeRequest is always what a failure may restore:  *)
(* the driver's own state, or unknown.                                     *)
(***************************************************************************)
StateType ==
  /\ isBusy \in BOOLEAN /\ driverState \in DriverStates
  /\ pendingOperation \in Operations \cup {"nil"} /\ stateBeforeRequest \in DriverStates
  /\ view \in Buttons /\ requests \in Seq(Operations) /\ actual \in Actual

StateInv ==
  /\ StateType
  /\ RequestTracked
  /\ ~isBusy => pendingOperation = "nil" /\ stateBeforeRequest = driverState
  /\ isBusy => /\ pendingOperation \in Operations
               /\ driverState = "waitingForApproval" \/ driverState = stateBeforeRequest
  /\ stateBeforeRequest = "unknown" \/ stateBeforeRequest = actual

\* While a request is with macOS it is the only one.
LEMMA OneRequest ==
  ASSUME StateInv, requests # <<>>
  PROVE  /\ isBusy /\ Head(requests) = pendingOperation /\ Tail(requests) = <<>>
         /\ pendingOperation \in Operations
<1>1. isBusy /\ requests = <<pendingOperation>> /\ pendingOperation \in Operations
  BY DEF StateInv, RequestTracked
<1>2. Head(<<pendingOperation>>) = pendingOperation /\ Tail(<<pendingOperation>>) = <<>>
  BY <1>1, SMT
<1> QED BY <1>1, <1>2

LEMMA OutcomeFacts ==
  ASSUME NEW operation \in Operations, NEW result \in Results
  PROVE  /\ Outcome(operation, result) \in DriverStates
         /\ Outcome(operation, result) # "waitingForApproval"
         /\ Outcome(operation, result) = "unknown" <=> result = "unknown"
BY DEF Operations, Results, Outcome, DriverStates, Actual

LEMMA FreshState ==
  /\ FALSE \in BOOLEAN /\ "unknown" \in DriverStates /\ "nil" \in Operations \cup {"nil"}
  /\ AllEnabled \in Buttons /\ <<>> \in Seq(Operations)
<1>1. AllEnabled \in Buttons
  BY DEF AllEnabled, Buttons
<1>2. <<>> \in Seq(Operations)
  OBVIOUS
<1> QED BY <1>1, <1>2 DEF DriverStates

LEMMA StateInit == Init => StateInv
<1> SUFFICES ASSUME Init PROVE StateInv
  OBVIOUS
<1>1. StateType
  BY FreshState DEF Init, StateType
<1>2. isBusy = FALSE /\ requests = <<>> /\ driverState = "unknown"
  BY DEF Init
<1> QED BY <1>1, <1>2 DEF Init, StateInv, RequestTracked

LEMMA StateStep ==
  ASSUME StateInv, [Next]_vars
  PROVE  StateInv'
<1>0. StateType
  BY DEF StateInv
<1>1. CASE ShowLine \/ ClearLog \/ RefreshStatus \/ ReplacingExtension \/ UNCHANGED vars
  <2>1. UNCHANGED <<stateVars, view, requests, actual>>
    BY <1>1 DEF ShowLine, ClearLog, RefreshStatus, ReplacingExtension, vars
  <2> QED BY <2>1 DEF stateVars, StateInv, StateType, RequestTracked
<1>2. CASE Render
  <2>1. view' \in Buttons
    BY <1>0, <1>2 DEF Render, Buttons, canInstall, canUninstall, StateType
  <2>2. UNCHANGED <<isBusy, driverState, pendingOperation, stateBeforeRequest, requests, actual>>
    BY <1>2 DEF Render, stateVars
  <2> QED BY <2>1, <2>2 DEF StateInv, StateType, RequestTracked
<1>3. CASE InstallDriver
  <2>1. ~isBusy /\ requests = <<>>
    BY <1>3 DEF InstallDriver, Guard, StateInv, RequestTracked
  <2>2. requests' = <<"install">> /\ requests' \in Seq(Operations)
    <3>1. requests' = Append(requests, "install") /\ "install" \in Operations
      BY <1>3 DEF InstallDriver, Operations
    <3>2. Append(<<>>, "install") = <<"install">>
      BY SMT
    <3> QED BY <2>1, <3>1, <3>2, AppendProperties
  <2>3. /\ isBusy' = TRUE /\ pendingOperation' = "install" /\ stateBeforeRequest' = driverState
        /\ driverState' = "waitingForApproval" /\ actual' = actual /\ view' = view
    BY <1>3 DEF InstallDriver
  <2>4. StateType'
    BY <1>0, <2>2, <2>3 DEF StateType, Operations, DriverStates
  <2> QED BY <2>1, <2>2, <2>3, <2>4 DEF StateInv, RequestTracked, Operations
<1>4. CASE UninstallDriver
  <2>1. ~isBusy /\ requests = <<>>
    BY <1>4 DEF UninstallDriver, Guard, StateInv, RequestTracked
  <2>2. requests' = <<"uninstall">> /\ requests' \in Seq(Operations)
    <3>1. requests' = Append(requests, "uninstall") /\ "uninstall" \in Operations
      BY <1>4 DEF UninstallDriver, Operations
    <3>2. Append(<<>>, "uninstall") = <<"uninstall">>
      BY SMT
    <3> QED BY <2>1, <3>1, <3>2, AppendProperties
  <2>3. /\ isBusy' = TRUE /\ pendingOperation' = "uninstall" /\ stateBeforeRequest' = driverState
        /\ driverState' = driverState /\ actual' = actual /\ view' = view
    BY <1>4 DEF UninstallDriver
  <2>4. StateType'
    BY <1>0, <2>2, <2>3 DEF StateType, Operations
  <2> QED BY <2>1, <2>2, <2>3, <2>4 DEF StateInv, RequestTracked, Operations
<1>5. CASE NeedsUserApproval
  <2>1. isBusy
    BY <1>5, OneRequest DEF NeedsUserApproval
  <2>2. /\ driverState' = "waitingForApproval"
        /\ UNCHANGED <<isBusy, pendingOperation, stateBeforeRequest, view, requests, actual>>
    BY <1>5 DEF NeedsUserApproval
  <2>3. StateType'
    BY <1>0, <2>2 DEF StateType, DriverStates
  <2> QED BY <2>1, <2>2, <2>3 DEF StateInv, RequestTracked
<1>6. ASSUME NEW result \in Results, DidFinish(result)
      PROVE  StateInv'
  <2>1. /\ isBusy' = FALSE /\ pendingOperation' = "nil" /\ stateBeforeRequest' = driverState'
        /\ requests' = <<>> /\ view' = view /\ actual' \in Actual
        /\ pendingOperation \in Operations
        /\ driverState' = Outcome(pendingOperation, result)
        /\ result # "unknown" => actual' = Outcome(pendingOperation, result)
    BY <1>6, OneRequest DEF DidFinish, RequestOver
  <2>2. /\ driverState' \in DriverStates /\ driverState' # "waitingForApproval"
        /\ driverState' = "unknown" \/ driverState' = actual'
    BY <2>1, OutcomeFacts
  <2>3. StateType'
    BY <1>0, <2>1, <2>2, FreshState DEF StateType
  <2> QED BY <2>1, <2>2, <2>3 DEF StateInv, RequestTracked
<1>7. ASSUME NEW lines \in 1 .. 2, DidFail(lines)
      PROVE  StateInv'
  <2>1. isBusy
    BY <1>7, OneRequest DEF DidFail
  <2>2. /\ isBusy' = FALSE /\ pendingOperation' = "nil" /\ stateBeforeRequest' = driverState'
        /\ requests' = <<>> /\ view' = view /\ actual' = actual
        /\ driverState' = IF driverState = "waitingForApproval" THEN stateBeforeRequest
                          ELSE driverState
    BY <1>7, OneRequest DEF DidFail, RequestOver, Restore
  <2>3. driverState' = stateBeforeRequest
    BY <2>1, <2>2 DEF StateInv
  <2>4. stateBeforeRequest # "waitingForApproval" /\ stateBeforeRequest \in DriverStates
    BY <1>0 DEF StateInv, StateType, Actual
  <2>5. StateType'
    BY <1>0, <2>2, <2>3, <2>4, FreshState DEF StateType
  <2> QED BY <2>2, <2>3, <2>4, <2>5 DEF StateInv, RequestTracked
<1>8. CASE Relaunch
  <2>1. StateType'
    BY <1>8, FreshState DEF Relaunch, StateType
  <2>2. isBusy' = FALSE /\ requests' = <<>> /\ driverState' = "unknown"
    BY <1>8 DEF Relaunch
  <2> QED BY <1>8, <2>1, <2>2 DEF Relaunch, StateInv, RequestTracked
<1> QED BY <1>1, <1>2, <1>3, <1>4, <1>5, <1>6, <1>7, <1>8 DEF Next, Clicks, Callbacks

LEMMA StateInvariance == Spec => []StateInv
BY StateInit, StateStep, PTL DEF Spec

\* At most one request is with macOS, its answer is taken for its own operation,
\* and the app is busy exactly while it is, whatever a stale view lets through.
THEOREM RequestAlwaysTracked == Spec => []RequestTracked
<1>1. StateInv => RequestTracked
  BY DEF StateInv
<1> QED BY <1>1, StateInvariance, PTL

\* What is shown between requests is the driver's state or unknown.
THEOREM ShownIsAlwaysActual == Spec => []ShownIsActual
<1>1. StateInv => ShownIsActual
  BY DEF StateInv, ShownIsActual
<1> QED BY <1>1, StateInvariance, PTL

----------------------------------------------------------------------------
(***************************************************************************)
(* The log.  Lines wait in the order of their ids, and a line shown is     *)
(* older than one that waits unless the log was cleared in between.        *)
(***************************************************************************)
Shown(lines, next, l) ==
  /\ \A i \in DOMAIN lines : lines[i] < next
  /\ \A i, j \in DOMAIN lines : lines[i] = lines[j] => i = j
  /\ \A i, j \in DOMAIN lines : i < j => lines[i] < lines[j] \/ lines[j] \in l

Waiting(queue, next) ==
  /\ \A i \in DOMAIN queue : queue[i] < next
  /\ \A i, j \in DOMAIN queue : i < j => queue[i] < queue[j]

Between(lines, queue, l) ==
  \A i \in DOMAIN lines, j \in DOMAIN queue :
    /\ lines[i] # queue[j]
    /\ lines[i] < queue[j] \/ queue[j] \in l

LogType ==
  /\ nextLineId \in Nat /\ mainQueue \in Seq(Nat)
  /\ statusLines \in Seq(Nat) /\ Len(statusLines) <= MaxLines
  /\ late \subseteq Nat

LogInv ==
  /\ LogType
  /\ Shown(statusLines, nextLineId, late)
  /\ Waiting(mainQueue, nextLineId)
  /\ Between(statusLines, mainQueue, late)

\* Trimming keeps a tail of the lines.
LEMMA TrimFacts ==
  ASSUME NEW lines \in Seq(Nat)
  PROVE  /\ Trim(lines) \in Seq(Nat) /\ Len(Trim(lines)) <= MaxLines
         /\ \E k \in Nat : \A i \in DOMAIN Trim(lines) :
              i \in Nat /\ i + k \in DOMAIN lines /\ Trim(lines)[i] = lines[i + k]
<1>1. Len(lines) \in Nat /\ DOMAIN lines = 1 .. Len(lines) /\ MaxLines \in Nat /\ MaxLines > 0
  BY LenProperties, LineAssumption, SMT
<1>2. CASE Len(lines) > MaxLines
  <2> DEFINE k == Len(lines) - MaxLines
             t == SubSeq(lines, k + 1, Len(lines))
  <2>1. Trim(lines) = t
    BY <1>2 DEF Trim
  <2>2. k \in Nat /\ k + 1 \in 1 .. Len(lines) + 1 /\ Len(lines) \in k .. Len(lines)
    BY <1>1, <1>2, SMT
  <2>3. /\ t \in Seq(Nat) /\ Len(t) = MaxLines
        /\ \A i \in 1 .. Len(t) : t[i] = lines[i + k]
    <3>1. \A i \in (k + 1) .. Len(lines) : lines[i] \in Nat
      BY <1>1, <2>2, LenProperties, SMT
    <3>2. t = [i \in 1 .. MaxLines |-> lines[i + k]]
      BY <1>1, <1>2, <2>2, SMT
    <3>3. \A i \in 1 .. MaxLines : lines[i + k] \in Nat
      BY <1>1, <2>2, <3>1, SMT
    <3>4. t \in [1 .. MaxLines -> Nat]
      BY <3>2, <3>3
    <3>5. t \in Seq(Nat)
      BY <1>1, <3>4, SeqDef
    <3>6. Len(t) = MaxLines
      BY <1>1, <3>4, <3>5, LenProperties, SMT
    <3> QED BY <3>2, <3>5, <3>6
  <2>4. \A i \in DOMAIN t : i \in Nat /\ i + k \in DOMAIN lines /\ t[i] = lines[i + k]
    <3>1. DOMAIN t = 1 .. MaxLines
      BY <2>3, LenProperties
    <3> HIDE DEF t
    <3> QED BY <1>1, <1>2, <2>2, <2>3, <3>1, SMT
  <2> HIDE DEF k, t
  <2> QED BY <1>1, <2>1, <2>2, <2>3, <2>4, SMT
<1>3. CASE ~(Len(lines) > MaxLines)
  <2>1. Trim(lines) = lines
    BY <1>3 DEF Trim
  <2>2. \A i \in DOMAIN lines : i \in Nat /\ i + 0 \in DOMAIN lines /\ lines[i] = lines[i + 0]
    BY <1>1, SMT
  <2>3. 0 \in Nat /\ Len(lines) <= MaxLines
    BY <1>1, <1>3, SMT
  <2> QED BY <2>1, <2>2, <2>3
<1> QED BY <1>2, <1>3

LEMMA TrimKeeps ==
  ASSUME NEW lines \in Seq(Nat), NEW queue, NEW next, NEW l,
         Shown(lines, next, l), Between(lines, queue, l)
  PROVE  Shown(Trim(lines), next, l) /\ Between(Trim(lines), queue, l)
<1>1. PICK k \in Nat : \A i \in DOMAIN Trim(lines) :
        i \in Nat /\ i + k \in DOMAIN lines /\ Trim(lines)[i] = lines[i + k]
  BY TrimFacts
<1>2. ASSUME NEW i \in DOMAIN Trim(lines), NEW j \in DOMAIN Trim(lines)
      PROVE  (i + k = j + k => i = j) /\ (i < j => i + k < j + k)
  BY <1>1, SMT
<1>3. Shown(Trim(lines), next, l)
  BY <1>1, <1>2 DEF Shown
<1>4. Between(Trim(lines), queue, l)
  BY <1>1 DEF Between
<1> QED BY <1>3, <1>4

\* The next waiting line is shown.
LEMMA ShowKeeps ==
  ASSUME LogInv, mainQueue # <<>>
  PROVE  LET s == Append(statusLines, Head(mainQueue))
             q == Tail(mainQueue)
         IN  /\ s \in Seq(Nat) /\ q \in Seq(Nat)
             /\ Shown(s, nextLineId, late) /\ Waiting(q, nextLineId) /\ Between(s, q, late)
<1> DEFINE s == Append(statusLines, Head(mainQueue))
           q == Tail(mainQueue)
           n == Len(statusLines) + 1
<1>1. /\ statusLines \in Seq(Nat) /\ mainQueue \in Seq(Nat)
      /\ Len(statusLines) \in Nat /\ DOMAIN statusLines = 1 .. Len(statusLines)
      /\ Len(mainQueue) \in Nat /\ Len(mainQueue) > 0 /\ DOMAIN mainQueue = 1 .. Len(mainQueue)
  BY LenProperties, EmptySeq, SMT DEF LogInv, LogType
<1>2. /\ q \in Seq(Nat) /\ Len(q) = Len(mainQueue) - 1 /\ Head(mainQueue) = mainQueue[1]
      /\ \A i \in 1 .. Len(q) : q[i] = mainQueue[i + 1]
      /\ Head(mainQueue) \in Nat
  BY <1>1, HeadTailProperties, SMT
<1>3. DOMAIN q = 1 .. (Len(mainQueue) - 1)
  BY <1>2, LenProperties
<1>4. /\ s \in Seq(Nat) /\ Len(s) = n /\ s[n] = mainQueue[1]
      /\ \A i \in 1 .. Len(statusLines) : s[i] = statusLines[i]
  BY <1>1, <1>2, AppendProperties
<1>5. DOMAIN s = 1 .. n /\ \A i \in 1 .. n : i = n \/ i \in 1 .. Len(statusLines)
  BY <1>1, <1>4, LenProperties, SMT
<1>6. 1 \in DOMAIN mainQueue /\ \A i \in DOMAIN q : i + 1 \in DOMAIN mainQueue /\ 1 < i + 1
  BY <1>1, <1>3, SMT
<1>7. /\ \A i \in DOMAIN q : q[i] = mainQueue[i + 1]
      /\ \A i \in DOMAIN s : s[i] = mainQueue[1] \/ (i \in DOMAIN statusLines /\ s[i] = statusLines[i])
  BY <1>1, <1>2, <1>3, <1>4, <1>5
<1>8. Shown(s, nextLineId, late)
  <2>1. \A i \in DOMAIN s : s[i] < nextLineId
    BY <1>6, <1>7 DEF LogInv, Shown, Waiting
  <2>2. ASSUME NEW i \in DOMAIN statusLines
        PROVE  /\ s[i] = statusLines[i] /\ s[i] # s[n] /\ (s[i] < s[n] \/ s[n] \in late)
               /\ i # n /\ i < n /\ ~(n < i)
    BY <1>1, <1>4, <1>6, SMT DEF LogInv, Between
  <2>3. ASSUME NEW i \in DOMAIN s, NEW j \in DOMAIN s
        PROVE  (s[i] = s[j] => i = j) /\ (i < j => s[i] < s[j] \/ s[j] \in late)
    <3>1. CASE i \in DOMAIN statusLines /\ j \in DOMAIN statusLines
      BY <2>2, <3>1 DEF LogInv, Shown
    <3>2. CASE i \in DOMAIN statusLines /\ j = n
      BY <2>2, <3>2
    <3>3. CASE i = n /\ j \in DOMAIN statusLines
      BY <2>2, <3>3
    <3>4. CASE i = n /\ j = n
      BY <1>1, <3>4, SMT
    <3> QED BY <1>1, <1>5, <3>1, <3>2, <3>3, <3>4
  <2> QED BY <2>1, <2>3 DEF Shown
<1>9. Waiting(q, nextLineId)
  <2>1. ASSUME NEW i \in DOMAIN q, NEW j \in DOMAIN q
        PROVE  i < j => i + 1 < j + 1
    BY <1>1, <1>3, SMT
  <2> QED BY <1>6, <1>7, <2>1 DEF LogInv, Waiting
<1>10. Between(s, q, late)
  <2> SUFFICES ASSUME NEW i \in DOMAIN s, NEW j \in DOMAIN q
               PROVE  s[i] # q[j] /\ (s[i] < q[j] \/ q[j] \in late)
    BY DEF Between
  <2>1. q[j] = mainQueue[j + 1] /\ j + 1 \in DOMAIN mainQueue
    BY <1>6, <1>7
  <2>2. CASE s[i] = mainQueue[1]
    <3>1. mainQueue[1] < mainQueue[j + 1]
      BY <1>6 DEF LogInv, Waiting
    <3>2. mainQueue[1] \in Nat /\ mainQueue[j + 1] \in Nat
      BY <1>1, <1>6, LenProperties
    <3> QED BY <2>1, <2>2, <3>1, <3>2, SMT
  <2>3. CASE i \in DOMAIN statusLines /\ s[i] = statusLines[i]
    BY <2>1, <2>3 DEF LogInv, Between
  <2> QED BY <1>7, <2>2, <2>3
<1> QED BY <1>2, <1>4, <1>8, <1>9, <1>10

\* Calls of appendStatus leave their lines to the queue.
LEMMA AppendStatusKeeps ==
  ASSUME LogInv, NEW n \in Nat, AppendStatus(n)
  PROVE  LogInv'
<1>1. /\ nextLineId \in Nat /\ mainQueue \in Seq(Nat) /\ Len(mainQueue) \in Nat
      /\ DOMAIN mainQueue = 1 .. Len(mainQueue)
      /\ \A i \in DOMAIN mainQueue : mainQueue[i] \in Nat
  BY LenProperties DEF LogInv, LogType
<1>2. /\ nextLineId' = nextLineId + n /\ mainQueue' = mainQueue \o NewIds(n)
      /\ statusLines' = statusLines /\ late' = late
  BY DEF AppendStatus
<1>3. NewIds(n) \in Seq(Nat) /\ Len(NewIds(n)) = n
      /\ \A i \in 1 .. n : NewIds(n)[i] = nextLineId + i - 1
  <2>1. \A i \in 1 .. n : nextLineId + i - 1 \in Nat
    BY <1>1, SMT
  <2>2. NewIds(n) \in [1 .. n -> Nat]
    BY <2>1 DEF NewIds
  <2>3. NewIds(n) \in Seq(Nat)
    BY <2>2, SeqDef
  <2>4. DOMAIN NewIds(n) = 1 .. n
    BY DEF NewIds
  <2>5. Len(NewIds(n)) = n
    BY <2>3, <2>4, LenProperties, SMT
  <2> QED BY <2>3, <2>5 DEF NewIds
<1> DEFINE m == Len(mainQueue)
<1>4. /\ mainQueue' \in Seq(Nat) /\ Len(mainQueue') = m + n
      /\ \A i \in 1 .. (m + n) : mainQueue'[i] = IF i <= m THEN mainQueue[i] ELSE NewIds(n)[i - m]
  <2> DEFINE ids == NewIds(n)
  <2>1. ids \in Seq(Nat) /\ Len(ids) = n
    BY <1>3
  <2> HIDE DEF ids
  <2>2. /\ mainQueue \o ids \in Seq(Nat) /\ Len(mainQueue \o ids) = Len(mainQueue) + Len(ids)
        /\ \A i \in 1 .. Len(mainQueue) + Len(ids) :
             (mainQueue \o ids)[i] = IF i <= Len(mainQueue) THEN mainQueue[i]
                                     ELSE ids[i - Len(mainQueue)]
    BY <1>1, <2>1, ConcatProperties
  <2>3. mainQueue' = mainQueue \o ids
    BY <1>2 DEF ids
  <2> QED BY <2>1, <2>2, <2>3 DEF ids
<1>5. DOMAIN mainQueue' = 1 .. (m + n)
  BY <1>4, LenProperties
<1>6. \A i \in DOMAIN mainQueue' :
        \/ i \in DOMAIN mainQueue /\ mainQueue'[i] = mainQueue[i]
        \/ i \in Nat /\ i > m /\ i <= m + n /\ mainQueue'[i] = nextLineId + (i - m) - 1
  <2> SUFFICES ASSUME NEW i \in 1 .. (m + n)
               PROVE  \/ i \in DOMAIN mainQueue /\ mainQueue'[i] = mainQueue[i]
                      \/ i \in Nat /\ i > m /\ i <= m + n
                         /\ mainQueue'[i] = nextLineId + (i - m) - 1
    BY <1>5
  <2>1. CASE i <= m
    <3>1. i \in DOMAIN mainQueue
      BY <1>1, <2>1, SMT
    <3> QED BY <1>4, <2>1, <3>1
  <2>2. CASE ~(i <= m)
    <3>1. i - m \in 1 .. n /\ i \in Nat /\ i > m /\ i <= m + n
      BY <1>1, <2>2, SMT
    <3>2. mainQueue'[i] = NewIds(n)[i - m]
      BY <1>4, <2>2
    <3> QED BY <1>3, <3>1, <3>2
  <2> QED BY <2>1, <2>2
<1>7. \A i \in DOMAIN mainQueue : mainQueue[i] < nextLineId /\ i <= m /\ i \in Nat
  BY <1>1, SMT DEF LogInv, Waiting
<1>8. ASSUME NEW i \in DOMAIN mainQueue'
      PROVE  mainQueue'[i] < nextLineId'
  BY <1>1, <1>2, <1>6, <1>7, SMT
<1>9. ASSUME NEW i \in DOMAIN mainQueue', NEW j \in DOMAIN mainQueue', i < j
      PROVE  mainQueue'[i] < mainQueue'[j]
  <2>1. CASE i \in DOMAIN mainQueue /\ j \in DOMAIN mainQueue
    <3>1. mainQueue'[i] = mainQueue[i] /\ mainQueue'[j] = mainQueue[j]
      BY <1>1, <1>6, <1>7, <2>1, SMT
    <3> QED BY <1>9, <2>1, <3>1 DEF LogInv, Waiting
  <2>2. CASE j \notin DOMAIN mainQueue
    BY <1>1, <1>6, <1>7, <1>9, <2>2, SMT
  <2>3. CASE i \notin DOMAIN mainQueue /\ j \in DOMAIN mainQueue
    <3>1. i \in Nat /\ i > m /\ j <= m /\ j \in Nat
      BY <1>6, <1>7, <2>3
    <3> QED BY <1>1, <1>9, <3>1, SMT
  <2> QED BY <2>1, <2>2, <2>3
<1>10. ASSUME NEW i \in DOMAIN statusLines, NEW j \in DOMAIN mainQueue'
       PROVE  /\ statusLines[i] # mainQueue'[j]
              /\ statusLines[i] < mainQueue'[j] \/ mainQueue'[j] \in late
  <2>1. CASE j \in DOMAIN mainQueue /\ mainQueue'[j] = mainQueue[j]
    BY <2>1 DEF LogInv, Between
  <2>2. CASE j \in Nat /\ j > m /\ j <= m + n /\ mainQueue'[j] = nextLineId + (j - m) - 1
    <3>1. statusLines[i] < nextLineId
      BY DEF LogInv, Shown
    <3>2. statusLines[i] \in Nat
      BY LenProperties DEF LogInv, LogType
    <3> QED BY <1>1, <2>2, <3>1, <3>2, SMT
  <2> QED BY <1>6, <2>1, <2>2
<1>11. Shown(statusLines, nextLineId', late)
  <2>1. \A i \in DOMAIN statusLines : statusLines[i] \in Nat /\ statusLines[i] < nextLineId
    BY LenProperties DEF LogInv, LogType, Shown
  <2>2. \A i \in DOMAIN statusLines : statusLines[i] < nextLineId'
    BY <1>1, <1>2, <2>1, SMT
  <2> QED BY <2>2 DEF LogInv, Shown
<1>12. LogType'
  BY <1>1, <1>2, <1>4, SMT DEF LogInv, LogType
<1> QED BY <1>2, <1>8, <1>9, <1>10, <1>11, <1>12 DEF LogInv, Shown, Waiting, Between

LEMMA ClearKeeps ==
  ASSUME LogInv, ClearLog
  PROVE  LogInv'
<1>1. /\ nextLineId \in Nat /\ statusLines' = <<nextLineId>> /\ nextLineId' = nextLineId + 1
      /\ mainQueue' = mainQueue /\ late' = late \cup Range(mainQueue)
      /\ \A i \in DOMAIN mainQueue : mainQueue[i] \in Nat /\ mainQueue[i] < nextLineId
  BY LenProperties DEF ClearLog, TakeId, LogInv, LogType, Waiting
<1>2. /\ <<nextLineId>> \in Seq(Nat) /\ Len(<<nextLineId>>) = 1 /\ DOMAIN <<nextLineId>> = {1}
      /\ <<nextLineId>>[1] = nextLineId
  BY <1>1, SMT
<1>3. \A j \in DOMAIN mainQueue : mainQueue[j] # nextLineId /\ mainQueue[j] \in late'
                                  /\ mainQueue[j] < nextLineId'
  <2>1. \A j \in DOMAIN mainQueue : mainQueue[j] # nextLineId /\ mainQueue[j] < nextLineId'
    BY <1>1, SMT
  <2> QED BY <1>1, <2>1 DEF Range
<1>4. Shown(statusLines', nextLineId', late')
  BY <1>1, <1>2, SMT DEF Shown
<1>5. Waiting(mainQueue', nextLineId')
  BY <1>1, <1>3 DEF LogInv, Waiting
<1>6. Between(statusLines', mainQueue', late')
  BY <1>1, <1>2, <1>3 DEF Between
<1>7. LogType'
  <2>1. late' \subseteq Nat
    BY <1>1 DEF LogInv, LogType, Range
  <2>2. nextLineId' \in Nat /\ Len(<<nextLineId>>) <= MaxLines
    BY <1>1, <1>2, LineAssumption, SMT
  <2> QED BY <1>1, <1>2, <2>1, <2>2 DEF LogInv, LogType
<1> QED BY <1>4, <1>5, <1>6, <1>7 DEF LogInv, Shown, Waiting, Between

LEMMA FreshLog ==
  /\ 1 \in Nat /\ <<>> \in Seq(Nat) /\ <<0>> \in Seq(Nat) /\ Len(<<0>>) <= MaxLines
  /\ {} \subseteq Nat
  /\ Shown(<<0>>, 1, {}) /\ Waiting(<<>>, 1) /\ Between(<<0>>, <<>>, {})
<1>1. /\ <<0>> \in Seq(Nat) /\ Len(<<0>>) = 1 /\ DOMAIN <<0>> = {1} /\ <<0>>[1] = 0
      /\ 0 < 1 /\ ~(1 < 1) /\ 1 \in Nat
  BY SMT
<1>2. <<>> \in Seq(Nat) /\ DOMAIN <<>> = {}
  BY SMT
<1>3. Len(<<0>>) <= MaxLines
  BY <1>1, LineAssumption, SMT
<1>4. Shown(<<0>>, 1, {})
  BY <1>1 DEF Shown
<1>5. Waiting(<<>>, 1) /\ Between(<<0>>, <<>>, {})
  BY <1>2 DEF Waiting, Between
<1> QED BY <1>1, <1>2, <1>3, <1>4, <1>5

LEMMA LogStep ==
  ASSUME LogInv, [Next]_vars
  PROVE  LogInv'
<1>1. CASE ShowLine
  <2> DEFINE s == Append(statusLines, Head(mainQueue))
             q == Tail(mainQueue)
  <2>1. /\ mainQueue # <<>> /\ mainQueue' = q /\ statusLines' = Trim(s)
        /\ nextLineId' = nextLineId /\ late' = late
    BY <1>1 DEF ShowLine, WithLine
  <2>2. /\ s \in Seq(Nat) /\ q \in Seq(Nat)
        /\ Shown(s, nextLineId, late) /\ Waiting(q, nextLineId) /\ Between(s, q, late)
    BY <2>1, ShowKeeps
  <2> HIDE DEF s, q
  <2>3. Trim(s) \in Seq(Nat) /\ Len(Trim(s)) <= MaxLines
    BY <2>2, TrimFacts
  <2>4. Shown(Trim(s), nextLineId, late) /\ Between(Trim(s), q, late)
    BY <2>2, TrimKeeps
  <2> QED BY <2>1, <2>2, <2>3, <2>4 DEF LogInv, LogType, Shown, Waiting, Between
<1>2. CASE Render \/ UNCHANGED vars
  <2>1. UNCHANGED logVars
    BY <1>2 DEF Render, vars
  <2> QED BY <2>1 DEF logVars, LogInv, LogType, Shown, Waiting, Between
<1>3. CASE ClearLog
  BY <1>3, ClearKeeps
<1>4. CASE \E n \in {1, 2} : AppendStatus(n)
  <2>1. PICK n \in Nat : AppendStatus(n)
    BY <1>4, SMT
  <2> QED BY <2>1, AppendStatusKeeps
<1>5. CASE Relaunch
  <2>1. nextLineId' = 1 /\ statusLines' = <<0>> /\ mainQueue' = <<>> /\ late' = {}
    BY <1>5 DEF Relaunch
  <2>2. LogType'
    BY <2>1, FreshLog DEF LogType
  <2>3. Shown(statusLines, nextLineId, late)' /\ Waiting(mainQueue, nextLineId)'
    BY <2>1, FreshLog DEF Shown, Waiting
  <2>4. Between(statusLines, mainQueue, late)'
    BY <2>1, FreshLog DEF Between
  <2> QED BY <2>2, <2>3, <2>4 DEF LogInv
<1>6. InstallDriver \/ UninstallDriver \/ RefreshStatus \/ Callbacks
        => \E n \in {1, 2} : AppendStatus(n)
  <2>1. \A lines \in 1 .. 2 : lines \in {1, 2}
    BY SMT
  <2> QED BY <2>1 DEF InstallDriver, UninstallDriver, RefreshStatus, Callbacks,
                     ReplacingExtension, NeedsUserApproval, DidFinish, DidFail
<1> QED BY <1>1, <1>2, <1>3, <1>4, <1>5, <1>6 DEF Next, Clicks

LEMMA LogInvariance == Spec => []LogInv
<1>1. Init => LogInv
  BY FreshLog DEF Init, LogInv, LogType
<1> QED BY <1>1, LogStep, PTL DEF Spec

\* Every variable keeps its type, and the log its bound.
THEOREM TypeCorrect == Spec => []TypeOK
<1>1. StateInv /\ LogInv => TypeOK
  BY DEF StateInv, StateType, LogInv, LogType, TypeOK
<1> QED BY <1>1, StateInvariance, LogInvariance, PTL

\* Ids are never used again: clearing or trimming the log does not reset them.
THEOREM LineIdsAlwaysDistinct == Spec => []LineIdsDistinct
<1>1. LogInv => LineIdsDistinct
  <2> SUFFICES ASSUME LogInv PROVE LineIdsDistinct
    OBVIOUS
  <2>1. ASSUME NEW i \in DOMAIN mainQueue, NEW j \in DOMAIN mainQueue, mainQueue[i] = mainQueue[j]
        PROVE  i = j
    <3>1. /\ i \in Nat /\ j \in Nat /\ mainQueue[i] \in Nat
          /\ i < j => mainQueue[i] < mainQueue[j]
          /\ j < i => mainQueue[j] < mainQueue[i]
      BY LenProperties, SMT DEF LogInv, LogType, Waiting
    <3> QED BY <2>1, <3>1, SMT
  <2>2. Range(statusLines) \cap Range(mainQueue) = {}
    BY DEF LogInv, Between, Range
  <2> QED BY <2>1, <2>2 DEF LogInv, Shown, LineIdsDistinct
<1> QED BY <1>1, LogInvariance, PTL

\* The log reads in the order its lines were written, but for lines that waited
\* when it was cleared.
THEOREM LogAlwaysInOrder == Spec => []LogInOrder
<1>1. LogInv => LogInOrder
  BY DEF LogInv, Shown, LogInOrder
<1> QED BY <1>1, LogInvariance, PTL
===========================================================================
