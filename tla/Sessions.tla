------------------------------ MODULE Sessions ------------------------------
(***************************************************************************)
(* The sessions of the HTTP API: backtests, data fetches and paper         *)
(* trading. A start request puts a session in its map, with status         *)
(* Running, and spawns a task; the task works and at its end writes the    *)
(* session's final status; a stop request sends a cancellation to the task *)
(* of a paper session. Two of the three kinds talk to the Futu gateway,    *)
(* which answers when it likes and may close the connection at any time.   *)
(*                                                                         *)
(* Handlers and tasks run on one async runtime: what a handler does        *)
(* between two awaits under a session's lock is one step. Every session    *)
(* keeps its map entry, and with it the sender of its cancellation, for    *)
(* the life of the process.                                                *)
(***************************************************************************)
EXTENDS Naturals

CONSTANT SessionIds

VARIABLES
  kind,      \* what was asked for: "paper", "fetch" or "backtest"
  status,    \* the session's SessionStatus, "absent" if it was never started
  task,      \* where the session's task is
  result,    \* what its work returned, once it has
  cancel,    \* is a cancellation in the channel that the loop has yet to notice?
  asked,     \* history: a stop request for the session was accepted
  link,      \* the TCP connection of the task: "none", "open", "closed" by the gateway
  keepAlive  \* is the connection's keep-alive loop alive?

vars == <<kind, status, task, result, cancel, asked, link, keepAlive>>

Kinds == {"paper", "fetch", "backtest"}
Final == {"completed", "stopped", "failed"}

(* Where the code of a task is: in TcpStream::connect, waiting for the     *)
(* reply to InitConnect, in subscribe, in the select! loop, fetching, in   *)
(* the engine, or back from its work with the status still to be written.  *)
Connected == {"subscribing", "looping", "fetching"}
Working   == {"connecting", "handshake", "computing", "returning"} \cup Connected

Init ==
  /\ kind = [s \in SessionIds |-> "paper"]
  /\ status = [s \in SessionIds |-> "absent"]
  /\ task = [s \in SessionIds |-> "none"]
  /\ result = [s \in SessionIds |-> "none"]
  /\ cancel = [s \in SessionIds |-> FALSE]
  /\ asked = [s \in SessionIds |-> FALSE]
  /\ link = [s \in SessionIds |-> "none"]
  /\ keepAlive = [s \in SessionIds |-> FALSE]

Goto(s, place) == task' = [task EXCEPT ![s] = place]

-----------------------------------------------------------------------------
(* Requests. *)

(* A valid request: the session is inserted and its task spawned before    *)
(* anybody else can know the session's id, which is new.                   *)
Start(s, k) ==
  /\ status[s] = "absent"
  /\ kind' = [kind EXCEPT ![s] = k]
  /\ status' = [status EXCEPT ![s] = "running"]
  /\ Goto(s, IF k = "backtest" THEN "computing" ELSE "connecting")
  /\ UNCHANGED <<result, cancel, asked, link, keepAlive>>

(* The cancellation is sent. It is not stored when the receiver is gone:   *)
(* the loop has returned, but the status is not yet written.               *)
Signal(s) ==
  /\ asked' = [asked EXCEPT ![s] = TRUE]
  /\ cancel' = [cancel EXCEPT ![s] = task[s] # "returning"]
  /\ UNCHANGED <<kind, task, result, link, keepAlive>>

(* Any running paper session accepts a stop, also a second one. *)
Stop(s) ==
  /\ kind[s] = "paper" /\ status[s] = "running"
  /\ Signal(s)
  /\ UNCHANGED status

(* The three start requests. A configuration that cannot be read is        *)
(* refused before the session exists.                                      *)
StartPaperTrading(s) == Start(s, "paper")
FetchData(s)         == Start(s, "fetch")
RunBacktest(s)       == Start(s, "backtest")

-----------------------------------------------------------------------------
(* The gateway. *)

(* InitConnect succeeds: the client starts its keep-alive loop. *)
HandshakeAccepted(s) ==
  /\ task[s] = "handshake" /\ link[s] = "open"
  /\ keepAlive' = [keepAlive EXCEPT ![s] = TRUE]
  /\ Goto(s, IF kind[s] = "paper" THEN "subscribing" ELSE "fetching")
  /\ UNCHANGED <<kind, status, result, cancel, asked, link>>

GatewayCloses(s) ==
  /\ link[s] = "open"
  /\ link' = [link EXCEPT ![s] = "closed"]
  /\ UNCHANGED <<kind, status, task, result, cancel, asked, keepAlive>>

(* The keep-alive loop ends on its first failed send and tells nobody. *)
KeepAliveFails(s) ==
  /\ keepAlive[s] /\ link[s] = "closed"
  /\ keepAlive' = [keepAlive EXCEPT ![s] = FALSE]
  /\ UNCHANGED <<kind, status, task, result, cancel, asked, link>>

-----------------------------------------------------------------------------
(* The task. *)

(* A mistaken Leave: the client has no Drop. *)
LeaveRunning(s, r) ==
  /\ Goto(s, "returning")
  /\ result' = [result EXCEPT ![s] = r]
  /\ link' = [link EXCEPT ![s] = "none"]
  /\ cancel' = [cancel EXCEPT ![s] = FALSE]
  /\ UNCHANGED <<kind, status, asked, keepAlive>>

(* The task's work returns: the receiver of its cancellation is dropped,   *)
(* and with the provider its connection; dropping the client aborts the    *)
(* keep-alive loop.                                                        *)
Leave(s, r) ==
  /\ Goto(s, "returning")
  /\ result' = [result EXCEPT ![s] = r]
  /\ link' = [link EXCEPT ![s] = "none"]
  /\ keepAlive' = [keepAlive EXCEPT ![s] = FALSE]
  /\ cancel' = [cancel EXCEPT ![s] = FALSE]
  /\ UNCHANGED <<kind, status, asked>>

ConnectTcp(s) ==
  /\ task[s] = "connecting"
  /\ Goto(s, "handshake")
  /\ link' = [link EXCEPT ![s] = "open"]
  /\ UNCHANGED <<kind, status, result, cancel, asked, keepAlive>>

(* Or the configuration names no exchange the task knows. *)
ConnectRefused(s) ==
  /\ task[s] = "connecting"
  /\ Leave(s, "error")

(* The reply is an error, or the connection breaks before a reply. *)
HandshakeRejected(s) ==
  /\ task[s] = "handshake" /\ link[s] = "open"
  /\ Leave(s, "error")

HandshakeBroken(s) ==
  /\ task[s] = "handshake" /\ link[s] = "closed"
  /\ Leave(s, "error")

(* A mistaken Subscribe: the loop begins to watch the channel only now. *)
SubscribeLate(s) ==
  /\ task[s] = "subscribing"
  /\ Goto(s, "looping")
  /\ cancel' = [cancel EXCEPT ![s] = FALSE]
  /\ UNCHANGED <<kind, status, result, asked, link, keepAlive>>

(* The subscription is written to the socket and its answer is not awaited. *)
(* Writing to a closed connection may succeed.                             *)
Subscribe(s) ==
  /\ task[s] = "subscribing"
  /\ Goto(s, "looping")
  /\ UNCHANGED <<kind, status, result, cancel, asked, link, keepAlive>>

SubscribeFails(s) ==
  /\ task[s] = "subscribing" /\ link[s] = "closed"
  /\ Leave(s, "error")

(* A mistaken loop: it ends with the channel of events, as the command     *)
(* line's does.                                                            *)
EndOfEvents(s) ==
  /\ task[s] = "looping"
  /\ Leave(s, "ok")

(* The one branch of select! that can be taken. The other waits for events *)
(* from a channel whose sender subscribe has dropped, and select! disables *)
(* a branch whose pattern does not match.                                  *)
NoticeStop(s) ==
  /\ task[s] = "looping" /\ cancel[s]
  /\ Leave(s, "ok")

(* A request per security; the directory may not be writable, and a closed *)
(* connection may fail. Bars are never waited for: the list is empty.      *)
Fetch(s) ==
  /\ task[s] = "fetching"
  /\ \E r \in {"ok", "error"} : Leave(s, r)

(* A backtest returns its result or the engine's error. *)
Compute(s) ==
  /\ task[s] = "computing"
  /\ \E r \in {"ok", "error"} : Leave(s, r)

(* The session's lock is taken again and the final status written. *)
Outcome(s) ==
  IF result[s] = "error" THEN "failed"
  ELSE IF kind[s] = "paper" THEN "stopped" ELSE "completed"

Report(s) ==
  /\ task[s] = "returning"
  /\ status' = [status EXCEPT ![s] = Outcome(s)]
  /\ Goto(s, "ended")
  /\ UNCHANGED <<kind, result, cancel, asked, link, keepAlive>>

Request(s) ==
  Stop(s) \/ StartPaperTrading(s) \/ FetchData(s) \/ RunBacktest(s)

Gateway(s) ==
  \/ HandshakeAccepted(s) \/ HandshakeRejected(s)
  \/ GatewayCloses(s) \/ KeepAliveFails(s)

(* What the task does without waiting for anybody's answer. *)
TaskStep(s) ==
  \/ ConnectTcp(s) \/ ConnectRefused(s) \/ HandshakeBroken(s)
  \/ Subscribe(s) \/ SubscribeFails(s) \/ NoticeStop(s)
  \/ Fetch(s) \/ Compute(s) \/ Report(s)

Next == \E s \in SessionIds : Request(s) \/ Gateway(s) \/ TaskStep(s)

(* The runtime polls every task that can go on; TCP connects end, if only  *)
(* by the timeout of the operating system; the engine's loop is finite.    *)
(* Nothing makes the gateway answer or a client ask.                       *)
Fairness == \A s \in SessionIds : WF_vars(TaskStep(s))

Spec == Init /\ [][Next]_vars /\ Fairness

-----------------------------------------------------------------------------

TypeOK ==
  /\ kind \in [SessionIds -> Kinds]
  /\ status \in [SessionIds -> Final \cup {"absent", "running"}]
  /\ task \in [SessionIds -> Working \cup {"none", "ended"}]
  /\ result \in [SessionIds -> {"none", "ok", "error"}]
  /\ cancel \in [SessionIds -> BOOLEAN]
  /\ asked \in [SessionIds -> BOOLEAN]
  /\ link \in [SessionIds -> {"none", "open", "closed"}]
  /\ keepAlive \in [SessionIds -> BOOLEAN]

(* What status requests answer is true: a session is Running exactly while *)
(* its task works, whoever else may have been told "stopping", and then    *)
(* shows how the work ended.                                               *)
HonestStatus == \A s \in SessionIds :
  /\ status[s] = "running" <=> task[s] \in Working
  /\ status[s] \in Final => result[s] # "none" /\ status[s] = Outcome(s)

(* A paper session is Stopped only if a client asked for it: a connection  *)
(* lost or events that end do not look like a user's decision.             *)
StoppedOnlyOnRequest == \A s \in SessionIds : status[s] = "stopped" => asked[s]

(* Both together: a status always tells what became of the session. *)
StatusTellsTruth == HonestStatus /\ StoppedOnlyOnRequest

(* No connection and no keep-alive loop outlives the work it was made for, *)
(* whichever way the work ends.                                            *)
NothingLingers == \A s \in SessionIds :
  /\ keepAlive[s] => task[s] \in Connected
  /\ link[s] # "none" => task[s] \in Connected \cup {"handshake"}

(* Late requests and late tasks never change a final status. *)
FinalStatusStable ==
  [][\A s \in SessionIds : status[s] \in Final => status'[s] = status[s]]_vars

(* If the gateway does not keep a session waiting for ever, a stop always  *)
(* takes effect, at whatever moment it came: also while the task was       *)
(* connecting or subscribing, and was not watching for it.                 *)
StopTakesEffect == \A s \in SessionIds :
  []<>(task[s] # "handshake") => (asked[s] ~> status[s] \in Final)

(* What "Request timeout in milliseconds" (market-data/src/config.rs:12)   *)
(* promises: no request of a session waits for its answer for ever.        *)
RequestsTimeOut ==
  \A s \in SessionIds : task[s] = "handshake" ~> task[s] # "handshake"

=============================================================================
