--------------------------- MODULE DeskflowClient ---------------------------
(***************************************************************************)
(* The life cycle of the protocol client (deskflow_client.cpp with its     *)
(* socket_stream.cpp), driven from the JS thread through napi_init.cpp.    *)
(*                                                                         *)
(* Two kinds of threads share one DeskflowClient object without a lock:    *)
(*   - Js, the thread that runs ConnectDeskflow, DisconnectDeskflow and    *)
(*     SetAutoReconnect;                                                   *)
(*   - the detached std::threads that start() spawns, each of which runs   *)
(*     run(): connect, handshake, message loop, back-off, again.           *)
(* A step is one access to shared state (the atomics m_running and         *)
(* m_stopRequested, the plain fields m_fd and m_buffer of the stream, the  *)
(* descriptor table) or one blocking call; accesses no other thread can    *)
(* observe are merged into their neighbours.                               *)
(*                                                                         *)
(* The server is external: it is what recv(), send() and connect() may     *)
(* return.  Which message a frame carries matters here only as far as it   *)
(* decides how the connection goes on (Messages below).                    *)
(***************************************************************************)
EXTENDS Naturals, FiniteSets

CONSTANTS
    Worker,         \* identities of the std::thread objects start() creates
    Js,             \* the JS thread
    Fd,             \* descriptor numbers the kernel hands out
    NoFd,           \* SocketStream's -1
    CloseWakesRecv  \* does ::close() wake a recv() blocked on the descriptor
                    \* in another thread? (kernel behaviour, not the client's)

ASSUME JsIsNoWorker == Js \notin Worker
ASSUME NoFdIsNoFd == NoFd \notin Fd
ASSUME WakeIsBoolean == CloseWakesRecv \in BOOLEAN

Thread == Worker \cup {Js}

VARIABLES
    pc,              \* where each thread is
    loc,             \* a thread's private descriptor (fd in connect(), the value
                     \* of m_fd that close() or recv() has loaded)
    op,              \* which napi call Js is executing
    m_running,
    m_stopRequested,
    m_shouldReconnect,
    m_autoReconnect,
    m_handshakeDone,
    m_fd,            \* SocketStream::m_fd
    buffered,        \* does m_buffer hold a frame that is not parsed yet
    open,            \* the client's entries in the process's descriptor table
    status,          \* the last status string posted to JS
    dsopSeen,        \* history: a DSOP has arrived on the current connection
    why,             \* history: why a worker's loop ended
    late             \* history: messages a worker handled after stop() was asked

control == <<m_running, m_stopRequested>>
policy  == <<m_shouldReconnect, m_autoReconnect>>
stream  == <<m_fd, buffered, open>>
history == <<dsopSeen, why, late>>
vars == <<pc, loc, op, control, policy, m_handshakeDone, stream, status, history>>

ClosePc   == {"closeTest", "closeFd", "closeForget", "closeClear"}
SessionPc == {"msgTest", "msgRecv", "msgWait", "msgParse", "cnop"}
WorkerPc  == {"idle", "loop", "connecting", "helloRecv", "helloWait", "helloParse",
              "helloBack", "decide", "backoff", "exit", "tail"}
                 \cup SessionPc \cup ClosePc
JsPc      == {"idle", "wait", "clearStop", "setRunning", "spawn"} \cup ClosePc

Statuses == {"none", "connecting", "connect failed", "handshaking", "handshake failed",
             "handshake ok", "lost", "disconnected", "closed by server", "incompatible",
             "server error", "control moved", "reconnecting"}

\* A worker owns the client from the moment it is spawned to its m_running = false.
Active(w) == pc[w] \notin {"idle", "tail"}

Goto(t, to) == pc' = [pc EXCEPT ![t] = to]
Keep(t, fd) == loc' = [loc EXCEPT ![t] = fd]
Forget(t) == Keep(t, NoFd)

Init ==
    /\ pc = [t \in Thread |-> "idle"]
    /\ loc = [t \in Thread |-> NoFd]
    /\ op = "none"
    /\ m_running = FALSE /\ m_stopRequested = FALSE
    /\ m_shouldReconnect = TRUE /\ m_autoReconnect = TRUE
    /\ m_handshakeDone = FALSE
    /\ m_fd = NoFd /\ buffered = FALSE /\ open = {}
    /\ status = "none"
    /\ dsopSeen = FALSE
    /\ why = [w \in Worker |-> "none"]
    /\ late = [w \in Worker |-> 0]

-----------------------------------------------------------------------------
(* SocketStream::close(), run by Js (from stop()) and by the worker, with  *)
(* nothing to keep the two apart.                                          *)

\* if (m_fd >= 0): the descriptor that will be closed is loaded here.
CloseTest(t) ==
    /\ pc[t] = "closeTest"
    /\ Keep(t, m_fd)
    /\ Goto(t, IF m_fd # NoFd THEN "closeFd" ELSE "closeClear")
    /\ UNCHANGED <<op, control, policy, m_handshakeDone, stream, status, history>>

\* ::close(m_fd); EBADF, when the other thread was faster, changes nothing.  (The number may
\* by then belong to a file of other code of the process, which is not modelled.)
CloseFd(t) ==
    /\ pc[t] = "closeFd"
    /\ open' = open \ {loc[t]}
    /\ Forget(t)
    /\ Goto(t, "closeForget")
    /\ UNCHANGED <<op, control, policy, m_handshakeDone, m_fd, buffered, status, history>>

\* Mutant: the descriptor is closed but not forgotten.
CloseRemembers(t) ==
    /\ pc[t] = "closeForget"
    /\ Goto(t, "closeClear")
    /\ UNCHANGED <<loc, op, control, policy, m_handshakeDone, stream, status, history>>

CloseForget(t) ==
    /\ pc[t] = "closeForget"
    /\ m_fd' = NoFd
    /\ Goto(t, "closeClear")
    /\ UNCHANGED <<loc, op, control, policy, m_handshakeDone, buffered, open, status, history>>

\* m_buffer.clear(); m_bufferPos = 0.  Js's clear() races with the worker's use of
\* the vector: when both store its end pointer, the clear may be the one that is lost.
CloseClear(t) ==
    /\ pc[t] = "closeClear"
    /\ buffered' \in {FALSE, buffered /\ t = Js}
    /\ Goto(t, IF t \in Worker THEN "decide" ELSE IF op = "connect" THEN "wait" ELSE "idle")
    /\ UNCHANGED <<loc, op, control, policy, m_handshakeDone, m_fd, open, status, history>>

Close(t) == CloseTest(t) \/ CloseFd(t) \/ CloseForget(t) \/ CloseClear(t)

-----------------------------------------------------------------------------
(* The JS thread.                                                          *)

\* Mutant: the stream is closed without asking the worker to stop.
CallCloseOnly(what) ==
    /\ pc[Js] = "idle"
    /\ op' = what
    /\ Goto(Js, "closeTest")
    /\ UNCHANGED <<loc, control, policy, m_handshakeDone, stream, status, history>>

\* ConnectDeskflow and DisconnectDeskflow both begin with stop().
CallStop(what) ==
    /\ pc[Js] = "idle"
    /\ op' = what
    /\ m_stopRequested' = TRUE
    /\ Goto(Js, "closeTest")
    /\ UNCHANGED <<loc, m_running, policy, m_handshakeDone, stream, status, history>>

\* The polling loop sees the old worker gone.
WaitOver ==
    /\ pc[Js] = "wait"
    /\ ~m_running
    /\ Goto(Js, "clearStop")
    /\ UNCHANGED <<loc, op, control, policy, m_handshakeDone, stream, status, history>>

\* 15 polls of 100 ms have passed: "previous client is still stopping".
GiveUpWaiting ==
    /\ pc[Js] = "wait"
    /\ m_running
    /\ Goto(Js, "idle")
    /\ UNCHANGED <<loc, op, control, policy, m_handshakeDone, stream, status, history>>

\* start(): m_running is tested, then m_stopRequested and m_running are set, one by one.
StartClearStop ==
    /\ pc[Js] = "clearStop"
    /\ ~m_running
    /\ m_stopRequested' = FALSE
    /\ Goto(Js, "setRunning")
    /\ UNCHANGED <<loc, op, m_running, policy, m_handshakeDone, stream, status, history>>

StartSetRunning ==
    /\ pc[Js] = "setRunning"
    /\ m_running' = TRUE
    /\ Goto(Js, "spawn")
    /\ UNCHANGED <<loc, op, m_stopRequested, policy, m_handshakeDone, stream, status, history>>

\* std::thread([this] { run(); }).detach()
StartSpawn(w) ==
    /\ pc[Js] = "spawn"
    /\ pc[w] = "idle"
    /\ pc' = [pc EXCEPT ![Js] = "idle", ![w] = "loop"]
    /\ UNCHANGED <<loc, op, control, policy, m_handshakeDone, stream, status, history>>

SetAutoReconnect(enable) ==
    /\ pc[Js] = "idle"
    /\ m_autoReconnect' = enable
    /\ UNCHANGED <<pc, loc, op, control, m_shouldReconnect, m_handshakeDone, stream,
                   status, history>>

-----------------------------------------------------------------------------
(* The worker: run() and runOnce().                                        *)

\* while (!m_stopRequested): leave, ...
LoopStop(w) ==
    /\ pc[w] = "loop"
    /\ m_stopRequested
    /\ why' = [why EXCEPT ![w] = "stopped"]
    /\ Goto(w, "exit")
    /\ UNCHANGED <<loc, op, control, policy, m_handshakeDone, stream, status, dsopSeen, late>>

\* Mutant: the loop does not look at m_stopRequested.
LoopConnectAnyway(w, fd) ==
    /\ pc[w] = "loop"
    /\ fd \notin open
    /\ m_shouldReconnect' = TRUE
    /\ status' = "connecting"
    /\ open' = open \cup {fd}
    /\ Keep(w, fd)
    /\ Goto(w, "connecting")
    /\ UNCHANGED <<op, control, m_autoReconnect, m_handshakeDone, m_fd, buffered, history>>

\* ... or begin a connection: socket() gives connect() a private descriptor.
LoopConnect(w, fd) ==
    /\ pc[w] = "loop"
    /\ ~m_stopRequested
    /\ fd \notin open
    /\ m_shouldReconnect' = TRUE
    /\ status' = "connecting"
    /\ open' = open \cup {fd}
    /\ Keep(w, fd)
    /\ Goto(w, "connecting")
    /\ UNCHANGED <<op, control, m_autoReconnect, m_handshakeDone, m_fd, buffered, history>>

\* m_fd is assigned only now: a stop() that came earlier found nothing to close.
ConnectOk(w) ==
    /\ pc[w] = "connecting"
    /\ m_fd' = loc[w]
    /\ Forget(w)
    /\ status' = "handshaking"
    /\ dsopSeen' = FALSE
    /\ Goto(w, "helloRecv")
    /\ UNCHANGED <<op, control, policy, m_handshakeDone, buffered, open, why, late>>

\* Mutant: an early return of connect() leaves the socket open.
ConnectFailLeaks(w) ==
    /\ pc[w] = "connecting"
    /\ Forget(w)
    /\ status' = "connect failed"
    /\ Goto(w, "decide")
    /\ UNCHANGED <<op, control, policy, m_handshakeDone, stream, history>>

ConnectFail(w) ==
    /\ pc[w] = "connecting"
    /\ open' = open \ {loc[w]}
    /\ Forget(w)
    /\ status' = "connect failed"
    /\ Goto(w, "decide")
    /\ UNCHANGED <<op, control, policy, m_handshakeDone, m_fd, buffered, history>>

\* recv() and send() work on a descriptor that is still in the table.
FdUsable == m_fd \in open

\* recv(m_fd): blocks in the kernel, or fails at once with EBADF.
RecvCall(w, from, blocked) ==
    /\ pc[w] = from
    /\ FdUsable
    /\ Keep(w, m_fd)
    /\ Goto(w, blocked)
    /\ UNCHANGED <<op, control, policy, m_handshakeDone, stream, status, history>>

\* The server sends a whole frame; readFrame returns it and it is pushed to m_buffer.
PeerSends(w, blocked, parse) ==
    /\ pc[w] = blocked
    /\ buffered' = TRUE
    /\ Forget(w)
    /\ Goto(w, parse)
    /\ UNCHANGED <<op, control, policy, m_handshakeDone, m_fd, open, status, history>>

\* How a recv fails: EBADF, the other thread's ::close(), or the server's end.
RecvFailed(w, from, blocked) ==
    \/ pc[w] = from /\ ~FdUsable
    \/ pc[w] = blocked /\ CloseWakesRecv /\ loc[w] \notin open

HandshakeFails(w) ==
    /\ status' = "handshake failed"
    /\ Forget(w)
    /\ Goto(w, "closeTest")

HelloRecv(w) == RecvCall(w, "helloRecv", "helloWait")
HelloArrives(w) == PeerSends(w, "helloWait", "helloParse")

HelloRecvFails(w) ==
    /\ RecvFailed(w, "helloRecv", "helloWait")
    /\ HandshakeFails(w)
    /\ UNCHANGED <<op, control, policy, m_handshakeDone, stream, history>>

HelloEof(w) ==
    /\ pc[w] = "helloWait"
    /\ HandshakeFails(w)
    /\ UNCHANGED <<op, control, policy, m_handshakeDone, stream, history>>

HelloOk(w) ==
    /\ pc[w] = "helloParse" /\ buffered
    /\ buffered' = FALSE
    /\ Goto(w, "helloBack")
    /\ UNCHANGED <<loc, op, control, policy, m_handshakeDone, m_fd, open, status, history>>

\* Wrong name or major version (mismatch), or not a Hello at all.
HelloBad(w, mismatch) ==
    /\ pc[w] = "helloParse" /\ buffered
    /\ buffered' = FALSE
    /\ m_shouldReconnect' = (m_shouldReconnect /\ ~mismatch)
    /\ why' = [why EXCEPT ![w] = IF mismatch THEN "refused" ELSE @]
    /\ HandshakeFails(w)
    /\ UNCHANGED <<op, control, m_autoReconnect, m_handshakeDone, m_fd, open,
                   dsopSeen, late>>

\* Js emptied the buffer meanwhile: readf goes back to the socket for its bytes.
HelloGone(w) ==
    /\ pc[w] = "helloParse" /\ ~buffered
    /\ Goto(w, "helloRecv")
    /\ UNCHANGED <<loc, op, control, policy, m_handshakeDone, stream, status, history>>

\* writeFrame(HelloBack); on success the injection authorisation is requested too.
HelloBackOk(w) ==
    /\ pc[w] = "helloBack" /\ FdUsable
    /\ status' = "handshake ok"
    /\ Goto(w, "msgTest")
    /\ UNCHANGED <<loc, op, control, policy, m_handshakeDone, stream, history>>

HelloBackFails(w) ==
    /\ pc[w] = "helloBack"
    /\ HandshakeFails(w)
    /\ UNCHANGED <<op, control, policy, m_handshakeDone, stream, history>>

-----------------------------------------------------------------------------
(* The message loop.                                                       *)

\* Mutant: while (keepGoing).
MsgTestKeepGoing(w) ==
    /\ pc[w] = "msgTest"
    /\ Goto(w, "msgRecv")
    /\ UNCHANGED <<loc, op, control, policy, m_handshakeDone, stream, status, history>>

\* while (keepGoing && !m_stopRequested)
MsgTest(w) ==
    /\ pc[w] = "msgTest"
    /\ Goto(w, IF m_stopRequested THEN "closeTest" ELSE "msgRecv")
    /\ UNCHANGED <<loc, op, control, policy, m_handshakeDone, stream, status, history>>

MsgRecv(w) == RecvCall(w, "msgRecv", "msgWait")
MsgArrives(w) == PeerSends(w, "msgWait", "msgParse")

ConnectionLost(w) ==
    /\ status' = IF m_stopRequested THEN "disconnected" ELSE "lost"
    /\ Forget(w)
    /\ Goto(w, "closeTest")
    /\ UNCHANGED <<op, control, policy, m_handshakeDone, stream, history>>

MsgRecvFails(w) == RecvFailed(w, "msgRecv", "msgWait") /\ ConnectionLost(w)
MsgEof(w) == pc[w] = "msgWait" /\ ConnectionLost(w)

\* Js emptied the buffer: m_fd is gone as well, readExact(head) fails.
MsgGone(w) ==
    /\ pc[w] = "msgParse" /\ ~buffered
    /\ Goto(w, "closeTest")
    /\ UNCHANGED <<loc, op, control, policy, m_handshakeDone, stream, status, history>>

(* What handleMessage makes of a message, as far as the life cycle goes:   *)
(*   plain      input, clipboard and ignored messages, keepGoing           *)
(*   control    CINN or COUT: a status is posted, keepGoing                *)
(*   reply      QINF or CALV: a frame is written, keepGoing if it was      *)
(*   dsop       DSOP: the client enters the runtime, keepGoing             *)
(*   bye        CBYE, and incompatible EICV: the loop ends for good        *)
(*   refused    EBSY, EUNK, EBAD or an unknown key: the loop ends          *)
(*   malformed  readf failed (EICV's included): the loop ends silently     *)
Messages == {"plain", "control", "reply", "dsop", "bye", "incompatible", "refused", "malformed"}

KeepsGoing(m) == m \in {"plain", "control", "reply", "dsop"}

\* Mutant: a status text the callers do not know.
StatusOfUnknown(m) == IF m = "refused" THEN "error" ELSE status

StatusOf(m) ==
    CASE m = "control" -> "control moved"
      [] m = "bye" -> "closed by server"
      [] m = "incompatible" -> "incompatible"
      [] m = "refused" -> "server error"
      [] OTHER -> status

handleMessage(w, m) ==
    /\ pc[w] = "msgParse" /\ buffered
    /\ buffered' = FALSE
    /\ status' = StatusOf(m)
    /\ late' = [late EXCEPT ![w] = IF m_stopRequested THEN @ + 1 ELSE @]
    /\ m_handshakeDone' = (m_handshakeDone \/ m = "dsop")
    /\ dsopSeen' = (dsopSeen \/ m = "dsop")
    /\ m_shouldReconnect' = (m_shouldReconnect /\ m \notin {"bye", "incompatible"})
    /\ why' = [why EXCEPT ![w] = IF m \in {"bye", "incompatible"} THEN "refused" ELSE @]
    /\ \/ /\ KeepsGoing(m)
          /\ m = "reply" => FdUsable
          /\ Goto(w, IF m_handshakeDone' THEN "cnop" ELSE "msgTest")
       \/ /\ ~KeepsGoing(m) \/ m = "reply"
          /\ Goto(w, "closeTest")
    /\ UNCHANGED <<loc, op, control, m_autoReconnect, m_fd, open>>

\* if (keepGoing && m_handshakeDone) writeFrame("CNOP")
CnopOk(w) ==
    /\ pc[w] = "cnop" /\ FdUsable
    /\ Goto(w, "msgTest")
    /\ UNCHANGED <<loc, op, control, policy, m_handshakeDone, stream, status, history>>

CnopFails(w) ==
    /\ pc[w] = "cnop"
    /\ Goto(w, "closeTest")
    /\ UNCHANGED <<loc, op, control, policy, m_handshakeDone, stream, status, history>>

-----------------------------------------------------------------------------
(* After runOnce().                                                        *)

\* if (!m_autoReconnect || !shouldContinue || m_stopRequested) break.  runOnce's own
\* test of m_stopRequested is the same test: the flag is cleared only by start().
DecideStop(w) ==
    /\ pc[w] = "decide"
    /\ ~m_autoReconnect \/ ~m_shouldReconnect \/ m_stopRequested
    /\ why' = IF why[w] = "refused" THEN why
              ELSE [why EXCEPT ![w] = IF m_stopRequested THEN "stopped" ELSE "no auto reconnect"]
    /\ Goto(w, "exit")
    /\ UNCHANGED <<loc, op, control, policy, m_handshakeDone, stream, status, dsopSeen, late>>

\* Mutant: runOnce's verdict is ignored.
DecideReconnectAlways(w) ==
    /\ pc[w] = "decide"
    /\ m_autoReconnect /\ ~m_stopRequested
    /\ status' = "reconnecting"
    /\ Goto(w, "backoff")
    /\ UNCHANGED <<loc, op, control, policy, m_handshakeDone, stream, history>>

\* Mutant: the client does not count as running while it waits to reconnect.
DecideReconnectIdle(w) ==
    /\ pc[w] = "decide"
    /\ m_autoReconnect /\ m_shouldReconnect /\ ~m_stopRequested
    /\ m_running' = FALSE
    /\ status' = "reconnecting"
    /\ Goto(w, "backoff")
    /\ UNCHANGED <<loc, op, m_stopRequested, policy, m_handshakeDone, stream, history>>

DecideReconnect(w) ==
    /\ pc[w] = "decide"
    /\ m_autoReconnect /\ m_shouldReconnect /\ ~m_stopRequested
    /\ status' = "reconnecting"
    /\ Goto(w, "backoff")
    /\ UNCHANGED <<loc, op, control, policy, m_handshakeDone, stream, history>>

\* Mutant: the wait ends the run instead of the attempt.
BackoffExits(w) ==
    /\ pc[w] = "backoff"
    /\ Goto(w, "exit")
    /\ UNCHANGED <<loc, op, control, policy, m_handshakeDone, stream, status, history>>

\* Mutant: the wait starts over.
BackoffRepeats(w) ==
    /\ pc[w] = "backoff"
    /\ Goto(w, "decide")
    /\ UNCHANGED <<loc, op, control, policy, m_handshakeDone, stream, status, history>>

\* The sleep loop; it also ends early on stop, which the loop test then sees.
BackoffOver(w) ==
    /\ pc[w] = "backoff"
    /\ Goto(w, "loop")
    /\ UNCHANGED <<loc, op, control, policy, m_handshakeDone, stream, status, history>>

\* Mutant: m_running = false is missing.
ExitRunning(w) ==
    /\ pc[w] = "exit"
    /\ Goto(w, "tail")
    /\ UNCHANGED <<loc, op, control, policy, m_handshakeDone, stream, status, history>>

ExitRun(w) ==
    /\ pc[w] = "exit"
    /\ m_running' = FALSE
    /\ Goto(w, "tail")
    /\ UNCHANGED <<loc, op, m_stopRequested, policy, m_handshakeDone, stream, status, history>>

\* Mutant: run() ends without a word.
TailSilent(w) ==
    /\ pc[w] = "tail"
    /\ why' = [why EXCEPT ![w] = "none"]
    /\ late' = [late EXCEPT ![w] = 0]
    /\ Goto(w, "idle")
    /\ UNCHANGED <<loc, op, control, policy, m_handshakeDone, stream, status, dsopSeen>>

\* The last lines of run() execute when the client may already have a new worker.
Tail(w) ==
    /\ pc[w] = "tail"
    /\ status' = IF m_stopRequested THEN status ELSE "disconnected"
    /\ why' = [why EXCEPT ![w] = "none"]
    /\ late' = [late EXCEPT ![w] = 0]
    /\ Goto(w, "idle")
    /\ UNCHANGED <<loc, op, control, policy, m_handshakeDone, stream, dsopSeen>>

-----------------------------------------------------------------------------
JsCall == \/ \E what \in {"connect", "disconnect"} : CallStop(what)
          \/ \E enable \in BOOLEAN : SetAutoReconnect(enable)

JsStep == \/ Close(Js)
          \/ WaitOver \/ GiveUpWaiting
          \/ StartClearStop \/ StartSetRunning
          \/ \E w \in Worker : StartSpawn(w)

\* What the server decides: to send, or to end the connection.
PeerHello(w) == HelloArrives(w) \/ HelloEof(w)
PeerMsg(w) == MsgArrives(w) \/ MsgEof(w)
PeerStep(w) == PeerHello(w) \/ PeerMsg(w)

\* Everything the worker does without waiting for the server to speak.
ConnectStep(w) == \/ LoopStop(w) \/ \E fd \in Fd : LoopConnect(w, fd)
                  \/ ConnectOk(w) \/ ConnectFail(w)
HandshakeStep(w) == \/ HelloRecv(w) \/ HelloRecvFails(w) \/ HelloGone(w)
                    \/ HelloOk(w) \/ \E mismatch \in BOOLEAN : HelloBad(w, mismatch)
                    \/ HelloBackOk(w) \/ HelloBackFails(w)
MessageStep(w) == \/ MsgTest(w) \/ MsgRecv(w) \/ MsgRecvFails(w) \/ MsgGone(w)
                  \/ \E m \in Messages : handleMessage(w, m)
                  \/ CnopOk(w) \/ CnopFails(w)
ReconnectStep(w) == \/ DecideStop(w) \/ DecideReconnect(w) \/ BackoffOver(w)
                    \/ ExitRun(w) \/ Tail(w)
WorkerStep(w) == \/ Close(w) \/ ConnectStep(w) \/ HandshakeStep(w)
                 \/ MessageStep(w) \/ ReconnectStep(w)

Next == \/ JsCall \/ JsStep
        \/ \E w \in Worker : WorkerStep(w) \/ PeerStep(w)

Spec == Init /\ [][Next]_vars

(***************************************************************************)
(* Fairness.  Threads are scheduled and every call but recv() returns: the *)
(* connect has a 5 s timeout, sleeps end, a short frame is sent or fails.  *)
(* recv() has no timeout: it returns when the server speaks or hangs up,   *)
(* which is the server's affair (a Deskflow server sends CALV every few    *)
(* seconds and drops a client that does not complete the handshake).       *)
(***************************************************************************)
Scheduled == /\ WF_vars(JsStep)
             /\ \A w \in Worker : WF_vars(WorkerStep(w))

TalkativeServer == \A w \in Worker : WF_vars(PeerStep(w))

\* A server that does not refuse forever: what it keeps having the chance to accept, it
\* accepts in the end, and it does not hang up for ever instead of saying Hello.
AcceptingServer == \A w \in Worker : /\ SF_vars(ConnectOk(w))
                                     /\ SF_vars(HelloArrives(w))
                                     /\ SF_vars(HelloOk(w))
                                     /\ SF_vars(HelloBackOk(w))

SilentServerSpec == Spec /\ Scheduled
FairSpec == Spec /\ Scheduled /\ TalkativeServer

-----------------------------------------------------------------------------
(* Properties.                                                             *)

PcOK ==
    /\ pc \in [Thread -> WorkerPc \cup JsPc]
    /\ pc[Js] \in JsPc
    /\ \A w \in Worker : pc[w] \in WorkerPc

DataOK ==
    /\ loc \in [Thread -> Fd \cup {NoFd}]
    /\ op \in {"none", "connect", "disconnect"}
    /\ m_running \in BOOLEAN /\ m_stopRequested \in BOOLEAN
    /\ m_shouldReconnect \in BOOLEAN /\ m_autoReconnect \in BOOLEAN
    /\ m_handshakeDone \in BOOLEAN
    /\ m_fd \in Fd \cup {NoFd}
    /\ buffered \in BOOLEAN
    /\ open \subseteq Fd
    /\ status \in Statuses
    /\ dsopSeen \in BOOLEAN
    /\ why \in [Worker -> {"none", "stopped", "refused", "no auto reconnect"}]
    /\ late \in [Worker -> Nat]

TypeOK == PcOK /\ DataOK

\* The client object has one owner: whatever calls the JS thread makes while workers come
\* up, are stuck in connect() or unwind, two workers never run the protocol at once.
OneWorker == \A w1, w2 \in Worker : Active(w1) /\ Active(w2) => w1 = w2

\* close() carries a descriptor number across two steps.  The number that stop() is about
\* to close is still the connection it meant: no new connect() can have been given it.
StopClosesOwnConnection ==
    pc[Js] = "closeFd" => /\ \A w \in Worker : pc[w] # "connecting"
                          /\ m_fd \in {loc[Js], NoFd}

\* Each connection attempt starts from an empty stream, no matter how the close() of
\* stop() and the close() of the worker that just unwound were interleaved.
FreshStream ==
    \A w \in Worker : pc[w] \in {"loop", "connecting"} => m_fd = NoFd /\ ~buffered

\* Once nobody runs the protocol or is inside close(), every socket is closed: the
\* descriptor assigned by a connect() that a stop() overtook is not lost.
NoSocketLeak ==
    /\ \A w \in Worker : ~Active(w)
    /\ pc[Js] \notin ClosePc
    => open = {} /\ m_fd = NoFd

\* After stop() was asked for, the worker handles at most the one message it was already
\* waiting for: input injection ends with the message in flight.
AtMostOneLateMessage == \A w \in Worker : late[w] <= 1

\* CBYE, EICV and a Hello mismatch are final: a worker that was refused never dials again
\* (nor waits to), although m_shouldReconnect is set to true for each connection.
RefusedIsFinal ==
    \A w \in Worker : pc[w] \in {"backoff", "loop", "connecting"} => why[w] # "refused"

\* A run that ends without a stop() having been asked for is reported to JS: when all is
\* quiet, the last word is "disconnected", not the error that preceded it.
UnrequestedEndReported ==
    /\ \A t \in Thread : pc[t] = "idle"
    /\ ~m_running /\ ~m_stopRequested /\ status # "none"
    => status = "disconnected"

\* stop() ends the worker ("unblock recv"), so that the next connect can start.
StopEndsWorker == (m_stopRequested /\ m_running) ~> ~m_running

\* Unless the server has refused the client, a connection that ended for whatever reason
\* (lost, an error message of the server, no connection at all) is dialled again, until the
\* user stops the client or turns automatic reconnection off.
LostIsRedialled ==
    \A w \in Worker :
        (pc[w] = "decide" /\ why[w] # "refused")
            ~> (pc[w] = "connecting" \/ m_stopRequested \/ ~m_autoReconnect)

\* ... until it succeeds, when the server accepts connections: "until success".
RedialSucceeds ==
    AcceptingServer =>
        \A w \in Worker :
            pc[w] = "backoff" ~> (\/ pc[w] \in SessionPc
                                  \/ m_stopRequested \/ ~m_autoReconnect
                                  \/ why[w] = "refused")

\* CNOP answers messages of the runtime, which the connection enters with its DSOP.
CnopOnlyAfterDsop == \A w \in Worker : pc[w] = "cnop" => dsopSeen

\* The "disconnected" at the end of run() is for loops that gave up by themselves, never
\* for one that was stopped.
PartingStatusIsUnrequested ==
    [][\A w \in Worker : Tail(w) /\ why[w] = "stopped" => status' = status]_vars

-----------------------------------------------------------------------------
(* The client implements ClientLifecycle.                                  *)

UpPc == {"helloRecv", "helloWait", "helloParse", "helloBack"} \cup SessionPc \cup ClosePc

phaseOf == IF ~m_running THEN "off" ELSE IF m_stopRequested THEN "stopping" ELSE "on"
linkOf == IF \E w \in Worker : pc[w] = "connecting" THEN "dialling"
          ELSE IF \E w \in Worker : pc[w] \in UpPc THEN "up" ELSE "down"
refusedOf == \E w \in Worker : Active(w) /\ why[w] = "refused"

Lifecycle == INSTANCE ClientLifecycle
                 WITH phase <- phaseOf, link <- linkOf, refused <- refusedOf

\* Every step of the threads is a step of the promised life cycle or invisible to it.
ImplementsLifecycle == Lifecycle!LifecycleSpec
=============================================================================
