------------------------ MODULE DeskflowClientProofs ------------------------
(***************************************************************************)
(* Proofs about DeskflowClient, for any set of workers and descriptors and *)
(* whichever way ::close() treats a blocked recv(): its invariants, and    *)
(* that it implements ClientLifecycle.                                     *)
(***************************************************************************)
EXTENDS DeskflowClient, TLAPS

(* The inductive invariant.                                                *)

\* m_running is true exactly while somebody owns the client: start() sets it before it
\* spawns, the worker clears it as its last act as owner.
Ownership ==
    /\ OneWorker
    /\ \A w \in Worker : Active(w) => m_running
    /\ pc[Js] \in {"clearStop", "setRunning"} => ~m_running
    /\ pc[Js] = "spawn" => m_running /\ \A w \in Worker : ~Active(w)

\* Js is the only writer of m_stopRequested: what it set in stop() it finds set until it
\* clears it in start().
StopHeld ==
    /\ pc[Js] \in ClosePc \cup {"wait", "clearStop"} => m_stopRequested
    /\ pc[Js] \in {"setRunning", "spawn"} => ~m_stopRequested

\* Where the stream is known to be empty.
StreamEmpty ==
    /\ \A w \in Worker :
          /\ pc[w] \in {"loop", "connecting", "decide", "backoff", "exit"}
                => m_fd = NoFd /\ ~buffered
          /\ pc[w] = "closeClear" => m_fd = NoFd
    /\ (\A w \in Worker : ~Active(w)) => m_fd = NoFd /\ ~buffered

\* Which descriptors can be open, and what a close() in progress knows about its own.
Descriptors ==
    /\ \A fd \in open : fd = m_fd \/ \E w \in Worker : pc[w] = "connecting" /\ fd = loc[w]
    /\ \A t \in Thread : pc[t] = "closeFd" => m_fd \in {loc[t], NoFd}
    /\ \A t \in Thread : pc[t] = "closeForget" => m_fd \notin open
    /\ pc[Js] \in {"closeFd", "closeForget"} => \A w \in Worker : pc[w] # "connecting"

\* A message handled after stop() is the last one: the loop test follows.
LateIsLast ==
    \A w \in Worker :
        /\ late[w] <= 1
        /\ late[w] = 1 => /\ pc[w] \in {"cnop", "msgTest", "decide", "exit", "tail"} \cup ClosePc
                          /\ Active(w) => m_stopRequested

\* A refused worker is on its way out, with m_shouldReconnect cleared.
RefusedLeaves ==
    \A w \in Worker :
        why[w] = "refused" =>
            /\ pc[w] \in {"decide", "exit", "tail"} \cup ClosePc
            /\ pc[w] \notin {"exit", "tail"} => ~m_shouldReconnect

\* Whoever ended the run has said so or is about to.
Reported ==
    ~m_running /\ ~m_stopRequested /\ pc[Js] # "setRunning"
        => status \in {"none", "disconnected"} \/ \E w \in Worker : pc[w] = "tail"

IndInv ==
    TypeOK /\ Ownership /\ StopHeld /\ StreamEmpty /\ Descriptors
           /\ LateIsLast /\ RefusedLeaves /\ Reported

-----------------------------------------------------------------------------
(* Frame and arithmetic facts the step lemmas share.                       *)

USE JsIsNoWorker

\* Counting a late message keeps the count a number.
LEMMA CountUp ==
    ASSUME NEW w \in Worker, NEW f \in [Worker -> Nat] PROVE f[w] + 1 \in Nat
OBVIOUS

\* A count that is at most one and not one is zero.
LEMMA AtMostOne == ASSUME NEW n \in Nat, n <= 1, n # 1 PROVE n = 0
OBVIOUS

\* A worker's step to one of its program points keeps the program counters typed.
LEMMA GotoWorker ==
    ASSUME PcOK, NEW w \in Worker, NEW to \in WorkerPc, Goto(w, to) PROVE PcOK'
BY DEF PcOK, Goto, Thread

\* So does a step of Js ...
LEMMA GotoJs ==
    ASSUME PcOK, NEW to \in JsPc, Goto(Js, to) PROVE PcOK'
BY DEF PcOK, Goto, Thread

\* ... and a step of either inside close().
LEMMA GotoClose ==
    ASSUME PcOK, NEW t \in Thread, NEW to \in ClosePc, Goto(t, to) PROVE PcOK'
BY DEF PcOK, Goto, Thread, WorkerPc, JsPc

-----------------------------------------------------------------------------
(* Program counters keep their type.                                      *)

\* Every step leaves every thread at a program point of its own.
LEMMA PcStep ==
    ASSUME PcOK, [Next]_vars PROVE PcOK'
<1> USE DEF ClosePc, SessionPc, WorkerPc, JsPc
<1>1. ASSUME NEW what \in {"connect", "disconnect"}, CallStop(what) PROVE PcOK'
  BY <1>1, GotoJs DEF CallStop
<1>2. ASSUME NEW enable \in BOOLEAN, SetAutoReconnect(enable) PROVE PcOK'
  BY <1>2 DEF SetAutoReconnect, PcOK
<1>3. ASSUME NEW t \in Thread, CloseTest(t) PROVE PcOK'
  BY <1>3, GotoClose DEF CloseTest
<1>4. ASSUME NEW t \in Thread, CloseFd(t) PROVE PcOK'
  BY <1>4, GotoClose DEF CloseFd
<1>5. ASSUME NEW t \in Thread, CloseForget(t) PROVE PcOK'
  BY <1>5, GotoClose DEF CloseForget
<1>6. ASSUME NEW t \in Thread, CloseClear(t) PROVE PcOK'
  BY <1>6, GotoWorker, GotoJs DEF CloseClear, Thread
<1>7. ASSUME WaitOver PROVE PcOK'
  BY <1>7, GotoJs DEF WaitOver
<1>8. ASSUME GiveUpWaiting PROVE PcOK'
  BY <1>8, GotoJs DEF GiveUpWaiting
<1>9. ASSUME StartClearStop PROVE PcOK'
  BY <1>9, GotoJs DEF StartClearStop
<1>10. ASSUME StartSetRunning PROVE PcOK'
  BY <1>10, GotoJs DEF StartSetRunning
<1>11. ASSUME NEW w \in Worker, StartSpawn(w) PROVE PcOK'
  BY <1>11 DEF StartSpawn, PcOK, Thread
<1>12. ASSUME NEW w \in Worker, LoopStop(w) PROVE PcOK'
  BY <1>12, GotoWorker DEF LoopStop
<1>13. ASSUME NEW w \in Worker, NEW fd \in Fd, LoopConnect(w, fd) PROVE PcOK'
  BY <1>13, GotoWorker DEF LoopConnect
<1>14. ASSUME NEW w \in Worker, ConnectOk(w) PROVE PcOK'
  BY <1>14, GotoWorker DEF ConnectOk
<1>15. ASSUME NEW w \in Worker, ConnectFail(w) PROVE PcOK'
  BY <1>15, GotoWorker DEF ConnectFail
<1>16. ASSUME NEW w \in Worker, HelloRecv(w) PROVE PcOK'
  BY <1>16, GotoWorker DEF HelloRecv, RecvCall, FdUsable
<1>17. ASSUME NEW w \in Worker, HelloArrives(w) PROVE PcOK'
  BY <1>17, GotoWorker DEF HelloArrives, PeerSends
<1>18. ASSUME NEW w \in Worker, HelloRecvFails(w) PROVE PcOK'
  BY <1>18, GotoWorker DEF HelloRecvFails, RecvFailed, HandshakeFails, FdUsable
<1>19. ASSUME NEW w \in Worker, HelloEof(w) PROVE PcOK'
  BY <1>19, GotoWorker DEF HelloEof, HandshakeFails
<1>20. ASSUME NEW w \in Worker, HelloOk(w) PROVE PcOK'
  BY <1>20, GotoWorker DEF HelloOk
<1>21. ASSUME NEW w \in Worker, NEW mismatch \in BOOLEAN, HelloBad(w, mismatch) PROVE PcOK'
  BY <1>21, GotoWorker DEF HelloBad, HandshakeFails
<1>22. ASSUME NEW w \in Worker, HelloGone(w) PROVE PcOK'
  BY <1>22, GotoWorker DEF HelloGone
<1>23. ASSUME NEW w \in Worker, HelloBackOk(w) PROVE PcOK'
  BY <1>23, GotoWorker DEF HelloBackOk, FdUsable
<1>24. ASSUME NEW w \in Worker, HelloBackFails(w) PROVE PcOK'
  BY <1>24, GotoWorker DEF HelloBackFails, HandshakeFails
<1>25. ASSUME NEW w \in Worker, MsgTest(w) PROVE PcOK'
  BY <1>25, GotoWorker DEF MsgTest
<1>26. ASSUME NEW w \in Worker, MsgRecv(w) PROVE PcOK'
  BY <1>26, GotoWorker DEF MsgRecv, RecvCall, FdUsable
<1>27. ASSUME NEW w \in Worker, MsgArrives(w) PROVE PcOK'
  BY <1>27, GotoWorker DEF MsgArrives, PeerSends
<1>28. ASSUME NEW w \in Worker, MsgRecvFails(w) PROVE PcOK'
  BY <1>28, GotoWorker DEF MsgRecvFails, RecvFailed, ConnectionLost, FdUsable
<1>29. ASSUME NEW w \in Worker, MsgEof(w) PROVE PcOK'
  BY <1>29, GotoWorker DEF MsgEof, ConnectionLost
<1>30. ASSUME NEW w \in Worker, MsgGone(w) PROVE PcOK'
  BY <1>30, GotoWorker DEF MsgGone
<1>31. ASSUME NEW w \in Worker, NEW m \in Messages, handleMessage(w, m) PROVE PcOK'
  BY <1>31, GotoWorker DEF handleMessage, Messages, KeepsGoing, StatusOf, FdUsable
<1>32. ASSUME NEW w \in Worker, CnopOk(w) PROVE PcOK'
  BY <1>32, GotoWorker DEF CnopOk, FdUsable
<1>33. ASSUME NEW w \in Worker, CnopFails(w) PROVE PcOK'
  BY <1>33, GotoWorker DEF CnopFails
<1>34. ASSUME NEW w \in Worker, DecideStop(w) PROVE PcOK'
  BY <1>34, GotoWorker DEF DecideStop
<1>35. ASSUME NEW w \in Worker, DecideReconnect(w) PROVE PcOK'
  BY <1>35, GotoWorker DEF DecideReconnect
<1>36. ASSUME NEW w \in Worker, BackoffOver(w) PROVE PcOK'
  BY <1>36, GotoWorker DEF BackoffOver
<1>37. ASSUME NEW w \in Worker, ExitRun(w) PROVE PcOK'
  BY <1>37, GotoWorker DEF ExitRun
<1>38. ASSUME NEW w \in Worker, Tail(w) PROVE PcOK'
  BY <1>38, GotoWorker DEF Tail
<1>39. CASE UNCHANGED vars
  BY <1>39 DEF vars, PcOK
<1> QED
  BY <1>1, <1>2, <1>3, <1>4, <1>5, <1>6, <1>7, <1>8, <1>9, <1>10, <1>11, <1>12,
     <1>13, <1>14, <1>15, <1>16, <1>17, <1>18, <1>19, <1>20, <1>21, <1>22, <1>23,
     <1>24, <1>25, <1>26, <1>27, <1>28, <1>29, <1>30, <1>31, <1>32, <1>33, <1>34,
     <1>35, <1>36, <1>37, <1>38, <1>39
  DEF Next, JsCall, JsStep, WorkerStep, PeerStep, PeerHello, PeerMsg, Close, ConnectStep,
      HandshakeStep, MessageStep, ReconnectStep, Thread

-----------------------------------------------------------------------------
(* So does everything else.                                               *)

\* Every step keeps the other variables typed.
LEMMA DataStep ==
    ASSUME DataOK, [Next]_vars PROVE DataOK'
<1> USE DEF DataOK, Thread, Keep, Forget, control, policy, stream, history
<1>1. ASSUME NEW what \in {"connect", "disconnect"}, CallStop(what) PROVE DataOK'
  BY <1>1 DEF CallStop
<1>2. ASSUME NEW enable \in BOOLEAN, SetAutoReconnect(enable) PROVE DataOK'
  BY <1>2 DEF SetAutoReconnect
<1>3. ASSUME NEW t \in Thread, CloseTest(t) PROVE DataOK'
  BY <1>3 DEF CloseTest
<1>4. ASSUME NEW t \in Thread, CloseFd(t) PROVE DataOK'
  BY <1>4 DEF CloseFd
<1>5. ASSUME NEW t \in Thread, CloseForget(t) PROVE DataOK'
  BY <1>5 DEF CloseForget
<1>6. ASSUME NEW t \in Thread, CloseClear(t) PROVE DataOK'
  BY <1>6 DEF CloseClear
<1>7. ASSUME WaitOver PROVE DataOK'
  BY <1>7 DEF WaitOver
<1>8. ASSUME GiveUpWaiting PROVE DataOK'
  BY <1>8 DEF GiveUpWaiting
<1>9. ASSUME StartClearStop PROVE DataOK'
  BY <1>9 DEF StartClearStop
<1>10. ASSUME StartSetRunning PROVE DataOK'
  BY <1>10 DEF StartSetRunning
<1>11. ASSUME NEW w \in Worker, StartSpawn(w) PROVE DataOK'
  BY <1>11 DEF StartSpawn
<1>12. ASSUME NEW w \in Worker, LoopStop(w) PROVE DataOK'
  BY <1>12 DEF LoopStop
<1>13. ASSUME NEW w \in Worker, NEW fd \in Fd, LoopConnect(w, fd) PROVE DataOK'
  BY <1>13 DEF LoopConnect, Statuses
<1>14. ASSUME NEW w \in Worker, ConnectOk(w) PROVE DataOK'
  BY <1>14 DEF ConnectOk, Statuses
<1>15. ASSUME NEW w \in Worker, ConnectFail(w) PROVE DataOK'
  BY <1>15 DEF ConnectFail, Statuses
<1>16. ASSUME NEW w \in Worker, HelloRecv(w) PROVE DataOK'
  BY <1>16 DEF HelloRecv, RecvCall, FdUsable
<1>17. ASSUME NEW w \in Worker, HelloArrives(w) PROVE DataOK'
  BY <1>17 DEF HelloArrives, PeerSends
<1>18. ASSUME NEW w \in Worker, HelloRecvFails(w) PROVE DataOK'
  BY <1>18 DEF HelloRecvFails, RecvFailed, HandshakeFails, FdUsable, Statuses
<1>19. ASSUME NEW w \in Worker, HelloEof(w) PROVE DataOK'
  BY <1>19 DEF HelloEof, HandshakeFails, Statuses
<1>20. ASSUME NEW w \in Worker, HelloOk(w) PROVE DataOK'
  BY <1>20 DEF HelloOk
<1>21. ASSUME NEW w \in Worker, NEW mismatch \in BOOLEAN, HelloBad(w, mismatch) PROVE DataOK'
  BY <1>21 DEF HelloBad, HandshakeFails, Statuses
<1>22. ASSUME NEW w \in Worker, HelloGone(w) PROVE DataOK'
  BY <1>22 DEF HelloGone
<1>23. ASSUME NEW w \in Worker, HelloBackOk(w) PROVE DataOK'
  BY <1>23 DEF HelloBackOk, FdUsable, Statuses
<1>24. ASSUME NEW w \in Worker, HelloBackFails(w) PROVE DataOK'
  BY <1>24 DEF HelloBackFails, HandshakeFails, Statuses
<1>25. ASSUME NEW w \in Worker, MsgTest(w) PROVE DataOK'
  BY <1>25 DEF MsgTest
<1>26. ASSUME NEW w \in Worker, MsgRecv(w) PROVE DataOK'
  BY <1>26 DEF MsgRecv, RecvCall, FdUsable
<1>27. ASSUME NEW w \in Worker, MsgArrives(w) PROVE DataOK'
  BY <1>27 DEF MsgArrives, PeerSends
<1>28. ASSUME NEW w \in Worker, MsgRecvFails(w) PROVE DataOK'
  BY <1>28 DEF MsgRecvFails, RecvFailed, ConnectionLost, FdUsable, Statuses
<1>29. ASSUME NEW w \in Worker, MsgEof(w) PROVE DataOK'
  BY <1>29 DEF MsgEof, ConnectionLost, Statuses
<1>30. ASSUME NEW w \in Worker, MsgGone(w) PROVE DataOK'
  BY <1>30 DEF MsgGone
<1>31. ASSUME NEW w \in Worker, NEW m \in Messages, handleMessage(w, m) PROVE DataOK'
  <2>1. status' \in Statuses
    BY <1>31 DEF handleMessage, StatusOf, Messages, Statuses
  <2>2. why' \in [Worker -> {"none", "stopped", "refused", "no auto reconnect"}]
    BY <1>31 DEF handleMessage
  <2>3. late' \in [Worker -> Nat]
    BY <1>31, CountUp DEF handleMessage
  <2>4. /\ dsopSeen' \in BOOLEAN /\ m_handshakeDone' \in BOOLEAN
        /\ m_shouldReconnect' \in BOOLEAN /\ buffered' \in BOOLEAN
    BY <1>31 DEF handleMessage
  <2>5. UNCHANGED <<loc, op, m_running, m_stopRequested, m_autoReconnect, m_fd, open>>
    BY <1>31 DEF handleMessage
  <2> QED
    BY <2>1, <2>2, <2>3, <2>4, <2>5
<1>32. ASSUME NEW w \in Worker, CnopOk(w) PROVE DataOK'
  BY <1>32 DEF CnopOk, FdUsable
<1>33. ASSUME NEW w \in Worker, CnopFails(w) PROVE DataOK'
  BY <1>33 DEF CnopFails
<1>34. ASSUME NEW w \in Worker, DecideStop(w) PROVE DataOK'
  BY <1>34 DEF DecideStop
<1>35. ASSUME NEW w \in Worker, DecideReconnect(w) PROVE DataOK'
  BY <1>35 DEF DecideReconnect, Statuses
<1>36. ASSUME NEW w \in Worker, BackoffOver(w) PROVE DataOK'
  BY <1>36 DEF BackoffOver
<1>37. ASSUME NEW w \in Worker, ExitRun(w) PROVE DataOK'
  BY <1>37 DEF ExitRun
<1>38. ASSUME NEW w \in Worker, Tail(w) PROVE DataOK'
  BY <1>38 DEF Tail, Statuses
<1>39. CASE UNCHANGED vars
  BY <1>39 DEF vars
<1> QED
  BY <1>1, <1>2, <1>3, <1>4, <1>5, <1>6, <1>7, <1>8, <1>9, <1>10, <1>11, <1>12,
     <1>13, <1>14, <1>15, <1>16, <1>17, <1>18, <1>19, <1>20, <1>21, <1>22, <1>23,
     <1>24, <1>25, <1>26, <1>27, <1>28, <1>29, <1>30, <1>31, <1>32, <1>33, <1>34,
     <1>35, <1>36, <1>37, <1>38, <1>39
  DEF Next, JsCall, JsStep, WorkerStep, PeerStep, PeerHello, PeerMsg, Close, ConnectStep,
      HandshakeStep, MessageStep, ReconnectStep, Thread

-----------------------------------------------------------------------------
(* One owner at a time.                                                   *)

\* Every step of the system keeps a single owner.
LEMMA OwnershipStep ==
    ASSUME TypeOK, Ownership, [Next]_vars PROVE Ownership'
<1> USE DEF TypeOK, PcOK, Ownership, OneWorker, Active, Goto, Thread, ClosePc, control
<1>1. ASSUME NEW what \in {"connect", "disconnect"}, CallStop(what) PROVE Ownership'
  BY <1>1 DEF CallStop
<1>2. ASSUME NEW enable \in BOOLEAN, SetAutoReconnect(enable) PROVE Ownership'
  BY <1>2 DEF SetAutoReconnect
<1>3. ASSUME NEW t \in Thread, CloseTest(t) PROVE Ownership'
  BY <1>3 DEF CloseTest
<1>4. ASSUME NEW t \in Thread, CloseFd(t) PROVE Ownership'
  BY <1>4 DEF CloseFd
<1>5. ASSUME NEW t \in Thread, CloseForget(t) PROVE Ownership'
  BY <1>5 DEF CloseForget
<1>6. ASSUME NEW t \in Thread, CloseClear(t) PROVE Ownership'
  BY <1>6 DEF CloseClear
<1>7. ASSUME WaitOver PROVE Ownership'
  BY <1>7 DEF WaitOver
<1>8. ASSUME GiveUpWaiting PROVE Ownership'
  BY <1>8 DEF GiveUpWaiting
<1>9. ASSUME StartClearStop PROVE Ownership'
  BY <1>9 DEF StartClearStop
<1>10. ASSUME StartSetRunning PROVE Ownership'
  BY <1>10 DEF StartSetRunning
<1>11. ASSUME NEW w \in Worker, StartSpawn(w) PROVE Ownership'
  BY <1>11 DEF StartSpawn
<1>12. ASSUME NEW w \in Worker, LoopStop(w) PROVE Ownership'
  BY <1>12 DEF LoopStop
<1>13. ASSUME NEW w \in Worker, NEW fd \in Fd, LoopConnect(w, fd) PROVE Ownership'
  BY <1>13 DEF LoopConnect
<1>14. ASSUME NEW w \in Worker, ConnectOk(w) PROVE Ownership'
  BY <1>14 DEF ConnectOk
<1>15. ASSUME NEW w \in Worker, ConnectFail(w) PROVE Ownership'
  BY <1>15 DEF ConnectFail
<1>16. ASSUME NEW w \in Worker, HelloRecv(w) PROVE Ownership'
  BY <1>16 DEF HelloRecv, RecvCall, FdUsable
<1>17. ASSUME NEW w \in Worker, HelloArrives(w) PROVE Ownership'
  BY <1>17 DEF HelloArrives, PeerSends
<1>18. ASSUME NEW w \in Worker, HelloRecvFails(w) PROVE Ownership'
  BY <1>18 DEF HelloRecvFails, RecvFailed, HandshakeFails, FdUsable
<1>19. ASSUME NEW w \in Worker, HelloEof(w) PROVE Ownership'
  BY <1>19 DEF HelloEof, HandshakeFails
<1>20. ASSUME NEW w \in Worker, HelloOk(w) PROVE Ownership'
  BY <1>20 DEF HelloOk
<1>21. ASSUME NEW w \in Worker, NEW mismatch \in BOOLEAN, HelloBad(w, mismatch) PROVE Ownership'
  BY <1>21 DEF HelloBad, HandshakeFails
<1>22. ASSUME NEW w \in Worker, HelloGone(w) PROVE Ownership'
  BY <1>22 DEF HelloGone
<1>23. ASSUME NEW w \in Worker, HelloBackOk(w) PROVE Ownership'
  BY <1>23 DEF HelloBackOk, FdUsable
<1>24. ASSUME NEW w \in Worker, HelloBackFails(w) PROVE Ownership'
  BY <1>24 DEF HelloBackFails, HandshakeFails
<1>25. ASSUME NEW w \in Worker, MsgTest(w) PROVE Ownership'
  BY <1>25 DEF MsgTest
<1>26. ASSUME NEW w \in Worker, MsgRecv(w) PROVE Ownership'
  BY <1>26 DEF MsgRecv, RecvCall, FdUsable
<1>27. ASSUME NEW w \in Worker, MsgArrives(w) PROVE Ownership'
  BY <1>27 DEF MsgArrives, PeerSends
<1>28. ASSUME NEW w \in Worker, MsgRecvFails(w) PROVE Ownership'
  BY <1>28 DEF MsgRecvFails, RecvFailed, ConnectionLost, FdUsable
<1>29. ASSUME NEW w \in Worker, MsgEof(w) PROVE Ownership'
  BY <1>29 DEF MsgEof, ConnectionLost
<1>30. ASSUME NEW w \in Worker, MsgGone(w) PROVE Ownership'
  BY <1>30 DEF MsgGone
<1>31. ASSUME NEW w \in Worker, NEW m \in Messages, handleMessage(w, m) PROVE Ownership'
  BY <1>31 DEF handleMessage, Messages, KeepsGoing, StatusOf, FdUsable, DataOK
<1>32. ASSUME NEW w \in Worker, CnopOk(w) PROVE Ownership'
  BY <1>32 DEF CnopOk, FdUsable
<1>33. ASSUME NEW w \in Worker, CnopFails(w) PROVE Ownership'
  BY <1>33 DEF CnopFails
<1>34. ASSUME NEW w \in Worker, DecideStop(w) PROVE Ownership'
  BY <1>34 DEF DecideStop
<1>35. ASSUME NEW w \in Worker, DecideReconnect(w) PROVE Ownership'
  BY <1>35 DEF DecideReconnect
<1>36. ASSUME NEW w \in Worker, BackoffOver(w) PROVE Ownership'
  BY <1>36 DEF BackoffOver
<1>37. ASSUME NEW w \in Worker, ExitRun(w) PROVE Ownership'
  BY <1>37 DEF ExitRun
<1>38. ASSUME NEW w \in Worker, Tail(w) PROVE Ownership'
  BY <1>38 DEF Tail
<1>39. CASE UNCHANGED vars
  BY <1>39 DEF vars
<1> QED
  BY <1>1, <1>2, <1>3, <1>4, <1>5, <1>6, <1>7, <1>8, <1>9, <1>10, <1>11, <1>12,
     <1>13, <1>14, <1>15, <1>16, <1>17, <1>18, <1>19, <1>20, <1>21, <1>22, <1>23,
     <1>24, <1>25, <1>26, <1>27, <1>28, <1>29, <1>30, <1>31, <1>32, <1>33, <1>34,
     <1>35, <1>36, <1>37, <1>38, <1>39
  DEF Next, JsCall, JsStep, WorkerStep, PeerStep, PeerHello, PeerMsg, Close, ConnectStep,
      HandshakeStep, MessageStep, ReconnectStep, Thread

-----------------------------------------------------------------------------
(* The stop flag is held through stop() and the wait.                     *)

\* m_stopRequested stays as Js left it, whatever the workers do.
LEMMA StopHeldStep ==
    ASSUME TypeOK, Ownership, StopHeld, [Next]_vars PROVE StopHeld'
<1> USE DEF TypeOK, PcOK, StopHeld, Goto, Thread, ClosePc, control
<1>1. ASSUME NEW what \in {"connect", "disconnect"}, CallStop(what) PROVE StopHeld'
  BY <1>1 DEF CallStop
<1>2. ASSUME NEW enable \in BOOLEAN, SetAutoReconnect(enable) PROVE StopHeld'
  BY <1>2 DEF SetAutoReconnect
<1>3. ASSUME NEW t \in Thread, CloseTest(t) PROVE StopHeld'
  BY <1>3 DEF CloseTest
<1>4. ASSUME NEW t \in Thread, CloseFd(t) PROVE StopHeld'
  BY <1>4 DEF CloseFd
<1>5. ASSUME NEW t \in Thread, CloseForget(t) PROVE StopHeld'
  BY <1>5 DEF CloseForget
<1>6. ASSUME NEW t \in Thread, CloseClear(t) PROVE StopHeld'
  BY <1>6 DEF CloseClear
<1>7. ASSUME WaitOver PROVE StopHeld'
  BY <1>7 DEF WaitOver
<1>8. ASSUME GiveUpWaiting PROVE StopHeld'
  BY <1>8 DEF GiveUpWaiting
<1>9. ASSUME StartClearStop PROVE StopHeld'
  BY <1>9 DEF StartClearStop
<1>10. ASSUME StartSetRunning PROVE StopHeld'
  BY <1>10 DEF StartSetRunning
<1>11. ASSUME NEW w \in Worker, StartSpawn(w) PROVE StopHeld'
  BY <1>11 DEF StartSpawn
<1>12. ASSUME NEW w \in Worker, LoopStop(w) PROVE StopHeld'
  BY <1>12 DEF LoopStop
<1>13. ASSUME NEW w \in Worker, NEW fd \in Fd, LoopConnect(w, fd) PROVE StopHeld'
  BY <1>13 DEF LoopConnect
<1>14. ASSUME NEW w \in Worker, ConnectOk(w) PROVE StopHeld'
  BY <1>14 DEF ConnectOk
<1>15. ASSUME NEW w \in Worker, ConnectFail(w) PROVE StopHeld'
  BY <1>15 DEF ConnectFail
<1>16. ASSUME NEW w \in Worker, HelloRecv(w) PROVE StopHeld'
  BY <1>16 DEF HelloRecv, RecvCall, FdUsable
<1>17. ASSUME NEW w \in Worker, HelloArrives(w) PROVE StopHeld'
  BY <1>17 DEF HelloArrives, PeerSends
<1>18. ASSUME NEW w \in Worker, HelloRecvFails(w) PROVE StopHeld'
  BY <1>18 DEF HelloRecvFails, RecvFailed, HandshakeFails, FdUsable
<1>19. ASSUME NEW w \in Worker, HelloEof(w) PROVE StopHeld'
  BY <1>19 DEF HelloEof, HandshakeFails
<1>20. ASSUME NEW w \in Worker, HelloOk(w) PROVE StopHeld'
  BY <1>20 DEF HelloOk
<1>21. ASSUME NEW w \in Worker, NEW mismatch \in BOOLEAN, HelloBad(w, mismatch) PROVE StopHeld'
  BY <1>21 DEF HelloBad, HandshakeFails
<1>22. ASSUME NEW w \in Worker, HelloGone(w) PROVE StopHeld'
  BY <1>22 DEF HelloGone
<1>23. ASSUME NEW w \in Worker, HelloBackOk(w) PROVE StopHeld'
  BY <1>23 DEF HelloBackOk, FdUsable
<1>24. ASSUME NEW w \in Worker, HelloBackFails(w) PROVE StopHeld'
  BY <1>24 DEF HelloBackFails, HandshakeFails
<1>25. ASSUME NEW w \in Worker, MsgTest(w) PROVE StopHeld'
  BY <1>25 DEF MsgTest
<1>26. ASSUME NEW w \in Worker, MsgRecv(w) PROVE StopHeld'
  BY <1>26 DEF MsgRecv, RecvCall, FdUsable
<1>27. ASSUME NEW w \in Worker, MsgArrives(w) PROVE StopHeld'
  BY <1>27 DEF MsgArrives, PeerSends
<1>28. ASSUME NEW w \in Worker, MsgRecvFails(w) PROVE StopHeld'
  BY <1>28 DEF MsgRecvFails, RecvFailed, ConnectionLost, FdUsable
<1>29. ASSUME NEW w \in Worker, MsgEof(w) PROVE StopHeld'
  BY <1>29 DEF MsgEof, ConnectionLost
<1>30. ASSUME NEW w \in Worker, MsgGone(w) PROVE StopHeld'
  BY <1>30 DEF MsgGone
<1>31. ASSUME NEW w \in Worker, NEW m \in Messages, handleMessage(w, m) PROVE StopHeld'
  BY <1>31 DEF handleMessage, Messages, KeepsGoing, StatusOf, FdUsable
<1>32. ASSUME NEW w \in Worker, CnopOk(w) PROVE StopHeld'
  BY <1>32 DEF CnopOk, FdUsable
<1>33. ASSUME NEW w \in Worker, CnopFails(w) PROVE StopHeld'
  BY <1>33 DEF CnopFails
<1>34. ASSUME NEW w \in Worker, DecideStop(w) PROVE StopHeld'
  BY <1>34 DEF DecideStop
<1>35. ASSUME NEW w \in Worker, DecideReconnect(w) PROVE StopHeld'
  BY <1>35 DEF DecideReconnect
<1>36. ASSUME NEW w \in Worker, BackoffOver(w) PROVE StopHeld'
  BY <1>36 DEF BackoffOver
<1>37. ASSUME NEW w \in Worker, ExitRun(w) PROVE StopHeld'
  BY <1>37 DEF ExitRun
<1>38. ASSUME NEW w \in Worker, Tail(w) PROVE StopHeld'
  BY <1>38 DEF Tail
<1>39. CASE UNCHANGED vars
  BY <1>39 DEF vars
<1> QED
  BY <1>1, <1>2, <1>3, <1>4, <1>5, <1>6, <1>7, <1>8, <1>9, <1>10, <1>11, <1>12,
     <1>13, <1>14, <1>15, <1>16, <1>17, <1>18, <1>19, <1>20, <1>21, <1>22, <1>23,
     <1>24, <1>25, <1>26, <1>27, <1>28, <1>29, <1>30, <1>31, <1>32, <1>33, <1>34,
     <1>35, <1>36, <1>37, <1>38, <1>39
  DEF Next, JsCall, JsStep, WorkerStep, PeerStep, PeerHello, PeerMsg, Close, ConnectStep,
      HandshakeStep, MessageStep, ReconnectStep, Thread

-----------------------------------------------------------------------------
(* The stream is empty between connections.                               *)

\* The stream stays empty where it was, although two threads may be inside close().
LEMMA StreamEmptyStep ==
    ASSUME TypeOK, Ownership, StreamEmpty, Descriptors, [Next]_vars PROVE StreamEmpty'
<1> USE DEF TypeOK, PcOK, DataOK, Ownership, OneWorker, Active, StreamEmpty, Descriptors, Goto, Thread, ClosePc, SessionPc, stream
<1>1. ASSUME NEW what \in {"connect", "disconnect"}, CallStop(what) PROVE StreamEmpty'
  BY <1>1 DEF CallStop
<1>2. ASSUME NEW enable \in BOOLEAN, SetAutoReconnect(enable) PROVE StreamEmpty'
  BY <1>2 DEF SetAutoReconnect
<1>3. ASSUME NEW t \in Thread, CloseTest(t) PROVE StreamEmpty'
  BY <1>3 DEF CloseTest
<1>4. ASSUME NEW t \in Thread, CloseFd(t) PROVE StreamEmpty'
  BY <1>4 DEF CloseFd
<1>5. ASSUME NEW t \in Thread, CloseForget(t) PROVE StreamEmpty'
  BY <1>5 DEF CloseForget
<1>6. ASSUME NEW t \in Thread, CloseClear(t) PROVE StreamEmpty'
  BY <1>6 DEF CloseClear
<1>7. ASSUME WaitOver PROVE StreamEmpty'
  BY <1>7 DEF WaitOver
<1>8. ASSUME GiveUpWaiting PROVE StreamEmpty'
  BY <1>8 DEF GiveUpWaiting
<1>9. ASSUME StartClearStop PROVE StreamEmpty'
  BY <1>9 DEF StartClearStop
<1>10. ASSUME StartSetRunning PROVE StreamEmpty'
  BY <1>10 DEF StartSetRunning
<1>11. ASSUME NEW w \in Worker, StartSpawn(w) PROVE StreamEmpty'
  BY <1>11 DEF StartSpawn
<1>12. ASSUME NEW w \in Worker, LoopStop(w) PROVE StreamEmpty'
  BY <1>12 DEF LoopStop
<1>13. ASSUME NEW w \in Worker, NEW fd \in Fd, LoopConnect(w, fd) PROVE StreamEmpty'
  BY <1>13 DEF LoopConnect
<1>14. ASSUME NEW w \in Worker, ConnectOk(w) PROVE StreamEmpty'
  BY <1>14 DEF ConnectOk
<1>15. ASSUME NEW w \in Worker, ConnectFail(w) PROVE StreamEmpty'
  BY <1>15 DEF ConnectFail
<1>16. ASSUME NEW w \in Worker, HelloRecv(w) PROVE StreamEmpty'
  BY <1>16 DEF HelloRecv, RecvCall, FdUsable
<1>17. ASSUME NEW w \in Worker, HelloArrives(w) PROVE StreamEmpty'
  BY <1>17 DEF HelloArrives, PeerSends
<1>18. ASSUME NEW w \in Worker, HelloRecvFails(w) PROVE StreamEmpty'
  BY <1>18 DEF HelloRecvFails, RecvFailed, HandshakeFails, FdUsable
<1>19. ASSUME NEW w \in Worker, HelloEof(w) PROVE StreamEmpty'
  BY <1>19 DEF HelloEof, HandshakeFails
<1>20. ASSUME NEW w \in Worker, HelloOk(w) PROVE StreamEmpty'
  BY <1>20 DEF HelloOk
<1>21. ASSUME NEW w \in Worker, NEW mismatch \in BOOLEAN, HelloBad(w, mismatch) PROVE StreamEmpty'
  BY <1>21 DEF HelloBad, HandshakeFails
<1>22. ASSUME NEW w \in Worker, HelloGone(w) PROVE StreamEmpty'
  BY <1>22 DEF HelloGone
<1>23. ASSUME NEW w \in Worker, HelloBackOk(w) PROVE StreamEmpty'
  BY <1>23 DEF HelloBackOk, FdUsable
<1>24. ASSUME NEW w \in Worker, HelloBackFails(w) PROVE StreamEmpty'
  BY <1>24 DEF HelloBackFails, HandshakeFails
<1>25. ASSUME NEW w \in Worker, MsgTest(w) PROVE StreamEmpty'
  BY <1>25 DEF MsgTest
<1>26. ASSUME NEW w \in Worker, MsgRecv(w) PROVE StreamEmpty'
  BY <1>26 DEF MsgRecv, RecvCall, FdUsable
<1>27. ASSUME NEW w \in Worker, MsgArrives(w) PROVE StreamEmpty'
  BY <1>27 DEF MsgArrives, PeerSends
<1>28. ASSUME NEW w \in Worker, MsgRecvFails(w) PROVE StreamEmpty'
  BY <1>28 DEF MsgRecvFails, RecvFailed, ConnectionLost, FdUsable
<1>29. ASSUME NEW w \in Worker, MsgEof(w) PROVE StreamEmpty'
  BY <1>29 DEF MsgEof, ConnectionLost
<1>30. ASSUME NEW w \in Worker, MsgGone(w) PROVE StreamEmpty'
  BY <1>30 DEF MsgGone
<1>31. ASSUME NEW w \in Worker, NEW m \in Messages, handleMessage(w, m) PROVE StreamEmpty'
  BY <1>31 DEF handleMessage, Messages, KeepsGoing, StatusOf, FdUsable
<1>32. ASSUME NEW w \in Worker, CnopOk(w) PROVE StreamEmpty'
  BY <1>32 DEF CnopOk, FdUsable
<1>33. ASSUME NEW w \in Worker, CnopFails(w) PROVE StreamEmpty'
  BY <1>33 DEF CnopFails
<1>34. ASSUME NEW w \in Worker, DecideStop(w) PROVE StreamEmpty'
  BY <1>34 DEF DecideStop
<1>35. ASSUME NEW w \in Worker, DecideReconnect(w) PROVE StreamEmpty'
  BY <1>35 DEF DecideReconnect
<1>36. ASSUME NEW w \in Worker, BackoffOver(w) PROVE StreamEmpty'
  BY <1>36 DEF BackoffOver
<1>37. ASSUME NEW w \in Worker, ExitRun(w) PROVE StreamEmpty'
  BY <1>37 DEF ExitRun
<1>38. ASSUME NEW w \in Worker, Tail(w) PROVE StreamEmpty'
  BY <1>38 DEF Tail
<1>39. CASE UNCHANGED vars
  BY <1>39 DEF vars
<1> QED
  BY <1>1, <1>2, <1>3, <1>4, <1>5, <1>6, <1>7, <1>8, <1>9, <1>10, <1>11, <1>12,
     <1>13, <1>14, <1>15, <1>16, <1>17, <1>18, <1>19, <1>20, <1>21, <1>22, <1>23,
     <1>24, <1>25, <1>26, <1>27, <1>28, <1>29, <1>30, <1>31, <1>32, <1>33, <1>34,
     <1>35, <1>36, <1>37, <1>38, <1>39
  DEF Next, JsCall, JsStep, WorkerStep, PeerStep, PeerHello, PeerMsg, Close, ConnectStep,
      HandshakeStep, MessageStep, ReconnectStep, Thread

-----------------------------------------------------------------------------
(* Open descriptors are accounted for.                                    *)

\* Open descriptors stay accounted for, and a stale number stays harmless.
LEMMA DescriptorsStep ==
    ASSUME TypeOK, Ownership, StopHeld, StreamEmpty, Descriptors, [Next]_vars PROVE Descriptors'
<1> USE DEF TypeOK, PcOK, DataOK, Ownership, OneWorker, Active, StopHeld, StreamEmpty, Descriptors, Goto, Keep, Forget, Thread, ClosePc, stream, control
<1>1. ASSUME NEW what \in {"connect", "disconnect"}, CallStop(what) PROVE Descriptors'
  BY <1>1 DEF CallStop
<1>2. ASSUME NEW enable \in BOOLEAN, SetAutoReconnect(enable) PROVE Descriptors'
  BY <1>2 DEF SetAutoReconnect
<1>3. ASSUME NEW t \in Thread, CloseTest(t) PROVE Descriptors'
  BY <1>3 DEF CloseTest
<1>4. ASSUME NEW t \in Thread, CloseFd(t) PROVE Descriptors'
  <2> USE <1>4 DEF CloseFd
  <2>1. open \subseteq Fd /\ NoFd \notin open /\ m_fd' = m_fd
    BY NoFdIsNoFd
  <2>2. \A v \in Worker : pc'[v] = "connecting" => pc[v] = "connecting" /\ loc'[v] = loc[v]
    OBVIOUS
  <2>3. \A v \in Worker : pc[v] = "connecting" => pc'[v] = "connecting" /\ loc'[v] = loc[v]
    OBVIOUS
  <2>4. \A fd \in open' : fd = m_fd' \/ \E v \in Worker : pc'[v] = "connecting" /\ fd = loc'[v]
    BY <2>1, <2>3
  <2>5. \A u \in Thread : pc'[u] = "closeFd" => m_fd' \in {loc'[u], NoFd}
    BY <2>1
  <2>6. \A u \in Thread : pc'[u] = "closeForget" => m_fd' \notin open'
    BY <2>1
  <2>7. pc'[Js] \in {"closeFd", "closeForget"} => \A v \in Worker : pc'[v] # "connecting"
    BY <2>2
  <2> HIDE <1>4 DEF CloseFd
  <2> QED
    BY <2>4, <2>5, <2>6, <2>7
<1>5. ASSUME NEW t \in Thread, CloseForget(t) PROVE Descriptors'
  BY <1>5 DEF CloseForget
<1>6. ASSUME NEW t \in Thread, CloseClear(t) PROVE Descriptors'
  BY <1>6 DEF CloseClear
<1>7. ASSUME WaitOver PROVE Descriptors'
  BY <1>7 DEF WaitOver
<1>8. ASSUME GiveUpWaiting PROVE Descriptors'
  BY <1>8 DEF GiveUpWaiting
<1>9. ASSUME StartClearStop PROVE Descriptors'
  BY <1>9 DEF StartClearStop
<1>10. ASSUME StartSetRunning PROVE Descriptors'
  BY <1>10 DEF StartSetRunning
<1>11. ASSUME NEW w \in Worker, StartSpawn(w) PROVE Descriptors'
  BY <1>11 DEF StartSpawn
<1>12. ASSUME NEW w \in Worker, LoopStop(w) PROVE Descriptors'
  BY <1>12 DEF LoopStop
<1>13. ASSUME NEW w \in Worker, NEW fd \in Fd, LoopConnect(w, fd) PROVE Descriptors'
  BY <1>13 DEF LoopConnect
<1>14. ASSUME NEW w \in Worker, ConnectOk(w) PROVE Descriptors'
  <2> USE <1>14 DEF ConnectOk
  <2>1. m_fd = NoFd /\ NoFd \notin open /\ open' = open /\ m_fd' = loc[w]
    BY NoFdIsNoFd
  <2>2. \A v \in Worker : v # w => pc'[v] \in {"idle", "tail"}
    OBVIOUS
  <2>3. pc'[w] = "helloRecv" /\ pc'[Js] = pc[Js] /\ pc[Js] \notin {"closeFd", "closeForget"}
    BY JsIsNoWorker
  <2>4. \A fd \in open' : fd = m_fd'
    BY <2>1
  <2>5. \A u \in Thread : pc'[u] \notin {"closeFd", "closeForget"}
    BY <2>2, <2>3
  <2> HIDE <1>14 DEF ConnectOk
  <2> QED
    BY <2>4, <2>5
<1>15. ASSUME NEW w \in Worker, ConnectFail(w) PROVE Descriptors'
  BY <1>15 DEF ConnectFail
<1>16. ASSUME NEW w \in Worker, HelloRecv(w) PROVE Descriptors'
  BY <1>16 DEF HelloRecv, RecvCall, FdUsable
<1>17. ASSUME NEW w \in Worker, HelloArrives(w) PROVE Descriptors'
  BY <1>17 DEF HelloArrives, PeerSends
<1>18. ASSUME NEW w \in Worker, HelloRecvFails(w) PROVE Descriptors'
  BY <1>18 DEF HelloRecvFails, RecvFailed, HandshakeFails, FdUsable
<1>19. ASSUME NEW w \in Worker, HelloEof(w) PROVE Descriptors'
  BY <1>19 DEF HelloEof, HandshakeFails
<1>20. ASSUME NEW w \in Worker, HelloOk(w) PROVE Descriptors'
  BY <1>20 DEF HelloOk
<1>21. ASSUME NEW w \in Worker, NEW mismatch \in BOOLEAN, HelloBad(w, mismatch) PROVE Descriptors'
  BY <1>21 DEF HelloBad, HandshakeFails
<1>22. ASSUME NEW w \in Worker, HelloGone(w) PROVE Descriptors'
  BY <1>22 DEF HelloGone
<1>23. ASSUME NEW w \in Worker, HelloBackOk(w) PROVE Descriptors'
  BY <1>23 DEF HelloBackOk, FdUsable
<1>24. ASSUME NEW w \in Worker, HelloBackFails(w) PROVE Descriptors'
  BY <1>24 DEF HelloBackFails, HandshakeFails
<1>25. ASSUME NEW w \in Worker, MsgTest(w) PROVE Descriptors'
  BY <1>25 DEF MsgTest
<1>26. ASSUME NEW w \in Worker, MsgRecv(w) PROVE Descriptors'
  BY <1>26 DEF MsgRecv, RecvCall, FdUsable
<1>27. ASSUME NEW w \in Worker, MsgArrives(w) PROVE Descriptors'
  BY <1>27 DEF MsgArrives, PeerSends
<1>28. ASSUME NEW w \in Worker, MsgRecvFails(w) PROVE Descriptors'
  BY <1>28 DEF MsgRecvFails, RecvFailed, ConnectionLost, FdUsable
<1>29. ASSUME NEW w \in Worker, MsgEof(w) PROVE Descriptors'
  BY <1>29 DEF MsgEof, ConnectionLost
<1>30. ASSUME NEW w \in Worker, MsgGone(w) PROVE Descriptors'
  BY <1>30 DEF MsgGone
<1>31. ASSUME NEW w \in Worker, NEW m \in Messages, handleMessage(w, m) PROVE Descriptors'
  BY <1>31 DEF handleMessage, Messages, KeepsGoing, StatusOf, FdUsable
<1>32. ASSUME NEW w \in Worker, CnopOk(w) PROVE Descriptors'
  BY <1>32 DEF CnopOk, FdUsable
<1>33. ASSUME NEW w \in Worker, CnopFails(w) PROVE Descriptors'
  BY <1>33 DEF CnopFails
<1>34. ASSUME NEW w \in Worker, DecideStop(w) PROVE Descriptors'
  BY <1>34 DEF DecideStop
<1>35. ASSUME NEW w \in Worker, DecideReconnect(w) PROVE Descriptors'
  BY <1>35 DEF DecideReconnect
<1>36. ASSUME NEW w \in Worker, BackoffOver(w) PROVE Descriptors'
  BY <1>36 DEF BackoffOver
<1>37. ASSUME NEW w \in Worker, ExitRun(w) PROVE Descriptors'
  BY <1>37 DEF ExitRun
<1>38. ASSUME NEW w \in Worker, Tail(w) PROVE Descriptors'
  BY <1>38 DEF Tail
<1>39. CASE UNCHANGED vars
  BY <1>39 DEF vars
<1> QED
  BY <1>1, <1>2, <1>3, <1>4, <1>5, <1>6, <1>7, <1>8, <1>9, <1>10, <1>11, <1>12,
     <1>13, <1>14, <1>15, <1>16, <1>17, <1>18, <1>19, <1>20, <1>21, <1>22, <1>23,
     <1>24, <1>25, <1>26, <1>27, <1>28, <1>29, <1>30, <1>31, <1>32, <1>33, <1>34,
     <1>35, <1>36, <1>37, <1>38, <1>39
  DEF Next, JsCall, JsStep, WorkerStep, PeerStep, PeerHello, PeerMsg, Close, ConnectStep,
      HandshakeStep, MessageStep, ReconnectStep, Thread

-----------------------------------------------------------------------------
(* At most one late message.                                              *)

\* A message handled after stop() stays the last one.
LEMMA LateIsLastStep ==
    ASSUME TypeOK, Ownership, LateIsLast, [Next]_vars PROVE LateIsLast'
<1> USE DEF TypeOK, PcOK, DataOK, Ownership, Active, LateIsLast, Goto, Thread, ClosePc, control, history
<1>1. ASSUME NEW what \in {"connect", "disconnect"}, CallStop(what) PROVE LateIsLast'
  BY <1>1 DEF CallStop
<1>2. ASSUME NEW enable \in BOOLEAN, SetAutoReconnect(enable) PROVE LateIsLast'
  BY <1>2 DEF SetAutoReconnect
<1>3. ASSUME NEW t \in Thread, CloseTest(t) PROVE LateIsLast'
  BY <1>3 DEF CloseTest
<1>4. ASSUME NEW t \in Thread, CloseFd(t) PROVE LateIsLast'
  BY <1>4 DEF CloseFd
<1>5. ASSUME NEW t \in Thread, CloseForget(t) PROVE LateIsLast'
  BY <1>5 DEF CloseForget
<1>6. ASSUME NEW t \in Thread, CloseClear(t) PROVE LateIsLast'
  BY <1>6 DEF CloseClear
<1>7. ASSUME WaitOver PROVE LateIsLast'
  BY <1>7 DEF WaitOver
<1>8. ASSUME GiveUpWaiting PROVE LateIsLast'
  BY <1>8 DEF GiveUpWaiting
<1>9. ASSUME StartClearStop PROVE LateIsLast'
  BY <1>9 DEF StartClearStop
<1>10. ASSUME StartSetRunning PROVE LateIsLast'
  BY <1>10 DEF StartSetRunning
<1>11. ASSUME NEW w \in Worker, StartSpawn(w) PROVE LateIsLast'
  BY <1>11 DEF StartSpawn
<1>12. ASSUME NEW w \in Worker, LoopStop(w) PROVE LateIsLast'
  BY <1>12 DEF LoopStop
<1>13. ASSUME NEW w \in Worker, NEW fd \in Fd, LoopConnect(w, fd) PROVE LateIsLast'
  BY <1>13 DEF LoopConnect
<1>14. ASSUME NEW w \in Worker, ConnectOk(w) PROVE LateIsLast'
  BY <1>14 DEF ConnectOk
<1>15. ASSUME NEW w \in Worker, ConnectFail(w) PROVE LateIsLast'
  BY <1>15 DEF ConnectFail
<1>16. ASSUME NEW w \in Worker, HelloRecv(w) PROVE LateIsLast'
  BY <1>16 DEF HelloRecv, RecvCall, FdUsable
<1>17. ASSUME NEW w \in Worker, HelloArrives(w) PROVE LateIsLast'
  BY <1>17 DEF HelloArrives, PeerSends
<1>18. ASSUME NEW w \in Worker, HelloRecvFails(w) PROVE LateIsLast'
  BY <1>18 DEF HelloRecvFails, RecvFailed, HandshakeFails, FdUsable
<1>19. ASSUME NEW w \in Worker, HelloEof(w) PROVE LateIsLast'
  BY <1>19 DEF HelloEof, HandshakeFails
<1>20. ASSUME NEW w \in Worker, HelloOk(w) PROVE LateIsLast'
  BY <1>20 DEF HelloOk
<1>21. ASSUME NEW w \in Worker, NEW mismatch \in BOOLEAN, HelloBad(w, mismatch) PROVE LateIsLast'
  BY <1>21 DEF HelloBad, HandshakeFails
<1>22. ASSUME NEW w \in Worker, HelloGone(w) PROVE LateIsLast'
  BY <1>22 DEF HelloGone
<1>23. ASSUME NEW w \in Worker, HelloBackOk(w) PROVE LateIsLast'
  BY <1>23 DEF HelloBackOk, FdUsable
<1>24. ASSUME NEW w \in Worker, HelloBackFails(w) PROVE LateIsLast'
  BY <1>24 DEF HelloBackFails, HandshakeFails
<1>25. ASSUME NEW w \in Worker, MsgTest(w) PROVE LateIsLast'
  BY <1>25 DEF MsgTest
<1>26. ASSUME NEW w \in Worker, MsgRecv(w) PROVE LateIsLast'
  BY <1>26 DEF MsgRecv, RecvCall, FdUsable
<1>27. ASSUME NEW w \in Worker, MsgArrives(w) PROVE LateIsLast'
  BY <1>27 DEF MsgArrives, PeerSends
<1>28. ASSUME NEW w \in Worker, MsgRecvFails(w) PROVE LateIsLast'
  BY <1>28 DEF MsgRecvFails, RecvFailed, ConnectionLost, FdUsable
<1>29. ASSUME NEW w \in Worker, MsgEof(w) PROVE LateIsLast'
  BY <1>29 DEF MsgEof, ConnectionLost
<1>30. ASSUME NEW w \in Worker, MsgGone(w) PROVE LateIsLast'
  BY <1>30 DEF MsgGone
<1>31. ASSUME NEW w \in Worker, NEW m \in Messages, handleMessage(w, m) PROVE LateIsLast'
  <2>1. pc[w] = "msgParse" /\ late[w] \in Nat
    BY <1>31 DEF handleMessage
  <2>2. late[w] = 0
    BY <2>1, AtMostOne
  <2>3. late' = [late EXCEPT ![w] = IF m_stopRequested THEN late[w] + 1 ELSE late[w]]
        /\ UNCHANGED m_stopRequested
    BY <1>31 DEF handleMessage
  <2>4. /\ pc'[w] \in {"cnop", "msgTest", "closeTest"}
        /\ \A v \in Worker : v # w => pc'[v] = pc[v]
    BY <1>31 DEF handleMessage
  <2>5. late'[w] = IF m_stopRequested THEN 0 + 1 ELSE 0
    BY <2>2, <2>3
  <2>6. \A v \in Worker : v # w => late'[v] = late[v]
    BY <2>3
  <2> HIDE DEF TypeOK, PcOK, DataOK, Ownership
  <2> QED
    BY <2>3, <2>4, <2>5, <2>6
<1>32. ASSUME NEW w \in Worker, CnopOk(w) PROVE LateIsLast'
  BY <1>32 DEF CnopOk, FdUsable
<1>33. ASSUME NEW w \in Worker, CnopFails(w) PROVE LateIsLast'
  BY <1>33 DEF CnopFails
<1>34. ASSUME NEW w \in Worker, DecideStop(w) PROVE LateIsLast'
  BY <1>34 DEF DecideStop
<1>35. ASSUME NEW w \in Worker, DecideReconnect(w) PROVE LateIsLast'
  BY <1>35 DEF DecideReconnect
<1>36. ASSUME NEW w \in Worker, BackoffOver(w) PROVE LateIsLast'
  BY <1>36 DEF BackoffOver
<1>37. ASSUME NEW w \in Worker, ExitRun(w) PROVE LateIsLast'
  BY <1>37 DEF ExitRun
<1>38. ASSUME NEW w \in Worker, Tail(w) PROVE LateIsLast'
  <2>1. late' = [late EXCEPT ![w] = 0] /\ pc' = [pc EXCEPT ![w] = "idle"]
        /\ UNCHANGED m_stopRequested
    BY <1>38 DEF Tail
  <2>2. late'[w] = 0 /\ \A v \in Worker : v # w => late'[v] = late[v] /\ pc'[v] = pc[v]
    BY <2>1
  <2> HIDE DEF TypeOK, PcOK, DataOK, Ownership, Active, ClosePc
  <2> QED
    BY <2>1, <2>2 DEF Active
<1>39. CASE UNCHANGED vars
  BY <1>39 DEF vars
<1> QED
  BY <1>1, <1>2, <1>3, <1>4, <1>5, <1>6, <1>7, <1>8, <1>9, <1>10, <1>11, <1>12,
     <1>13, <1>14, <1>15, <1>16, <1>17, <1>18, <1>19, <1>20, <1>21, <1>22, <1>23,
     <1>24, <1>25, <1>26, <1>27, <1>28, <1>29, <1>30, <1>31, <1>32, <1>33, <1>34,
     <1>35, <1>36, <1>37, <1>38, <1>39
  DEF Next, JsCall, JsStep, WorkerStep, PeerStep, PeerHello, PeerMsg, Close, ConnectStep,
      HandshakeStep, MessageStep, ReconnectStep, Thread

-----------------------------------------------------------------------------
(* Refused workers leave.                                                 *)

\* A refused worker stays on its way out.
LEMMA RefusedLeavesStep ==
    ASSUME TypeOK, Ownership, RefusedLeaves, [Next]_vars PROVE RefusedLeaves'
<1> USE DEF TypeOK, PcOK, DataOK, Ownership, OneWorker, Active, RefusedLeaves, Goto, Thread, ClosePc, policy, history
<1>1. ASSUME NEW what \in {"connect", "disconnect"}, CallStop(what) PROVE RefusedLeaves'
  BY <1>1 DEF CallStop
<1>2. ASSUME NEW enable \in BOOLEAN, SetAutoReconnect(enable) PROVE RefusedLeaves'
  BY <1>2 DEF SetAutoReconnect
<1>3. ASSUME NEW t \in Thread, CloseTest(t) PROVE RefusedLeaves'
  BY <1>3 DEF CloseTest
<1>4. ASSUME NEW t \in Thread, CloseFd(t) PROVE RefusedLeaves'
  BY <1>4 DEF CloseFd
<1>5. ASSUME NEW t \in Thread, CloseForget(t) PROVE RefusedLeaves'
  BY <1>5 DEF CloseForget
<1>6. ASSUME NEW t \in Thread, CloseClear(t) PROVE RefusedLeaves'
  BY <1>6 DEF CloseClear
<1>7. ASSUME WaitOver PROVE RefusedLeaves'
  BY <1>7 DEF WaitOver
<1>8. ASSUME GiveUpWaiting PROVE RefusedLeaves'
  BY <1>8 DEF GiveUpWaiting
<1>9. ASSUME StartClearStop PROVE RefusedLeaves'
  BY <1>9 DEF StartClearStop
<1>10. ASSUME StartSetRunning PROVE RefusedLeaves'
  BY <1>10 DEF StartSetRunning
<1>11. ASSUME NEW w \in Worker, StartSpawn(w) PROVE RefusedLeaves'
  BY <1>11 DEF StartSpawn
<1>12. ASSUME NEW w \in Worker, LoopStop(w) PROVE RefusedLeaves'
  BY <1>12 DEF LoopStop
<1>13. ASSUME NEW w \in Worker, NEW fd \in Fd, LoopConnect(w, fd) PROVE RefusedLeaves'
  BY <1>13 DEF LoopConnect
<1>14. ASSUME NEW w \in Worker, ConnectOk(w) PROVE RefusedLeaves'
  BY <1>14 DEF ConnectOk
<1>15. ASSUME NEW w \in Worker, ConnectFail(w) PROVE RefusedLeaves'
  BY <1>15 DEF ConnectFail
<1>16. ASSUME NEW w \in Worker, HelloRecv(w) PROVE RefusedLeaves'
  BY <1>16 DEF HelloRecv, RecvCall, FdUsable
<1>17. ASSUME NEW w \in Worker, HelloArrives(w) PROVE RefusedLeaves'
  BY <1>17 DEF HelloArrives, PeerSends
<1>18. ASSUME NEW w \in Worker, HelloRecvFails(w) PROVE RefusedLeaves'
  BY <1>18 DEF HelloRecvFails, RecvFailed, HandshakeFails, FdUsable
<1>19. ASSUME NEW w \in Worker, HelloEof(w) PROVE RefusedLeaves'
  BY <1>19 DEF HelloEof, HandshakeFails
<1>20. ASSUME NEW w \in Worker, HelloOk(w) PROVE RefusedLeaves'
  BY <1>20 DEF HelloOk
<1>21. ASSUME NEW w \in Worker, NEW mismatch \in BOOLEAN, HelloBad(w, mismatch) PROVE RefusedLeaves'
  BY <1>21 DEF HelloBad, HandshakeFails
<1>22. ASSUME NEW w \in Worker, HelloGone(w) PROVE RefusedLeaves'
  BY <1>22 DEF HelloGone
<1>23. ASSUME NEW w \in Worker, HelloBackOk(w) PROVE RefusedLeaves'
  BY <1>23 DEF HelloBackOk, FdUsable
<1>24. ASSUME NEW w \in Worker, HelloBackFails(w) PROVE RefusedLeaves'
  BY <1>24 DEF HelloBackFails, HandshakeFails
<1>25. ASSUME NEW w \in Worker, MsgTest(w) PROVE RefusedLeaves'
  BY <1>25 DEF MsgTest
<1>26. ASSUME NEW w \in Worker, MsgRecv(w) PROVE RefusedLeaves'
  BY <1>26 DEF MsgRecv, RecvCall, FdUsable
<1>27. ASSUME NEW w \in Worker, MsgArrives(w) PROVE RefusedLeaves'
  BY <1>27 DEF MsgArrives, PeerSends
<1>28. ASSUME NEW w \in Worker, MsgRecvFails(w) PROVE RefusedLeaves'
  BY <1>28 DEF MsgRecvFails, RecvFailed, ConnectionLost, FdUsable
<1>29. ASSUME NEW w \in Worker, MsgEof(w) PROVE RefusedLeaves'
  BY <1>29 DEF MsgEof, ConnectionLost
<1>30. ASSUME NEW w \in Worker, MsgGone(w) PROVE RefusedLeaves'
  BY <1>30 DEF MsgGone
<1>31. ASSUME NEW w \in Worker, NEW m \in Messages, handleMessage(w, m) PROVE RefusedLeaves'
  BY <1>31 DEF handleMessage, Messages, KeepsGoing, StatusOf, FdUsable
<1>32. ASSUME NEW w \in Worker, CnopOk(w) PROVE RefusedLeaves'
  BY <1>32 DEF CnopOk, FdUsable
<1>33. ASSUME NEW w \in Worker, CnopFails(w) PROVE RefusedLeaves'
  BY <1>33 DEF CnopFails
<1>34. ASSUME NEW w \in Worker, DecideStop(w) PROVE RefusedLeaves'
  BY <1>34 DEF DecideStop
<1>35. ASSUME NEW w \in Worker, DecideReconnect(w) PROVE RefusedLeaves'
  BY <1>35 DEF DecideReconnect
<1>36. ASSUME NEW w \in Worker, BackoffOver(w) PROVE RefusedLeaves'
  BY <1>36 DEF BackoffOver
<1>37. ASSUME NEW w \in Worker, ExitRun(w) PROVE RefusedLeaves'
  BY <1>37 DEF ExitRun
<1>38. ASSUME NEW w \in Worker, Tail(w) PROVE RefusedLeaves'
  BY <1>38 DEF Tail
<1>39. CASE UNCHANGED vars
  BY <1>39 DEF vars
<1> HIDE DEF RefusedLeaves, TypeOK, PcOK, DataOK, Ownership, OneWorker, Active, Goto, ClosePc, policy, history
<1> QED
  BY <1>1, <1>2, <1>3, <1>4, <1>5, <1>6, <1>7, <1>8, <1>9, <1>10, <1>11, <1>12,
     <1>13, <1>14, <1>15, <1>16, <1>17, <1>18, <1>19, <1>20, <1>21, <1>22, <1>23,
     <1>24, <1>25, <1>26, <1>27, <1>28, <1>29, <1>30, <1>31, <1>32, <1>33, <1>34,
     <1>35, <1>36, <1>37, <1>38, <1>39
  DEF Next, JsCall, JsStep, WorkerStep, PeerStep, PeerHello, PeerMsg, Close, ConnectStep,
      HandshakeStep, MessageStep, ReconnectStep, Thread

-----------------------------------------------------------------------------
(* Ends are reported.                                                     *)

\* The report of an unrequested end is never lost nor forgotten.
LEMMA ReportedStep ==
    ASSUME TypeOK, Ownership, Reported, [Next]_vars PROVE Reported'
<1> USE DEF TypeOK, PcOK, Ownership, Active, Reported, Goto, Thread, ClosePc, control
<1>1. ASSUME NEW what \in {"connect", "disconnect"}, CallStop(what) PROVE Reported'
  BY <1>1 DEF CallStop
<1>2. ASSUME NEW enable \in BOOLEAN, SetAutoReconnect(enable) PROVE Reported'
  BY <1>2 DEF SetAutoReconnect
<1>3. ASSUME NEW t \in Thread, CloseTest(t) PROVE Reported'
  BY <1>3 DEF CloseTest
<1>4. ASSUME NEW t \in Thread, CloseFd(t) PROVE Reported'
  BY <1>4 DEF CloseFd
<1>5. ASSUME NEW t \in Thread, CloseForget(t) PROVE Reported'
  BY <1>5 DEF CloseForget
<1>6. ASSUME NEW t \in Thread, CloseClear(t) PROVE Reported'
  BY <1>6 DEF CloseClear
<1>7. ASSUME WaitOver PROVE Reported'
  BY <1>7 DEF WaitOver
<1>8. ASSUME GiveUpWaiting PROVE Reported'
  BY <1>8 DEF GiveUpWaiting
<1>9. ASSUME StartClearStop PROVE Reported'
  BY <1>9 DEF StartClearStop
<1>10. ASSUME StartSetRunning PROVE Reported'
  BY <1>10 DEF StartSetRunning
<1>11. ASSUME NEW w \in Worker, StartSpawn(w) PROVE Reported'
  BY <1>11 DEF StartSpawn
<1>12. ASSUME NEW w \in Worker, LoopStop(w) PROVE Reported'
  BY <1>12 DEF LoopStop
<1>13. ASSUME NEW w \in Worker, NEW fd \in Fd, LoopConnect(w, fd) PROVE Reported'
  BY <1>13 DEF LoopConnect
<1>14. ASSUME NEW w \in Worker, ConnectOk(w) PROVE Reported'
  BY <1>14 DEF ConnectOk
<1>15. ASSUME NEW w \in Worker, ConnectFail(w) PROVE Reported'
  BY <1>15 DEF ConnectFail
<1>16. ASSUME NEW w \in Worker, HelloRecv(w) PROVE Reported'
  BY <1>16 DEF HelloRecv, RecvCall, FdUsable
<1>17. ASSUME NEW w \in Worker, HelloArrives(w) PROVE Reported'
  BY <1>17 DEF HelloArrives, PeerSends
<1>18. ASSUME NEW w \in Worker, HelloRecvFails(w) PROVE Reported'
  BY <1>18 DEF HelloRecvFails, RecvFailed, HandshakeFails, FdUsable
<1>19. ASSUME NEW w \in Worker, HelloEof(w) PROVE Reported'
  BY <1>19 DEF HelloEof, HandshakeFails
<1>20. ASSUME NEW w \in Worker, HelloOk(w) PROVE Reported'
  BY <1>20 DEF HelloOk
<1>21. ASSUME NEW w \in Worker, NEW mismatch \in BOOLEAN, HelloBad(w, mismatch) PROVE Reported'
  BY <1>21 DEF HelloBad, HandshakeFails
<1>22. ASSUME NEW w \in Worker, HelloGone(w) PROVE Reported'
  BY <1>22 DEF HelloGone
<1>23. ASSUME NEW w \in Worker, HelloBackOk(w) PROVE Reported'
  BY <1>23 DEF HelloBackOk, FdUsable
<1>24. ASSUME NEW w \in Worker, HelloBackFails(w) PROVE Reported'
  BY <1>24 DEF HelloBackFails, HandshakeFails
<1>25. ASSUME NEW w \in Worker, MsgTest(w) PROVE Reported'
  BY <1>25 DEF MsgTest
<1>26. ASSUME NEW w \in Worker, MsgRecv(w) PROVE Reported'
  BY <1>26 DEF MsgRecv, RecvCall, FdUsable
<1>27. ASSUME NEW w \in Worker, MsgArrives(w) PROVE Reported'
  BY <1>27 DEF MsgArrives, PeerSends
<1>28. ASSUME NEW w \in Worker, MsgRecvFails(w) PROVE Reported'
  BY <1>28 DEF MsgRecvFails, RecvFailed, ConnectionLost, FdUsable
<1>29. ASSUME NEW w \in Worker, MsgEof(w) PROVE Reported'
  BY <1>29 DEF MsgEof, ConnectionLost
<1>30. ASSUME NEW w \in Worker, MsgGone(w) PROVE Reported'
  BY <1>30 DEF MsgGone
<1>31. ASSUME NEW w \in Worker, NEW m \in Messages, handleMessage(w, m) PROVE Reported'
  BY <1>31 DEF handleMessage, Messages, KeepsGoing, StatusOf, FdUsable
<1>32. ASSUME NEW w \in Worker, CnopOk(w) PROVE Reported'
  BY <1>32 DEF CnopOk, FdUsable
<1>33. ASSUME NEW w \in Worker, CnopFails(w) PROVE Reported'
  BY <1>33 DEF CnopFails
<1>34. ASSUME NEW w \in Worker, DecideStop(w) PROVE Reported'
  BY <1>34 DEF DecideStop
<1>35. ASSUME NEW w \in Worker, DecideReconnect(w) PROVE Reported'
  BY <1>35 DEF DecideReconnect
<1>36. ASSUME NEW w \in Worker, BackoffOver(w) PROVE Reported'
  BY <1>36 DEF BackoffOver
<1>37. ASSUME NEW w \in Worker, ExitRun(w) PROVE Reported'
  BY <1>37 DEF ExitRun
<1>38. ASSUME NEW w \in Worker, Tail(w) PROVE Reported'
  BY <1>38 DEF Tail
<1>39. CASE UNCHANGED vars
  BY <1>39 DEF vars
<1> QED
  BY <1>1, <1>2, <1>3, <1>4, <1>5, <1>6, <1>7, <1>8, <1>9, <1>10, <1>11, <1>12,
     <1>13, <1>14, <1>15, <1>16, <1>17, <1>18, <1>19, <1>20, <1>21, <1>22, <1>23,
     <1>24, <1>25, <1>26, <1>27, <1>28, <1>29, <1>30, <1>31, <1>32, <1>33, <1>34,
     <1>35, <1>36, <1>37, <1>38, <1>39
  DEF Next, JsCall, JsStep, WorkerStep, PeerStep, PeerHello, PeerMsg, Close, ConnectStep,
      HandshakeStep, MessageStep, ReconnectStep, Thread

-----------------------------------------------------------------------------
\* The invariant holds before the first call.
LEMMA InitInd == Init => IndInv
<1> SUFFICES ASSUME Init PROVE IndInv
  OBVIOUS
<1>1. PcOK
  BY DEF Init, PcOK, Thread, WorkerPc, JsPc
<1>2. DataOK
  BY DEF Init, DataOK, Thread, Statuses
<1>3. \A w \in Worker : ~Active(w)
  BY DEF Init, Active, Thread
<1>4. Ownership /\ StopHeld /\ StreamEmpty
  BY <1>3 DEF Init, Ownership, OneWorker, StopHeld, StreamEmpty, Thread, Active, ClosePc
<1>5. Descriptors
  BY DEF Init, Descriptors, Thread
<1>6. LateIsLast /\ RefusedLeaves /\ Reported
  BY DEF Init, LateIsLast, RefusedLeaves, Reported
<1> QED
  BY <1>1, <1>2, <1>4, <1>5, <1>6 DEF IndInv, TypeOK

\* Every step keeps the invariant.
LEMMA NextInd == IndInv /\ [Next]_vars => IndInv'
BY PcStep, DataStep, OwnershipStep, StopHeldStep, StreamEmptyStep, DescriptorsStep,
   LateIsLastStep, RefusedLeavesStep, ReportedStep
   DEF IndInv, TypeOK

\* The invariant the theorems below are read off.
THEOREM Inductive == Spec => []IndInv
BY InitInd, NextInd, PTL DEF Spec

-----------------------------------------------------------------------------
(* The properties of DeskflowClient, for every instance.                   *)

\* Every variable keeps its type.
THEOREM TypeCorrect == Spec => []TypeOK
BY Inductive, PTL DEF IndInv

\* No two workers ever run the protocol at once.
THEOREM SingleOwner == Spec => []OneWorker
BY Inductive, PTL DEF IndInv, Ownership

\* The descriptor number stop() carries to ::close() is never that of a newer connection.
THEOREM StopIsSafe == Spec => []StopClosesOwnConnection
<1>1. IndInv => StopClosesOwnConnection
  BY DEF IndInv, Descriptors, StopClosesOwnConnection, Thread
<1> QED
  BY <1>1, Inductive, PTL

\* Every connection attempt finds the stream closed and its buffer empty.
THEOREM StreamIsFresh == Spec => []FreshStream
<1>1. IndInv => FreshStream
  BY DEF IndInv, StreamEmpty, FreshStream
<1> QED
  BY <1>1, Inductive, PTL

\* When the last worker has let go and no close() is under way, no socket is open.
THEOREM SocketsAreClosed == Spec => []NoSocketLeak
<1>1. IndInv => NoSocketLeak
  BY NoFdIsNoFd DEF IndInv, TypeOK, DataOK, Descriptors, StreamEmpty, NoSocketLeak, Active
<1> QED
  BY <1>1, Inductive, PTL

\* After stop(), at most one more message reaches the handlers.
THEOREM StopIsPrompt == Spec => []AtMostOneLateMessage
<1>1. IndInv => AtMostOneLateMessage
  BY DEF IndInv, LateIsLast, AtMostOneLateMessage
<1> QED
  BY <1>1, Inductive, PTL

\* A worker the server refused never dials again.
THEOREM RefusalIsFinal == Spec => []RefusedIsFinal
<1>1. IndInv => RefusedIsFinal
  BY DEF IndInv, RefusedLeaves, RefusedIsFinal, ClosePc
<1> QED
  BY <1>1, Inductive, PTL

\* A run nobody stopped ends with "disconnected" as its last status.
THEOREM EndIsReported == Spec => []UnrequestedEndReported
<1>1. IndInv => UnrequestedEndReported
  BY DEF IndInv, Reported, UnrequestedEndReported, Thread
<1> QED
  BY <1>1, Inductive, PTL

-----------------------------------------------------------------------------
(* The refinement of ClientLifecycle: the initial state maps to the initial *)
(* state, and each step to a step or to a stutter.                          *)

\* The link as the one active worker's program counter shows it.
LinkAt(p) == IF p = "connecting" THEN "dialling" ELSE IF p \in UpPc THEN "up" ELSE "down"

\* What the mapped variables show: the owner's link and refusal, or none.
Shown ==
    /\ \A w \in Worker : Active(w) => /\ linkOf = LinkAt(pc[w])
                                      /\ refusedOf = (why[w] = "refused")
                                      /\ m_running
    /\ (\A w \in Worker : ~Active(w)) => linkOf = "down" /\ refusedOf = FALSE

\* With a single owner, the mapped variables show what that owner is doing.
LEMMA OwnershipShows == Ownership => Shown
<1> SUFFICES ASSUME Ownership PROVE Shown
  OBVIOUS
<1>1. ASSUME NEW v \in Worker, ~Active(v) PROVE pc[v] # "connecting" /\ pc[v] \notin UpPc
  BY <1>1 DEF Active, UpPc, SessionPc, ClosePc
<1>2. ASSUME NEW w \in Worker, Active(w)
      PROVE /\ linkOf = LinkAt(pc[w])
            /\ refusedOf = (why[w] = "refused")
            /\ m_running
  <2>1. \A v \in Worker : v # w => ~Active(v)
    BY <1>2 DEF Ownership, OneWorker
  <2>2. linkOf = LinkAt(pc[w])
    BY <1>1, <2>1 DEF linkOf, LinkAt
  <2>3. refusedOf = (why[w] = "refused")
    BY <1>2, <2>1 DEF refusedOf
  <2> QED
    BY <1>2, <2>2, <2>3 DEF Ownership
<1>3. ASSUME \A w \in Worker : ~Active(w) PROVE linkOf = "down" /\ refusedOf = FALSE
  BY <1>1, <1>3 DEF linkOf, refusedOf
<1> QED
  BY <1>2, <1>3 DEF Shown

\* The same, one step later.
LEMMA OwnershipShowsNext == Ownership' => Shown'
BY OwnershipShows, PTL

\* A step that moves no worker and changes no verdict leaves link and refusal alone.
LEMMA SameLink ==
    ASSUME \A w \in Worker : pc'[w] = pc[w] /\ why'[w] = why[w]
    PROVE  linkOf' = linkOf /\ refusedOf' = refusedOf
BY DEF linkOf, refusedOf, Active

\* Steps of Js other than the start of a worker; each is a Start, a Stop or a stutter.
LEMMA JsMapped ==
    ASSUME TypeOK, Ownership, StopHeld, Shown,
           \/ \E what \in {"connect", "disconnect"} : CallStop(what)
           \/ \E enable \in BOOLEAN : SetAutoReconnect(enable)
           \/ Close(Js) \/ WaitOver \/ GiveUpWaiting \/ StartClearStop \/ StartSetRunning
    PROVE  [Lifecycle!LifecycleNext]_Lifecycle!lifecycle
<1> USE DEF TypeOK, PcOK, Thread, Goto, control
<1>1. linkOf' = linkOf /\ refusedOf' = refusedOf
  <2>1. \A w \in Worker : pc'[w] = pc[w] /\ why'[w] = why[w]
    BY JsIsNoWorker DEF CallStop, SetAutoReconnect, Close, CloseTest, CloseFd, CloseForget, CloseClear,
       WaitOver, GiveUpWaiting, StartClearStop, StartSetRunning, history
  <2> QED
    BY <2>1, SameLink
<1>2. ASSUME m_running' = m_running, m_stopRequested' = m_stopRequested
      PROVE [Lifecycle!LifecycleNext]_Lifecycle!lifecycle
  BY <1>1, <1>2 DEF phaseOf, Lifecycle!lifecycle
<1>3. ASSUME NEW what \in {"connect", "disconnect"}, CallStop(what)
      PROVE [Lifecycle!LifecycleNext]_Lifecycle!lifecycle
  <2>1. m_running' = m_running /\ m_stopRequested'
    BY <1>3 DEF CallStop
  <2>2. CASE m_running /\ ~m_stopRequested
    BY <1>1, <2>1, <2>2 DEF phaseOf, Lifecycle!lifecycle, Lifecycle!LifecycleNext, Lifecycle!Stop
  <2>3. CASE ~(m_running /\ ~m_stopRequested)
    BY <1>1, <2>1, <2>3 DEF phaseOf, Lifecycle!lifecycle
  <2> QED
    BY <2>2, <2>3
<1>4. ASSUME StartClearStop PROVE [Lifecycle!LifecycleNext]_Lifecycle!lifecycle
  BY <1>1, <1>4 DEF StartClearStop, phaseOf, Lifecycle!lifecycle
<1>5. ASSUME StartSetRunning PROVE [Lifecycle!LifecycleNext]_Lifecycle!lifecycle
  <2>1. pc[Js] = "setRunning" /\ ~m_running /\ m_running' /\ ~m_stopRequested'
    BY <1>5 DEF StartSetRunning, Ownership, StopHeld
  <2>2. linkOf = "down" /\ refusedOf = FALSE
    BY <2>1 DEF Shown
  <2> QED
    BY <1>1, <2>1, <2>2 DEF phaseOf, Lifecycle!lifecycle, Lifecycle!LifecycleNext, Lifecycle!Start
<1>6. ASSUME Close(Js) \/ WaitOver \/ GiveUpWaiting \/ \E enable \in BOOLEAN : SetAutoReconnect(enable)
      PROVE m_running' = m_running /\ m_stopRequested' = m_stopRequested
  BY <1>6 DEF Close, CloseTest, CloseFd, CloseForget, CloseClear, WaitOver, GiveUpWaiting, SetAutoReconnect
<1> HIDE DEF TypeOK, PcOK, Thread, Goto, control
<1> QED
  BY <1>2, <1>3, <1>4, <1>5, <1>6

\* Steps of a worker that owns the client and keeps it.
LEMMA OwnerMapped ==
    ASSUME TypeOK, Ownership, RefusedLeaves, Shown, Shown', NEW w \in Worker, Active(w), Active(w)',
           m_running' = m_running, m_stopRequested' = m_stopRequested,
           LET from == LinkAt(pc[w])
               to == LinkAt(pc'[w])
               turned == why'[w] = "refused"
               was == why[w] = "refused"
           IN  \/ to = from /\ turned = was
               \/ from = "down" /\ to = "dialling" /\ ~m_stopRequested /\ ~was /\ ~turned
               \/ from = "dialling" /\ to \in {"up", "down"} /\ turned = was
               \/ from = "up" /\ to = "down" /\ turned = was
               \/ from = "up" /\ to = "up" /\ turned
    PROVE  [Lifecycle!LifecycleNext]_Lifecycle!lifecycle
<1>1. /\ linkOf = LinkAt(pc[w]) /\ linkOf' = LinkAt(pc'[w])
      /\ refusedOf = (why[w] = "refused") /\ refusedOf' = (why'[w] = "refused")
      /\ m_running
  BY DEF Shown
<1>2. phaseOf' = phaseOf /\ (~m_stopRequested => phaseOf = "on")
  BY <1>1 DEF phaseOf
<1> QED
  BY <1>1, <1>2 DEF Lifecycle!lifecycle, Lifecycle!LifecycleNext, Lifecycle!Dial,
     Lifecycle!LinkUp, Lifecycle!LinkDown, Lifecycle!Refuse

\* Every step of the threads maps to a step of ClientLifecycle or to a stutter.
LEMMA LifecycleStep ==
    ASSUME IndInv, IndInv', [Next]_vars
    PROVE  [Lifecycle!LifecycleNext]_Lifecycle!lifecycle
<1>a. Shown /\ Shown'
  BY OwnershipShows, OwnershipShowsNext DEF IndInv
<1>b. TypeOK /\ Ownership /\ StopHeld /\ RefusedLeaves
  BY DEF IndInv
<1> DEFINE Mapped == [Lifecycle!LifecycleNext]_Lifecycle!lifecycle
<1> USE DEF Active, LinkAt, UpPc, SessionPc, ClosePc, Thread, TypeOK, PcOK, DataOK, Goto, control,
            history, policy
<1> HIDE DEF Mapped
<1>1. CASE JsCall \/ Close(Js) \/ WaitOver \/ GiveUpWaiting \/ StartClearStop \/ StartSetRunning
  BY <1>1, <1>a, <1>b, JsMapped DEF JsCall, Mapped
<1>2. ASSUME NEW w \in Worker, StartSpawn(w) PROVE Mapped
  <2>1. /\ pc[Js] = "spawn" /\ pc[w] = "idle"
        /\ pc' = [pc EXCEPT ![Js] = "idle", ![w] = "loop"]
        /\ why' = why /\ m_running' = m_running /\ m_stopRequested' = m_stopRequested
    BY <1>2 DEF StartSpawn
  <2>2. pc'[w] = "loop" /\ why[w] # "refused"
    BY <1>b, <2>1, JsIsNoWorker DEF RefusedLeaves
  <2>3. linkOf = "down" /\ refusedOf = FALSE
    BY <1>a, <1>b, <2>1 DEF Shown, Ownership
  <2>4. linkOf' = "down" /\ refusedOf' = FALSE
    BY <1>a, <2>1, <2>2 DEF Shown
  <2> QED
    BY <2>1, <2>3, <2>4 DEF phaseOf, Lifecycle!lifecycle, Mapped
<1>3. ASSUME NEW w \in Worker, CloseTest(w) PROVE Mapped
  BY <1>3, <1>a, <1>b, OwnerMapped DEF CloseTest, Mapped
<1>4. ASSUME NEW w \in Worker, CloseFd(w) PROVE Mapped
  BY <1>4, <1>a, <1>b, OwnerMapped DEF CloseFd, Mapped
<1>5. ASSUME NEW w \in Worker, CloseForget(w) PROVE Mapped
  BY <1>5, <1>a, <1>b, OwnerMapped DEF CloseForget, Mapped
<1>6. ASSUME NEW w \in Worker, CloseClear(w) PROVE Mapped
  BY <1>6, <1>a, <1>b, OwnerMapped DEF CloseClear, Mapped
<1>7. ASSUME NEW w \in Worker, LoopStop(w) PROVE Mapped
  BY <1>7, <1>a, <1>b, OwnerMapped DEF LoopStop, RefusedLeaves, Mapped
<1>8. ASSUME NEW w \in Worker, NEW fd \in Fd, LoopConnect(w, fd) PROVE Mapped
  BY <1>8, <1>a, <1>b, OwnerMapped DEF LoopConnect, RefusedLeaves, Mapped
<1>9. ASSUME NEW w \in Worker, ConnectOk(w) PROVE Mapped
  BY <1>9, <1>a, <1>b, OwnerMapped DEF ConnectOk, Mapped
<1>10. ASSUME NEW w \in Worker, ConnectFail(w) PROVE Mapped
  BY <1>10, <1>a, <1>b, OwnerMapped DEF ConnectFail, Mapped
<1>11. ASSUME NEW w \in Worker, HelloRecv(w) PROVE Mapped
  BY <1>11, <1>a, <1>b, OwnerMapped DEF HelloRecv, RecvCall, FdUsable, Mapped
<1>12. ASSUME NEW w \in Worker, HelloArrives(w) PROVE Mapped
  BY <1>12, <1>a, <1>b, OwnerMapped DEF HelloArrives, PeerSends, Mapped
<1>13. ASSUME NEW w \in Worker, HelloRecvFails(w) PROVE Mapped
  BY <1>13, <1>a, <1>b, OwnerMapped DEF HelloRecvFails, RecvFailed, HandshakeFails, FdUsable, Mapped
<1>14. ASSUME NEW w \in Worker, HelloEof(w) PROVE Mapped
  BY <1>14, <1>a, <1>b, OwnerMapped DEF HelloEof, HandshakeFails, Mapped
<1>15. ASSUME NEW w \in Worker, HelloOk(w) PROVE Mapped
  BY <1>15, <1>a, <1>b, OwnerMapped DEF HelloOk, Mapped
<1>16. ASSUME NEW w \in Worker, NEW mismatch \in BOOLEAN, HelloBad(w, mismatch) PROVE Mapped
  BY <1>16, <1>a, <1>b, OwnerMapped DEF HelloBad, HandshakeFails, Mapped
<1>17. ASSUME NEW w \in Worker, HelloGone(w) PROVE Mapped
  BY <1>17, <1>a, <1>b, OwnerMapped DEF HelloGone, Mapped
<1>18. ASSUME NEW w \in Worker, HelloBackOk(w) PROVE Mapped
  BY <1>18, <1>a, <1>b, OwnerMapped DEF HelloBackOk, FdUsable, Mapped
<1>19. ASSUME NEW w \in Worker, HelloBackFails(w) PROVE Mapped
  BY <1>19, <1>a, <1>b, OwnerMapped DEF HelloBackFails, HandshakeFails, Mapped
<1>20. ASSUME NEW w \in Worker, MsgTest(w) PROVE Mapped
  BY <1>20, <1>a, <1>b, OwnerMapped DEF MsgTest, Mapped
<1>21. ASSUME NEW w \in Worker, MsgRecv(w) PROVE Mapped
  BY <1>21, <1>a, <1>b, OwnerMapped DEF MsgRecv, RecvCall, FdUsable, Mapped
<1>22. ASSUME NEW w \in Worker, MsgArrives(w) PROVE Mapped
  BY <1>22, <1>a, <1>b, OwnerMapped DEF MsgArrives, PeerSends, Mapped
<1>23. ASSUME NEW w \in Worker, MsgRecvFails(w) PROVE Mapped
  BY <1>23, <1>a, <1>b, OwnerMapped DEF MsgRecvFails, RecvFailed, ConnectionLost, FdUsable, Mapped
<1>24. ASSUME NEW w \in Worker, MsgEof(w) PROVE Mapped
  BY <1>24, <1>a, <1>b, OwnerMapped DEF MsgEof, ConnectionLost, Mapped
<1>25. ASSUME NEW w \in Worker, MsgGone(w) PROVE Mapped
  BY <1>25, <1>a, <1>b, OwnerMapped DEF MsgGone, Mapped
<1>26. ASSUME NEW w \in Worker, NEW m \in Messages, handleMessage(w, m) PROVE Mapped
  BY <1>26, <1>a, <1>b, OwnerMapped DEF handleMessage, Messages, KeepsGoing, StatusOf, FdUsable, Mapped
<1>27. ASSUME NEW w \in Worker, CnopOk(w) PROVE Mapped
  BY <1>27, <1>a, <1>b, OwnerMapped DEF CnopOk, FdUsable, Mapped
<1>28. ASSUME NEW w \in Worker, CnopFails(w) PROVE Mapped
  BY <1>28, <1>a, <1>b, OwnerMapped DEF CnopFails, Mapped
<1>29. ASSUME NEW w \in Worker, DecideStop(w) PROVE Mapped
  <2>1. pc[w] = "decide" /\ pc'[w] = "exit" /\ Active(w) /\ Active(w)'
    BY <1>29, <1>b DEF DecideStop
  <2>2. (why'[w] = "refused") = (why[w] = "refused")
    BY <1>29, <1>b DEF DecideStop
  <2>3. m_running' = m_running /\ m_stopRequested' = m_stopRequested
    BY <1>29, <1>b DEF DecideStop
  <2> QED
    BY <1>a, <1>b, <2>1, <2>2, <2>3, OwnerMapped DEF Mapped
<1>30. ASSUME NEW w \in Worker, DecideReconnect(w) PROVE Mapped
  BY <1>30, <1>a, <1>b, OwnerMapped DEF DecideReconnect, Mapped
<1>31. ASSUME NEW w \in Worker, BackoffOver(w) PROVE Mapped
  BY <1>31, <1>a, <1>b, OwnerMapped DEF BackoffOver, Mapped
<1>32. ASSUME NEW w \in Worker, ExitRun(w) PROVE Mapped
  <2>1. /\ pc[w] = "exit" /\ ~m_running' /\ m_running
    BY <1>32, <1>b DEF ExitRun, Ownership
  <2>2. linkOf = "down"
    BY <1>a, <2>1 DEF Shown
  <2>3. linkOf' = "down" /\ refusedOf' = FALSE
    BY <1>a, <2>1 DEF Shown
  <2> QED
    BY <2>1, <2>2, <2>3 DEF phaseOf, Lifecycle!lifecycle, Lifecycle!LifecycleNext, Lifecycle!Off, Mapped
<1>33. ASSUME NEW w \in Worker, Tail(w) PROVE Mapped
  <2>1. linkOf' = linkOf /\ refusedOf' = refusedOf
    BY <1>33 DEF Tail, linkOf, refusedOf
  <2>2. m_running' = m_running /\ m_stopRequested' = m_stopRequested
    BY <1>33 DEF Tail
  <2> QED
    BY <2>1, <2>2 DEF phaseOf, Lifecycle!lifecycle, Mapped
<1>34. CASE UNCHANGED vars
  BY <1>34, SameLink DEF vars, phaseOf, Lifecycle!lifecycle, Mapped
<1> HIDE DEF Active, LinkAt, UpPc, SessionPc, ClosePc, TypeOK, PcOK, DataOK, Goto, control, history, policy
<1> QED
  BY <1>1, <1>2, <1>3, <1>4, <1>5, <1>6, <1>7, <1>8, <1>9, <1>10, <1>11, <1>12,
     <1>13, <1>14, <1>15, <1>16, <1>17, <1>18, <1>19, <1>20, <1>21, <1>22, <1>23,
     <1>24, <1>25, <1>26, <1>27, <1>28, <1>29, <1>30, <1>31, <1>32, <1>33, <1>34
     DEF Next, JsStep, WorkerStep, PeerStep, PeerHello, PeerMsg, Close, ConnectStep,
         HandshakeStep, MessageStep, ReconnectStep, Mapped

\* The threads, flags and descriptors of the client implement the life cycle it promises:
\* it never dials while stopping or after a refusal, never holds two links, and is off
\* only when its link is down.
THEOREM Refinement == Spec => ImplementsLifecycle
<1>1. Init => Lifecycle!LifecycleInit
  BY DEF Init, Lifecycle!LifecycleInit, phaseOf, linkOf, refusedOf, Active, UpPc, SessionPc,
     ClosePc, Thread
<1>2. IndInv /\ IndInv' /\ [Next]_vars => [Lifecycle!LifecycleNext]_Lifecycle!lifecycle
  BY LifecycleStep
<1> QED
  BY <1>1, <1>2, Inductive, PTL DEF Spec, ImplementsLifecycle, Lifecycle!LifecycleSpec
=============================================================================
