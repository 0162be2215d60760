---------------------------- MODULE CarrierProofs ----------------------------
(***************************************************************************)
(* Proofs about Carrier, for any servers and settings, and any number of   *)
(* STOPs, starts and statuses on their way.                                *)
(***************************************************************************)
EXTENDS Carrier, TLAPS

-----------------------------------------------------------------------------
(* The inductive invariant.                                                *)

\* The status the worker has last reported, but for "connected", which the page has no
\* word for; "none" where it may have ended without one.
Word ==
    CASE worker \in {"dialling", "greeting"} -> "connecting"
      [] worker = "session" -> "active"
      [] worker = "refused" -> "error"
      [] worker = "backoff" -> "reconnecting"
      [] worker = "over" -> "disconnected"
      [] OTHER -> "none"

\* In a queue of statuses: none the page has a word for; s is the last of those.
NoWord(queue) == \A i \in 1..Len(queue) : queue[i] = "connected"
LastWord(queue, s) ==
    \E i \in 1..Len(queue) : queue[i] = s /\ \A j \in (i + 1)..Len(queue) : queue[j] = "connected"

\* s is the last word that is still on its way; or it is what the page shows, unless the
\* user has pressed something since.
Arrives(s) ==
    \/ LastWord(posted, s)
    \/ NoWord(posted) /\ LastWord(published, s)
    \/ NoWord(posted) /\ NoWord(published) /\ (byUser \/ connState = mapStatus(s))

\* The last status arrives, if it was not dropped, whatever is ahead of it.
WordArrives ==
    told /\ carrier # "destroyed" /\ worker \notin {"starting", "lost"} => Arrives(Word)

\* Nobody hears the worker before the status callback is registered.
HeardFirst == told => carrier \notin {"none", "created"}

\* Whoever is started has a host.
Hosted ==
    /\ \A i \in 1..Len(starts) : starts[i].host # NoHost
    /\ carrier # "none" => job.host # NoHost

IndInv == TypeOK /\ Hosted /\ HeardFirst /\ WordArrives

-----------------------------------------------------------------------------
(* Queues of statuses.                                                     *)

\* The status added is the last word.
LEMMA LastAppended ==
    ASSUME NEW queue \in Seq(Status), NEW s \in Status
    PROVE  LastWord(Append(queue, s), s)
<1> DEFINE n == Len(queue) + 1
           q == Append(queue, s)
<1>1. Len(q) = n /\ q[n] = s /\ n \in 1..Len(q) /\ (n + 1)..Len(q) = {}
  OBVIOUS
<1> QED BY <1>1 DEF LastWord

\* "connected" changes no last word.
LEMMA ConnectedAppended ==
    ASSUME NEW queue \in Seq(Status), NEW s
    PROVE  /\ NoWord(queue) => NoWord(Append(queue, "connected"))
           /\ LastWord(queue, s) => LastWord(Append(queue, "connected"), s)
<1> DEFINE n == Len(queue)
           q == Append(queue, "connected")
<1>1. n \in Nat /\ Len(q) = n + 1 /\ q[n + 1] = "connected" /\ \A i \in 1..n : q[i] = queue[i]
  BY DEF Status
<1>2. ASSUME NoWord(queue) PROVE NoWord(q)
  BY <1>1, <1>2 DEF NoWord
<1>3. ASSUME LastWord(queue, s) PROVE LastWord(q, s)
  <2>1. PICK i \in 1..n : queue[i] = s /\ \A j \in (i + 1)..n : queue[j] = "connected"
    BY <1>3 DEF LastWord
  <2>2. i \in 1..Len(q) /\ q[i] = s
    BY <1>1, <2>1
  <2>3. ASSUME NEW j \in (i + 1)..Len(q) PROVE q[j] = "connected"
    <3>1. j = n + 1 \/ j \in (i + 1)..n
      BY <1>1
    <3> QED BY <1>1, <2>1, <3>1
  <2> QED BY <2>2, <2>3 DEF LastWord
<1> QED BY <1>2, <1>3

\* The head of a queue is its last word, or that is in the tail.
LEMMA HeadTaken ==
    ASSUME NEW queue \in Seq(Status), queue # <<>>, NEW s
    PROVE  /\ NoWord(queue) => NoWord(Tail(queue)) /\ Head(queue) = "connected"
           /\ LastWord(queue, s) => \/ LastWord(Tail(queue), s)
                                    \/ NoWord(Tail(queue)) /\ Head(queue) = s
<1> DEFINE n == Len(queue)
           q == Tail(queue)
<1>1. /\ n \in Nat \ {0} /\ Len(q) = n - 1 /\ Head(queue) = queue[1]
      /\ \A i \in 1..(n - 1) : q[i] = queue[i + 1]
  OBVIOUS
<1>2. ASSUME NoWord(queue) PROVE NoWord(q) /\ Head(queue) = "connected"
  BY <1>1, <1>2 DEF NoWord
<1>3. ASSUME LastWord(queue, s)
      PROVE  LastWord(q, s) \/ (NoWord(q) /\ Head(queue) = s)
  <2>1. PICK i \in 1..n : queue[i] = s /\ \A j \in (i + 1)..n : queue[j] = "connected"
    BY <1>3 DEF LastWord
  <2>2. CASE i = 1
    <3>1. ASSUME NEW j \in 1..Len(q) PROVE q[j] = "connected"
      <4>1. j \in 1..(n - 1) /\ j + 1 \in (i + 1)..n
        BY <1>1, <2>2
      <4> QED BY <1>1, <2>1, <4>1
    <3> QED BY <1>1, <2>1, <2>2, <3>1 DEF NoWord
  <2>3. CASE i # 1
    <3>1. i - 1 \in 1..Len(q) /\ q[i - 1] = s
      BY <1>1, <2>1, <2>3
    <3>2. ASSUME NEW j \in ((i - 1) + 1)..Len(q) PROVE q[j] = "connected"
      <4>1. j \in 1..(n - 1) /\ j + 1 \in (i + 1)..n
        BY <1>1, <2>3
      <4> QED BY <1>1, <2>1, <4>1
    <3> QED BY <3>1, <3>2 DEF LastWord
  <2> QED BY <2>2, <2>3
<1> QED BY <1>2, <1>3

\* An empty queue has no words.
LEMMA EmptyQueue == ASSUME NEW s PROVE NoWord(<<>>) /\ ~LastWord(<<>>, s)
BY DEF NoWord, LastWord

\* A list is a sequence.
LEMMA ListIsSeq ==
    ASSUME NEW S, NEW n \in Nat, NEW f \in [1..n -> S]
    PROVE  f \in Seq(S) /\ Len(f) = n
OBVIOUS

-----------------------------------------------------------------------------
(* Types.                                                                  *)

\* A STOP that passes a job leaves its host alone.
LEMMA PassedType ==
    ASSUME NEW j \in Jobs, NEW subscribed \in BOOLEAN
    PROVE  Passed(j, subscribed) \in Jobs /\ Passed(j, subscribed).host = j.host
<1>1. CASE j.ahead > 0
  BY <1>1, CarrierAssumption DEF Passed, Jobs
<1>2. CASE ~(j.ahead > 0)
  <2>1. (j.deaf \/ ~subscribed) \in BOOLEAN
    OBVIOUS
  <2>2. Passed(j, subscribed) = [j EXCEPT !.deaf = j.deaf \/ ~subscribed]
    BY <1>2 DEF Passed, Jobs
  <2> QED BY <2>1, <2>2 DEF Jobs
<1> QED BY <1>1, <1>2

\* A setting makes a job with a host.
LEMMA SettingJob ==
    ASSUME NEW s \in Settings, NEW ahead \in 0..MaxStops
    PROVE  /\ Job(s[1], s[2], ahead) \in Jobs /\ Job(s[1], s[2], ahead).host # NoHost
           /\ s[1] \in Host
BY CarrierAssumption DEF Job, Jobs, Host

\* Preferences with a host are settings.
LEMMA NoHostChosen ==
    \A s \in Settings \cup {<<NoHost, TRUE>>} : s[1] # NoHost => s \in Settings
<1>1. <<NoHost, TRUE>>[1] = NoHost
  OBVIOUS
<1> QED BY <1>1, Zenon

\* There is nothing on the way at first.
LEMMA InitInd == Init => IndInv
<1> SUFFICES ASSUME Init PROVE IndInv
  OBVIOUS
<1>1. NoJob \in Jobs
  BY CarrierAssumption DEF NoJob, Job, Jobs
<1>2. /\ stops \in 0..MaxStops /\ starts \in Seq(Jobs) /\ Len(starts) <= MaxStarts
      /\ posted \in Seq(Status) /\ published \in Seq(Status)
  BY CarrierAssumption DEF Init
<1>3. TypeOK
  BY <1>1, <1>2, Zenon DEF Init, TypeOK, ConnState
<1>4. Hosted /\ HeardFirst /\ WordArrives
  BY DEF Init, Hosted, HeardFirst, WordArrives
<1> QED BY <1>3, <1>4 DEF IndInv

\* The requests on their way and the carrier's job.
RequestTypes ==
    /\ stops \in 0..MaxStops
    /\ starts \in Seq(Jobs) /\ Len(starts) <= MaxStarts
    /\ job \in Jobs
    /\ Hosted

\* Connect adds a STOP and a start.
LEMMA ConnectStep ==
    ASSUME RequestTypes, NEW s \in Settings, Connect(s[1], s[2]), UNCHANGED <<carrier, job>>
    PROVE  RequestTypes'
<1>1. stops' \in 0..MaxStops /\ stops + 1 \in 0..MaxStops
  BY CarrierAssumption DEF RequestTypes, Connect
<1> DEFINE j == Job(s[1], s[2], stops + 1)
<1>2. j \in Jobs /\ j.host # NoHost
  BY <1>1, SettingJob
<1>3. starts \in Seq(Jobs) /\ Len(starts) < MaxStarts /\ starts' = Append(starts, j)
  BY DEF RequestTypes, Connect
<1> HIDE DEF j
<1>4. starts' \in Seq(Jobs) /\ Len(starts') = Len(starts) + 1 /\ Len(starts) \in Nat
  BY <1>2, <1>3
<1>5. ASSUME NEW i \in 1..Len(starts') PROVE starts'[i].host # NoHost
  <2>1. CASE i = Len(starts) + 1
    BY <1>2, <1>3, <2>1
  <2>2. CASE i \in 1..Len(starts)
    <3>1. starts'[i] = starts[i]
      BY <1>2, <1>3, <2>2
    <3> QED BY <2>2, <3>1 DEF RequestTypes, Hosted
  <2> QED BY <1>4, <2>1, <2>2
<1>6. Hosted'
  BY <1>5 DEF RequestTypes, Hosted
<1> QED BY <1>1, <1>3, <1>4, <1>6, CarrierAssumption DEF RequestTypes

\* A STOP is dispatched, past every start and the carrier.
LEMMA StopStep ==
    ASSUME RequestTypes, StopDispatched
    PROVE  RequestTypes'
<1>1. stops' \in 0..MaxStops
  BY CarrierAssumption DEF RequestTypes, StopDispatched
<1>2. starts \in Seq(Jobs) /\ Len(starts) \in Nat /\ \A i \in 1..Len(starts) : starts[i] \in Jobs
  BY DEF RequestTypes
<1>3. starts' = [i \in 1..Len(starts) |-> Passed(starts[i], FALSE)]
  BY DEF StopDispatched
<1>4. \A i \in 1..Len(starts) : /\ Passed(starts[i], FALSE) \in Jobs
                                /\ Passed(starts[i], FALSE).host = starts[i].host
  BY <1>2, PassedType
<1>5. starts' \in Seq(Jobs) /\ Len(starts') = Len(starts)
  <2>1. starts' \in [1..Len(starts) -> Jobs]
    BY <1>3, <1>4, Zenon
  <2> QED BY <1>2, <2>1, ListIsSeq
<1>6. \A i \in 1..Len(starts') : starts'[i].host # NoHost
  BY <1>3, <1>4, <1>5 DEF RequestTypes, Hosted
<1>7. job' \in Jobs /\ job'.host = job.host
  <2>1. (carrier \notin {"created", "heard"}) \in BOOLEAN
    OBVIOUS
  <2> DEFINE subscribed == carrier \notin {"created", "heard"}
  <2>2. job' = job \/ job' = Passed(job, subscribed)
    BY Zenon DEF StopDispatched
  <2> HIDE DEF subscribed
  <2>3. Passed(job, subscribed) \in Jobs /\ Passed(job, subscribed).host = job.host
    BY <2>1, PassedType DEF RequestTypes, subscribed
  <2> QED BY <2>2, <2>3 DEF RequestTypes
<1>8. carrier' # "none" => carrier # "none"
  BY DEF StopDispatched
<1> QED BY <1>1, <1>5, <1>6, <1>7, <1>8 DEF RequestTypes, Hosted

\* A start is taken, by a new carrier or by nobody.
LEMMA StartStep ==
    ASSUME RequestTypes, StartHandled
    PROVE  RequestTypes'
<1>1. /\ starts \in Seq(Jobs) /\ starts # <<>> /\ starts' = Tail(starts)
      /\ Len(starts) \in Nat /\ Len(starts) <= MaxStarts
  BY DEF RequestTypes, StartHandled
<1>2. /\ starts' \in Seq(Jobs) /\ Len(starts') = Len(starts) - 1 /\ Len(starts) > 0
      /\ \A i \in 1..Len(starts') : i + 1 \in 1..Len(starts) /\ starts'[i] = starts[i + 1]
      /\ Head(starts) \in Jobs /\ Head(starts) = starts[1] /\ 1 \in 1..Len(starts)
  BY <1>1
<1>3. Head(starts).host # NoHost /\ \A i \in 1..Len(starts') : starts'[i].host # NoHost
  BY <1>2 DEF RequestTypes, Hosted
<1>4. job' \in Jobs /\ (carrier' # "none" => job'.host # NoHost)
  BY <1>2, <1>3 DEF RequestTypes, Hosted, StartHandled
<1> QED BY <1>1, <1>2, <1>3, <1>4, CarrierAssumption DEF RequestTypes, Hosted, StartHandled

\* Every other step leaves the requests alone; the job goes with its carrier.
LEMMA RequestsStep ==
    ASSUME RequestTypes, [Next]_vars
    PROVE  RequestTypes'
<1>1. ASSUME NEW s \in Settings, Connect(s[1], s[2]), UNCHANGED <<carrier, job>>
      PROVE  RequestTypes'
  BY <1>1, ConnectStep
<1>2. CASE onConnect
  BY <1>1, <1>2 DEF onConnect, process
<1>3. CASE onDisconnect
  <2>1. stops' \in 0..MaxStops
    BY <1>3, CarrierAssumption DEF onDisconnect, RequestTypes
  <2> QED BY <1>3, <2>1 DEF onDisconnect, RequestTypes, Hosted, process
<1>4. CASE loadPrefs
  <2>1. PICK s \in Settings \cup {<<NoHost, TRUE>>} :
          IF s[2] /\ s[1] # NoHost /\ connState = "DISCONNECTED"
          THEN Connect(s[1], s[2])
          ELSE UNCHANGED <<requests, connState, wanted, byUser>>
    BY <1>4, Zenon DEF loadPrefs
  <2>2. CASE s[1] = NoHost \/ UNCHANGED requests
    BY <1>4, <2>1, <2>2 DEF loadPrefs, requests, process, RequestTypes, Hosted
  <2>3. CASE s[1] # NoHost /\ Connect(s[1], s[2])
    <3>1. s \in Settings
      BY <2>3, NoHostChosen
    <3> QED BY <1>1, <1>4, <2>3, <3>1 DEF loadPrefs, process
  <2> QED BY <2>1, <2>2, <2>3, Zenon DEF requests
<1>5. CASE StatusShown
  BY <1>5 DEF StatusShown, requests, process, RequestTypes, Hosted
<1>6. CASE StopDispatched
  BY <1>6, StopStep
<1>7. CASE StartHandled
  BY <1>7, StartStep
<1>8. CASE ProcessEnds
  <2>1. NoJob \in Jobs
    BY CarrierAssumption DEF NoJob, Job, Jobs
  <2> QED BY <1>8, <2>1 DEF ProcessEnds, requests, RequestTypes, Hosted
<1>9. CASE WireEvents \/ onDestroy \/ StatusCallback \/ Worker
  <2>1. UNCHANGED <<stops, starts, job>>
    BY <1>9, Zenon DEF WireEvents, onDestroy, StatusCallback, Worker, requests
  <2>2. carrier' # "none" => carrier # "none"
    BY <1>9, Zenon DEF WireEvents, onDestroy, StatusCallback, Worker
  <2> QED BY <2>1, <2>2 DEF RequestTypes, Hosted
<1>10. CASE UNCHANGED vars
  BY <1>10 DEF vars, requests, process, RequestTypes, Hosted
<1> QED
  BY <1>2, <1>3, <1>4, <1>5, <1>6, <1>7, <1>8, <1>9, <1>10 DEF Next, Page, System

\* The statuses on their way.
StatusTypes == posted \in Seq(Status) /\ published \in Seq(Status)

\* The worker reports statuses, or nothing.
LEMMA WorkerPosts ==
    ASSUME Worker
    PROVE  \/ UNCHANGED <<posted, told>>
           \/ \E status \in Status : Post(status)
BY DEF Worker, Dials, Connects, Greets, Crosses, Loses, IsRefused, Decides, Stops, Report, Status

\* They are taken in order and added at the end.
LEMMA StatusesStep ==
    ASSUME StatusTypes, [Next]_vars
    PROVE  StatusTypes'
<1> USE DEF StatusTypes
<1>1. CASE StatusShown
  BY <1>1 DEF StatusShown, process
<1>2. CASE StatusCallback
  BY <1>2 DEF StatusCallback
<1>3. CASE ProcessEnds
  BY <1>3 DEF ProcessEnds
<1>4. CASE Worker
  <2>1. UNCHANGED published
    BY <1>4 DEF Worker
  <2>2. CASE UNCHANGED posted
    BY <2>1, <2>2
  <2>3. ASSUME NEW status \in Status, Post(status) PROVE StatusTypes'
    BY <2>1, <2>3 DEF Post
  <2> QED BY <1>4, <2>2, <2>3, WorkerPosts
<1>5. CASE UNCHANGED <<posted, published>>
  BY <1>5
<1> QED
  BY <1>1, <1>2, <1>3, <1>4, <1>5
  DEF Next, Page, System, vars, process, onConnect, onDisconnect, loadPrefs, StopDispatched,
      StartHandled, WireEvents, onDestroy

\* The carrier and its worker come and go together.
ProcessTypes ==
    /\ carrier \in {"none", "created", "heard", "wired", "ending", "destroyed"}
    /\ worker \in {"none", "starting", "dialling", "greeting", "session", "lost", "refused",
                   "backoff", "over"}
    /\ carrier = "none" <=> worker = "none"
    /\ carrier = "none" => job = NoJob
    /\ told \in BOOLEAN

\* The worker's states.
LEMMA WorkerState ==
    ASSUME Worker, ProcessTypes
    PROVE  /\ worker # "none" /\ worker' # "none"
           /\ worker' \in {"starting", "dialling", "greeting", "session", "lost", "refused",
                           "backoff", "over"}
           /\ told' \in BOOLEAN
<1>1. told' \in BOOLEAN
  BY WorkerPosts, Zenon DEF ProcessTypes, Post
<1> QED
  BY <1>1, Zenon DEF ProcessTypes, Worker, Dials, Connects, Greets, Crosses, Loses, IsRefused, Decides,
                     Stops, Report

\* The process, action by action.
LEMMA ProcessStep ==
    ASSUME ProcessTypes, [Next]_vars
    PROVE  ProcessTypes'
<1>1. CASE StopDispatched
  BY <1>1 DEF ProcessTypes, StopDispatched
<1>2. CASE StartHandled
  BY <1>2 DEF ProcessTypes, StartHandled
<1>3. CASE WireEvents
  BY <1>3 DEF ProcessTypes, WireEvents
<1>4. CASE onDestroy
  BY <1>4 DEF ProcessTypes, onDestroy
<1>5. CASE ProcessEnds
  BY <1>5 DEF ProcessTypes, ProcessEnds
<1>6. CASE Worker
  <2>1. UNCHANGED <<carrier, job>>
    BY <1>6 DEF Worker
  <2> QED BY <1>6, <2>1, WorkerState, Zenon DEF ProcessTypes
<1>7. CASE UNCHANGED <<carrier, job, worker, told>>
  BY <1>7 DEF ProcessTypes
<1> QED
  BY <1>1, <1>2, <1>3, <1>4, <1>5, <1>6, <1>7
  DEF Next, Page, System, vars, process, onConnect, onDisconnect, loadPrefs, StatusShown,
      StatusCallback

\* The page.
PageTypes ==
    /\ connState \in ConnState /\ prefsLoaded \in BOOLEAN
    /\ wanted \in Host \cup {NoHost} /\ byUser \in BOOLEAN

\* The page's state is one of its four, whatever it is told.
LEMMA PageStep ==
    ASSUME PageTypes, [Next]_vars
    PROVE  PageTypes'
<1> USE DEF PageTypes
<1>1. ASSUME NEW s \in Settings, Connect(s[1], s[2]), prefsLoaded' \in BOOLEAN PROVE PageTypes'
  <2>1. s[1] \in Host
    BY DEF Host
  <2> QED BY <1>1, <2>1, Zenon DEF Connect, ConnState
<1>2. CASE onConnect
  BY <1>1, <1>2 DEF onConnect
<1>3. CASE onDisconnect
  BY <1>3, Zenon DEF onDisconnect, ConnState
<1>4. CASE loadPrefs
  <2>1. PICK s \in Settings \cup {<<NoHost, TRUE>>} :
          IF s[2] /\ s[1] # NoHost /\ connState = "DISCONNECTED"
          THEN Connect(s[1], s[2])
          ELSE UNCHANGED <<requests, connState, wanted, byUser>>
    BY <1>4, Zenon DEF loadPrefs
  <2>2. prefsLoaded' \in BOOLEAN
    BY <1>4 DEF loadPrefs
  <2>3. CASE UNCHANGED <<connState, wanted, byUser>>
    BY <2>2, <2>3, Zenon
  <2>4. CASE s[1] # NoHost /\ Connect(s[1], s[2])
    <3>1. s \in Settings
      BY <2>4, NoHostChosen
    <3> QED BY <1>1, <2>2, <2>4, <3>1
  <2> QED BY <2>1, <2>3, <2>4, Zenon
<1>5. CASE StatusShown
  <2>1. connState' \in ConnState
    BY <1>5 DEF StatusShown, mapStatus, ConnState
  <2> QED BY <1>5, <2>1, Zenon DEF StatusShown
<1>6. CASE UNCHANGED page
  BY <1>6, Zenon DEF page
<1> QED
  BY <1>2, <1>3, <1>4, <1>5, <1>6
  DEF Next, System, Page, vars, StopDispatched, StartHandled, WireEvents, StatusCallback, onDestroy,
      ProcessEnds, Worker

\* Together.
LEMMA TypeStep ==
    ASSUME TypeOK, Hosted, [Next]_vars
    PROVE  TypeOK' /\ Hosted'
<1>1. RequestTypes /\ StatusTypes /\ ProcessTypes /\ PageTypes
  <2>1. (carrier = "none" <=> worker = "none") /\ (carrier = "none" => job = NoJob)
    BY DEF TypeOK
  <2> QED BY <2>1, Zenon DEF TypeOK, RequestTypes, StatusTypes, ProcessTypes, PageTypes
<1>2. RequestTypes' /\ StatusTypes' /\ ProcessTypes' /\ PageTypes'
  BY <1>1, RequestsStep, StatusesStep, ProcessStep, PageStep
<1>3. Hosted'
  BY <1>2 DEF RequestTypes
<1>4. NoJob.host = NoHost
  BY DEF NoJob, Job
<1>5. ((carrier = "none") = (job = NoJob))' /\ ((carrier = "none") = (worker = "none"))'
  BY <1>2, <1>3, <1>4 DEF ProcessTypes, Hosted
<1> QED BY <1>2, <1>3, <1>5, Zenon DEF TypeOK, RequestTypes, StatusTypes, ProcessTypes, PageTypes

-----------------------------------------------------------------------------
(* The last word.                                                          *)

\* Before the status callback nothing is told; after it, whatever is reported is.
LEMMA HeardStep ==
    ASSUME TypeOK, HeardFirst, [Next]_vars
    PROVE  HeardFirst'
<1> USE DEF HeardFirst
<1>1. CASE StopDispatched
  BY <1>1 DEF StopDispatched
<1>2. CASE StartHandled
  BY <1>2 DEF StartHandled
<1>3. CASE WireEvents
  BY <1>3 DEF WireEvents
<1>4. CASE onDestroy
  BY <1>4 DEF onDestroy
<1>5. CASE ProcessEnds
  BY <1>5 DEF ProcessEnds
<1>6. CASE Worker
  <2>1. carrier' = carrier /\ carrier # "none"
    <3>1. worker # "none"
      BY <1>6, Zenon DEF Worker, Dials, Connects, Greets, Crosses, Loses, IsRefused, Decides, Stops, Report
    <3>2. carrier = "none" <=> worker = "none"
      BY DEF TypeOK
    <3> QED BY <1>6, <3>1, <3>2 DEF Worker
  <2>2. told' \in {told, carrier # "created"}
    BY <1>6, WorkerPosts, Zenon DEF Post
  <2> QED BY <2>1, <2>2
<1>7. CASE UNCHANGED <<carrier, told>>
  BY <1>7
<1> QED
  BY <1>1, <1>2, <1>3, <1>4, <1>5, <1>6, <1>7
  DEF Next, Page, System, vars, process, onConnect, onDisconnect, loadPrefs, StatusShown,
      StatusCallback

\* Taking a status from the carrier's queue keeps the last word on its way.
LEMMA CallbackWord ==
    ASSUME StatusTypes, NEW s, Arrives(s), StatusCallback
    PROVE  Arrives(s)'
<1>1. /\ posted \in Seq(Status) /\ posted # <<>> /\ posted' = Tail(posted)
      /\ published \in Seq(Status) /\ published' = Append(published, Head(posted))
      /\ Head(posted) \in Status
      /\ UNCHANGED <<connState, byUser>>
  BY DEF StatusTypes, StatusCallback, page
<1>2. CASE LastWord(posted, s)
  <2>1. LastWord(posted', s) \/ (NoWord(posted') /\ Head(posted) = s)
    BY <1>1, <1>2, HeadTaken
  <2>2. Head(posted) = s => LastWord(published', s)
    BY <1>1, LastAppended
  <2> QED BY <2>1, <2>2, Zenon DEF Arrives
<1>3. CASE NoWord(posted)
  <2>1. NoWord(posted') /\ published' = Append(published, "connected")
    BY <1>1, <1>3, HeadTaken
  <2>2. /\ NoWord(published) => NoWord(published')
        /\ LastWord(published, s) => LastWord(published', s)
    BY <1>1, <2>1, ConnectedAppended
  <2>3. LastWord(posted, s) \/ LastWord(published, s)
          \/ (NoWord(published) /\ (byUser \/ connState = mapStatus(s)))
    BY DEF Arrives
  <2>4. connState = mapStatus(s) => connState' = mapStatus(s)'
    BY <1>1 DEF mapStatus
  <2>5. CASE LastWord(published, s)
    BY <2>1, <2>2, <2>5, Zenon DEF Arrives
  <2>6. CASE NoWord(published) /\ (byUser \/ connState = mapStatus(s))
    BY <1>1, <2>1, <2>2, <2>4, <2>6, Zenon DEF Arrives
  <2> QED BY <1>2, <2>3, <2>5, <2>6
<1> QED BY <1>2, <1>3 DEF Arrives

\* The page shows the last word, or it is still to come.
LEMMA ShownWord ==
    ASSUME StatusTypes, NEW s, Arrives(s), StatusShown
    PROVE  Arrives(s)'
<1>1. /\ published \in Seq(Status) /\ published # <<>> /\ published' = Tail(published)
      /\ connState' = mapStatus(Head(published))
      /\ posted' = posted
  BY DEF StatusTypes, StatusShown, process
<1>2. byUser' = (byUser /\ Head(published) = "connected")
  BY DEF StatusShown
<1>3. CASE LastWord(posted, s)
  BY <1>1, <1>3 DEF Arrives
<1>4. CASE NoWord(posted) /\ LastWord(published, s)
  <2>1. LastWord(published', s) \/ (NoWord(published') /\ Head(published) = s)
    BY <1>1, <1>4, HeadTaken
  <2>2. Head(published) = s => connState' = mapStatus(s)'
    BY <1>1 DEF mapStatus
  <2>3. NoWord(posted')
    BY <1>1, <1>4
  <2> QED BY <2>1, <2>2, <2>3, Zenon DEF Arrives
<1>5. CASE NoWord(posted) /\ NoWord(published) /\ (byUser \/ connState = mapStatus(s))
  <2>1. NoWord(published') /\ Head(published) = "connected"
    BY <1>1, <1>5, HeadTaken
  <2>2. connState' = connState
    BY <1>1, <2>1 DEF mapStatus
  <2>3. connState = mapStatus(s) => connState' = mapStatus(s)'
    BY <2>2 DEF mapStatus
  <2>4. byUser => byUser'
    BY <1>2, <2>1
  <2> QED BY <1>1, <1>5, <2>1, <2>3, <2>4, Zenon DEF Arrives
<1> QED BY <1>3, <1>4, <1>5 DEF Arrives

\* The worker's new word is added behind all others.
LEMMA PostedWord ==
    ASSUME StatusTypes, NEW status \in Status, status # "connected", Post(status), told'
    PROVE  Arrives(status)'
<1>1. carrier # "created"
  BY DEF Post
<1>2. posted' = Append(posted, status) /\ posted \in Seq(Status)
  BY <1>1 DEF Post, StatusTypes
<1>3. LastWord(posted', status)
  BY <1>2, LastAppended
<1> QED BY <1>3 DEF Arrives

\* "connected" changes nothing.
LEMMA PostedConnected ==
    ASSUME StatusTypes, NEW s, Arrives(s), Post("connected"), UNCHANGED <<published, connState, byUser>>
    PROVE  Arrives(s)'
<1>1. posted \in Seq(Status) /\ posted' \in {posted, Append(posted, "connected")}
  BY DEF Post, StatusTypes
<1>2. /\ NoWord(posted) => NoWord(posted')
      /\ LastWord(posted, s) => LastWord(posted', s)
  BY <1>1, ConnectedAppended
<1>3. connState = mapStatus(s) => connState' = mapStatus(s)'
  BY DEF mapStatus
<1> QED BY <1>2, <1>3, Zenon DEF Arrives

\* What neither reports nor shows leaves the last word where it is; the user may have the
\* page show something else meanwhile.
LEMMA WordStays ==
    ASSUME NEW s, Arrives(s), UNCHANGED <<posted, published>>, byUser' \/ UNCHANGED <<connState, byUser>>
    PROVE  Arrives(s)'
<1>1. CASE byUser'
  BY <1>1 DEF Arrives
<1>2. CASE UNCHANGED <<connState, byUser>>
  <2>1. connState = mapStatus(s) => connState' = mapStatus(s)'
    BY <1>2 DEF mapStatus
  <2> QED BY <1>2, <2>1, Zenon DEF Arrives
<1> QED BY <1>1, <1>2

\* A step of the worker reports its new state, or leads to where it may end silently.
LEMMA WorkerWord ==
    ASSUME Worker
    PROVE  \/ Post("connected") /\ Word' = Word /\ worker = "dialling"
           \/ \E status \in Status \ {"connected"} : Post(status) /\ Word' = status
           \/ worker' = "lost"
           \/ carrier' = "destroyed"
<1>1. CASE Dials
  BY <1>1 DEF Dials, Report, Word, Status
<1>2. CASE Connects
  BY <1>2 DEF Connects, Report, Word
<1>3. CASE Greets
  BY <1>3 DEF Greets, Report, Word, Status
<1>4. CASE Crosses
  BY <1>4 DEF Crosses, Report, Word, Status
<1>5. CASE Loses
  BY <1>5 DEF Loses, Report
<1>6. CASE IsRefused
  BY <1>6 DEF IsRefused, Report, Word, Status
<1>7. CASE Decides
  BY <1>7 DEF Decides, Report, Word, Status
<1>8. CASE Stops
  BY <1>8 DEF Stops, StopRequested, Worker
<1> QED BY <1>1, <1>2, <1>3, <1>4, <1>5, <1>6, <1>7, <1>8 DEF Worker

\* The last word, action by action.
LEMMA WordStep ==
    ASSUME IndInv, [Next]_vars
    PROVE  WordArrives'
<1> SUFFICES ASSUME told', carrier' # "destroyed", worker' \notin {"starting", "lost"}
             PROVE  Arrives(Word)'
  BY DEF WordArrives
<1>1. StatusTypes /\ HeardFirst /\ WordArrives
  BY DEF IndInv, TypeOK, StatusTypes
<1>2. ASSUME UNCHANGED <<worker, told>>, carrier # "destroyed"
      PROVE  Arrives(Word) /\ Word' = Word
  BY <1>1, <1>2 DEF WordArrives, Word
<1>3. CASE StatusCallback
  <2>1. Arrives(Word) /\ Word' = Word
    BY <1>2, <1>3 DEF StatusCallback
  <2> QED BY <1>1, <1>3, <2>1, CallbackWord
<1>4. CASE StatusShown
  <2>1. Arrives(Word) /\ Word' = Word
    BY <1>2, <1>4 DEF StatusShown, process
  <2> QED BY <1>1, <1>4, <2>1, ShownWord
<1>5. CASE Worker
  <2>1. UNCHANGED <<carrier, published, connState, byUser>>
    BY <1>5 DEF Worker, page
  <2>2. CASE Post("connected") /\ Word' = Word /\ worker = "dialling"
    <3>1. told
      BY <2>2 DEF Post
    <3>2. Arrives(Word)
      BY <1>1, <2>1, <2>2, <3>1 DEF WordArrives
    <3> QED BY <1>1, <2>1, <2>2, <3>2, PostedConnected
  <2>3. ASSUME NEW status \in Status \ {"connected"}, Post(status), Word' = status
        PROVE  Arrives(Word)'
    BY <1>1, <2>3, PostedWord
  <2> QED BY <1>5, <2>1, <2>2, <2>3, WorkerWord
<1>6. CASE StartHandled
  <2>1. carrier # "none"
    BY <1>1, <1>6 DEF HeardFirst, StartHandled
  <2> QED BY <1>2, <1>6, <2>1, WordStays DEF StartHandled, page
<1>7. CASE ProcessEnds
  BY <1>7 DEF ProcessEnds
<1>8. CASE onConnect \/ onDisconnect \/ loadPrefs
  <2>1. UNCHANGED <<posted, published, worker, told, carrier>>
    BY <1>8, Zenon DEF onConnect, onDisconnect, loadPrefs, process
  <2>2. byUser' \/ UNCHANGED <<connState, byUser>>
    BY <1>8, Zenon DEF onConnect, onDisconnect, loadPrefs, Connect
  <2> QED BY <1>2, <2>1, <2>2, WordStays
<1>9. CASE StopDispatched \/ WireEvents \/ onDestroy \/ UNCHANGED vars
  <2>1. UNCHANGED <<posted, published, worker, told, connState, byUser>>
    BY <1>9, Zenon DEF StopDispatched, WireEvents, onDestroy, vars, process, page
  <2>2. carrier # "destroyed"
    BY <1>9 DEF StopDispatched, WireEvents, onDestroy, vars, process
  <2> QED BY <1>2, <2>1, <2>2, WordStays
<1> QED BY <1>3, <1>4, <1>5, <1>6, <1>7, <1>8, <1>9 DEF Next, Page, System

-----------------------------------------------------------------------------
(* The STOPs ahead of a job, and those behind it.                          *)

\* Of n STOPs on their way, j's are among them, and one behind them if the user has
\* since asked for something else than j, unless j has missed it.
StopComes(j, n, host) == j.ahead <= n /\ (j.host # host /\ ~j.deaf => j.ahead < n)

StopsCome ==
    /\ \A i \in 1..Len(starts) : StopComes(starts[i], stops, wanted)
    /\ carrier \in {"created", "heard", "wired"} => StopComes(job, stops, wanted)

\* Another STOP is behind every job there is, whatever is wanted now.
LEMMA StopAdded ==
    ASSUME NEW j \in Jobs, NEW n \in Nat, NEW old, NEW host, StopComes(j, n, old)
    PROVE  StopComes(j, n + 1, host)
BY DEF StopComes, Jobs

\* A STOP nobody is subscribed to was ahead of the job, or is missed by it.
LEMMA StopPassed ==
    ASSUME NEW j \in Jobs, NEW n \in Nat, n > 0, NEW host, StopComes(j, n, host)
    PROVE  StopComes(Passed(j, FALSE), n - 1, host)
<1>1. CASE j.ahead > 0
  BY <1>1, CarrierAssumption DEF StopComes, Passed, Jobs
<1>2. CASE ~(j.ahead > 0)
  <2>1. j.ahead = 0
    BY <1>2, CarrierAssumption DEF Jobs
  <2> DEFINE d == j.deaf \/ ~FALSE
  <2>2. d
    OBVIOUS
  <2>3. Passed(j, FALSE) = [j EXCEPT !.deaf = d]
    BY <1>2 DEF Passed
  <2> HIDE DEF d
  <2>4. Passed(j, FALSE).deaf = d /\ Passed(j, FALSE).ahead = j.ahead
    BY <2>3 DEF Jobs
  <2>5. 0 <= n - 1
    OBVIOUS
  <2> QED BY <2>1, <2>2, <2>4, <2>5, Zenon DEF StopComes
<1> QED BY <1>1, <1>2

\* Connecting puts a STOP behind the older jobs and ahead of the new one.
LEMMA ConnectStops ==
    ASSUME RequestTypes, StopsCome, NEW s \in Settings, Connect(s[1], s[2]), UNCHANGED <<carrier, job>>
    PROVE  StopsCome'
<1> DEFINE j == Job(s[1], s[2], stops + 1)
<1>1. /\ stops \in Nat /\ stops' = stops + 1 /\ wanted' = s[1]
      /\ starts \in Seq(Jobs) /\ starts' = Append(starts, j) /\ job \in Jobs
  BY CarrierAssumption DEF RequestTypes, Connect
<1>2. StopComes(j, stops', wanted')
  BY <1>1 DEF Job, StopComes
<1>3. j \in Jobs
  <2>1. stops + 1 \in 0..MaxStops
    BY CarrierAssumption DEF RequestTypes, Connect
  <2> QED BY <2>1, SettingJob
<1> HIDE DEF j
<1>4. ASSUME NEW i \in 1..Len(starts') PROVE StopComes(starts'[i], stops', wanted')
  <2>1. CASE i = Len(starts) + 1
    BY <1>1, <1>2, <1>3, <2>1
  <2>2. CASE i \in 1..Len(starts)
    <3>1. starts'[i] = starts[i] /\ starts[i] \in Jobs
      BY <1>1, <1>3, <2>2
    <3>2. StopComes(starts[i], stops, wanted)
      BY <2>2 DEF StopsCome
    <3> QED BY <1>1, <3>1, <3>2, StopAdded
  <2>3. i = Len(starts) + 1 \/ i \in 1..Len(starts)
    BY <1>1, <1>3
  <2> QED BY <2>1, <2>2, <2>3
<1>5. carrier' \in {"created", "heard", "wired"} => StopComes(job', stops', wanted')
  BY <1>1, StopAdded DEF StopsCome
<1> QED BY <1>4, <1>5 DEF StopsCome

\* The STOPs, action by action.
LEMMA StopsStep ==
    ASSUME RequestTypes, StopsCome, [Next]_vars
    PROVE  StopsCome'
<1>1. /\ stops \in Nat /\ starts \in Seq(Jobs) /\ job \in Jobs /\ Len(starts) \in Nat
      /\ \A i \in 1..Len(starts) : starts[i] \in Jobs
  BY CarrierAssumption DEF RequestTypes
<1>2. CASE onConnect
  BY <1>2, ConnectStops DEF onConnect, process
<1>3. CASE onDisconnect
  <2>1. UNCHANGED <<starts, carrier, job>> /\ stops' = stops + 1
    BY <1>3 DEF onDisconnect, process
  <2>2. ASSUME NEW i \in 1..Len(starts) PROVE StopComes(starts[i], stops', wanted')
    BY <1>1, <2>1, StopAdded DEF StopsCome
  <2>3. carrier \in {"created", "heard", "wired"} => StopComes(job, stops', wanted')
    BY <1>1, <2>1, StopAdded DEF StopsCome
  <2> QED BY <2>1, <2>2, <2>3 DEF StopsCome
<1>4. CASE loadPrefs
  <2>1. PICK s \in Settings \cup {<<NoHost, TRUE>>} :
          IF s[2] /\ s[1] # NoHost /\ connState = "DISCONNECTED"
          THEN Connect(s[1], s[2])
          ELSE UNCHANGED <<requests, connState, wanted, byUser>>
    BY <1>4, Zenon DEF loadPrefs
  <2>2. UNCHANGED <<carrier, job>>
    BY <1>4 DEF loadPrefs, process
  <2>3. CASE UNCHANGED <<requests, wanted>>
    BY <2>2, <2>3 DEF requests, StopsCome
  <2>4. CASE s[1] # NoHost /\ Connect(s[1], s[2])
    <3>1. s \in Settings
      BY <2>4, NoHostChosen
    <3> QED BY <2>2, <2>4, <3>1, ConnectStops
  <2> QED BY <2>1, <2>3, <2>4, Zenon
\* Whoever is subscribed is no longer there for another STOP.
<1>5. CASE StopDispatched
  <2>1. /\ stops > 0 /\ stops' = stops - 1 /\ wanted' = wanted
        /\ starts' = [n \in 1..Len(starts) |-> Passed(starts[n], FALSE)]
    BY <1>5 DEF StopDispatched, page
  <2>2. Len(starts') = Len(starts)
    <3>1. \A i \in 1..Len(starts) : Passed(starts[i], FALSE) \in Jobs
      BY <1>1, PassedType
    <3>2. starts' \in [1..Len(starts) -> Jobs]
      BY <2>1, <3>1, Zenon
    <3> QED BY <1>1, <3>2, ListIsSeq
  <2>3. ASSUME NEW i \in 1..Len(starts') PROVE StopComes(starts'[i], stops', wanted')
    <3>1. starts'[i] = Passed(starts[i], FALSE) /\ StopComes(starts[i], stops, wanted)
      BY <2>1, <2>2 DEF StopsCome
    <3> QED BY <1>1, <2>1, <2>2, <3>1, StopPassed
  <2>4. ASSUME carrier' \in {"created", "heard", "wired"} PROVE StopComes(job', stops', wanted')
    <3>1. carrier \in {"created", "heard"}
      BY <1>5, <2>4 DEF StopDispatched
    <3>2. job' = Passed(job, FALSE)
      BY <1>5, <3>1 DEF StopDispatched
    <3>3. StopComes(job, stops, wanted)
      BY <3>1 DEF StopsCome
    <3> QED BY <1>1, <2>1, <3>2, <3>3, StopPassed
  <2> QED BY <2>3, <2>4 DEF StopsCome
<1>6. CASE StartHandled
  <2>1. starts # <<>> /\ starts' = Tail(starts) /\ stops' = stops /\ wanted' = wanted
    BY <1>6 DEF StartHandled, page
  <2>2. /\ \A i \in 1..Len(starts') : i + 1 \in 1..Len(starts) /\ starts'[i] = starts[i + 1]
        /\ Head(starts) = starts[1] /\ 1 \in 1..Len(starts)
    BY <1>1, <2>1
  <2>3. \A i \in 1..Len(starts') : StopComes(starts'[i], stops', wanted')
    BY <2>1, <2>2 DEF StopsCome
  <2>4. StopComes(Head(starts), stops', wanted')
    BY <2>1, <2>2 DEF StopsCome
  <2>5. carrier' \in {"created", "heard", "wired"} => StopComes(job', stops', wanted')
    BY <1>6, <2>1, <2>4 DEF StartHandled, StopsCome
  <2> QED BY <2>3, <2>5 DEF StopsCome
<1>7. CASE ProcessEnds
  <2>1. UNCHANGED <<stops, starts, wanted>> /\ carrier' = "none"
    BY <1>7 DEF ProcessEnds, page, requests
  <2> QED BY <2>1 DEF StopsCome
<1>8. CASE StatusShown \/ WireEvents \/ onDestroy \/ StatusCallback \/ Worker \/ UNCHANGED vars
  <2>1. UNCHANGED <<stops, starts, job, wanted>>
    BY <1>8, Zenon
    DEF StatusShown, WireEvents, onDestroy, StatusCallback, Worker, vars, page, requests, process
  <2>2. carrier' \in {"created", "heard", "wired"} => carrier \in {"created", "heard", "wired"}
    BY <1>8 DEF StatusShown, WireEvents, onDestroy, StatusCallback, Worker, vars, process
  <2> QED BY <2>1, <2>2 DEF StopsCome
<1> QED BY <1>2, <1>3, <1>4, <1>5, <1>6, <1>7, <1>8 DEF Next, Page, System

-----------------------------------------------------------------------------
(* Theorems.                                                               *)

\* The strengthening holds in every reachable state.
THEOREM Inductive == Spec => []IndInv
<1>1. IndInv /\ [Next]_vars => IndInv'
  BY TypeStep, HeardStep, WordStep DEF IndInv
<1> QED BY <1>1, InitInd, PTL DEF Spec

\* Every variable keeps its type, requests on their way keep their bounds, and there is a
\* worker, and a job, exactly while there is a carrier.
THEOREM TypeCorrect == Spec => []TypeOK
<1>1. IndInv => TypeOK
  BY DEF IndInv
<1> QED BY <1>1, Inductive, PTL

\* Once all has arrived, the page of Index.ets shows what the carrier's worker is at: the
\* statuses of earlier carriers come before its own, and its last one is the last to be
\* mapped, whatever the user pressed meanwhile.
THEOREM PageIsRight == Spec => []PageShowsSession
<1>1. IndInv => PageShowsSession
  <2> SUFFICES ASSUME IndInv, Settled PROVE
          /\ worker \in {"dialling", "greeting"} => connState = "CONNECTING"
          /\ worker = "session" => connState = "CONNECTED"
          /\ worker = "over" => connState = "DISCONNECTED"
    BY DEF PageShowsSession
  <2>1. worker \notin {"starting", "lost"} => Arrives(Word)
    BY DEF IndInv, WordArrives, Settled
  <2>2. Arrives(Word) => connState = mapStatus(Word)
    BY EmptyQueue DEF Arrives, Settled
  <2> QED BY <2>1, <2>2 DEF Word, mapStatus
<1> QED BY <1>1, Inductive, PTL

\* A carrier the user has turned away from, and that did not miss the STOP that came with
\* that, has a STOP on its way to it: what startBg and disconnect of Index.ets publish is
\* not used up by a start still ahead of it.  This is the safety part of DeposedCarrierEnds.
DeposedHasStop == carrier = "wired" /\ job.host # wanted /\ ~job.deaf => stops > 0

\* The STOPs are counted along their way: one that is ahead of a start is taken off its
\* count, a later one is behind it or missed by it (startBg, disconnect and wireEvents).
THEOREM DeposedIsStopped == Spec => []DeposedHasStop
<1>1. Init => StopsCome
  BY DEF Init, StopsCome
<1>2. IndInv /\ StopsCome /\ [Next]_vars => StopsCome'
  BY StopsStep DEF IndInv, TypeOK, RequestTypes
<1>3. IndInv /\ StopsCome => DeposedHasStop
  <2> SUFFICES ASSUME IndInv, StopsCome, carrier = "wired", job.host # wanted, ~job.deaf
               PROVE  stops > 0
    BY DEF DeposedHasStop
  <2>1. stops \in Nat /\ job.ahead \in Nat /\ job.ahead < stops
    BY CarrierAssumption DEF IndInv, TypeOK, Jobs, StopsCome, StopComes
  <2> QED BY <2>1
<1> QED BY <1>1, <1>2, <1>3, Inductive, PTL DEF Spec
=============================================================================
