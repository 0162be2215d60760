------------------------------- MODULE Carrier -------------------------------
(***************************************************************************)
(* The page (Index.ets) and the carrier (BackGroundAbility.ets), a process *)
(* of its own that holds the connection.  The page starts the carrier by   *)
(* startAbility, stops it by a common event, and follows the statuses the  *)
(* carrier publishes.                                                      *)
(*                                                                         *)
(* The system is external.  Requests to start go through one of its        *)
(* services in order, events through another: a STOP and a start that      *)
(* follows it may overtake each other, and an event nobody is subscribed   *)
(* to is lost.  There is one carrier at a time: while it exists, however   *)
(* briefly still, a start is refused (16000068).                           *)
(*                                                                         *)
(* The worker is DeskflowClient's, reduced to what it reports; the thread- *)
(* safe function between it and the carrier's JS thread is Bridge's, with  *)
(* a single registration: values posted before it are dropped, later ones  *)
(* arrive in order.                                                        *)
(***************************************************************************)
EXTENDS Naturals, Sequences

CONSTANTS
    Settings,       \* what the user may have set: pairs of a server and the
                    \* position of the switch "reconnect automatically"
    NoHost,         \* none entered, or nothing wanted
    SlowStops,      \* a start may overtake a STOP
    MaxStops,       \* bound on the STOPs on their way
    MaxStarts,      \* bound on the starts on their way
    MaxPosted       \* bound on the statuses on their way

ASSUME CarrierAssumption ==
    /\ \A s \in Settings : s[1] # NoHost /\ s[2] \in BOOLEAN
    /\ SlowStops \in BOOLEAN
    /\ MaxStops \in Nat \ {0} /\ MaxStarts \in Nat \ {0}

Host == {s[1] : s \in Settings}

ConnState == {"DISCONNECTED", "CONNECTING", "CONNECTED", "ERROR"}

VARIABLES
    connState,        \* the page's
    prefsLoaded,      \* the promise of loadPrefs has been settled
    stops,            \* STOP events on their way
    starts,           \* requests to start on their way
    carrier,          \* "none", "created", "heard" (the status callback is registered),
                      \* "wired" (STOP is subscribed, too), "ending" or "destroyed"
    job,              \* what the carrier was started with
    worker,           \* what the carrier's worker is at
    posted,           \* statuses in the carrier's thread-safe function
    published,        \* statuses on their way to the page
    wanted,           \* history: the host last asked for, NoHost after a disconnect
    byUser,           \* history: connState was last set by the user
    told              \* history: the worker's last status was not dropped

page == <<connState, prefsLoaded, wanted, byUser>>
requests == <<stops, starts>>
process == <<carrier, job, worker, posted, told>>
vars == <<page, requests, process, published>>

\* A request to start; ahead and deaf are history: the STOPs published before it that are
\* still on their way, and whether a later STOP came when nobody was subscribed.
Job(host, auto, ahead) == [host |-> host, auto |-> auto, ahead |-> ahead, deaf |-> FALSE]
NoJob == Job(NoHost, FALSE, 0)

Init ==
    /\ connState = "DISCONNECTED" /\ prefsLoaded = FALSE
    /\ stops = 0 /\ starts = <<>>
    /\ carrier = "none" /\ job = NoJob /\ worker = "none"
    /\ posted = <<>> /\ published = <<>>
    /\ wanted = NoHost /\ byUser = TRUE /\ told = FALSE

-----------------------------------------------------------------------------
(* The page.                                                               *)

\* Mutant: the words of a session are not known.
mapStatusOldWords(status) ==
    CASE status = "error" -> "ERROR"
      [] status = "reconnecting" -> "CONNECTED"
      [] status = "connecting" -> "CONNECTING"
      [] status = "disconnected" -> "DISCONNECTED"
      [] OTHER -> connState

\* Statuses go by the words mapStatus tells apart: "error" is also "closed by server",
\* "active" also "inactive" and "handshake ok"; "connected, handshake..." has none.
mapStatus(status) ==
    CASE status = "error" -> "ERROR"
      [] status \in {"active", "reconnecting"} -> "CONNECTED"
      [] status = "connecting" -> "CONNECTING"
      [] status = "disconnected" -> "DISCONNECTED"
      [] OTHER -> connState

\* Mutant: no STOP before the start.
ConnectOnTop(host, auto) ==
    /\ Len(starts) < MaxStarts /\ stops < MaxStops
    /\ starts' = Append(starts, Job(host, auto, stops))
    /\ connState' = "CONNECTING" /\ wanted' = host /\ byUser' = TRUE
    /\ UNCHANGED stops

\* onConnect: startBg publishes STOP, then asks for a start.  The switch may have been
\* turned any number of times before; turning it does nothing else here, because
\* setAutoReconnect is called in the page's process, whose client has no worker.
Connect(host, auto) ==
    /\ Len(starts) < MaxStarts /\ stops < MaxStops
    /\ stops' = stops + 1
    /\ starts' = Append(starts, Job(host, auto, stops + 1))
    /\ connState' = "CONNECTING" /\ wanted' = host /\ byUser' = TRUE

\* By the button or the tray's menu, which may show an older state.
onConnect ==
    /\ \E s \in Settings : Connect(s[1], s[2])
    /\ UNCHANGED <<prefsLoaded, process, published>>

onDisconnect ==
    /\ stops < MaxStops
    /\ stops' = stops + 1
    /\ connState' = "DISCONNECTED" /\ wanted' = NoHost /\ byUser' = TRUE
    /\ UNCHANGED <<prefsLoaded, starts, process, published>>

\* The preferences arrive; with a host and unless something else is going on, connect.
loadPrefs ==
    /\ ~prefsLoaded
    /\ prefsLoaded' = TRUE
    /\ \E s \in Settings \cup {<<NoHost, TRUE>>} :
          IF s[2] /\ s[1] # NoHost /\ connState = "DISCONNECTED"
          THEN Connect(s[1], s[2])
          ELSE UNCHANGED <<requests, connState, wanted, byUser>>
    /\ UNCHANGED <<process, published>>

\* A status reaches the page's subscription.
StatusShown ==
    /\ published # <<>>
    /\ connState' = mapStatus(Head(published))
    /\ byUser' = (byUser /\ Head(published) = "connected")
    /\ published' = Tail(published)
    /\ UNCHANGED <<prefsLoaded, wanted, requests, process>>

-----------------------------------------------------------------------------
(* The system and the carrier's JS thread.                                 *)

\* One STOP fewer is ahead of j, or it is one that j has missed.
Passed(j, subscribed) ==
    IF j.ahead > 0 THEN [j EXCEPT !.ahead = @ - 1] ELSE [j EXCEPT !.deaf = @ \/ ~subscribed]

\* A STOP gets to whoever is subscribed: terminateSelf().
StopDispatched ==
    /\ stops > 0
    /\ stops' = stops - 1
    /\ starts' = [n \in 1..Len(starts) |-> Passed(starts[n], FALSE)]
    /\ job' = IF carrier = "none" THEN job ELSE Passed(job, carrier \notin {"created", "heard"})
    /\ carrier' = IF carrier = "wired" THEN "ending" ELSE carrier
    /\ UNCHANGED <<worker, posted, told, page, published>>

\* Mutant: the carrier does not find its host in the Want.
StartWithoutHost ==
    /\ starts # <<>>
    /\ SlowStops \/ stops = 0
    /\ starts' = Tail(starts)
    /\ IF carrier = "none"
       THEN carrier' = "created" /\ job' = NoJob /\ worker' = "starting"
       ELSE UNCHANGED <<carrier, job, worker>>
    /\ UNCHANGED <<stops, posted, told, page, published>>

\* onCreate, up to connectDeskflow; or 16000068, which is logged.
StartHandled ==
    /\ starts # <<>>
    /\ SlowStops \/ stops = 0
    /\ starts' = Tail(starts)
    /\ IF carrier = "none"
       THEN carrier' = "created" /\ job' = Head(starts) /\ worker' = "starting"
       ELSE UNCHANGED <<carrier, job, worker>>
    /\ UNCHANGED <<stops, posted, told, page, published>>

\* wireEvents, which onCreate calls: the status callback first, then the subscription.
WireEvents ==
    /\ \/ carrier = "created" /\ carrier' = "heard"
       \/ carrier = "heard" /\ carrier' = "wired"
    /\ UNCHANGED <<job, worker, posted, told, page, requests, published>>

\* The status callback publishes the status.
StatusCallback ==
    /\ carrier \in {"wired", "ending", "destroyed"} /\ posted # <<>>
    /\ published' = Append(published, Head(posted))
    /\ posted' = Tail(posted)
    /\ UNCHANGED <<carrier, job, worker, told, page, requests>>

\* onDestroy calls disconnectDeskflow, which asks the worker to stop.
onDestroy ==
    /\ carrier = "ending" /\ carrier' = "destroyed"
    /\ UNCHANGED <<job, worker, posted, told, page, requests, published>>

\* The process ends with its worker and its queue.
ProcessEnds ==
    /\ carrier = "destroyed"
    /\ carrier' = "none" /\ job' = NoJob /\ worker' = "none"
    /\ posted' = <<>> /\ told' = FALSE
    /\ UNCHANGED <<page, requests, published>>

-----------------------------------------------------------------------------
(* The worker.                                                             *)

\* setStatus, through DeskflowStatusCb.
Post(status) ==
    /\ Len(posted) + Len(published) < MaxPosted
    /\ posted' = IF carrier = "created" THEN posted ELSE Append(posted, status)
    /\ told' = (IF status = "connected" THEN told ELSE carrier # "created")

Report(from, to, status) == worker = from /\ worker' = to /\ Post(status)

StopRequested == carrier = "destroyed"

Dials ==
    /\ ~StopRequested
    /\ \E from \in {"starting", "backoff"} : Report(from, "dialling", "connecting")
Connects == Report("dialling", "greeting", "connected")
Greets == Report("greeting", "session", "active")
Crosses == Report("session", "session", "active")     \* CINN and COUT

\* The connect or the handshake fails, the connection is lost, or the server ends it with
\* an error; a malformed message ends it without a word.
Loses ==
    \/ \E from \in {"dialling", "greeting", "session"} : Report(from, "lost", "error")
    \/ worker = "session" /\ worker' = "lost" /\ UNCHANGED <<posted, told>>

\* Another version, or CBYE.
IsRefused ==
    \E from \in {"greeting", "session"} : Report(from, "refused", "error")

\* Mutant: run() returns without a word.
EndsSilently ==
    /\ ~StopRequested
    /\ \/ job.auto /\ Report("lost", "backoff", "reconnecting")
       \/ /\ worker = "refused" \/ (worker = "lost" /\ ~job.auto)
          /\ worker' = "over" /\ UNCHANGED <<posted, told>>

\* The end of runOnce, as run() sees it.
Decides ==
    /\ ~StopRequested
    /\ \/ job.auto /\ Report("lost", "backoff", "reconnecting")
       \/ Report("refused", "over", "disconnected")
       \/ ~job.auto /\ Report("lost", "over", "disconnected")

\* Stopped, the session's recv() fails and is reported; run() ends without a word.
Stops ==
    /\ StopRequested
    /\ \/ Report("session", "lost", "disconnected")
       \/ /\ worker \in {"starting", "lost", "refused", "backoff"}
          /\ worker' = "over" /\ UNCHANGED <<posted, told>>

Worker ==
    /\ Dials \/ Connects \/ Greets \/ Crosses \/ Loses \/ IsRefused \/ Decides \/ Stops
    /\ UNCHANGED <<carrier, job, page, requests, published>>

-----------------------------------------------------------------------------
Page == onConnect \/ onDisconnect \/ loadPrefs \/ StatusShown
System == StopDispatched \/ StartHandled \/ WireEvents \/ StatusCallback \/ onDestroy \/ ProcessEnds

Next == Page \/ System \/ Worker

Spec == Init /\ [][Next]_vars

\* Services and JS threads get on with what they have; the user may do nothing.
FairSpec ==
    /\ Spec
    /\ WF_vars(StopDispatched) /\ WF_vars(StartHandled) /\ WF_vars(WireEvents)
    /\ WF_vars(StatusCallback) /\ WF_vars(onDestroy) /\ WF_vars(ProcessEnds)
    /\ WF_vars(StatusShown)

-----------------------------------------------------------------------------
(* Properties.                                                             *)

Status == {"connecting", "connected", "active", "error", "reconnecting", "disconnected"}
Jobs == [host : Host \cup {NoHost}, auto : BOOLEAN, ahead : 0..MaxStops, deaf : BOOLEAN]

TypeOK ==
    /\ connState \in ConnState /\ prefsLoaded \in BOOLEAN
    /\ stops \in 0..MaxStops
    /\ starts \in Seq(Jobs) /\ Len(starts) <= MaxStarts
    /\ carrier \in {"none", "created", "heard", "wired", "ending", "destroyed"}
    /\ worker \in {"none", "starting", "dialling", "greeting", "session", "lost", "refused",
                   "backoff", "over"}
    /\ job \in Jobs /\ (carrier = "none") = (job = NoJob) /\ (carrier = "none") = (worker = "none")
    /\ posted \in Seq(Status) /\ published \in Seq(Status)
    /\ wanted \in Host \cup {NoHost} /\ byUser \in BOOLEAN /\ told \in BOOLEAN

\* Nothing is on its way to the page, and the last word was the worker's.
Settled ==
    /\ stops = 0 /\ starts = <<>> /\ posted = <<>> /\ published = <<>>
    /\ carrier = "wired" /\ told /\ ~byUser

\* Once all has arrived, the page shows what the worker is at, whatever earlier carriers
\* had left on the way and whatever was pressed meanwhile; while it dials or greets
\* "connecting", in a session "connected", and when it has given up "disconnected".
PageShowsSession ==
    Settled =>
        /\ worker \in {"dialling", "greeting"} => connState = "CONNECTING"
        /\ worker = "session" => connState = "CONNECTED"
        /\ worker = "over" => connState = "DISCONNECTED"

\* A carrier for a host the user has since turned away from goes away, if it was
\* subscribed when the STOP came: the page cannot be left with a carrier that serves
\* another host than the one it names.
DeposedCarrierEnds ==
    carrier = "wired" /\ job.host # wanted /\ ~job.deaf ~> carrier = "none"

\* A session that has been reported is shown in the end.
SessionIsShown ==
    carrier = "wired" /\ worker = "session" /\ told
        ~> connState = "CONNECTED" \/ worker # "session" \/ carrier # "wired"

(* What comments and texts of the page say, and it does not do.            *)

\* The old carrier is stopped first "so that a second connect does not run into 16000068
\* and connect to the old target"; "the next round will reconnect".
ConnectTakesEffect ==
    \A host \in Host : wanted = host ~> wanted # host \/ (carrier # "none" /\ job.host = host)

\* "reconnect" stands for "handshake done, in the runtime".
ConnectedMeansSession ==
    Settled /\ connState = "CONNECTED" => worker \in {"session", "lost"}

\* After the page has been told to disconnect, no late status brings it back.
NoGhostSession ==
    stops = 0 /\ starts = <<>> /\ published = <<>> /\ carrier = "none" => connState # "CONNECTED"

\* A disconnect ends the carrier, also one that is just starting.
DisconnectTakesEffect == wanted = NoHost ~> wanted # NoHost \/ carrier = "none"
=============================================================================
