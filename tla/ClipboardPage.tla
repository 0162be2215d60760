---------------------------- MODULE ClipboardPage ----------------------------
(***************************************************************************)
(* The page's side of the clipboard (Index.ets): between the system's      *)
(* pasteboard, which the user copies to, and the carrier, with which the   *)
(* page exchanges texts by common events.  What it must not do is take a   *)
(* text it has just put into the pasteboard for one the user copied.       *)
(*                                                                         *)
(* The pasteboard and the server are external.  The pasteboard notifies    *)
(* its listener some time after a change; several changes may be one       *)
(* notification.  Reading it is denied without a permission, but for the   *)
(* press of a PasteButton.  The transfer between carrier and server is     *)
(* ClipboardWire's; here it is one step.                                   *)
(***************************************************************************)
EXTENDS Naturals, Sequences

CONSTANTS
    Text,          \* texts that are copied
    Empty,         \* an empty pasteboard or none of the texts
    MaxInFlight    \* bound on the events on their way, in each direction

ASSUME ClipboardPageAssumption == Empty \notin Text /\ MaxInFlight \in Nat \ {0}

VARIABLES
    clipboardSync,          \* the page's switch
    lastRemoteClipboard,    \* the page's
    asking,                 \* requestPermissionsFromUser has not answered
    granted,                \* READ_PASTEBOARD
    pasteboard,             \* the text in the system's pasteboard
    updated,                \* a notification of it is on its way
    clip,                   \* BGEVT_CLIP: texts on their way to the page
    push,                   \* BGEVT_CLIP_PUSH: texts on their way to the carrier
    m_clipboardSync,        \* the carrier's client
    runtime,                \* it is in a session
    server,                 \* the server's clipboard
    dirty,                  \* it has not been sent yet
    mine,                   \* history: the user put what is in the pasteboard
    skipped                 \* history: the last remote text was not put there

page == <<clipboardSync, lastRemoteClipboard, asking>>
system == <<granted, pasteboard, updated, mine>>
remote == <<m_clipboardSync, runtime, server, dirty>>
vars == <<page, system, clip, push, remote, skipped>>

Init ==
    /\ clipboardSync \in BOOLEAN /\ lastRemoteClipboard = Empty /\ asking = FALSE
    /\ granted \in BOOLEAN /\ pasteboard = Empty /\ updated = FALSE /\ mine = FALSE
    /\ clip = <<>> /\ push = <<>>
    /\ m_clipboardSync \in BOOLEAN /\ runtime = FALSE
    /\ server = Empty /\ dirty = FALSE
    /\ skipped = FALSE

-----------------------------------------------------------------------------
(* The user.                                                               *)

UserCopies(text) ==
    /\ pasteboard' = text /\ mine' = TRUE
    /\ updated' = TRUE
    /\ UNCHANGED <<page, granted, clip, push, remote, skipped>>

\* Turning the switch on asks for the permission.  setClipboardSync is called in the
\* page's process and does not reach the carrier.
SwitchSync ==
    /\ clipboardSync' = ~clipboardSync
    /\ asking' = (asking \/ clipboardSync')
    /\ UNCHANGED <<lastRemoteClipboard, system, clip, push, remote, skipped>>

\* Denied, the switch goes back.
PermissionAnswered ==
    /\ asking
    /\ asking' = FALSE
    /\ clipboardSync' = (clipboardSync /\ granted)
    /\ UNCHANGED <<lastRemoteClipboard, system, clip, push, remote, skipped>>

-----------------------------------------------------------------------------
(* The page.                                                               *)

\* pushLocalClipboard, with the switch on: a text, but not the last remote one.
Push(text) ==
    /\ Len(push) < MaxInFlight
    /\ push' = IF text \notin {Empty, lastRemoteClipboard} THEN Append(push, text) ELSE push

\* Mutant: the notification is dropped while a request is on its way.
PasteboardUpdateUnlessBusy ==
    /\ updated
    /\ updated' = FALSE
    /\ IF clipboardSync /\ push = <<>> THEN Push(IF granted THEN pasteboard ELSE Empty)
       ELSE UNCHANGED push
    /\ UNCHANGED <<page, granted, pasteboard, mine, clip, remote, skipped>>

\* The listener reads what is there now; denied, it reads nothing.
PasteboardUpdate ==
    /\ updated
    /\ updated' = FALSE
    /\ IF clipboardSync THEN Push(IF granted THEN pasteboard ELSE Empty) ELSE UNCHANGED push
    /\ UNCHANGED <<page, granted, pasteboard, mine, clip, remote, skipped>>

\* PasteButton: reading is allowed; a text that goes out turns the switch on.
onPasteButtonClick ==
    /\ Push(pasteboard)
    /\ clipboardSync' = (clipboardSync \/ pasteboard \notin {Empty, lastRemoteClipboard})
    /\ UNCHANGED <<lastRemoteClipboard, asking, system, clip, remote, skipped>>

\* setSystemClipboard, which may fail.
SetPasteboard(text) ==
    IF clipboardSync
    THEN \/ /\ pasteboard' = text /\ mine' = FALSE
            /\ updated' = TRUE /\ skipped' = FALSE
         \/ skipped' = TRUE /\ UNCHANGED <<pasteboard, mine, updated>>
    ELSE skipped' = TRUE /\ UNCHANGED <<pasteboard, mine, updated>>

\* Mutant: a text that is already in the pasteboard is not remembered.
RemoteClipKnown ==
    /\ clip # <<>>
    /\ clip' = Tail(clip)
    /\ lastRemoteClipboard' = IF Head(clip) = pasteboard THEN lastRemoteClipboard ELSE Head(clip)
    /\ SetPasteboard(Head(clip))
    /\ UNCHANGED <<clipboardSync, asking, granted, push, remote>>

\* A text from the carrier: remembered in any case, put into the pasteboard if the switch is on.
RemoteClip ==
    /\ clip # <<>>
    /\ clip' = Tail(clip)
    /\ lastRemoteClipboard' = Head(clip)
    /\ SetPasteboard(Head(clip))
    /\ UNCHANGED <<clipboardSync, asking, granted, push, remote>>

-----------------------------------------------------------------------------
(* The carrier and the server.                                             *)

\* The carrier turns its own switch on and pushes; out of a session nothing is sent.
PushRequested ==
    /\ push # <<>>
    /\ push' = Tail(push)
    /\ m_clipboardSync' = TRUE
    /\ IF runtime THEN server' = Head(push) /\ dirty' = FALSE ELSE UNCHANGED <<server, dirty>>
    /\ UNCHANGED <<page, system, clip, runtime, skipped>>

\* The server sends its clipboard when the pointer comes here; DCLP is ignored if the
\* client's switch is off.
ServerSends ==
    /\ runtime /\ dirty
    /\ Len(clip) < MaxInFlight
    /\ dirty' = FALSE
    /\ clip' = IF m_clipboardSync THEN Append(clip, server) ELSE clip
    /\ UNCHANGED <<page, system, push, m_clipboardSync, runtime, server, skipped>>

ServerCopies(text) ==
    /\ server' = text /\ dirty' = TRUE
    /\ UNCHANGED <<page, system, clip, push, m_clipboardSync, runtime, skipped>>

\* The session ends or begins; another carrier takes its switch from the page's.
Session ==
    /\ runtime' = ~runtime
    /\ m_clipboardSync' \in {m_clipboardSync, IF runtime' THEN clipboardSync ELSE m_clipboardSync}
    /\ UNCHANGED <<page, system, clip, push, server, dirty, skipped>>

Next ==
    \/ \E text \in Text : UserCopies(text) \/ ServerCopies(text)
    \/ SwitchSync \/ PermissionAnswered
    \/ PasteboardUpdate \/ onPasteButtonClick \/ RemoteClip
    \/ PushRequested \/ ServerSends \/ Session

Spec == Init /\ [][Next]_vars

\* The JS threads get on with notifications and events.
FairSpec == Spec /\ WF_vars(PasteboardUpdate) /\ WF_vars(RemoteClip) /\ WF_vars(PushRequested)

-----------------------------------------------------------------------------
(* Properties.                                                             *)

TypeOK ==
    /\ clipboardSync \in BOOLEAN /\ asking \in BOOLEAN /\ granted \in BOOLEAN
    /\ {lastRemoteClipboard, pasteboard, server} \subseteq Text \cup {Empty}
    /\ updated \in BOOLEAN /\ m_clipboardSync \in BOOLEAN /\ runtime \in BOOLEAN
    /\ clip \in Seq(Text) /\ push \in Seq(Text)
    /\ Len(clip) <= MaxInFlight /\ Len(push) <= MaxInFlight
    /\ dirty => server # Empty
    /\ mine \in BOOLEAN /\ skipped \in BOOLEAN

\* What came from the server is not sent back to it: a text goes out only if the user put
\* it into the pasteboard, however late the notification of it comes; unless a later text
\* of the server could not be put there, so that the page remembers another one.
NoEcho == [][Len(push') > Len(push) => mine \/ skipped]_vars

\* What the user copies reaches the server, if it can be read, the session lasts and the
\* switch stays on; a text equal to the last one from the server is held for an echo.
CopyReachesServer ==
    \A text \in Text :
        updated /\ mine /\ pasteboard = text /\ granted /\ clipboardSync /\ runtime
            ~> \/ server = text
               \/ pasteboard # text \/ lastRemoteClipboard = text
               \/ ~clipboardSync \/ ~runtime

\* "A real local copy is pushed at once."
EveryCopyReachesServer ==
    \A text \in Text :
        updated /\ mine /\ pasteboard = text /\ granted /\ clipboardSync /\ runtime
            ~> server = text \/ pasteboard # text \/ ~mine \/ ~clipboardSync \/ ~runtime

\* lastRemoteClipboard is there "so that what was just written is not taken for a copy".
NeverEchoes == [][Len(push') > Len(push) => mine]_vars
=============================================================================
