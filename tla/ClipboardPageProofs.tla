------------------------ MODULE ClipboardPageProofs ------------------------
(***************************************************************************)
(* Proofs about ClipboardPage, for any set of texts and any number of      *)
(* events on their way.                                                    *)
(***************************************************************************)
EXTENDS ClipboardPage, TLAPS

-----------------------------------------------------------------------------
(* The inductive invariant.                                                *)

\* What the user did not copy is the text the page remembers, or nothing.
RemoteIsRemembered == mine \/ skipped \/ pasteboard \in {Empty, lastRemoteClipboard}

IndInv == TypeOK /\ RemoteIsRemembered

-----------------------------------------------------------------------------
\* The empty pasteboard is the page's and the server's first.
LEMMA InitInd == Init => IndInv
<1> SUFFICES ASSUME Init PROVE IndInv
  OBVIOUS
<1>1. /\ clip \in Seq(Text) /\ push \in Seq(Text)
      /\ Len(clip) <= MaxInFlight /\ Len(push) <= MaxInFlight
  BY ClipboardPageAssumption DEF Init
<1>2. TypeOK
  BY <1>1, Zenon DEF Init, TypeOK
<1>3. RemoteIsRemembered
  BY DEF Init, RemoteIsRemembered
<1> QED BY <1>2, <1>3 DEF IndInv

\* A push adds at most its text, and then one the page does not remember.
LEMMA PushType ==
    ASSUME NEW text \in Text \cup {Empty}, push \in Seq(Text), Len(push) <= MaxInFlight, Push(text)
    PROVE  /\ push' \in Seq(Text) /\ Len(push') <= MaxInFlight
           /\ Len(push') > Len(push) => text \notin {Empty, lastRemoteClipboard}
<1>1. CASE text \in {Empty, lastRemoteClipboard}
  BY <1>1 DEF Push
<1>2. CASE text \notin {Empty, lastRemoteClipboard}
  BY <1>2, ClipboardPageAssumption DEF Push
<1> QED BY <1>1, <1>2

\* What the page reads is what is there, or nothing.
LEMMA ReadType ==
    ASSUME TypeOK
    PROVE  /\ (IF granted THEN pasteboard ELSE Empty) \in Text \cup {Empty}
           /\ (IF granted THEN pasteboard ELSE Empty) \in {pasteboard, Empty}
           /\ push \in Seq(Text) /\ Len(push) <= MaxInFlight
           /\ pasteboard \in Text \cup {Empty}
BY DEF TypeOK

\* The texts on their way remain texts, within their bound.
LEMMA QueueStep ==
    ASSUME TypeOK, [Next]_vars
    PROVE  /\ clip' \in Seq(Text) /\ Len(clip') <= MaxInFlight
           /\ push' \in Seq(Text) /\ Len(push') <= MaxInFlight
<1>1. /\ clip \in Seq(Text) /\ Len(clip) <= MaxInFlight
      /\ push \in Seq(Text) /\ Len(push) <= MaxInFlight
  BY DEF TypeOK
<1>2. CASE PasteboardUpdate
  BY <1>1, <1>2, ReadType, PushType DEF PasteboardUpdate
<1>3. CASE onPasteButtonClick
  BY <1>1, <1>3, ReadType, PushType DEF onPasteButtonClick
<1>4. CASE RemoteClip
  BY <1>1, <1>4, ClipboardPageAssumption DEF RemoteClip
<1>5. CASE PushRequested
  BY <1>1, <1>5, ClipboardPageAssumption DEF PushRequested
<1>6. CASE ServerSends
  <2>1. server \in Text
    BY <1>6 DEF TypeOK, ServerSends
  <2> QED BY <1>1, <1>6, <2>1, ClipboardPageAssumption DEF ServerSends
<1>7. CASE UNCHANGED <<clip, push>>
  BY <1>1, <1>7
<1> QED
  BY <1>2, <1>3, <1>4, <1>5, <1>6, <1>7
  DEF Next, vars, UserCopies, ServerCopies, SwitchSync, PermissionAnswered, Session

\* Types, action by action.
LEMMA TypeStep == TypeOK /\ [Next]_vars => TypeOK'
<1> SUFFICES ASSUME TypeOK, [Next]_vars PROVE TypeOK'
  OBVIOUS
<1> DEFINE T == /\ clipboardSync \in BOOLEAN /\ asking \in BOOLEAN /\ granted \in BOOLEAN
                /\ lastRemoteClipboard \in Text \cup {Empty}
                /\ pasteboard \in Text \cup {Empty} /\ server \in Text \cup {Empty}
                /\ updated \in BOOLEAN /\ m_clipboardSync \in BOOLEAN /\ runtime \in BOOLEAN
                /\ dirty => server # Empty
                /\ mine \in BOOLEAN /\ skipped \in BOOLEAN
<1>1. T
  BY DEF TypeOK
<1>2. \A text \in Text : text # Empty
  BY ClipboardPageAssumption
<1>3. T'
  <2>1. ASSUME NEW text \in Text, UserCopies(text) PROVE T'
    BY <1>1, <2>1, Zenon DEF UserCopies, page, remote
  <2>2. ASSUME NEW text \in Text, ServerCopies(text) PROVE T'
    BY <1>1, <1>2, <2>2, Zenon DEF ServerCopies, page, system
  <2>3. CASE SwitchSync
    BY <1>1, <2>3, Zenon DEF SwitchSync, system, remote
  <2>4. CASE PermissionAnswered
    BY <1>1, <2>4, Zenon DEF PermissionAnswered, system, remote
  <2>5. CASE PasteboardUpdate
    BY <1>1, <2>5, Zenon DEF PasteboardUpdate, page, remote
  <2>6. CASE onPasteButtonClick
    BY <1>1, <2>6, Zenon DEF onPasteButtonClick, system, remote
  <2>7. CASE RemoteClip
    <3>1. Head(clip) \in Text
      BY <2>7 DEF TypeOK, RemoteClip
    <3> QED BY <1>1, <2>7, <3>1, Zenon DEF RemoteClip, SetPasteboard, remote
  <2>8. CASE PushRequested
    <3>1. Head(push) \in Text
      BY <2>8 DEF TypeOK, PushRequested
    <3> QED BY <1>1, <2>8, <3>1, Zenon DEF PushRequested, page, system
  <2>9. CASE ServerSends
    BY <1>1, <2>9, Zenon DEF ServerSends, page, system
  <2>10. CASE Session
    BY <1>1, <2>10, Zenon DEF Session, page, system
  <2>11. CASE UNCHANGED vars
    BY <1>1, <2>11, Zenon DEF vars, page, system, remote
  <2> QED BY <2>1, <2>2, <2>3, <2>4, <2>5, <2>6, <2>7, <2>8, <2>9, <2>10, <2>11 DEF Next
<1> QED BY <1>3, QueueStep, Zenon DEF TypeOK

\* A text of the server becomes the one remembered whether or not it gets into the
\* pasteboard; anything else that gets there is the user's.
LEMMA RememberedStep == RemoteIsRemembered /\ [Next]_vars => RemoteIsRemembered'
<1> SUFFICES ASSUME RemoteIsRemembered, [Next]_vars PROVE RemoteIsRemembered'
  OBVIOUS
<1> USE DEF RemoteIsRemembered
<1>1. ASSUME NEW text \in Text, UserCopies(text) PROVE RemoteIsRemembered'
  BY <1>1 DEF UserCopies
<1>2. CASE RemoteClip
  BY <1>2, Zenon DEF RemoteClip, SetPasteboard
<1>3. CASE UNCHANGED <<mine, skipped, pasteboard, lastRemoteClipboard>>
  BY <1>3
<1> QED
  BY <1>1, <1>2, <1>3
  DEF Next, vars, page, system, ServerCopies, SwitchSync, PermissionAnswered, PasteboardUpdate,
      onPasteButtonClick, PushRequested, ServerSends, Session

\* One step: only what the page does not remember is added to the pushes, and that is then
\* the user's.
LEMMA EchoStep ==
    ASSUME IndInv, Next, Len(push') > Len(push)
    PROVE  mine \/ skipped
<1>1. push \in Seq(Text) /\ Len(push) \in Nat
  BY DEF IndInv, TypeOK
<1>2. CASE PasteboardUpdate
  <2>1. (IF granted THEN pasteboard ELSE Empty) \notin {Empty, lastRemoteClipboard}
    <3>1. Push(IF granted THEN pasteboard ELSE Empty)
      BY <1>1, <1>2 DEF PasteboardUpdate
    <3> QED BY <3>1, ReadType, PushType DEF IndInv
  <2> QED BY <2>1, ReadType, Zenon DEF IndInv, RemoteIsRemembered
<1>3. CASE onPasteButtonClick
  <2>1. pasteboard \notin {Empty, lastRemoteClipboard}
    BY <1>3, ReadType, PushType DEF IndInv, onPasteButtonClick
  <2> QED BY <2>1 DEF IndInv, RemoteIsRemembered
<1>4. CASE PushRequested
  BY <1>1, <1>4 DEF PushRequested
<1>5. CASE push' = push
  BY <1>1, <1>5
<1> QED
  BY <1>2, <1>3, <1>4, <1>5
  DEF Next, UserCopies, ServerCopies, SwitchSync, PermissionAnswered, RemoteClip, ServerSends, Session

-----------------------------------------------------------------------------
(* Theorems.                                                               *)

\* The strengthening holds in every reachable state.
THEOREM Inductive == Spec => []IndInv
<1>1. IndInv /\ [Next]_vars => IndInv'
  BY TypeStep, RememberedStep DEF IndInv
<1> QED BY <1>1, InitInd, PTL DEF Spec

\* Every variable keeps its type, and the queues of events their bound.
THEOREM TypeCorrect == Spec => []TypeOK
<1>1. IndInv => TypeOK
  BY DEF IndInv
<1> QED BY <1>1, Inductive, PTL

\* However late the pasteboard's notifications come, and whatever is copied or switched
\* meanwhile, the listener of Index.ets sends out only what the user copied, unless a text
\* of the server could not be put into the pasteboard.
THEOREM PageDoesNotEcho == Spec => NoEcho
<1>1. IndInv /\ [Next]_vars => [Len(push') > Len(push) => mine \/ skipped]_vars
  BY EchoStep, Zenon
<1> QED BY <1>1, Inductive, PTL DEF Spec, NoEcho
=============================================================================
