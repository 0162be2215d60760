---------------------------- MODULE ClipboardWire ----------------------------
(***************************************************************************)
(* The clipboard on the connection of one client (deskflow_client.cpp):    *)
(*   - upload: pushClipboard, called on the JS thread of the carrier,      *)
(*     writes CCLP and a series of DCLP frames;                            *)
(*   - download: the worker assembles the DCLP chunks of the server;       *)
(*   - meanwhile the worker writes frames of its own (HelloBack, DINF,     *)
(*     CALV, CNOP) and replaces a broken connection by a new one.          *)
(* A frame is written by two calls of writeAll, its length and its body;   *)
(* nothing keeps the frames of the two threads apart.                      *)
(*                                                                         *)
(* The server is external: it reads frames, and sends texts as Start,      *)
(* chunks and End, one after the other, never across connections.          *)
(***************************************************************************)
EXTENDS Naturals, Sequences

CONSTANTS
    Text,      \* texts the server may send
    Chunks,    \* the number of chunks of each
    Huge,      \* texts over kProtocolMaxStringLength
    MaxPush    \* bound on the chunks of a text this side pushes

ASSUME ChunksAssumption == Chunks \in [Text -> Nat \ {0}]
ASSUME HugeAssumption == Huge \subseteq Text
ASSUME MaxPushAssumption == MaxPush \in Nat \ {0}

VARIABLES
    conn,             \* "down", "hello" (no HelloBack sent yet) or "up"
    reader,           \* server: the frame whose length it has read, "none" between
                      \* frames, "lost" when it takes bytes for what they are not
    writing,          \* worker: the frame it is writing and the part to come
    push,             \* JS: the frames of pushClipboard still to be written,
    pushPart,         \* and the part of the first one to come
    m_handshakeDone,
    m_clipboardSync,
    sending,          \* server: the text on its way and the next chunk (0 for Start)
    m_clipChunk,
    delivered         \* what the clipboard callback was last called with

uploadVars == <<push, pushPart>>
downloadVars == <<sending, m_clipChunk, delivered>>
vars == <<conn, reader, writing, uploadVars, m_handshakeDone, m_clipboardSync, downloadVars>>

ClipboardFrame == {"CCLP", "DCLP"}
WorkerFrame == {"HelloBack", "reply"}
Idle == [frame |-> "none", part |-> "none"]
Begin(frame) == [frame |-> frame, part |-> "head"]
NoTransfer == <<>>

\* The chunks of a text: what the server cuts it into, and what it is made of again.
Content(t) == [i \in 1..Chunks[t] |-> <<t, i>>]

Init ==
    /\ conn = "down" /\ reader = "none" /\ writing = Idle
    /\ push = <<>> /\ pushPart = "head"
    /\ m_handshakeDone = FALSE /\ m_clipboardSync \in BOOLEAN
    /\ sending = NoTransfer
    /\ m_clipChunk = [active |-> FALSE, buffer |-> <<>>]
    /\ delivered = <<>>

-----------------------------------------------------------------------------
(* The connection, as the worker drives it.                                *)

\* The server's Hello has come; the worker begins to answer.
Connect ==
    /\ conn = "down"
    /\ conn' = "hello" /\ reader' = "none"
    /\ writing' = Begin("HelloBack")
    /\ UNCHANGED <<uploadVars, m_handshakeDone, m_clipboardSync, downloadVars>>

\* recv() or send() fails, a reply is refused, the server says goodbye: close().
ConnectionEnds ==
    /\ conn # "down"
    /\ conn' = "down" /\ writing' = Idle
    /\ sending' = NoTransfer
    /\ UNCHANGED <<reader, uploadVars, m_handshakeDone, m_clipboardSync, m_clipChunk, delivered>>

\* What one writeAll of a frame does to the server that reads it.
Arrives(frame, part) ==
    reader' = CASE part = "head" /\ reader = "none" -> frame
                [] part = "body" /\ reader = frame -> "none"
                [] OTHER -> "lost"

WorkerWrites ==
    /\ writing # Idle
    /\ Arrives(writing.frame, writing.part)
    /\ writing' = IF writing.part = "head" THEN [writing EXCEPT !.part = "body"] ELSE Idle
    /\ conn' = IF writing.part = "body" THEN "up" ELSE conn
    /\ UNCHANGED <<uploadVars, m_handshakeDone, m_clipboardSync, downloadVars>>

\* After a message handled in the runtime, CNOP.
Answer == writing' = IF m_handshakeDone' THEN Begin("reply") ELSE Idle

Listening == conn = "up" /\ writing = Idle

HandleDSOP ==
    /\ Listening
    /\ m_handshakeDone' = TRUE
    /\ Answer
    /\ UNCHANGED <<conn, reader, uploadVars, m_clipboardSync, downloadVars>>

\* QINF and CALV are answered whether or not the runtime has begun.
HandleQuery ==
    /\ Listening
    /\ writing' = Begin("reply")
    /\ UNCHANGED <<conn, reader, uploadVars, m_handshakeDone, m_clipboardSync, downloadVars>>

-----------------------------------------------------------------------------
(* Upload.                                                                 *)

\* The frames of a text of n chunks: the claim, Start, the chunks, End.
PushFrames(n) == <<"CCLP">> \o [i \in 1..n + 2 |-> "DCLP"]

\* Mutant: the push does not wait for the runtime.
PushUnasked(n) ==
    /\ push = <<>>
    /\ m_clipboardSync' = TRUE
    /\ push' = PushFrames(n)
    /\ UNCHANGED <<conn, reader, writing, pushPart, m_handshakeDone, downloadVars>>

\* Mutant: a push does not wait for the one before it.
PushQueues(n) ==
    /\ m_clipboardSync' = TRUE
    /\ push' = IF m_handshakeDone THEN push \o PushFrames(n) ELSE push
    /\ UNCHANGED <<conn, reader, writing, pushPart, m_handshakeDone, downloadVars>>

\* The carrier turns synchronisation on and calls pushClipboard.
pushClipboard(n) ==
    /\ push = <<>>
    /\ m_clipboardSync' = TRUE
    /\ push' = IF m_handshakeDone THEN PushFrames(n) ELSE <<>>
    /\ UNCHANGED <<conn, reader, writing, pushPart, m_handshakeDone, downloadVars>>

\* One writeAll, on whatever connection the stream has by now.
PushWrites ==
    /\ push # <<>> /\ conn # "down"
    /\ Arrives(Head(push), pushPart)
    /\ pushPart' = IF pushPart = "head" THEN "body" ELSE "head"
    /\ push' = IF pushPart = "head" THEN push ELSE Tail(push)
    /\ UNCHANGED <<conn, writing, m_handshakeDone, m_clipboardSync, downloadVars>>

\* The claim may fail; a DCLP that fails ends the push.
PushFails ==
    /\ push # <<>>
    /\ push' = IF Head(push) = "CCLP" THEN Tail(push) ELSE <<>>
    /\ pushPart' = "head"
    /\ UNCHANGED <<conn, reader, writing, m_handshakeDone, m_clipboardSync, downloadVars>>

-----------------------------------------------------------------------------
(* Download.                                                               *)

Received == UNCHANGED <<conn, reader, uploadVars, m_handshakeDone, m_clipboardSync>>

\* Mutant: Start leaves the buffer as it is.
DataStartAppends(t) ==
    /\ Listening /\ sending = NoTransfer
    /\ sending' = <<t, 1>>
    /\ m_clipChunk' = [m_clipChunk EXCEPT !.active = t \notin Huge]
    /\ Received /\ UNCHANGED delivered
    /\ Answer

\* mark 1: whatever was being assembled is dropped; a size over the limit is refused.
DataStart(t) ==
    /\ Listening /\ sending = NoTransfer
    /\ sending' = <<t, 1>>
    /\ m_clipChunk' = [active |-> t \notin Huge, buffer |-> <<>>]
    /\ Received /\ UNCHANGED delivered
    /\ Answer

\* Mutant: a chunk replaces the one before.
DataChunkReplaces ==
    /\ Listening /\ sending # NoTransfer
    /\ sending[2] <= Chunks[sending[1]]
    /\ sending' = <<sending[1], sending[2] + 1>>
    /\ m_clipChunk' = IF m_clipChunk.active
                      THEN [m_clipChunk EXCEPT !.buffer = <<sending>>]
                      ELSE m_clipChunk
    /\ Received /\ UNCHANGED delivered
    /\ Answer

\* mark 2: appended, if a transfer is active.
DataChunk ==
    /\ Listening /\ sending # NoTransfer
    /\ sending[2] <= Chunks[sending[1]]
    /\ sending' = <<sending[1], sending[2] + 1>>
    /\ m_clipChunk' = IF m_clipChunk.active
                      THEN [m_clipChunk EXCEPT !.buffer = Append(@, sending)]
                      ELSE m_clipChunk
    /\ Received /\ UNCHANGED delivered
    /\ Answer

\* The container says how long its text is; what is missing makes it empty, what is
\* too much is not looked at.
unmarshalText(buffer) ==
    IF buffer # <<>> /\ buffer[1][2] = 1 /\ Len(buffer) >= Chunks[buffer[1][1]]
    THEN SubSeq(buffer, 1, Chunks[buffer[1][1]])
    ELSE <<>>

\* mark 3: the text goes to JS, if synchronisation is on and there is any.
DataEnd ==
    /\ Listening /\ sending # NoTransfer
    /\ sending[2] = Chunks[sending[1]] + 1
    /\ sending' = NoTransfer
    /\ LET text == unmarshalText(m_clipChunk.buffer)
       IN  delivered' = IF m_clipChunk.active /\ m_clipboardSync /\ text # <<>>
                        THEN text ELSE delivered
    /\ m_clipChunk' = IF m_clipChunk.active THEN [active |-> FALSE, buffer |-> <<>>]
                      ELSE m_clipChunk
    /\ Received
    /\ Answer

-----------------------------------------------------------------------------
Worker ==
    \/ Connect \/ ConnectionEnds \/ WorkerWrites \/ HandleDSOP \/ HandleQuery
    \/ \E t \in Text : DataStart(t)
    \/ DataChunk \/ DataEnd

Js == \/ \E n \in 1..MaxPush : pushClipboard(n)
      \/ PushWrites \/ PushFails

Next == Worker \/ Js

Spec == Init /\ [][Next]_vars

-----------------------------------------------------------------------------
(* Properties.                                                             *)

TypeOK ==
    /\ conn \in {"down", "hello", "up"}
    /\ reader \in {"none", "lost"} \cup ClipboardFrame \cup WorkerFrame
    /\ writing \in {Idle} \cup [frame : WorkerFrame, part : {"head", "body"}]
    /\ Len(push) <= MaxPush + 3
    /\ \A i \in 1..Len(push) : push[i] \in ClipboardFrame
    /\ pushPart \in {"head", "body"}
    /\ m_handshakeDone \in BOOLEAN /\ m_clipboardSync \in BOOLEAN
    /\ sending = NoTransfer
         \/ \E t \in Text : \E i \in 1..Chunks[t] + 1 : sending = <<t, i>>
    /\ m_clipChunk.active \in BOOLEAN

\* Whatever JS puts on the system clipboard is a text the server sent, whole and in
\* order, though m_clipChunk outlives a connection that broke within a transfer.
OnlyWholeTextsDelivered == delivered # <<>> => \E t \in Text : delivered = Content(t)

\* A text whose End arrives is delivered, unless it is too long or synchronisation is
\* off, however many transfers broke off before it.
WholeTextsArrive ==
    [][\A t \in Text \ Huge :
          sending = <<t, Chunks[t] + 1>> /\ sending' = NoTransfer /\ conn' = "up"
          /\ m_clipboardSync => delivered' = Content(t)]_vars

\* Until the first DSOP, nothing of the clipboard is written into the handshake, whenever
\* the user copies something.
FirstHandshakeUndisturbed ==
    ~m_handshakeDone => push = <<>> /\ reader \notin ClipboardFrame \cup {"lost"}

\* "If it is in the runtime at present": on no connection does the clipboard come before
\* the handshake.
ClipboardOnlyInRuntime == conn = "hello" => reader \notin ClipboardFrame

\* Every message is one length-prefixed frame: the server reads the frames that were
\* written, whichever thread wrote them.
FramesStayIntact == reader # "lost"
=============================================================================
