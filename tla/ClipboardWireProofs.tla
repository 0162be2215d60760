------------------------- MODULE ClipboardWireProofs -------------------------
(***************************************************************************)
(* Proofs about ClipboardWire, for any texts of any number of chunks.      *)
(***************************************************************************)
EXTENDS ClipboardWire, SequenceTheorems, TLAPS

-----------------------------------------------------------------------------
(* The inductive invariant.                                                *)

Chunk == {<<t, i>> : t \in Text, i \in Nat}

\* TypeOK, and what the sequences are made of.
Types ==
    /\ TypeOK
    /\ push \in Seq(ClipboardFrame)
    /\ m_clipChunk \in [active : BOOLEAN, buffer : Seq(Chunk)]

\* The first i - 1 chunks of t, and nothing else.
Prefix(t, i) == [j \in 1..i - 1 |-> <<t, j>>]

\* While a text arrives, the buffer is what has come of it, whatever an earlier connection
\* had left there; between texts the buffer may hold anything.
Assembled ==
    \A t \in Text : \A i \in 1..Chunks[t] + 1 :
        sending = <<t, i>> =>
            /\ m_clipChunk.active = (t \notin Huge)
            /\ t \notin Huge => m_clipChunk.buffer = Prefix(t, i)

\* Before the first DSOP the worker alone writes, and the server is where the worker is.
Undisturbed ==
    /\ conn = "down" => writing = Idle
    /\ ~m_handshakeDone =>
          /\ push = <<>>
          /\ IF conn = "down" THEN reader \in {"none"} \cup WorkerFrame
             ELSE reader = IF writing.part = "body" THEN writing.frame ELSE "none"

IndInv == Types /\ Assembled /\ OnlyWholeTextsDelivered /\ Undisturbed

-----------------------------------------------------------------------------
(* Texts and chunks.                                                       *)

\* A text has at least one chunk.
LEMMA ChunksPositive == ASSUME NEW t \in Text PROVE Chunks[t] \in Nat \ {0}
BY ChunksAssumption

\* The next chunk in turn makes the prefix longer by one.
LEMMA PrefixGrows ==
    ASSUME NEW t \in Text, NEW i \in Nat \ {0}
    PROVE  /\ Prefix(t, i) \in Seq(Chunk)
           /\ Append(Prefix(t, i), <<t, i>>) = Prefix(t, i + 1)
<1>1. Prefix(t, i) \in Seq(Chunk) /\ Prefix(t, i + 1) \in Seq(Chunk)
  BY DEF Prefix, Chunk
<1>2. Len(Prefix(t, i)) = i - 1 /\ Len(Prefix(t, i + 1)) = i
  BY DEF Prefix
<1>3. <<t, i>> \in Chunk
  BY DEF Chunk
<1>4. /\ Append(Prefix(t, i), <<t, i>>) \in Seq(Chunk)
      /\ Len(Append(Prefix(t, i), <<t, i>>)) = i
      /\ \A j \in 1..i : Append(Prefix(t, i), <<t, i>>)[j] = <<t, j>>
  BY <1>1, <1>2, <1>3 DEF Prefix
<1>5. \A j \in 1..i : Prefix(t, i + 1)[j] = <<t, j>>
  BY DEF Prefix
<1> QED BY <1>1, <1>2, <1>4, <1>5, SeqEqual

\* All the chunks of a text are its content, and a text is made of them again.
LEMMA WholeText ==
    ASSUME NEW t \in Text
    PROVE  /\ Prefix(t, Chunks[t] + 1) = Content(t)
           /\ unmarshalText(Content(t)) = Content(t)
           /\ Content(t) # <<>>
<1> DEFINE n == Chunks[t]
           c == Content(t)
<1>1. n \in Nat \ {0}
  BY ChunksPositive
<1>2. Prefix(t, n + 1) = c
  BY <1>1 DEF Prefix, Content
<1>3. c \in Seq(Chunk) /\ Len(c) = n /\ c[1] = <<t, 1>>
  BY <1>1 DEF Content, Chunk
<1>4. c # <<>> /\ c[1][2] = 1 /\ c[1][1] = t
  BY <1>1, <1>3
<1>5. unmarshalText(c) = SubSeq(c, 1, n)
  <2> HIDE DEF c
  <2> QED BY <1>1, <1>3, <1>4 DEF unmarshalText
<1>6. SubSeq(c, 1, n) = c
  BY <1>3, SubSeqFull
<1> QED BY <1>2, <1>4, <1>5, <1>6

\* The frames of a push.
LEMMA PushFramesType ==
    ASSUME NEW n \in 1..MaxPush
    PROVE  PushFrames(n) \in Seq(ClipboardFrame) /\ Len(PushFrames(n)) <= MaxPush + 3
<1>1. n + 2 \in Nat /\ MaxPush \in Nat
  BY MaxPushAssumption
<1>2. /\ [i \in 1..n + 2 |-> "DCLP"] \in Seq(ClipboardFrame)
      /\ Len([i \in 1..n + 2 |-> "DCLP"]) = n + 2
  BY <1>1 DEF ClipboardFrame
<1>3. <<"CCLP">> \in Seq(ClipboardFrame) /\ Len(<<"CCLP">>) = 1
  BY DEF ClipboardFrame
<1> QED BY <1>1, <1>2, <1>3, ConcatProperties DEF PushFrames

-----------------------------------------------------------------------------
(* The invariant is inductive.                                             *)

\* It holds before the first connection.
LEMMA InitInd == Init => IndInv
<1> SUFFICES ASSUME Init PROVE IndInv
  OBVIOUS
<1>1. <<>> \in Seq(ClipboardFrame) /\ <<>> \in Seq(Chunk)
  OBVIOUS
<1>2. Types
  <2>1. Len(push) <= MaxPush + 3 /\ \A i \in 1..Len(push) : push[i] \in ClipboardFrame
    BY MaxPushAssumption DEF Init
  <2>2. m_clipChunk \in [active : BOOLEAN, buffer : Seq(Chunk)] /\ m_clipChunk.active \in BOOLEAN
    BY <1>1 DEF Init
  <2>3. writing \in {Idle} \cup [frame : WorkerFrame, part : {"head", "body"}]
    BY DEF Init
  <2> QED BY <1>1, <2>1, <2>2, <2>3, Zenon DEF Init, Types, TypeOK
<1>3. Assembled /\ OnlyWholeTextsDelivered
  BY DEF Init, Assembled, NoTransfer, OnlyWholeTextsDelivered
<1>4. Undisturbed
  BY DEF Init, Undisturbed
<1> QED BY <1>2, <1>3, <1>4 DEF IndInv

\* What writeAll does to the server is of the reader's type.
LEMMA ArrivesType ==
    ASSUME NEW frame \in ClipboardFrame \cup WorkerFrame, NEW part, Arrives(frame, part)
    PROVE  reader' \in {"none", "lost"} \cup ClipboardFrame \cup WorkerFrame
BY DEF Arrives

\* So is what the worker begins to write.
LEMMA AnswerType ==
    ASSUME Answer
    PROVE  writing' \in {Idle} \cup [frame : WorkerFrame, part : {"head", "body"}]
BY DEF Answer, Begin, WorkerFrame

\* A step of the server's transfer stays within its text.
LEMMA TransferType ==
    ASSUME NEW t \in Text, NEW i \in 1..Chunks[t] + 1, sending = <<t, i>>, Types,
           sending[2] <= Chunks[sending[1]]
    PROVE  /\ i \in 1..Chunks[t] /\ i + 1 \in 1..Chunks[t] + 1
           /\ sending \in Chunk
BY ChunksPositive DEF Chunk

\* Types, action by action.
LEMMA TypesStep == IndInv /\ [Next]_vars => Types'
<1> SUFFICES ASSUME IndInv, [Next]_vars PROVE Types'
  OBVIOUS
<1> USE DEF IndInv, Types, TypeOK
<1>1. CASE Connect
  BY <1>1 DEF Connect, Begin, WorkerFrame, uploadVars, downloadVars
<1>2. CASE ConnectionEnds
  BY <1>2 DEF ConnectionEnds, uploadVars
<1>3. CASE WorkerWrites
  <2>1. reader' \in {"none", "lost"} \cup ClipboardFrame \cup WorkerFrame
    BY <1>3, ArrivesType DEF WorkerWrites
  <2>2. writing' \in {Idle} \cup [frame : WorkerFrame, part : {"head", "body"}]
    BY <1>3 DEF WorkerWrites
  <2> QED BY <1>3, <2>1, <2>2 DEF WorkerWrites, uploadVars, downloadVars
<1>4. CASE HandleDSOP
  BY <1>4, AnswerType DEF HandleDSOP, uploadVars, downloadVars
<1>5. CASE HandleQuery
  BY <1>5 DEF HandleQuery, Begin, WorkerFrame, uploadVars, downloadVars
<1>6. ASSUME NEW t \in Text, DataStart(t) PROVE Types'
  <2>1. sending' = <<t, 1>> /\ 1 \in 1..Chunks[t] + 1
    BY <1>6, ChunksPositive DEF DataStart
  <2>2. m_clipChunk' \in [active : BOOLEAN, buffer : Seq(Chunk)] /\ m_clipChunk'.active \in BOOLEAN
    BY <1>6 DEF DataStart
  <2> QED BY <1>6, <2>1, <2>2, AnswerType DEF DataStart, Received, uploadVars
<1>7. CASE DataChunk
  <2>0. PICK t \in Text : \E i \in 1..Chunks[t] + 1 : sending = <<t, i>>
    BY <1>7 DEF DataChunk
  <2>1. PICK i \in 1..Chunks[t] + 1 : sending = <<t, i>>
    BY <2>0
  <2>2. sending[2] <= Chunks[sending[1]] /\ sending' = <<sending[1], sending[2] + 1>>
    BY <1>7 DEF DataChunk
  <2>3. i + 1 \in 1..Chunks[t] + 1 /\ sending' = <<t, i + 1>> /\ sending \in Chunk
    BY <2>1, <2>2, TransferType
  <2>4. m_clipChunk' \in [active : BOOLEAN, buffer : Seq(Chunk)] /\ m_clipChunk'.active \in BOOLEAN
    <3>1. Append(m_clipChunk.buffer, sending) \in Seq(Chunk)
      BY <2>3
    <3>2. m_clipChunk' \in {m_clipChunk, [m_clipChunk EXCEPT !.buffer = Append(@, sending)]}
      BY <1>7, Zenon DEF DataChunk
    <3> QED BY <3>1, <3>2
  <2> QED BY <1>7, <2>3, <2>4, AnswerType DEF DataChunk, Received, uploadVars
<1>8. CASE DataEnd
  <2>1. m_clipChunk' \in [active : BOOLEAN, buffer : Seq(Chunk)] /\ m_clipChunk'.active \in BOOLEAN
    <3>1. m_clipChunk' \in {m_clipChunk, [active |-> FALSE, buffer |-> <<>>]}
      BY <1>8, Zenon DEF DataEnd
    <3>2. [active |-> FALSE, buffer |-> <<>>] \in [active : BOOLEAN, buffer : Seq(Chunk)]
      OBVIOUS
    <3> QED BY <3>1, <3>2
  <2> QED BY <1>8, <2>1, AnswerType DEF DataEnd, Received, uploadVars
<1>9. ASSUME NEW n \in 1..MaxPush, pushClipboard(n) PROVE Types'
  <2>1. push' \in Seq(ClipboardFrame) /\ Len(push') <= MaxPush + 3
    BY <1>9, PushFramesType, MaxPushAssumption DEF pushClipboard
  <2>2. \A i \in 1..Len(push') : push'[i] \in ClipboardFrame
    BY <2>1
  <2> QED BY <1>9, <2>1, <2>2 DEF pushClipboard, downloadVars
<1>10. CASE PushWrites
  <2>1. push \in Seq(ClipboardFrame) /\ Head(push) \in ClipboardFrame
    BY <1>10, HeadTailProperties DEF PushWrites
  <2>2. push' \in Seq(ClipboardFrame) /\ Len(push') <= MaxPush + 3
    BY <1>10, HeadTailProperties, MaxPushAssumption DEF PushWrites
  <2>3. \A i \in 1..Len(push') : push'[i] \in ClipboardFrame
    BY <2>2
  <2>4. reader' \in {"none", "lost"} \cup ClipboardFrame \cup WorkerFrame
    BY <1>10, <2>1, ArrivesType DEF PushWrites
  <2> QED BY <1>10, <2>2, <2>3, <2>4 DEF PushWrites, downloadVars
<1>11. CASE PushFails
  <2>1. push' \in Seq(ClipboardFrame) /\ Len(push') <= MaxPush + 3
    BY <1>11, HeadTailProperties, MaxPushAssumption DEF PushFails
  <2>2. \A i \in 1..Len(push') : push'[i] \in ClipboardFrame
    BY <2>1
  <2> QED BY <1>11, <2>1, <2>2 DEF PushFails, downloadVars
<1>12. CASE UNCHANGED vars
  BY <1>12 DEF vars, uploadVars, downloadVars
<1> QED BY <1>1, <1>2, <1>3, <1>4, <1>5, <1>6, <1>7, <1>8, <1>9, <1>10, <1>11, <1>12
        DEF Next, Worker, Js

\* Only Start, the chunks and End touch the buffer and what is delivered.
LEMMA DownloadSame ==
    ASSUME IndInv, UNCHANGED <<m_clipChunk, delivered>>, sending' \in {sending, NoTransfer}
    PROVE  Assembled' /\ OnlyWholeTextsDelivered'
BY DEF IndInv, Assembled, OnlyWholeTextsDelivered, NoTransfer

\* A text's End finds all of it, or nothing of a text that is too long.
LEMMA EndDelivers ==
    ASSUME IndInv, DataEnd, NEW t \in Text, sending = <<t, Chunks[t] + 1>>
    PROVE  delivered' = IF t \notin Huge /\ m_clipboardSync THEN Content(t) ELSE delivered
<1>1. Chunks[t] + 1 \in 1..Chunks[t] + 1
  BY ChunksPositive
<1>2. m_clipChunk.active = (t \notin Huge)
      /\ (t \notin Huge => m_clipChunk.buffer = Content(t))
  BY <1>1, WholeText DEF IndInv, Assembled
<1>3. CASE t \notin Huge
  BY <1>2, <1>3, WholeText DEF DataEnd
<1>4. CASE t \in Huge
  BY <1>2, <1>4 DEF DataEnd
<1> QED BY <1>3, <1>4

\* The transfer the server is in, at its End.
LEMMA EndOfText ==
    ASSUME IndInv, DataEnd
    PROVE  \E t \in Text : sending = <<t, Chunks[t] + 1>>
<1>0. PICK t \in Text : \E i \in 1..Chunks[t] + 1 : sending = <<t, i>>
  BY DEF IndInv, Types, TypeOK, DataEnd
<1>1. PICK i \in 1..Chunks[t] + 1 : sending = <<t, i>>
  BY <1>0
<1>2. sending = <<t, Chunks[t] + 1>>
  BY <1>1 DEF DataEnd
<1> QED BY <1>2

\* What is assembled stays a beginning of what is being sent, and what is delivered a text.
LEMMA DownloadStep == IndInv /\ [Next]_vars => Assembled' /\ OnlyWholeTextsDelivered'
<1> SUFFICES ASSUME IndInv, [Next]_vars PROVE Assembled' /\ OnlyWholeTextsDelivered'
  OBVIOUS
<1>1. CASE Connect \/ ConnectionEnds \/ WorkerWrites \/ HandleDSOP \/ HandleQuery
  BY <1>1, DownloadSame
     DEF Connect, ConnectionEnds, WorkerWrites, HandleDSOP, HandleQuery, downloadVars
<1>2. ASSUME NEW t \in Text, DataStart(t) PROVE Assembled' /\ OnlyWholeTextsDelivered'
  <2>1. Prefix(t, 1) = <<>>
    BY DEF Prefix
  <2>2. /\ sending' = <<t, 1>> /\ delivered' = delivered
        /\ m_clipChunk'.active = (t \notin Huge) /\ m_clipChunk'.buffer = Prefix(t, 1)
    BY <1>2, <2>1 DEF DataStart
  <2> QED BY <2>2 DEF IndInv, Assembled, OnlyWholeTextsDelivered
<1>3. CASE DataChunk
  <2>0. PICK t \in Text : \E i \in 1..Chunks[t] + 1 : sending = <<t, i>>
    BY <1>3 DEF DataChunk, IndInv, Types, TypeOK
  <2>1. PICK i \in 1..Chunks[t] + 1 : sending = <<t, i>>
    BY <2>0
  <2>2. sending' = <<t, i + 1>> /\ delivered' = delivered
    BY <1>3, <2>1 DEF DataChunk
  <2>3. i \in Nat \ {0}
    BY ChunksPositive
  <2>4. m_clipChunk.active = (t \notin Huge)
        /\ (t \notin Huge => m_clipChunk.buffer = Prefix(t, i))
    BY <2>1 DEF IndInv, Assembled
  <2>5. CASE t \notin Huge
    <3>1. m_clipChunk' = [m_clipChunk EXCEPT !.buffer = Append(@, <<t, i>>)]
      BY <1>3, <2>1, <2>4, <2>5 DEF DataChunk
    <3>2. m_clipChunk'.active = TRUE /\ m_clipChunk'.buffer = Prefix(t, i + 1)
      BY <2>3, <2>4, <2>5, <3>1, PrefixGrows DEF IndInv, Types
    <3> QED BY <2>2, <2>5, <3>2 DEF IndInv, Assembled, OnlyWholeTextsDelivered
  <2>6. CASE t \in Huge
    BY <1>3, <2>2, <2>4, <2>6 DEF DataChunk, IndInv, Assembled, OnlyWholeTextsDelivered
  <2> QED BY <2>5, <2>6
<1>4. CASE DataEnd
  <2>1. PICK t \in Text : sending = <<t, Chunks[t] + 1>>
    BY <1>4, EndOfText
  <2>2. delivered' \in {delivered, Content(t)} /\ sending' = NoTransfer
    BY <1>4, <2>1, EndDelivers DEF DataEnd
  <2> QED BY <2>2 DEF IndInv, Assembled, OnlyWholeTextsDelivered, NoTransfer
<1>5. CASE Js
  BY <1>5, DownloadSame DEF Js, pushClipboard, PushWrites, PushFails, downloadVars
<1>6. CASE UNCHANGED vars
  BY <1>6, DownloadSame DEF vars, downloadVars
<1> QED BY <1>1, <1>2, <1>3, <1>4, <1>5, <1>6 DEF Next, Worker

\* Until the handshake is done, only the worker writes, from the start of a frame on.
LEMMA UndisturbedStep == IndInv /\ [Next]_vars => Undisturbed'
<1> SUFFICES ASSUME IndInv, [Next]_vars PROVE Undisturbed'
  OBVIOUS
<1> USE DEF IndInv, Undisturbed
\* A handler runs with nothing half written, and what it begins to write begins here.
<1>0. ASSUME Listening, writing' = Idle \/ writing' \in {Begin(f) : f \in WorkerFrame},
             UNCHANGED <<conn, reader, push>>, m_handshakeDone => m_handshakeDone'
      PROVE  Undisturbed'
  BY <1>0 DEF Listening, Idle, Begin
<1>1. CASE Connect
  BY <1>1 DEF Connect, Begin, uploadVars
<1>2. CASE ConnectionEnds
  BY <1>2 DEF ConnectionEnds, uploadVars, Idle, Types, TypeOK
<1>3. CASE WorkerWrites
  BY <1>3 DEF WorkerWrites, Arrives, uploadVars, Idle, Types, TypeOK
<1>4. CASE HandleDSOP
  BY <1>4 DEF HandleDSOP, Listening
<1>5. CASE HandleQuery
  BY <1>5, <1>0 DEF HandleQuery, WorkerFrame, uploadVars
<1>6. CASE (\E t \in Text : DataStart(t)) \/ DataChunk \/ DataEnd
  BY <1>6, <1>0 DEF DataStart, DataChunk, DataEnd, Answer, Received, WorkerFrame, uploadVars
<1>7. ASSUME NEW n \in 1..MaxPush, pushClipboard(n) PROVE Undisturbed'
  BY <1>7 DEF pushClipboard
<1>8. CASE PushWrites \/ PushFails
  BY <1>8 DEF PushWrites, PushFails
<1>9. CASE UNCHANGED vars
  BY <1>9 DEF vars, uploadVars
<1> QED BY <1>1, <1>2, <1>3, <1>4, <1>5, <1>6, <1>7, <1>8, <1>9 DEF Next, Worker, Js

\* Together.
LEMMA NextInd == IndInv /\ [Next]_vars => IndInv'
BY TypesStep, DownloadStep, UndisturbedStep DEF IndInv

-----------------------------------------------------------------------------
(* Theorems.                                                               *)

\* The strengthening holds in every reachable state.
THEOREM Inductive == Spec => []IndInv
BY InitInd, NextInd, PTL DEF Spec

\* Every variable keeps its type; a push in progress is bounded by the longest one.
THEOREM TypeCorrect == Spec => []TypeOK
<1>1. IndInv => TypeOK
  BY DEF IndInv, Types
<1> QED BY <1>1, Inductive, PTL

\* What the clipboard callback gets is a text of the server, whole and in order (the DCLP
\* branch of handleMessage, whose m_clipChunk outlives the connection).
THEOREM TextsAreWhole == Spec => []OnlyWholeTextsDelivered
<1>1. IndInv => OnlyWholeTextsDelivered
  BY DEF IndInv
<1> QED BY <1>1, Inductive, PTL

\* A text whose End arrives is delivered, however many transfers broke off before it.
THEOREM TextsArrive == Spec => WholeTextsArrive
<1>1. ASSUME IndInv, [Next]_vars, NEW t \in Text \ Huge,
             sending = <<t, Chunks[t] + 1>>, sending' = NoTransfer, conn' = "up", m_clipboardSync
      PROVE  delivered' = Content(t)
  <2>1. sending # NoTransfer
    BY <1>1 DEF NoTransfer
  <2>2. DataEnd
    BY <1>1, <2>1
       DEF Next, Worker, Js, Connect, ConnectionEnds, WorkerWrites, HandleDSOP, HandleQuery,
           DataStart, DataChunk, pushClipboard, PushWrites, PushFails, downloadVars, vars, NoTransfer
  <2> QED BY <1>1, <2>2, EndDelivers
<1>2. IndInv /\ [Next]_vars
        => [\A t \in Text \ Huge :
              sending = <<t, Chunks[t] + 1>> /\ sending' = NoTransfer /\ conn' = "up"
              /\ m_clipboardSync => delivered' = Content(t)]_vars
  BY <1>1
<1> QED BY <1>2, Inductive, PTL DEF Spec, WholeTextsArrive

\* Nothing of the clipboard is written before the first DSOP (pushClipboard's test of
\* m_handshakeDone, seen from the server).
THEOREM HandshakeUndisturbed == Spec => []FirstHandshakeUndisturbed
<1>1. IndInv => FirstHandshakeUndisturbed
  BY DEF IndInv, Undisturbed, Types, TypeOK, FirstHandshakeUndisturbed, ClipboardFrame,
         WorkerFrame, Idle
<1> QED BY <1>1, Inductive, PTL
=============================================================================
