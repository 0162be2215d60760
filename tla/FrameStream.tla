----------------------------- MODULE FrameStream -----------------------------
(***************************************************************************)
(* The byte stream between server and client and how the worker reads it:  *)
(* SocketStream (readExact, readFrame, pushToBuffer, writeFrame, close),   *)
(* ProtoUtil::readf, the handshake and the parsing half of handleMessage.  *)
(* What the messages do is InputSession's and ClipboardWire's, how the     *)
(* loop ends and reconnects DeskflowClient's.                              *)
(*                                                                         *)
(* A step of the worker is one recv(), which returns any part of what has  *)
(* arrived, or the end of one readExact, with what follows up to the next. *)
(* The server is external: it greets, then sends messages in Formats.      *)
(***************************************************************************)
EXTENDS ProtoUtil

CONSTANTS
    Greeting,         \* the Hellos the server may begin with
    Message,          \* the messages it may send
    Formats,          \* the formats it uses
    ScreenName,       \* m_screenName
    Info,             \* the seven numbers of DINF: screen and pointer
    MaxSent           \* bound on the messages of one connection, the Hello included

ASSUME MaxSentAssumption == MaxSent \in Nat \ {0}

kProtocolMajorVersion == 1
kProtocolMinorVersion == 8
kHelloNameLength == 7
kProtocolMaxMessageLength == 4 * 1024 * 1024

VARIABLES
    wire,              \* bytes sent by the server and not yet received
    stage,             \* what the readExact under way is for, "closed" without a
                       \* connection, "leaving" when the loop has ended
    want, got,         \* its n, and the bytes it has
    m_buffer,          \* from m_bufferPos on
    message,           \* the key being parsed and the arguments read so far
    m_handshakeDone,
    out,               \* payloads of the frames written on this connection
    sent, handled,     \* history of this connection: messages
    runtimeAtOpen      \* history: m_handshakeDone when it was opened

reading == <<stage, want, got, m_buffer, message>>
history == <<sent, handled, runtimeAtOpen>>
vars == <<wire, reading, m_handshakeDone, out, history>>

NoMessage == [key |-> "none", args |-> <<>>]

Init ==
    /\ wire = <<>> /\ m_buffer = <<>>
    /\ stage = "closed" /\ want = 0 /\ got = <<>>
    /\ message = NoMessage
    /\ m_handshakeDone = FALSE /\ out = <<>>
    /\ sent = <<>> /\ handled = <<>>
    /\ runtimeAtOpen = FALSE

-----------------------------------------------------------------------------
(* The server.                                                             *)

ServerSends(m) ==
    /\ stage # "closed"
    /\ Len(sent) < MaxSent
    /\ sent' = Append(sent, m)
    /\ wire' = wire \o Frame(Payload(Formats, m))
    /\ UNCHANGED <<reading, m_handshakeDone, out, handled, runtimeAtOpen>>

-----------------------------------------------------------------------------
(* readExact.                                                              *)

\* readExact(n) begins: what the buffer has comes first.
Read(purpose, n, buffer) ==
    LET k == IF n < Len(buffer) THEN n ELSE Len(buffer)
    IN  /\ stage' = purpose
        /\ want' = n
        /\ got' = SubSeq(buffer, 1, k)
        /\ m_buffer' = SubSeq(buffer, k + 1, Len(buffer))

Receiving == stage \notin {"closed", "leaving"} /\ Len(got) < want

\* recv() returns some of the missing bytes.
Recv ==
    /\ Receiving /\ wire # <<>>
    /\ \E n \in 1..Len(wire) :
          /\ n <= want - Len(got)
          /\ got' = got \o SubSeq(wire, 1, n)
          /\ wire' = SubSeq(wire, n + 1, Len(wire))
    /\ UNCHANGED <<stage, want, m_buffer, message, m_handshakeDone, out, history>>

\* The loop ends; close() is still to come.
Leave(buffer) ==
    /\ stage' = "leaving" /\ want' = 0 /\ got' = <<>> /\ m_buffer' = buffer
    /\ message' = NoMessage

\* recv() returns 0 or an error, at whatever byte.
RecvFails ==
    /\ Receiving
    /\ Leave(m_buffer)
    /\ UNCHANGED <<wire, m_handshakeDone, out, history>>

Complete(purpose) == stage = purpose /\ Len(got) = want

-----------------------------------------------------------------------------
(* Handlers.                                                               *)

Refused == {"CBYE", "EICV", "EBSY", "EUNK", "EBAD", "unknown", "DINF"}

\* The version answered: the server's minor, if it is older.
HelloBack(args) ==
    [key |-> "HelloBack",
     args |-> <<args[1], kProtocolMajorVersion,
                IF args[3] < kProtocolMinorVersion THEN args[3] ELSE kProtocolMinorVersion,
                ScreenName>>]

Compatible(args) == Len(args[1]) = kHelloNameLength /\ args[2] = kProtocolMajorVersion

\* What the handler of m writes, and the CNOP the loop adds in the runtime.
Reply(m) ==
    CASE m.key = "Hello" -> <<HelloBack(m.args)>>
      [] m.key = "QINF" -> <<[key |-> "DINF", args |-> Info]>>
      [] m.key = "CALV" -> <<[key |-> "CALV", args |-> <<>>]>>
      [] OTHER -> <<>>

Cnop(m, runtime) ==
    IF runtime /\ m.key # "Hello" THEN <<[key |-> "CNOP", args |-> <<>>]>> ELSE <<>>

\* Mutant: the loop's CNOP goes out before the handler's answer.
AnswerCnopFirst(m, runtime) == Cnop(m, runtime) \o Reply(m)

Answer(m, runtime) == Reply(m) \o Cnop(m, runtime)

\* All arguments are read: handle m, go on with the next frame or leave.
Handle(m, buffer) ==
    /\ handled' = Append(handled, m)
    /\ UNCHANGED <<wire, sent, runtimeAtOpen>>
    /\ IF m.key \in Refused \/ (m.key = "Hello" /\ ~Compatible(m.args))
       THEN Leave(buffer) /\ UNCHANGED <<m_handshakeDone, out>>
       ELSE /\ m_handshakeDone' = (m_handshakeDone \/ m.key = "DSOP")
            /\ LET answer == Answer(m, m_handshakeDone')
               IN  out' = out \o [j \in 1..Len(answer) |-> Payload(Format, answer[j])]
            /\ Read("length", 4, buffer)
            /\ message' = NoMessage

\* The next argument of m, or its handler when there is none left.
Proceed(m, buffer) ==
    IF Len(m.args) = Len(Format[m.key])
    THEN Handle(m, buffer)
    ELSE LET item == Format[m.key][Len(m.args) + 1]
         IN  /\ IF Counted(item) THEN Read("count", 4, buffer) ELSE Read("value", Width(item), buffer)
             /\ message' = m
             /\ UNCHANGED <<wire, m_handshakeDone, out, history>>

-----------------------------------------------------------------------------
(* The worker.                                                             *)

\* connect() clears nothing: the buffer is what the last close() left.
Connect(hello) ==
    /\ stage = "closed"
    /\ sent' = <<hello>> /\ handled' = <<>> /\ out' = <<>>
    /\ wire' = Frame(Payload(Formats, hello))
    /\ runtimeAtOpen' = m_handshakeDone
    /\ Read("length", 4, m_buffer)
    /\ UNCHANGED <<message, m_handshakeDone>>

\* readFrame has the length: too long, or the payload is next.
LengthRead ==
    /\ Complete("length")
    /\ IF Number(got) > kProtocolMaxMessageLength THEN Leave(m_buffer)
       ELSE Read("payload", Number(got), m_buffer) /\ UNCHANGED message
    /\ UNCHANGED <<wire, m_handshakeDone, out, history>>

\* pushToBuffer; then readf of the Hello, or the key.
PayloadRead ==
    /\ Complete("payload")
    /\ IF handled = <<>>
       THEN Proceed([key |-> "Hello", args |-> <<>>], m_buffer \o got)
       ELSE /\ Read("key", 4, m_buffer \o got)
            /\ UNCHANGED <<wire, message, m_handshakeDone, out, history>>

\* Mutant: the payload of a message that does nothing is left in the buffer.
KeyReadSkipsIgnored ==
    /\ Complete("key")
    /\ LET k == KeyOf(got)
       IN  IF k \in {"unknown", "DINF", "CSEC", "LSYN"} THEN Handle([key |-> k, args |-> <<>>], m_buffer)
           ELSE Proceed([key |-> k, args |-> <<>>], m_buffer)

\* The key says how the arguments are read; an unknown one is handled as it is.
KeyRead ==
    /\ Complete("key")
    /\ LET k == KeyOf(got)
       IN  IF k \in {"unknown", "DINF"} THEN Handle([key |-> k, args |-> <<>>], m_buffer)
           ELSE Proceed([key |-> k, args |-> <<>>], m_buffer)

NextItem == Format[message.key][Len(message.args) + 1]

\* Mutant: a terminating zero is taken to follow a string.
CountReadTerminated ==
    /\ Complete("count")
    /\ Read("value", Number(got) * Width(NextItem) + 1, m_buffer)
    /\ UNCHANGED <<wire, message, m_handshakeDone, out, history>>

CountRead ==
    /\ Complete("count")
    /\ IF Number(got) > MaxCount THEN Leave(m_buffer)
       ELSE Read("value", Number(got) * Width(NextItem), m_buffer) /\ UNCHANGED message
    /\ UNCHANGED <<wire, m_handshakeDone, out, history>>

ValueRead ==
    /\ Complete("value")
    /\ Proceed([message EXCEPT !.args = Append(@, Stored(NextItem, got))], m_buffer)

\* close(); what was still on its way is lost.
Close ==
    /\ stage = "leaving"
    /\ stage' = "closed"
    /\ wire' = <<>> /\ m_buffer' = <<>>
    /\ UNCHANGED <<want, got, message, m_handshakeDone, out, history>>

Worker == Recv \/ LengthRead \/ PayloadRead \/ KeyRead \/ CountRead \/ ValueRead \/ Close

Next ==
    \/ Worker \/ RecvFails
    \/ \E hello \in Greeting : Connect(hello)
    \/ \E m \in Message : ServerSends(m)

Spec == Init /\ [][Next]_vars

\* The worker goes on, and recv() returns what has arrived.
FairSpec == Spec /\ WF_vars(Worker)

-----------------------------------------------------------------------------
(* What the server is taken to send where a theorem is about every Greeting *)
(* and Message; the instances satisfy it.                                  *)

\* The values a conversion carries.  Numbers of four bytes end where Number does.
Carries(item, v) ==
    \/ item = i1 /\ v \in Byte
    \/ item = i2 /\ v \in Int /\ -32768 <= v /\ v <= 32767
    \/ item = i4 /\ v \in Nat /\ v < Enormous
    \/ item = I4 /\ v \in Seq(Nat) /\ Len(v) <= MaxCount /\ \A j \in 1..Len(v) : v[j] < Enormous
    \/ item = s7 /\ v \in Seq(Byte) /\ Len(v) = 7
    \/ item = s0 /\ v \in Seq(Byte) /\ Len(v) <= MaxCount

\* m has the arguments its format asks for, and readFrame takes its payload.
Sendable(m) ==
    /\ Formats[m.key] = Format[m.key]
    /\ m = [key |-> m.key, args |-> [j \in 1..Len(Format[m.key]) |-> m.args[j]]]
    /\ \A j \in 1..Len(Format[m.key]) : Carries(Format[m.key][j], m.args[j])
    /\ Len(Payload(Formats, m)) <= kProtocolMaxMessageLength

\* A Hello, and then messages with a key of the protocol that is a server's to send.
ServerSpeaks ==
    /\ \A hello \in Greeting : hello.key = "Hello" /\ Sendable(hello)
    /\ \A m \in Message : m.key \in ToSet(Keys) \ {"DINF"} /\ Sendable(m)

\* What the client says of itself is within the conversions it is written with.
ClientSpeaks ==
    /\ Carries(s0, ScreenName)
    /\ Info \in Seq(Int) /\ Len(Info) = 7 /\ \A j \in 1..7 : Carries(i2, Info[j])

-----------------------------------------------------------------------------
(* Properties.                                                             *)

TypeOK ==
    /\ \A j \in 1..Len(wire) : wire[j] \in Byte
    /\ stage \in {"closed", "length", "payload", "key", "count", "value", "leaving"}
    /\ want \in 0..kProtocolMaxMessageLength /\ Len(got) <= want
    /\ \A j \in 1..Len(m_buffer) : m_buffer[j] \in Byte
    /\ message # NoMessage =>
          message.key \in DOMAIN Format /\ Len(message.args) < Len(Format[message.key])
    /\ m_handshakeDone \in BOOLEAN /\ runtimeAtOpen \in BOOLEAN
    /\ Len(sent) <= MaxSent /\ Len(handled) <= Len(sent)

\* The messages the client handles are those the server sent on this connection, in
\* order, each once and with the values it meant, whatever pieces they arrive in and
\* wherever an earlier connection broke off.
Channel == INSTANCE MessageChannel WITH
    Message <- Message \cup Greeting,
    up <- stage # "closed"
ImplementsChannel == Channel!ChannelSpec

\* Reader and server agree on where a frame begins: while the reader is at a length,
\* nothing of the last message is left in the buffer, and the bytes it has and those on
\* the wire are whole frames, those of the messages to come.  ("consume payload to keep
\* stream in sync")
InStep ==
    stage = "length" =>
        /\ m_buffer = <<>>
        /\ got \o wire = FlattenSeq([j \in 1..Len(sent) - Len(handled) |->
                                       Frame(Payload(Formats, sent[Len(handled) + j]))])

\* What is sent is handled in the end, if the connection lasts: the reader never waits
\* for bytes nobody will send.
EverythingIsHandled ==
    \A n \in 1..MaxSent :
        stage # "closed" /\ Len(sent) = n ~> stage \in {"leaving", "closed"} \/ Len(handled) >= n

\* What the server reads in an answer: argument by argument, and what is left behind.
ReadArgument(item, read) ==
    LET n == IF Counted(item) THEN Number(SubSeq(read.rest, 1, 4)) * Width(item) ELSE item.width
        from == IF Counted(item) THEN 5 ELSE 1
    IN  [args |-> Append(read.args, Stored(item, SubSeq(read.rest, from, from + n - 1))),
         rest |-> SubSeq(read.rest, from + n, Len(read.rest))]
Arguments(fmt, bytes) ==
    LET read[n \in 0..Len(fmt)] ==
            IF n = 0 THEN [args |-> <<>>, rest |-> bytes] ELSE ReadArgument(fmt[n], read[n - 1])
    IN  read[Len(fmt)]

\* The server understands the answers: the greeting with its own name and the smaller
\* minor version first, then, message by message, what the message asks for and behind
\* that, from the first DSOP on, one CNOP.
Runtime(n) == runtimeAtOpen \/ \E j \in 2..n : handled[j].key = "DSOP"
AnswerKeys(n) ==
    LET cnop == n > 1 /\ Runtime(n)
    IN  CASE handled[n].key \in Refused -> <<>>
          [] handled[n].key = "QINF" -> IF cnop THEN <<"DINF", "CNOP">> ELSE <<"DINF">>
          [] handled[n].key = "CALV" -> IF cnop THEN <<"CALV", "CNOP">> ELSE <<"CALV">>
          [] OTHER -> IF cnop THEN <<"CNOP">> ELSE <<>>
Expected == FlattenSeq([n \in 1..Len(handled) |-> AnswerKeys(n)])
AnswersUnderstood ==
    out # <<>> =>
        /\ LET back == Arguments(Format["HelloBack"], out[1])
               hello == sent[1].args
           IN  /\ back.rest = <<>>
               /\ back.args[1] = hello[1] /\ back.args[4] = ScreenName
               /\ back.args[2] = hello[2]
               /\ back.args[3] <= hello[3] /\ back.args[3] <= kProtocolMinorVersion
               /\ back.args[3] \in {hello[3], kProtocolMinorVersion}
        /\ [j \in 1..Len(out) - 1 |-> KeyOf(SubSeq(out[j + 1], 1, 4))] = Expected
        /\ \A j \in 2..Len(out) :
              LET key == KeyOf(SubSeq(out[j], 1, 4))
                  read == Arguments(Format[key], SubSeq(out[j], 5, Len(out[j])))
              IN  read.rest = <<>> /\ (key = "DINF" => read.args = Info)
=============================================================================
