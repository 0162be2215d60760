--------------------------- MODULE MessageChannel ---------------------------
(***************************************************************************)
(* What the framing promises to the message loop: a channel that delivers  *)
(* the server's messages whole, in order and once, until the connection    *)
(* breaks; what a broken connection still held is lost, and nothing of it  *)
(* reaches the next connection.  FrameStream implements it.                *)
(***************************************************************************)
EXTENDS Naturals, Sequences

CONSTANT Message

VARIABLES
    up,        \* there is a connection
    sent,      \* messages the server has sent on it
    handled    \* messages the client has handled on it

channel == <<up, sent, handled>>

ChannelInit == up = FALSE /\ sent = <<>> /\ handled = <<>>

Open == /\ ~up
        /\ up' = TRUE
        /\ \E hello \in Message : sent' = <<hello>>
        /\ handled' = <<>>

Send == /\ up
        /\ \E m \in Message : sent' = Append(sent, m)
        /\ UNCHANGED <<up, handled>>

Handle == /\ up /\ Len(handled) < Len(sent)
          /\ handled' = Append(handled, sent[Len(handled) + 1])
          /\ UNCHANGED <<up, sent>>

Break == /\ up
         /\ up' = FALSE
         /\ UNCHANGED <<sent, handled>>

ChannelNext == Open \/ Send \/ Handle \/ Break

ChannelSpec == ChannelInit /\ [][ChannelNext]_channel
=============================================================================
