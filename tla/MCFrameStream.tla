--------------------------- MODULE MCFrameStream ---------------------------
(***************************************************************************)
(* Instances of FrameStream for TLC.  A Hello of this version, an older    *)
(* minor one and another major one; messages of every conversion: signed   *)
(* coordinates and key ids, a mask with its high bit set, a byte above     *)
(* 127, a list, an empty and a short string, no arguments at all.          *)
(***************************************************************************)
EXTENDS FrameStream

Name == <<66, 97, 114, 114, 105, 101, 114>>
Hello(major, minor) == [key |-> "Hello", args |-> <<Name, major, minor>>]
Msg(k, args) == [key |-> k, args |-> args]

Greetings == {Hello(1, 8), Hello(1, 0), Hello(2, 8)}
Screen == <<7, 200>>
Numbers == <<0, 0, 3120, 2080, 0, -5, 2079>>
Messages ==
    {Msg("QINF", <<>>), Msg("CSEC", <<1>>), Msg("DSOP", <<<<1, 70000>>>>),
     Msg("CINN", <<-1, -1, 258, 8192>>), Msg("DKDL", <<-4345, 1, 28, <<101>>>>),
     Msg("DCLP", <<0, 3, 200, <<>>>>), Msg("EICV", <<1, 9>>)}

\* Two messages in the formats of a server of minor version 0, and one more.
OldMessages == {Msg("DKDN", <<97, 0>>), Msg("CALV", <<>>)}
OldGreetings == {Hello(1, 0)}
NewFormats == Format
OldFormats == Format1_0

\* The theorems are about this instance too; an older server's formats are not Format.
ASSUME TheoremsApply == ClientSpeaks /\ (Formats = Format => ServerSpeaks)
=============================================================================
