------------------------------ MODULE ProtoUtil ------------------------------
(***************************************************************************)
(* The wire format of a message: ProtoUtil::writef and the pieces of       *)
(* ProtoUtil::readf (proto_util.cpp), with the formats of                  *)
(* protocol_types.h.  A frame's payload is the four letters of the key     *)
(* and the arguments; Hello and HelloBack have no key.                     *)
(*                                                                         *)
(* Bytes are numbers, because lengths and counts are computed from them.   *)
(* The letters of a key are not told apart: the key with number n in Keys  *)
(* is four times the byte 64 + n.  Arguments are sequences in the order of *)
(* the format: numbers, byte strings, or sequences of numbers.  No format  *)
(* uses %S, %I but for %4I, or literals behind the key.                    *)
(***************************************************************************)
EXTENDS Integers, Sequences, SequencesExt

Byte == 0..255

-----------------------------------------------------------------------------
(* Formats.                                                                *)

i1 == [conv |-> "i", width |-> 1]
i2 == [conv |-> "i", width |-> 2]
i4 == [conv |-> "i", width |-> 4]
I4 == [conv |-> "I", width |-> 4]
s7 == [conv |-> "s", width |-> 7]
s0 == [conv |-> "s", width |-> 0]

Keys == <<"QINF", "CALV", "CINN", "COUT", "CBYE", "DMMV", "DMRM", "DMDN", "DMUP", "DMWM",
          "DKDN", "DKUP", "DKRP", "DKDL", "CNOP", "CROP", "CIAK", "CSEC", "CCLP", "DSOP",
          "DCLP", "DFTR", "DDRG", "LSYN", "SECN", "EICV", "EBSY", "EUNK", "EBAD", "DINF">>

Format ==
    [k \in ToSet(Keys) \cup {"Hello", "HelloBack"} |->
        CASE k \in {"DMMV", "DMRM", "DMWM", "EICV"} -> <<i2, i2>>
          [] k \in {"DMDN", "DMUP", "CSEC"} -> <<i1>>
          [] k \in {"DKDN", "DKUP"} -> <<i2, i2, i2>>
          [] k \in {"LSYN", "SECN"} -> <<s0>>
          [] k = "Hello" -> <<s7, i2, i2>>
          [] k = "HelloBack" -> <<s7, i2, i2, s0>>
          [] k = "CINN" -> <<i2, i2, i4, i2>>
          [] k = "DKRP" -> <<i2, i2, i2, i2, s0>>
          [] k = "DKDL" -> <<i2, i2, i2, s0>>
          [] k = "CCLP" -> <<i1, i4>>
          [] k = "DCLP" -> <<i1, i4, i1, s0>>
          [] k = "DSOP" -> <<I4>>
          [] k = "DFTR" -> <<i1, s0>>
          [] k = "DDRG" -> <<i2, s0>>
          [] k = "DINF" -> <<i2, i2, i2, i2, i2, i2, i2>>
          [] OTHER -> <<>>]

\* What servers of minor version 0 send, by kMsgDKeyDown1_0 and its like.
Format1_0 ==
    [k \in {"DKDN", "DKUP"} |-> <<i2, i2>>] @@ [DMWM |-> <<i2>>] @@ Format

KeyNumber == [k \in ToSet(Keys) |-> CHOOSE n \in 1..Len(Keys) : Keys[n] = k]
Letters(k) == [j \in 1..4 |-> 64 + KeyNumber[k]]

\* The key of four bytes; "unknown" for any other.
KeyOf(bytes) == IF bytes[1] - 64 \in 1..Len(Keys) /\ \A j \in 2..4 : bytes[j] = bytes[1]
                THEN Keys[bytes[1] - 64] ELSE "unknown"

-----------------------------------------------------------------------------
(* writef.                                                                 *)

\* The low bytes of v, most significant first.
Weight == <<1, 256, 65536, 16777216>>
BigEndian(v, width) == [j \in 1..width |-> (v \div Weight[width - j + 1]) % 256]

\* One conversion of writef.
Written(item, v) ==
    CASE item.conv = "i" -> BigEndian(v, item.width)
      [] item.conv = "I" ->
            BigEndian(Len(v), 4) \o FlattenSeq([j \in 1..Len(v) |-> BigEndian(v[j], item.width)])
      [] item.conv = "s" /\ item.width > 0 ->
            [j \in 1..item.width |-> IF j <= Len(v) THEN v[j] ELSE 0]
      [] OTHER -> BigEndian(Len(v), 4) \o v

writef(fmt, args) == FlattenSeq([j \in 1..Len(fmt) |-> Written(fmt[j], args[j])])

\* The payload of message m in the formats fmts.
Payload(fmts, m) ==
    (IF m.key \in {"Hello", "HelloBack"} THEN <<>> ELSE Letters(m.key))
        \o writef(fmts[m.key], m.args)

\* writeFrame.
Frame(payload) == BigEndian(Len(payload), 4) \o payload

-----------------------------------------------------------------------------
(* readf: what a conversion asks of readExact and makes of it.             *)

Enormous == 64 * 16777216

\* An unsigned number.  From 2^30 on the code only asks whether it is over a limit.
Number(bytes) ==
    CASE Len(bytes) = 1 -> bytes[1]
      [] Len(bytes) = 2 -> 256 * bytes[1] + bytes[2]
      [] OTHER -> IF bytes[1] >= 64 THEN Enormous
                  ELSE 16777216 * bytes[1] + 65536 * bytes[2] + 256 * bytes[3] + bytes[4]

\* A conversion that reads a length or a count first.
Counted(item) == item.conv = "I" \/ item.width = 0

\* The bytes one element takes, behind the count if there is one.
Width(item) == IF item.width = 0 THEN 1 ELSE item.width

\* The most a count may be: 1048576 for %I, 1 MB for %s.
MaxCount == 1048576

\* Mutant: what is read stays unsigned.
StoredUnsigned(item, raw) ==
    CASE item.conv = "s" -> raw
      [] item.conv = "I" -> [j \in 1..Len(raw) \div item.width |->
                                Number(SubSeq(raw, item.width * (j - 1) + 1, item.width * j))]
      [] OTHER -> Number(raw)

\* The value in the caller's variable: int16_t for %2i everywhere, else unsigned.
Stored(item, raw) ==
    CASE item.conv = "s" -> raw
      [] item.conv = "I" -> [j \in 1..Len(raw) \div item.width |->
                                Number(SubSeq(raw, item.width * (j - 1) + 1, item.width * j))]
      [] item.width = 2 /\ raw[1] >= 128 -> Number(raw) - 65536
      [] OTHER -> Number(raw)
=============================================================================
