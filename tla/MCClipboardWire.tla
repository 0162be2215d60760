-------------------------- MODULE MCClipboardWire --------------------------
(***************************************************************************)
(* Instances of ClipboardWire for TLC: a text of one chunk, one of two     *)
(* chunks and one that is too long.                                        *)
(***************************************************************************)
EXTENDS ClipboardWire

TextChunks == [t \in Text |-> IF t = "short" THEN 1 ELSE 2]
=============================================================================
