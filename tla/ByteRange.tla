------------------------------- MODULE ByteRange -------------------------------
(***************************************************************************)
(* The ranges of a file that a request asks for: libs/http-router/src/     *)
(* range.cc.  Numbers are unsigned and have the width of the code's, so    *)
(* that a difference below zero wraps.                                     *)
(*                                                                         *)
(* A header is the sequence of what stands between its commas; one that is *)
(* not in bytes is the empty sequence, as neither has a range.  A piece is *)
(* a suffix, "-b", "a-", the span "a-b", or unreadable: without a dash, or *)
(* with a text that from_chars does not take for a number of 64 bits.      *)
(***************************************************************************)
EXTENDS Integers, Sequences

CONSTANT Modulus   \* 2^64

ASSUME ModulusAssumption == Modulus \in Nat /\ Modulus > 1

Number == 0..(Modulus - 1)
Piece == [kind : {"suffix", "from", "span", "unreadable"}, a : Number, b : Number]

Plus(x, y) == IF x + y < Modulus THEN x + y ELSE x + y - Modulus
Minus(x, y) == IF x >= y THEN x - y ELSE x - y + Modulus

\* Where the range of a piece begins.
First(size, piece) == IF piece.kind = "suffix" THEN Minus(size, piece.b) ELSE piece.a

\* Faulty: an end behind the file is left there.
FaultyLast(size, piece) == IF piece.kind = "span" THEN piece.b ELSE Minus(size, 1)

\* Its last byte, which is cut to the last of the file.
Last(size, piece) ==
  IF piece.kind = "span" /\ piece.b <= Minus(size, 1) THEN piece.b ELSE Minus(size, 1)

\* Faulty: a range of one byte is none.
FaultyPresent(size, piece) ==
  piece.kind # "unreadable" /\ First(size, piece) < Last(size, piece)

Present(size, piece) ==
  piece.kind # "unreadable" /\ First(size, piece) <= Last(size, piece)

\* The pieces of the header whose ranges are in the result, in the header's order.
Readable(size, header) == {k \in DOMAIN header : Present(size, header[k])}

\* The piece that result.front() comes from.
IsFront(k, size, header) ==
  /\ k \in Readable(size, header)
  /\ \A j \in Readable(size, header) : k <= j

--------------------------------------------------------------------------------
(* What a piece means: the positions in a file that it names.              *)

Named(size, piece) ==
  CASE piece.kind = "suffix" -> {p \in 0..(size - 1) : p >= size - piece.b}
    [] piece.kind = "from" -> {p \in 0..(size - 1) : p >= piece.a}
    [] piece.kind = "span" -> {p \in 0..(size - 1) : piece.a <= p /\ p <= piece.b}
    [] OTHER -> {}

\* The code's numbers wrap for an empty file, whose last byte would be that
\* before the first, and for a suffix that is longer than the file.
Wraps(size, piece) == size = 0 \/ (piece.kind = "suffix" /\ piece.b > size)
================================================================================
