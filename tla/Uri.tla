----------------------------------- MODULE Uri -----------------------------------
(***************************************************************************)
(* Percent-encoding and the target of a request: urlencode_impl,           *)
(* urldecode_impl and split of libs/http-router/src/uri.cc.                *)
(*                                                                         *)
(* Characters are their codes.  urldecode_impl is a loop over a piece of a *)
(* larger buffer, one round an action.  Its bound, in_len - 2, is unsigned *)
(* and so enormous for a shorter piece; what then lies behind the piece is *)
(* arbitrary.                                                              *)
(*                                                                         *)
(* Definitions called Faulty... are the ones below them with one likely    *)
(* mistake; no action uses them.  They show what each property excludes.   *)
(***************************************************************************)
EXTENDS Integers, SequencesExt

CONSTANTS
  Given,     \* texts that are decoded
  Behind     \* what may follow a text in memory, two characters each

Space == 32
Hash == 35
Percent == 37
Plus == 43
Question == 63

VARIABLES
  text,     \* in and in_len
  behind,   \* what follows the text in memory
  form,     \* whether it is a part of a query, where a plus is a space
  i,        \* the position in the text, from 0
  out       \* the decoded text so far

vars == <<text, behind, form, i, out>>

--------------------------------------------------------------------------------
(* Encoding.                                                               *)

Digits == 48..57
Upper == 65..90
Lower == 97..122
IsHex(c) == c \in Digits \cup 65..70 \cup 97..102

\* issafe, with what query_issafe and path_issafe add
IsSafe(c, inForm) ==
  \/ c \in Digits \cup Upper \cup Lower \cup {45, 46, 95, 126}
  \/ c = IF inForm THEN Space ELSE Plus

HexDigit(n) == IF n < 10 THEN 48 + n ELSE 55 + n

\* Faulty: a plus is safe in a query too.
FaultyEncodeChar(c, inForm) ==
  IF inForm /\ c = Space THEN <<Plus>>
  ELSE IF IsSafe(c, inForm) \/ c = Plus THEN <<c>>
  ELSE <<Percent, HexDigit(c \div 16), HexDigit(c % 16)>>

EncodeChar(c, inForm) ==
  IF inForm /\ c = Space THEN <<Plus>>
  ELSE IF IsSafe(c, inForm) THEN <<c>>
  ELSE <<Percent, HexDigit(c \div 16), HexDigit(c % 16)>>

Encode(s, inForm) == FlattenSeq([k \in DOMAIN s |-> EncodeChar(s[k], inForm)])

--------------------------------------------------------------------------------
(* Decoding.                                                               *)

Hex(c) ==
  CASE c \in Digits -> c - 48
    [] c \in 65..70 -> c - 55
    [] c \in 97..102 -> c - 87
    [] OTHER -> 0

\* in[k]
CharAt(k) == IF k < Len(text) THEN text[k + 1] ELSE behind[k - Len(text) + 1]

\* i < in_len - 2
EnoughSpace == Len(text) < 2 \/ i < Len(text) - 2

\* Faulty: only a percent sign is looked for.
FaultyEscapeHere == CharAt(i) = Percent /\ EnoughSpace

EscapeHere ==
  CharAt(i) = Percent /\ EnoughSpace /\ IsHex(CharAt(i + 1)) /\ IsHex(CharAt(i + 2))

\* read_ch and query_read_ch
ReadChar(c) == IF form /\ c = Plus THEN Space ELSE c

\* The code reads the characters behind a percent sign before it knows that they
\* are digits; only then does it take them for a character.
Unescape ==
  /\ i < Len(text)
  /\ EscapeHere
  /\ out' = Append(out, Hex(CharAt(i + 1)) * 16 + Hex(CharAt(i + 2)))
  /\ i' = i + 3
  /\ UNCHANGED <<text, behind, form>>

Copy ==
  /\ i < Len(text)
  /\ ~EscapeHere
  /\ out' = Append(out, ReadChar(CharAt(i)))
  /\ i' = i + 1
  /\ UNCHANGED <<text, behind, form>>

Init ==
  /\ form \in BOOLEAN
  /\ text \in Given
  /\ behind \in Behind
  /\ i = 0
  /\ out = <<>>

Next == Unescape \/ Copy

Spec == Init /\ [][Next]_vars

Done == i >= Len(text)

--------------------------------------------------------------------------------
(* The target of a request.                                                *)

\* find_query: where the path ends.
PathEnd(t) ==
  LET ends == {k \in DOMAIN t : t[k] \in {Question, Hash}}
  IN  IF ends = {} THEN Len(t) ELSE Min(ends) - 1

\* Faulty: from the question mark on.
FaultyQueryOf(t) == SubSeq(t, PathEnd(t) + 1, Len(t))

\* The second part of what split returns.  The position of a hash, counted from
\* the question mark, is used as a length from behind it, which is one more.
QueryOf(t) ==
  LET rest == SubSeq(t, PathEnd(t) + 1, Len(t))
      hashes == {k \in 2..Len(rest) : rest[k] = Hash}
  IN  IF rest = <<>> \/ rest[1] # Question THEN <<>>
      ELSE IF hashes = {} THEN Tail(rest)
      ELSE SubSeq(rest, 2, Min(hashes))

PathOf(t) == SubSeq(t, 1, PathEnd(t))

--------------------------------------------------------------------------------
(* Properties.                                                             *)

\* A text that a client wrote is decoded escape by escape from the left: the
\* decoded text has a character for each, and no escape is decoded twice.
DecodesOnce ==
  LET escapes == {k \in 1..(Len(text) - 2) :
                    text[k] = Percent /\ IsHex(text[k + 1]) /\ IsHex(text[k + 2])}
  IN  Done /\ Len(text) >= 2 => Len(out) = Len(text) - 2 * Cardinality(escapes)

\* "go inside only, if there is enough space" (the comment of the escape): an
\* escape is taken only if all of it lies in the text.
EscapeInside == [][Unescape => i' <= Len(text)]_vars
================================================================================
