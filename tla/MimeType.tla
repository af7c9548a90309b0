------------------------------- MODULE MimeType -------------------------------
(***************************************************************************)
(* The media type of a file by its extension: libs/static_files/src/       *)
(* static_files_types.cc.                                                  *)
(*                                                                         *)
(* An extension is the sequence of its bytes, without the dot; that of a   *)
(* name without a dot is empty.  The code makes a number of four bytes of  *)
(* it, with the case of letters folded, and looks for the number in a      *)
(* table.  The number is here the sequence of the four.                    *)
(***************************************************************************)
EXTENDS Integers, Sequences

CONSTANTS
  Types,    \* static_files_types.inl: the type of each extension in the table
  Memory    \* the bytes that may lie behind the text of an extension

Byte == -128..127   \* char has a sign

\* The table's extensions have up to four lower-case letters and digits.
LowerCase == 97..122
UpperCase == 65..90
Digit == 48..57

ASSUME TypesAssumption ==
  /\ \A ext \in DOMAIN Types :
       ext \in Seq(LowerCase \cup Digit) /\ Len(ext) \in 1..4 /\ Types[ext] \in STRING
  /\ Memory \subseteq Byte

OctetStream == "application/octet-stream"
TypeNames == {OctetStream} \cup {Types[ext] : ext \in DOMAIN Types}

\* Faulty: letters keep their case.
FaultyFolded(c) == c

\* The round of ext_tmplt for a byte.  (One that is below zero then sets the bytes
\* before it, as no number of the table does: they differ either way.)
Folded(c) == IF c = 0 THEN 0 ELSE IF c < 97 THEN c + 32 ELSE c

Template(four) == [k \in 1..4 |-> Folded(four[k])]

\* ext_u32 of "gz\0": the table fills short extensions up.
Literal(ext) == [k \in 1..4 |-> IF k <= Len(ext) THEN ext[k] ELSE 0]

\* What view.data() points to: the text, a zero, and then what lies behind it.
Read(ext, behind) ==
  [k \in 1..4 |-> CASE k <= Len(ext) -> ext[k]
                    [] k = Len(ext) + 1 -> 0
                    [] OTHER -> behind[k]]

\* The search for the number in the table.
Lookup(number) ==
  LET found == {ext \in DOMAIN Types : Template(Literal(ext)) = number}
  IN  IF found = {} THEN OctetStream ELSE Types[CHOOSE ext \in found : TRUE]

\* mime_type: the answers it may give for an extension.
MimeTypes(ext) == {Lookup(Template(Read(ext, behind))) : behind \in [2..4 -> Memory]}

--------------------------------------------------------------------------------
(* What the type of an extension is.                                       *)

Lower(c) == IF c \in UpperCase THEN c + 32 ELSE c

\* The entry of the table that an extension of letters and digits means.
Means(entry, ext) == Len(entry) = Len(ext) /\ \A k \in DOMAIN ext : entry[k] = Lower(ext[k])

TypeOf(ext) ==
  LET meant == {entry \in DOMAIN Types : Means(entry, ext)}
  IN  IF meant = {} THEN OctetStream ELSE Types[CHOOSE entry \in meant : TRUE]
================================================================================
