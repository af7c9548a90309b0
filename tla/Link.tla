---------------------------------- MODULE Link ----------------------------------
(***************************************************************************)
(* A query from the program that builds it to the one that reads it:       *)
(* query::string and query::parse of libs/http-router/src/uri.cc around    *)
(* Query and Uri, and the constructor of request.  The query is built,     *)
(* written and sent behind a path; the request splits its target and       *)
(* decodes the path; the query is parsed name by name and value by value,  *)
(* each decoded by the loop of Uri where it lies in the target.            *)
(*                                                                         *)
(* A target may also be one that a client made up.                         *)
(*                                                                         *)
(* Definitions called Faulty... are the ones below them with one likely    *)
(* mistake; no action uses them.  They show what each property excludes.   *)
(***************************************************************************)
EXTENDS Query

Lists == INSTANCE SequencesExt   \* by name: Query has a Remove of its own

CONSTANTS
  Paths,       \* paths that are sent, not yet encoded
  NameText,    \* the text of each name
  ValueText,   \* the text of each value
  Given,       \* targets that a client made up
  Behind       \* what may follow a target in memory, two characters each

ASSUME LinkAssumption ==
  /\ NameText \in [Names -> Seq(0..255)]
  /\ \A m, n \in Names : NameText[m] = NameText[n] => m = n
  /\ ValueText \in [Values -> Seq(0..255)]
  /\ Paths \subseteq Seq(0..255) /\ Given \subseteq Seq(0..255)
  /\ Behind \subseteq Seq(0..255) /\ \A m \in Behind : Len(m) = 2

VARIABLES
  phase,     \* "build", then what is decoded: "path", "name", "value"; then "done"
  target,    \* of the request
  memory,    \* what follows it
  path,      \* decoded_path_
  it,        \* the position in the target of what is decoded, from 1
  called,    \* the name whose value is decoded
  read,      \* the list that parse() fills
  text, behind, form, i, out   \* of the loop in Uri

loop == <<text, behind, form, i, out>>
linkVars == <<vars, phase, target, memory, path, it, called, read, loop>>

U == INSTANCE Uri

--------------------------------------------------------------------------------
(* Writing: query::string.                                                 *)

Ampersand == 38
Equals == 61

\* An optional value is a sequence of at most one.
Part(name, value) == [name |-> name, value |-> value]

\* Faulty: a parameter without a value is not listed.
FaultyParts(param) ==
  [k \in DOMAIN param.values |-> Part(param.name, <<param.values[k]>>)]

\* A parameter as it is listed: once without a value, or with each of them.
Parts(param) ==
  IF param.values = <<>>
    THEN <<Part(param.name, <<>>)>>
    ELSE [k \in DOMAIN param.values |-> Part(param.name, <<param.values[k]>>)]

\* flat_list(), and the parts of string(), which are in the same order.
FlatList(list) == Lists!FlattenSeq([k \in DOMAIN list |-> Parts(list[k])])

PartText(part) ==
  U!Encode(NameText[part.name], TRUE)
    \o IF part.value = <<>> THEN <<>> ELSE <<Equals>> \o U!Encode(ValueText[part.value[1]], TRUE)

Written(list) ==
  LET parts == FlatList(list)
  IN  Lists!FlattenSeq([k \in DOMAIN parts |-> (IF k = 1 THEN <<>> ELSE <<Ampersand>>)
                                                 \o PartText(parts[k])])

LinkTo(raw) == U!Encode(raw, FALSE) \o <<U!Question>> \o Written(values)

--------------------------------------------------------------------------------
(* Reading: request::request and query_parser.                             *)

\* Where the query begins and ends in a target; parse() takes no notice of a
\* question mark at its start.
QueryStart(t) ==
  LET query == U!QueryOf(t)
      start == Len(U!PathOf(t)) + 2
  IN  IF query # <<>> /\ query[1] = U!Question THEN start + 1 ELSE start

QueryEnd(t) == Len(U!PathOf(t)) + 2 + Len(U!QueryOf(t))

\* look_for: from a position of the target to the first of the marks.
LookFor(marks, from) ==
  LET found == {k \in from..(QueryEnd(target) - 1) : target[k] \in marks}
  IN  IF found = {} THEN QueryEnd(target) ELSE Lists!Min(found)

Is(mark, at) == at < QueryEnd(target) /\ target[at] = mark

\* The loop of Uri begins on the piece from one position of a target to before
\* another.
Decode(t, after, first, end, inForm) ==
  /\ text' = SubSeq(t, first, end - 1)
  /\ behind' = SubSeq(SubSeq(t, end, Len(t)) \o after, 1, 2)
  /\ form' = inForm
  /\ i' = 0
  /\ out' = <<>>

\* The constructor of request: the path of a target is decoded first.
Receive(t, after) ==
  /\ phase' = "path"
  /\ target' = t
  /\ memory' = after
  /\ Decode(t, after, 1, Len(U!PathOf(t)) + 1, FALSE)

Send ==
  /\ phase = "build"
  /\ \E raw \in Paths, after \in Behind : Receive(LinkTo(raw), after)
  /\ UNCHANGED <<vars, path, it, called, read>>

Build ==
  /\ phase = "build"
  /\ Next
  /\ UNCHANGED <<phase, target, memory, path, it, called, read, loop>>

\* One round of the loop.
DecodeStep ==
  /\ phase \in {"path", "name", "value"}
  /\ U!Next
  /\ UNCHANGED <<vars, phase, target, memory, path, it, called, read>>

\* while (it < end): the next name, or the end of parse().
NameAt(at) ==
  /\ it' = at
  /\ IF at < QueryEnd(target)
       THEN phase' = "name" /\ Decode(target, memory, at, LookFor({Equals, Ampersand}, at), TRUE)
       ELSE phase' = "done" /\ UNCHANGED loop

\* if (!is('&')) break; ++it;
PartEnds(stop) ==
  IF Is(Ampersand, stop) THEN NameAt(stop + 1) ELSE phase' = "done" /\ UNCHANGED <<it, loop>>

\* out.add(name, value) and out.set(name), on the list that parse() builds.
Taken(list, name, value) ==
  LET same == {k \in DOMAIN list : list[k].name = name}
  IN  IF same = {} THEN Append(list, [name |-> name, values |-> value])
      ELSE [k \in DOMAIN list |->
              IF k \notin same THEN list[k]
              ELSE [list[k] EXCEPT !.values = IF value = <<>> THEN <<>> ELSE @ \o value]]

PathDone ==
  /\ phase = "path"
  /\ U!Done
  /\ path' = out
  /\ NameAt(QueryStart(target))
  /\ UNCHANGED <<vars, target, memory, called, read>>

NameDone ==
  LET stop == LookFor({Equals, Ampersand}, it)
  IN  /\ phase = "name"
      /\ U!Done
      /\ IF Is(Equals, stop)
           THEN /\ phase' = "value"
                /\ called' = out
                /\ it' = stop + 1
                /\ Decode(target, memory, stop + 1, LookFor({Ampersand}, stop + 1), TRUE)
                /\ UNCHANGED read
           ELSE /\ read' = Taken(read, out, <<>>)
                /\ PartEnds(stop)
                /\ UNCHANGED called
      /\ UNCHANGED <<vars, target, memory, path>>

ValueDone ==
  /\ phase = "value"
  /\ U!Done
  /\ read' = Taken(read, called, <<out>>)
  /\ PartEnds(LookFor({Ampersand}, it))
  /\ UNCHANGED <<vars, target, memory, path, called>>

LinkInit ==
  /\ Init
  /\ path = <<>> /\ it = 1 /\ called = <<>> /\ read = <<>>
  /\ i = 0 /\ out = <<>> /\ form = FALSE
  /\ \/ /\ phase = "build"
        /\ target = <<>> /\ memory = <<>> /\ text = <<>> /\ behind = <<>>
     \/ /\ phase = "path"
        /\ target \in Given /\ memory \in Behind
        /\ text = U!PathOf(target)
        /\ behind = SubSeq(SubSeq(target, Len(text) + 1, Len(target)) \o memory, 1, 2)

LinkNext == Build \/ Send \/ DecodeStep \/ PathDone \/ NameDone \/ ValueDone

LinkSpec == LinkInit /\ [][LinkNext]_linkVars

--------------------------------------------------------------------------------
(* Properties.                                                             *)

\* What string() writes and the router sends on, parse() reads: the path, and the
\* same parameters in the same order with the same values, whatever characters
\* they have, in spite of set() clearing what add() gave; but for a parameter
\* without name and value at the end, of which the text shows nothing.
LinkArrives ==
  LET texts == [k \in DOMAIN values |->
                  [name |-> NameText[values[k].name],
                   values |-> [j \in DOMAIN values[k].values |-> ValueText[values[k].values[j]]]]]
      lost == texts # <<>> /\ Lists!Last(texts) = [name |-> <<>>, values |-> <<>>]
  IN  phase = "done" =>
        \A raw \in Paths : target = LinkTo(raw) =>
          /\ path = raw
          /\ read = IF lost THEN Lists!Front(texts) ELSE texts

\* A text that a client made up is decoded escape by escape from the left: the
\* decoded text has a character for each, and no escape is decoded twice.
DecodesOnce == U!DecodesOnce

\* A target is its path, and behind a question mark its query, which another
\* question mark does not end; there is a query only if there is a mark.
SplitsTarget ==
  /\ \A k \in DOMAIN U!PathOf(target) : U!PathOf(target)[k] \notin {U!Question, U!Hash}
  /\ U!Hash \notin Lists!Range(target) /\ U!PathOf(target) # target =>
       target = U!PathOf(target) \o <<U!Question>> \o U!QueryOf(target)
================================================================================
