------------------------------ MODULE PathCompiler ------------------------------
(***************************************************************************)
(* The masks of routes (libs/http-router/src/path_compiler.cc): what       *)
(* parse_matcher and description::make turn a mask into, and what          *)
(* matcher::matches makes of a path.                                       *)
(*                                                                         *)
(* A mask is a sequence of what path_regex finds in its text: characters,  *)
(* escaped or not, and parameters.  A parameter has a prefix (none, "/" or *)
(* "."), a name (none for "(...)" and "*"), a pattern and a modifier.  The *)
(* pattern is the default one, "any" for the asterisk, or "digits", which  *)
(* stands for the patterns that a mask may bring along, "(\d+)".           *)
(*                                                                         *)
(* The regular expressions of the standard library are external: Captured  *)
(* and what it uses say what an expression of the form that make builds    *)
(* matches, and which of several ways to match it takes.                   *)
(*                                                                         *)
(* Definitions called Faulty... are the ones below them with one likely    *)
(* mistake; nothing uses them.  They show what each property excludes.     *)
(***************************************************************************)
EXTENDS Naturals, FiniteSets, SequencesExt

Character(c) == [kind |-> "character", is |-> c]
Parameter(prefix, name, pattern, modifier) ==
  [kind |-> "parameter", prefix |-> prefix, name |-> name, pattern |-> pattern,
   modifier |-> modifier]

Element ==
  [kind : {"character"}, is : STRING]
    \cup [kind : {"parameter"}, prefix : {<<>>, <<"/">>, <<".">>}, name : STRING,
          pattern : {"default", "digits"}, modifier : {"", "?", "*", "+"}]
    \cup [kind : {"parameter"}, prefix : {<<>>, <<"/">>, <<".">>}, name : {""},
          pattern : {"any"}, modifier : {""}]

\* The options of COMPILE that a route is registered with; OPTIMIZE changes
\* nothing that can be seen.
Options == SUBSET {"STRICT", "END", "SENSITIVE", "TAKE_REST"}
DefaultOptions == {"END", "SENSITIVE"}

--------------------------------------------------------------------------------
(* parse_matcher.                                                          *)

\* key::value: a name, or a number for a parameter without one.
Key(name, index) == [name |-> name, index |-> index]

IsText(token) == token.kind = "text"

\* Push the current path onto the tokens.
Push(tokens, path) ==
  IF path = <<>> THEN tokens ELSE Append(tokens, [kind |-> "text", text |-> path])

\* key::make and set_flags.  What follows is compared with the prefix as a text of
\* two characters, and differs from it always.
Token(element, count, followed) ==
  [kind |-> "key",
   value |-> IF element.name = "" THEN Key("", count) ELSE Key(element.name, 0),
   prefix |-> element.prefix,
   delimiter |-> IF element.prefix = <<>> THEN "/" ELSE element.prefix[1],
   pattern |-> element.pattern,
   repeat |-> element.modifier \in {"+", "*"},
   optional |-> element.modifier \in {"?", "*"},
   partial |-> element.prefix # <<>> /\ followed]

\* A round of the loop over the matches of path_regex.
Parsed(state, element, followed) ==
  IF element.kind = "character"
    THEN [state EXCEPT !.path = Append(@, element.is)]
    ELSE [path |-> <<>>,
          tokens |-> Append(Push(state.tokens, state.path), Token(element, state.count, followed)),
          count |-> IF element.name = "" THEN state.count + 1 ELSE state.count]

Tokens(mask) ==
  LET state[k \in 0..Len(mask)] ==
        IF k = 0 THEN [path |-> <<>>, tokens |-> <<>>, count |-> 0]
                 ELSE Parsed(state[k - 1], mask[k], k < Len(mask))
      end == state[Len(mask)]
  IN  Push(end.tokens, end.path)

--------------------------------------------------------------------------------
(* description::make.  The expression is a sequence of parts: the tokens,  *)
(* and the slash that may end a path.  As regex_match takes the whole path *)
(* or nothing, END and what is put in its place make no difference.        *)

EndsWithSlash(tokens) ==
  tokens # <<>> /\ IsText(Last(tokens)) /\ Last(Last(tokens).text) = "/"

TakesRest(tokens, options) ==
  "TAKE_REST" \in options /\ tokens # <<>> /\ ~IsText(Last(tokens))

WithoutSlash(tokens) ==
  Append(Front(tokens), [Last(tokens) EXCEPT !.text = Front(@)])

\* The prefix and "(.*)".
Rest(token) == [token EXCEPT !.pattern = "any", !.repeat = FALSE, !.optional = FALSE]

Slash == [kind |-> "slash"]

Route(tokens, options) ==
  CASE TakesRest(tokens, options) -> Append(Front(tokens), Rest(Last(tokens)))
    [] ~TakesRest(tokens, options) /\ "STRICT" \in options -> tokens
    [] OTHER -> Append(IF EndsWithSlash(tokens) THEN WithoutSlash(tokens) ELSE tokens, Slash)

\* The keys of the captures, in their order.
Keys(route) ==
  FlattenSeq([k \in DOMAIN route |-> IF route[k].kind = "key" THEN <<route[k]>> ELSE <<>>])

Description(mask, options) ==
  LET route == Route(Tokens(mask), options) IN [route |-> route, keys |-> Keys(route)]

--------------------------------------------------------------------------------
(* What the expression matches, in ECMAScript.  Positions are those of the *)
(* next character; what can end in several places lists them in the order  *)
(* in which they are tried.                                                *)

\* The letters that occur in masks with both cases.
LowerCase == [A |-> "a", B |-> "b"]
Lower(c) == IF c \in DOMAIN LowerCase THEN LowerCase[c] ELSE c

\* Without SENSITIVE the case of a letter does not matter.
Same(c, d, options) == c = d \/ ("SENSITIVE" \notin options /\ Lower(c) = Lower(d))

Stands(piece, path, at, options) ==
  /\ at + Len(piece) <= Len(path) + 1
  /\ \A k \in DOMAIN piece : Same(path[at + k - 1], piece[k], options)

Digits == {"0", "1", "2", "3", "4", "5", "6", "7", "8", "9"}

\* A character that the pattern of the parameter takes.
Takes(key, c) ==
  CASE key.pattern = "default" -> c # key.delimiter
    [] key.pattern = "digits" -> c \in Digits
    [] key.pattern = "any" -> TRUE

\* "[^/]+?" tries the shortest first, "\d+" and ".*" the longest.
Once(key, path, at) ==
  LET longest == CHOOSE e \in at..(Len(path) + 1) :
                   /\ \A k \in at..(e - 1) : Takes(key, path[k])
                   /\ e = Len(path) + 1 \/ ~Takes(key, path[e])
      shortest == IF key.pattern = "any" THEN at ELSE at + 1
  IN  [k \in 1..(longest + 1 - shortest) |->
         IF key.pattern = "default" THEN shortest + k - 1 ELSE longest + 1 - k]

\* Faulty: the repetitions do without the prefix.
FaultyCapture(key, path, at, options) ==
  LET more[e \in at..(Len(path) + 1)] ==
        LET next == IF key.repeat THEN Once(key, path, e) ELSE <<>>
        IN  FlattenSeq([k \in DOMAIN next |-> more[next[k]]]) \o <<e>>
      first == Once(key, path, at)
  IN  FlattenSeq([k \in DOMAIN first |-> more[first[k]]])

\* "(?:P)(?:prefix(?:P))*": as many repetitions as there are.
Capture(key, path, at, options) ==
  LET more[e \in at..(Len(path) + 1)] ==
        LET next == IF key.repeat /\ Stands(key.prefix, path, e, options)
                      THEN Once(key, path, e + Len(key.prefix)) ELSE <<>>
        IN  FlattenSeq([k \in DOMAIN next |-> more[next[k]]]) \o <<e>>
      first == Once(key, path, at)
  IN  FlattenSeq([k \in DOMAIN first |-> more[first[k]]])

\* The ways to match a part from a position on: where it ends and what it captures.
Way(end, captured) == [end |-> end, captured |-> captured]

KeyWays(key, path, at, options) ==
  LET begin == at + Len(key.prefix)
      ends == IF Stands(key.prefix, path, at, options) THEN Capture(key, path, begin, options)
                                                       ELSE <<>>
      taken == [k \in DOMAIN ends |-> Way(ends[k], <<SubSeq(path, begin, ends[k] - 1)>>)]
      left == CASE key.optional /\ ~key.partial -> <<Way(at, << <<>> >>)>>
                [] key.optional /\ key.partial /\ Stands(key.prefix, path, at, options)
                     -> <<Way(begin, << <<>> >>)>>
                [] OTHER -> <<>>
  IN  taken \o left

Ways(part, path, at, options) ==
  CASE part.kind = "text" ->
         IF Stands(part.text, path, at, options) THEN <<Way(at + Len(part.text), <<>>)>> ELSE <<>>
    [] part.kind = "key" -> KeyWays(part, path, at, options)
    [] part.kind = "slash" ->
         IF at = Len(path) /\ path[at] = "/" THEN <<Way(at + 1, <<>>), Way(at, <<>>)>>
                                             ELSE <<Way(at, <<>>)>>

\* Of the ways to match a part the first one that leads to the end of the path, and
\* what is captured from there; no element if none does.
Foremost(ways, onward) ==
  LET leading == {k \in DOMAIN ways : onward[ways[k].end] # <<>>}
      way == ways[Min(leading)]
  IN  IF leading = {} THEN <<>> ELSE <<way.captured \o onward[way.end][1]>>

\* regex_match: the captures of the first way to match all of the path; no element
\* if there is none.
Captured(route, path, options) ==
  LET from[i \in 1..(Len(route) + 1)] == [at \in 1..(Len(path) + 1) |->
        IF i > Len(route)
          THEN IF at > Len(path) THEN << <<>> >> ELSE <<>>
          ELSE Foremost(Ways(route[i], path, at, options), from[i + 1])]
  IN  from[1][1]

--------------------------------------------------------------------------------
(* matcher::matches.                                                       *)

Matches(description, path, options) == Captured(description.route, path, options) # <<>>

\* Faulty: the first capture is that of the whole match.
FaultyParams(description, path, options) ==
  LET captured == <<path>> \o Captured(description.route, path, options)[1]
      values == {description.keys[k].value : k \in DOMAIN description.keys}
      Latest(v) == CHOOSE k \in DOMAIN description.keys :
                     /\ description.keys[k].value = v
                     /\ \A j \in DOMAIN description.keys : description.keys[j].value = v => j <= k
  IN  [v \in values |-> captured[Latest(v)]]

\* Each key is given its capture, one of the same name in place of the one before.
Params(description, path, options) ==
  LET captured == Captured(description.route, path, options)[1]
      values == {description.keys[k].value : k \in DOMAIN description.keys}
      Latest(v) == CHOOSE k \in DOMAIN description.keys :
                     /\ description.keys[k].value = v
                     /\ \A j \in DOMAIN description.keys : description.keys[j].value = v => j <= k
  IN  [v \in values |-> captured[Latest(v)]]

--------------------------------------------------------------------------------
(* What a mask means, without tokens and expressions: which piece of a     *)
(* path each of its elements may stand for.                                *)

\* A character of what the parameter is given.
Belongs(element, c) ==
  CASE element.pattern = "any" -> TRUE
    [] element.pattern = "digits" -> c \in Digits
    [] OTHER -> IF element.prefix = <<>> THEN c # "/" ELSE <<c>> # element.prefix

Single(element, piece) ==
  /\ piece # <<>> \/ element.pattern = "any"
  /\ \A k \in DOMAIN piece : Belongs(element, piece[k])

\* Pieces of one or more characters with the prefix between any two.
Several(element, piece) ==
  LET Between(k) == <<piece[k]>> = element.prefix
  IN  /\ piece # <<>>
      /\ \A k \in DOMAIN piece :
           \/ Belongs(element, piece[k])
           \/ /\ Between(k) /\ 1 < k /\ k < Len(piece)
              /\ ~Between(k - 1) /\ ~Between(k + 1)

IsRest(mask, k, options) ==
  "TAKE_REST" \in options /\ k \in DOMAIN mask /\ k = Len(mask) /\ mask[k].kind = "parameter"

\* What stands in the path for a parameter that is left out: its prefix, if
\* anything follows it in the mask.
Absent(mask, k) == IF k < Len(mask) THEN mask[k].prefix ELSE <<>>

MayBeAbsent(mask, k, options) ==
  mask[k].modifier \in {"?", "*"} /\ ~IsRest(mask, k, options)

StandsFor(mask, k, options, piece) ==
  LET given == SubSeq(piece, Len(mask[k].prefix) + 1, Len(piece))
  IN  IF mask[k].kind = "character"
        THEN Len(piece) = 1 /\ Same(piece[1], mask[k].is, options)
        ELSE \/ /\ IsPrefix(mask[k].prefix, piece)
                /\ CASE IsRest(mask, k, options) -> TRUE
                     [] ~IsRest(mask, k, options) /\ mask[k].modifier \in {"+", "*"}
                          -> Several(mask[k], given)
                     [] OTHER -> Single(mask[k], given)
             \/ MayBeAbsent(mask, k, options) /\ piece = Absent(mask, k)

\* The path can be cut into a piece for each element.  If the route is not strict,
\* a slash at its end, and at that of the mask, does not count.
Fits(mask, options, path) ==
  LET loose == "STRICT" \notin options
      body == IF loose /\ mask # <<>> /\ Last(mask) = Character("/") THEN Len(mask) - 1
                                                                    ELSE Len(mask)
      reached[k \in 0..body] ==
        IF k = 0 THEN {0}
        ELSE {q \in 0..Len(path) :
                \E p \in reached[k - 1] :
                  p <= q /\ StandsFor(mask, k, options, SubSeq(path, p + 1, q))}
  IN  \/ Len(path) \in reached[body]
      \/ /\ loose /\ ~IsRest(mask, Len(mask), options)
         /\ path # <<>> /\ Last(path) = "/" /\ Len(path) - 1 \in reached[body]

\* The name of a parameter, or how many without a name come before it.
KeyOf(mask, k) ==
  IF mask[k].name # "" THEN Key(mask[k].name, 0)
  ELSE Key("", Cardinality({j \in 1..(k - 1) : mask[j].kind = "parameter" /\ mask[j].name = ""}))

\* The mask with the parameters filled in.
Filled(mask, options, params) ==
  FlattenSeq([k \in DOMAIN mask |->
    CASE mask[k].kind = "character" -> <<mask[k].is>>
      [] mask[k].kind = "parameter" /\ MayBeAbsent(mask, k, options)
           /\ params[KeyOf(mask, k)] = <<>> -> Absent(mask, k)
      [] OTHER -> mask[k].prefix \o params[KeyOf(mask, k)]])
================================================================================
