--------------------------------- MODULE MCLink ---------------------------------
(* Link with the invariant of its proofs: texts over the characters that   *)
(* the code tells apart.                                                   *)
EXTENDS LinkProofs, TLC

CONSTANTS empty, asked, paired

\* %2B, which must not become a plus, and both spaces
MCPaths == {<<>>, <<37, 50, 66>>, <<32, 43, 47>>}
\* no name, one that begins with a question mark, and one with the separators
MCNameText == (empty :> <<>>) @@ (asked :> <<63>>) @@ (paired :> <<38, 61>>)
\* a plus, a space and a byte above 127, no value, a percent sign before a digit
MCValueText == <<<<43>>, <<32, 195>>, <<>>, <<37, 50>>>>

Texts(characters, n) == UNION {[1..k -> characters] : k \in 0..n}

\* escapes with digits of both cases, cut off anywhere, and all the separators
MCGiven == Texts({37, 43, 66, 102, 63, 35, 38, 61}, 4)
             \cup {<<63>> \o s : s \in Texts({37, 43, 50, 38, 61}, 4)}
MCBehind == {<<50, 66>>, <<0, 0>>}
================================================================================
