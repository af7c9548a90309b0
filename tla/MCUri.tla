---------------------------------- MODULE MCUri ----------------------------------
(* Uri on short texts over the characters that its functions tell apart.   *)
EXTENDS Uri

Texts(characters, n) == UNION {[1..k -> characters] : k \in 0..n}

\* as a client may write them, with digits of both cases and the separators
MCGiven == Texts({Percent, Plus, 50, 66, 102, Question, Hash}, 4)
MCBehind == {<<50, 66>>, <<0, 0>>}
================================================================================
