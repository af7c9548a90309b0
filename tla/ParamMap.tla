-------------------------------- MODULE ParamMap --------------------------------
(***************************************************************************)
(* What a query promises (the comments of uri.hh): parameters with values, *)
(* each parameter's values in the order they were added, and the           *)
(* parameters in the order in which they came to be.  How a parameter is   *)
(* found is not said.                                                      *)
(***************************************************************************)
EXTENDS Sequences

CONSTANTS Names, Values

VARIABLES
  params,   \* the values of each parameter there is
  before    \* for each parameter, those that come before it

vars == <<params, before>>

Init ==
  /\ params = [n \in {} |-> <<>>]
  /\ before = [n \in {} |-> {}]

\* The parameter gets these values; a new one comes after those there are.
Give(name, values) ==
  /\ params' = [n \in DOMAIN params \cup {name} |-> IF n = name THEN values ELSE params[n]]
  /\ before' = IF name \in DOMAIN params THEN before
                                         ELSE [n \in DOMAIN params \cup {name} |->
                                                 IF n = name THEN DOMAIN params ELSE before[n]]

Add(name, value) ==
  Give(name, IF name \in DOMAIN params THEN Append(params[name], value) ELSE <<value>>)

Set(name) == Give(name, <<>>)

Remove(name) ==
  /\ params' = [n \in DOMAIN params \ {name} |-> params[n]]
  /\ before' = [n \in DOMAIN params \ {name} |-> before[n] \ {name}]

Next ==
  \E name \in Names : Set(name) \/ Remove(name) \/ \E value \in Values : Add(name, value)

Spec == Init /\ [][Next]_vars
================================================================================
