--------------------------------- MODULE Query ---------------------------------
(***************************************************************************)
(* The query component of a URI: uri::query (libs/http-router/src/uri.cc,  *)
(* include/http-router/uri.hh), a vector of parameters with their values,  *)
(* values_, and an index of it by name, keys_.                             *)
(*                                                                         *)
(* Values are not looked at, so the value that a call of add adds stands   *)
(* for every text: it is the number of the call.                           *)
(*                                                                         *)
(* Definitions called Faulty... are the ones below them with one likely    *)
(* mistake; no action uses them.  They show what each property excludes.   *)
(***************************************************************************)
EXTENDS Integers, Sequences

CONSTANTS
  Names,     \* the names of parameters
  MaxAdds    \* bound: calls of add

ASSUME AddsAssumption == MaxAdds \in Nat

Values == 1..MaxAdds
Param == [name : Names, values : Seq(Values)]

VARIABLES
  values,   \* values_
  keys,     \* keys_: the position in values_ of each name, from 0
  adds      \* calls of add so far

vars == <<values, keys, adds>>

TypeOK ==
  /\ values \in Seq(Param)
  /\ keys \in [DOMAIN keys -> Nat] /\ DOMAIN keys \subseteq Names
  /\ adds \in 0..MaxAdds

Init ==
  /\ values = <<>>
  /\ keys = [n \in {} |-> 0]
  /\ adds = 0

\* The position of a name in a sequence, which counts from 1.
At(name) == keys[name] + 1

\* values_.push_back({name, vals}); keys_[name] = index;
PushBack(name, vals) ==
  /\ values' = Append(values, [name |-> name, values |-> vals])
  /\ keys' = [n \in DOMAIN keys \cup {name} |-> IF n = name THEN Len(values) ELSE keys[n]]

\* What becomes of the parameter that the index gives for the name.
Replace(name, vals) ==
  /\ values' = [values EXCEPT ![At(name)] = [name |-> values[At(name)].name, values |-> vals]]
  /\ UNCHANGED keys

Add(name) ==
  /\ adds < MaxAdds
  /\ adds' = adds + 1
  /\ IF name \in DOMAIN keys THEN Replace(name, Append(values[At(name)].values, adds + 1))
                             ELSE PushBack(name, <<adds + 1>>)

\* A parameter that has values loses them.
Set(name) ==
  /\ IF name \in DOMAIN keys THEN Replace(name, <<>>) ELSE PushBack(name, <<>>)
  /\ UNCHANGED adds

\* Faulty: the positions behind the erased one stay.
FaultyShifted(name) == [n \in DOMAIN keys \ {name} |-> keys[n]]

\* Faulty: the positions before it move as well.
FaultyAllShifted(name) == [n \in DOMAIN keys \ {name} |-> keys[n] - 1]

\* keys_.erase(name), and the loop over the rest of keys_.
Shifted(name) ==
  [n \in DOMAIN keys \ {name} |-> IF keys[n] > keys[name] THEN keys[n] - 1 ELSE keys[n]]

\* Faulty: the last parameter takes the place of the erased one.
FaultyErased(name) ==
  [k \in 1..(Len(values) - 1) |-> IF k = At(name) THEN values[Len(values)] ELSE values[k]]

\* values_.erase of the parameter that the index gives for the name.
Erased(name) ==
  [k \in 1..(Len(values) - 1) |-> IF k < At(name) THEN values[k] ELSE values[k + 1]]

Remove(name) ==
  /\ name \in DOMAIN keys
  /\ values' = Erased(name)
  /\ keys' = Shifted(name)
  /\ UNCHANGED adds

Next == \E name \in Names : Add(name) \/ Set(name) \/ Remove(name)

Spec == Init /\ [][Next]_vars

--------------------------------------------------------------------------------
(* Properties.                                                             *)

\* The index and the list describe one another, after any calls: each name is
\* in the list at most once, and the index says where.
Indexed ==
  /\ \A n \in DOMAIN keys : At(n) \in DOMAIN values /\ values[At(n)].name = n
  /\ \A k \in DOMAIN values : values[k].name \in DOMAIN keys /\ At(values[k].name) = k

\* What find(name) shows of each parameter, and the order of begin() to end().
Map == INSTANCE ParamMap
  WITH params <- [n \in DOMAIN keys |-> values[At(n)].values],
       before <- [n \in DOMAIN keys |-> {m \in DOMAIN keys : keys[m] < keys[n]}]

\* Seen through find() and by iterating, the query is the map of parameters that
\* its comments describe.
MapSpec == Map!Spec

================================================================================
