------------------------------- MODULE LinkProofs -------------------------------
(***************************************************************************)
(* Proofs about Query and Link, for any names, any number of calls, and    *)
(* any texts.                                                              *)
(***************************************************************************)
EXTENDS Link, TLAPS

Seqs == INSTANCE SequenceLemmas   \* by name: Query has a Remove of its own
Sets == INSTANCE FiniteSetTheorems

--------------------------------------------------------------------------------
(* The query as it is built.                                               *)

IInv == TypeOK /\ Indexed

LEMMA InitIInv == Init => IInv
BY AddsAssumption DEF Init, IInv, TypeOK, Indexed, Param, Values

\* The last position, and the index, for a name that is new.
LEMMA PushBackStep ==
  ASSUME IInv, NEW name \in Names, name \notin DOMAIN keys, NEW vals \in Seq(Values),
         PushBack(name, vals), adds' \in 0..MaxAdds
  PROVE  IInv'
<1> USE DEF PushBack, IInv, TypeOK, Indexed, At
<1> DEFINE new == [name |-> name, values |-> vals]
<1>1. new \in Param
  BY DEF Param
<1>2. values \in Seq(Param) /\ Len(values) \in Nat
  OBVIOUS
<1>3. TypeOK'
  <2>1. values' \in Seq(Param)
    BY <1>1, <1>2
  <2>2. keys' \in [DOMAIN keys' -> Nat] /\ DOMAIN keys' \subseteq Names
    BY <1>2
  <2> QED
    BY <2>1, <2>2
<1>4. DOMAIN values' = 1..(Len(values) + 1) /\ DOMAIN values = 1..Len(values)
  BY <1>1, <1>2
<1>5. values'[Len(values) + 1] = new /\ \A k \in DOMAIN values : values'[k] = values[k]
  BY <1>1, <1>2
<1>6. /\ DOMAIN keys' = DOMAIN keys \cup {name} /\ keys'[name] = Len(values)
      /\ \A n \in DOMAIN keys : keys'[n] = keys[n]
  BY <1>2
<1>7. ASSUME NEW n \in DOMAIN keys'
      PROVE  keys'[n] + 1 \in DOMAIN values' /\ values'[keys'[n] + 1].name = n
  BY <1>2, <1>4, <1>5, <1>6
<1>8. ASSUME NEW k \in DOMAIN values'
      PROVE  values'[k].name \in DOMAIN keys' /\ keys'[values'[k].name] + 1 = k
  BY <1>2, <1>4, <1>5, <1>6
<1>9. Indexed'
  BY <1>7, <1>8
<1> QED
  BY <1>3, <1>9

LEMMA ReplaceStep ==
  ASSUME IInv, NEW name \in DOMAIN keys, NEW vals \in Seq(Values),
         Replace(name, vals), adds' \in 0..MaxAdds
  PROVE  IInv'
<1> USE DEF Replace, IInv, TypeOK, Indexed, At
<1> DEFINE new == [name |-> values[At(name)].name, values |-> vals]
<1>1. At(name) \in DOMAIN values /\ values[At(name)].name = name /\ name \in Names
  OBVIOUS
<1>2. new \in Param /\ new.name = name
  BY <1>1 DEF Param
<1>3. values' \in Seq(Param) /\ DOMAIN values' = DOMAIN values
  BY <1>1, <1>2
<1>4. \A k \in DOMAIN values : values'[k].name = values[k].name
  BY <1>1, <1>2
<1> QED
  BY <1>3, <1>4

\* What IInv says of the positions, in plain numbers.
Facts ==
  /\ values \in Seq(Param) /\ Len(values) \in Nat /\ DOMAIN values = 1..Len(values)
  /\ \A n \in DOMAIN keys : /\ keys[n] \in Nat /\ keys[n] + 1 \in 1..Len(values)
                            /\ values[keys[n] + 1].name = n
  /\ \A k \in 1..Len(values) : /\ values[k].name \in DOMAIN keys
                               /\ keys[values[k].name] + 1 = k

LEMMA IInvFacts == IInv => Facts
BY DEF IInv, TypeOK, Indexed, At, Facts

\* The parameters behind the removed one, and their positions, move up by one.
RemoveFacts(name) ==
  /\ name \in DOMAIN keys
  /\ DOMAIN keys' = DOMAIN keys \ {name}
  /\ \A n \in DOMAIN keys' : /\ keys[n] > keys[name] => keys'[n] = keys[n] - 1
                             /\ ~(keys[n] > keys[name]) => keys'[n] = keys[n]
  /\ values' \in Seq(Param) /\ DOMAIN values' = 1..(Len(values) - 1)
  /\ \A k \in 1..(Len(values) - 1) : /\ k < keys[name] + 1 => values'[k] = values[k]
                                     /\ ~(k < keys[name] + 1) => values'[k] = values[k + 1]

LEMMA Removal ==
  ASSUME Facts, NEW name \in Names, Remove(name)
  PROVE  RemoveFacts(name)
<1>1. name \in DOMAIN keys /\ values' = Erased(name) /\ keys' = Shifted(name)
  BY DEF Remove
<1>2. Len(values) \in Nat /\ keys[name] \in Nat /\ keys[name] + 1 \in 1..Len(values)
  BY <1>1 DEF Facts
<1>3. \A k \in 1..(Len(values) - 1) :
        (IF k < At(name) THEN values[k] ELSE values[k + 1]) \in Param
  <2> TAKE k \in 1..(Len(values) - 1)
  <2>1. k \in 1..Len(values) /\ k + 1 \in 1..Len(values)
    BY <1>2
  <2>2. \A l \in 1..Len(values) : values[l] \in Param
    BY DEF Facts
  <2> QED
    BY <2>1, <2>2
<1>4. Len(values) - 1 \in Nat
  BY <1>2
<1>5. values' \in [1..(Len(values) - 1) -> Param]
  BY <1>1, <1>3 DEF Erased
<1>6. values' \in Seq(Param)
  BY <1>4, <1>5
<1> QED
  BY <1>1, <1>6 DEF Erased, Shifted, RemoveFacts, At

LEMMA RemoveStep ==
  ASSUME IInv, NEW name \in Names, Remove(name)
  PROVE  IInv'
<1> DEFINE at == keys[name]
<1>f. Facts /\ RemoveFacts(name)
  BY IInvFacts, Removal
<1>1. Len(values) \in Nat /\ at \in Nat /\ at + 1 \in 1..Len(values)
  BY <1>f DEF Facts, RemoveFacts
<1>2. ASSUME NEW n \in DOMAIN keys'
      PROVE  /\ keys[n] \in Nat /\ keys[n] # at /\ keys[n] + 1 \in 1..Len(values)
             /\ values[keys[n] + 1].name = n
  BY <1>f DEF Facts, RemoveFacts
<1>3. ASSUME NEW n \in DOMAIN keys'
      PROVE  /\ keys'[n] \in Nat /\ keys'[n] + 1 \in 1..(Len(values) - 1)
             /\ values'[keys'[n] + 1] = values[keys[n] + 1]
  <2> DEFINE p == keys[n]
  <2>1. p \in Nat /\ p # at /\ p + 1 \in 1..Len(values)
    BY <1>2
  <2>2. CASE p > at
    <3>1. keys'[n] = p - 1
      BY <1>f, <2>2 DEF RemoveFacts
    <3>2. p - 1 \in Nat /\ p \in 1..(Len(values) - 1) /\ ~(p < at + 1) /\ (p - 1) + 1 = p
      BY <1>1, <2>1, <2>2
    <3>3. values'[p] = values[p + 1]
      BY <1>f, <3>2 DEF RemoveFacts
    <3> QED
      BY <3>1, <3>2, <3>3
  <2>3. CASE ~(p > at)
    <3>1. keys'[n] = p
      BY <1>f, <2>3 DEF RemoveFacts
    <3>2. p + 1 \in 1..(Len(values) - 1) /\ p + 1 < at + 1
      BY <1>1, <2>1, <2>3
    <3>3. values'[p + 1] = values[p + 1]
      BY <1>f, <3>2 DEF RemoveFacts
    <3> QED
      BY <2>1, <3>1, <3>2, <3>3
  <2> QED
    BY <2>2, <2>3
<1>4. ASSUME NEW k \in 1..(Len(values) - 1)
      PROVE  values'[k].name \in DOMAIN keys' /\ keys'[values'[k].name] + 1 = k
  <2>1. CASE k < at + 1
    <3> DEFINE n == values[k].name
    <3>1. k \in 1..Len(values) /\ values'[k] = values[k]
      BY <1>f, <1>1, <2>1 DEF RemoveFacts
    <3>2. n \in DOMAIN keys /\ keys[n] + 1 = k /\ keys[n] \in Nat
      BY <1>f, <3>1 DEF Facts
    <3>3. n # name /\ ~(keys[n] > at)
      BY <1>1, <2>1, <3>2
    <3>4. n \in DOMAIN keys' /\ keys'[n] = keys[n]
      BY <1>f, <3>2, <3>3 DEF RemoveFacts
    <3> QED
      BY <3>1, <3>2, <3>4
  <2>2. CASE ~(k < at + 1)
    <3> DEFINE n == values[k + 1].name
    <3>1. k + 1 \in 1..Len(values) /\ values'[k] = values[k + 1]
      BY <1>f, <1>1, <2>2 DEF RemoveFacts
    <3>2. n \in DOMAIN keys /\ keys[n] + 1 = k + 1 /\ keys[n] \in Nat
      BY <1>f, <3>1 DEF Facts
    <3>3. n # name /\ keys[n] > at
      BY <1>1, <2>2, <3>2
    <3>4. n \in DOMAIN keys' /\ keys'[n] = keys[n] - 1
      BY <1>f, <3>2, <3>3 DEF RemoveFacts
    <3> QED
      BY <1>1, <3>1, <3>2, <3>4
  <2> QED
    BY <2>1, <2>2
<1>5. keys' \in [DOMAIN keys' -> Nat] /\ DOMAIN keys' \subseteq Names
  <2>1. keys' = [n \in DOMAIN keys' |-> keys'[n]]
    BY DEF Remove, Shifted
  <2>2. DOMAIN keys \subseteq Names
    BY DEF IInv, TypeOK
  <2> QED
    BY <1>f, <1>3, <2>1, <2>2 DEF RemoveFacts
<1>6. TypeOK'
  BY <1>f, <1>5 DEF RemoveFacts, IInv, TypeOK, Remove
<1>7. Indexed'
  <2>1. DOMAIN values' = 1..(Len(values) - 1)
    BY <1>f DEF RemoveFacts
  <2>2. \A n \in DOMAIN keys' : keys'[n] + 1 \in DOMAIN values' /\ values'[keys'[n] + 1].name = n
    BY <1>2, <1>3, <2>1
  <2> QED
    BY <1>4, <2>1, <2>2 DEF Indexed, At
<1> QED
  BY <1>6, <1>7 DEF IInv

LEMMA NewValue ==
  ASSUME TypeOK, adds < MaxAdds
  PROVE  adds + 1 \in Values /\ adds + 1 \in 0..MaxAdds
BY AddsAssumption DEF TypeOK, Values

LEMMA StepIInv == IInv /\ [Next]_vars => IInv'
<1> SUFFICES ASSUME IInv, [Next]_vars PROVE IInv'
  OBVIOUS
<1>1. ASSUME NEW name \in Names, Add(name) PROVE IInv'
  <2>1. adds + 1 \in Values /\ adds' \in 0..MaxAdds
    BY <1>1, NewValue DEF IInv, Add
  <2>2. CASE name \in DOMAIN keys
    <3>1. values[At(name)].values \in Seq(Values)
      <4>1. keys[name] + 1 \in 1..Len(values) /\ values \in Seq(Param)
        BY <2>2, IInvFacts DEF Facts
      <4>2. values[keys[name] + 1] \in Param
        BY <4>1
      <4> QED
        BY <4>2 DEF Param, At
    <3>2. Append(values[At(name)].values, adds + 1) \in Seq(Values)
      BY <2>1, <3>1
    <3> QED
      BY <1>1, <2>1, <2>2, <3>2, ReplaceStep DEF Add
  <2>3. CASE name \notin DOMAIN keys
    <3>1. <<adds + 1>> \in Seq(Values)
      BY <2>1
    <3> QED
      BY <1>1, <2>1, <2>3, <3>1, PushBackStep DEF Add
  <2> QED
    BY <2>2, <2>3
<1>2. ASSUME NEW name \in Names, Set(name) PROVE IInv'
  <2>1. <<>> \in Seq(Values) /\ adds' \in 0..MaxAdds
    BY <1>2 DEF Set, IInv, TypeOK
  <2> QED
    BY <1>2, <2>1, ReplaceStep, PushBackStep DEF Set
<1>3. CASE UNCHANGED vars
  BY <1>3 DEF vars, IInv, TypeOK, Indexed, At
<1> QED
  BY <1>1, <1>2, <1>3, RemoveStep DEF Next

--------------------------------------------------------------------------------
(* The refinement.                                                         *)

LEMMA InitRefines == Init => Map!Init
<1> SUFFICES ASSUME Init PROVE Map!Init
  OBVIOUS
<1>1. DOMAIN keys = {}
  BY DEF Init
<1>2. [n \in DOMAIN keys |-> values[At(n)].values] = [n \in {} |-> <<>>]
  BY <1>1, Zenon
<1>3. [n \in DOMAIN keys |-> {m \in DOMAIN keys : keys[m] < keys[n]}] = [n \in {} |-> {}]
  BY <1>1, Zenon
<1> QED
  BY <1>2, <1>3 DEF Map!Init

\* A parameter that the query has is given other values.
LEMMA ReplaceGives ==
  ASSUME IInv, NEW name \in DOMAIN keys, NEW vals, Replace(name, vals)
  PROVE  Map!Give(name, vals)
<1>f. Facts
  BY IInvFacts
<1>1. keys[name] + 1 \in DOMAIN values /\ DOMAIN keys \cup {name} = DOMAIN keys /\ keys' = keys
  BY <1>f DEF Facts, Replace
<1>2. \A k \in DOMAIN values :
        values'[k].values = IF k = keys[name] + 1 THEN vals ELSE values[k].values
  BY <1>1 DEF Replace, At
<1>3. ASSUME NEW n \in DOMAIN keys
      PROVE  keys[n] + 1 \in DOMAIN values /\ (keys[n] + 1 = keys[name] + 1 <=> n = name)
  BY <1>f DEF Facts
<1>4. [n \in DOMAIN keys' |-> values'[keys'[n] + 1].values]
        = [n \in DOMAIN keys \cup {name} |-> IF n = name THEN vals ELSE values[keys[n] + 1].values]
  BY <1>1, <1>2, <1>3
<1>5. [n \in DOMAIN keys \cup {name} |-> IF n = name THEN vals ELSE values[keys[n] + 1].values]
        = [n \in DOMAIN keys \cup {name} |->
             IF n = name THEN vals ELSE [m \in DOMAIN keys |-> values[keys[m] + 1].values][n]]
  BY <1>1
<1> QED
  BY <1>1, <1>4, <1>5 DEF Map!Give, At

\* A new parameter comes last.
LEMMA PushBackGives ==
  ASSUME IInv, NEW name \in Names, name \notin DOMAIN keys, NEW vals \in Seq(Values),
         PushBack(name, vals)
  PROVE  Map!Give(name, vals)
<1> DEFINE new == [name |-> name, values |-> vals]
<1>f. Facts
  BY IInvFacts
<1>1. new \in Param
  BY DEF Param
<1>2. DOMAIN keys' = DOMAIN keys \cup {name}
  BY DEF PushBack
<1>3. /\ values'[Len(values) + 1].values = vals
      /\ \A k \in 1..Len(values) : values'[k] = values[k]
  BY <1>f, <1>1 DEF Facts, PushBack
<1>4. keys'[name] = Len(values) /\ \A n \in DOMAIN keys : keys'[n] = keys[n]
  BY DEF PushBack
<1>5. Len(values) \in Nat
        /\ \A n \in DOMAIN keys : keys[n] \in Nat /\ keys[n] + 1 \in 1..Len(values) /\ keys[n] < Len(values)
  BY <1>f DEF Facts
<1>6. [n \in DOMAIN keys' |-> values'[keys'[n] + 1].values]
        = [n \in DOMAIN keys \cup {name} |->
             IF n = name THEN vals ELSE [m \in DOMAIN keys |-> values[keys[m] + 1].values][n]]
  <2>1. ASSUME NEW n \in DOMAIN keys'
        PROVE  values'[keys'[n] + 1].values
                 = IF n = name THEN vals ELSE [m \in DOMAIN keys |-> values[keys[m] + 1].values][n]
    <3>1. CASE n = name
      BY <3>1, <1>3, <1>4
    <3>2. CASE n # name
      <4>1. n \in DOMAIN keys /\ keys'[n] = keys[n] /\ values'[keys[n] + 1] = values[keys[n] + 1]
        BY <3>2, <1>2, <1>3, <1>4, <1>5
      <4> QED
        BY <3>2, <4>1
    <3> QED
      BY <3>1, <3>2
  <2> QED
    BY <1>2, <2>1
<1>7. [n \in DOMAIN keys' |-> {m \in DOMAIN keys' : keys'[m] < keys'[n]}]
        = [n \in DOMAIN keys \cup {name} |->
             IF n = name THEN DOMAIN keys
                         ELSE [k \in DOMAIN keys |-> {m \in DOMAIN keys : keys[m] < keys[k]}][n]]
  <2>1. ASSUME NEW n \in DOMAIN keys'
        PROVE  {m \in DOMAIN keys' : keys'[m] < keys'[n]}
                 = IF n = name THEN DOMAIN keys
                     ELSE [k \in DOMAIN keys |-> {m \in DOMAIN keys : keys[m] < keys[k]}][n]
    <3>1. CASE n = name
      <4>1. \A m \in DOMAIN keys : keys'[m] < keys'[n]
        BY <3>1, <1>4, <1>5
      <4>2. ~(keys'[name] < keys'[n])
        BY <3>1, <1>4, <1>5
      <4>3. {m \in DOMAIN keys' : keys'[m] < keys'[n]} = DOMAIN keys
        BY <4>1, <4>2, <1>2
      <4> QED
        BY <3>1, <4>3
    <3>2. CASE n \in DOMAIN keys
      <4>1. \A m \in DOMAIN keys : keys'[m] < keys'[n] <=> keys[m] < keys[n]
        BY <3>2, <1>4
      <4>2. ~(keys'[name] < keys'[n])
        BY <3>2, <1>4, <1>5
      <4>3. {m \in DOMAIN keys' : keys'[m] < keys'[n]} = {m \in DOMAIN keys : keys[m] < keys[n]}
        BY <4>1, <4>2, <1>2
      <4> QED
        BY <3>2, <4>3
    <3> QED
      BY <3>1, <3>2, <1>2
  <2> QED
    BY <2>1, <1>2
<1>8. /\ DOMAIN [n \in DOMAIN keys |-> values[keys[n] + 1].values] = DOMAIN keys
      /\ name \notin DOMAIN keys
  OBVIOUS
<1> QED
  BY <1>6, <1>7, <1>8 DEF Map!Give, At

LEMMA RemoveRefines ==
  ASSUME IInv, NEW name \in Names, Remove(name)
  PROVE  Map!Remove(name)
<1>f. Facts /\ RemoveFacts(name)
  BY IInvFacts, Removal
<1>1. DOMAIN keys' = DOMAIN keys \ {name}
  BY <1>f DEF RemoveFacts
<1>2. ASSUME NEW n \in DOMAIN keys' PROVE values'[keys'[n] + 1] = values[keys[n] + 1]
  <2> DEFINE p == keys[n]
             at == keys[name]
  <2>1. /\ p \in Nat /\ at \in Nat /\ p # at /\ Len(values) \in Nat
        /\ p + 1 \in 1..Len(values) /\ at + 1 \in 1..Len(values)
    BY <1>f DEF Facts, RemoveFacts
  <2>2. CASE p > at
    <3>1. keys'[n] = p - 1 /\ (p - 1) + 1 = p
      BY <1>f, <2>1, <2>2 DEF RemoveFacts
    <3>2. p \in 1..(Len(values) - 1) /\ ~(p < at + 1)
      BY <2>1, <2>2
    <3> QED
      BY <1>f, <3>1, <3>2 DEF RemoveFacts
  <2>3. CASE ~(p > at)
    <3>1. keys'[n] = p
      BY <1>f, <2>3 DEF RemoveFacts
    <3>2. p + 1 \in 1..(Len(values) - 1) /\ p + 1 < at + 1
      BY <2>1, <2>3
    <3> QED
      BY <1>f, <3>1, <3>2 DEF RemoveFacts
  <2> QED
    BY <2>2, <2>3
<1>3. [n \in DOMAIN keys' |-> values'[keys'[n] + 1].values]
        = [n \in DOMAIN keys \ {name} |-> [m \in DOMAIN keys |-> values[keys[m] + 1].values][n]]
  BY <1>1, <1>2
<1>4. ASSUME NEW m \in DOMAIN keys', NEW n \in DOMAIN keys'
      PROVE  keys'[m] < keys'[n] <=> keys[m] < keys[n]
  <2>1. /\ keys[m] \in Nat /\ keys[n] \in Nat /\ keys[name] \in Nat
        /\ keys[m] # keys[name] /\ keys[n] # keys[name]
    BY <1>f DEF Facts, RemoveFacts
  <2>2. /\ keys[m] > keys[name] => keys'[m] = keys[m] - 1
        /\ ~(keys[m] > keys[name]) => keys'[m] = keys[m]
        /\ keys[n] > keys[name] => keys'[n] = keys[n] - 1
        /\ ~(keys[n] > keys[name]) => keys'[n] = keys[n]
    BY <1>f DEF RemoveFacts
  <2> QED
    BY <2>1, <2>2
<1>5. [n \in DOMAIN keys' |-> {m \in DOMAIN keys' : keys'[m] < keys'[n]}]
        = [n \in DOMAIN keys \ {name} |->
             [k \in DOMAIN keys |-> {m \in DOMAIN keys : keys[m] < keys[k]}][n] \ {name}]
  <2>1. ASSUME NEW n \in DOMAIN keys'
        PROVE  {m \in DOMAIN keys' : keys'[m] < keys'[n]}
                 = {m \in DOMAIN keys : keys[m] < keys[n]} \ {name}
    BY <1>1, <1>4
  <2> QED
    BY <1>1, <2>1
<1> QED
  BY <1>3, <1>5, <1>1 DEF Map!Remove, At

LEMMA StepRefines == IInv /\ [Next]_vars => [Map!Next]_(Map!vars)
<1> SUFFICES ASSUME IInv, [Next]_vars PROVE [Map!Next]_(Map!vars)
  OBVIOUS
<1>1. ASSUME NEW name \in Names, Add(name) PROVE Map!Next
  <2>1. adds + 1 \in Values
    BY <1>1, NewValue DEF IInv, Add
  <2>2. PICK v \in Values : v = adds + 1
    BY <2>1
  <2>3. Map!Add(name, v)
    <3> DEFINE params == [n \in DOMAIN keys |-> values[At(n)].values]
    <3>0. DOMAIN params = DOMAIN keys
      OBVIOUS
    <3>1. CASE name \in DOMAIN keys
      <4>1. PICK vals : vals = Append(values[At(name)].values, v)
        OBVIOUS
      <4>2. Replace(name, vals)
        BY <1>1, <2>2, <3>1, <4>1 DEF Add, Replace
      <4>3. Map!Give(name, vals)
        BY <3>1, <4>2, ReplaceGives
      <4>4. params[name] = values[At(name)].values
        BY <3>1
      <4> QED
        BY <4>1, <4>3, <4>4, <3>0, <3>1 DEF Map!Add, Map!Give
    <3>2. CASE name \notin DOMAIN keys
      <4>1. PushBack(name, <<v>>)
        BY <1>1, <2>2, <3>2 DEF Add, PushBack
      <4>2. <<v>> \in Seq(Values)
        OBVIOUS
      <4>3. Map!Give(name, <<v>>)
        BY <3>2, <4>1, <4>2, PushBackGives
      <4> QED
        BY <4>3, <3>0, <3>2 DEF Map!Add, Map!Give
    <3> QED
      BY <3>1, <3>2
  <2> QED
    BY <2>3 DEF Map!Next
<1>2. ASSUME NEW name \in Names, Set(name) PROVE Map!Next
  <2>1. Map!Give(name, <<>>)
    <3>1. CASE name \in DOMAIN keys
      BY <1>2, <3>1, ReplaceGives DEF Set
    <3>2. CASE name \notin DOMAIN keys
      <4>1. <<>> \in Seq(Values)
        OBVIOUS
      <4> QED
        BY <1>2, <3>2, <4>1, PushBackGives DEF Set
    <3> QED
      BY <3>1, <3>2
  <2> QED
    BY <2>1 DEF Map!Next, Map!Set
<1>3. ASSUME NEW name \in Names, Remove(name) PROVE Map!Next
  BY <1>3, RemoveRefines DEF Map!Next
<1>4. CASE UNCHANGED vars
  BY <1>4 DEF vars, Map!vars, At
<1> QED
  BY <1>1, <1>2, <1>3, <1>4 DEF Next

--------------------------------------------------------------------------------
(* Theorems.                                                               *)

\* A query is well formed after any calls of add, set and remove.
THEOREM Invariant == Spec => []IInv
BY InitIInv, StepIInv, PTL DEF Spec

\* keys_ and values_ describe one another after any calls.
THEOREM IndexAgrees == Spec => []Indexed
<1>1. IInv => Indexed
  BY DEF IInv
<1> QED
  BY <1>1, Invariant, PTL

\* The variables keep their types.
THEOREM TypeCorrect == Spec => []TypeOK
<1>1. IInv => TypeOK
  BY DEF IInv
<1> QED
  BY <1>1, Invariant, PTL

\* find() and iteration show the map of parameters that the comments describe.
THEOREM Refinement == Spec => MapSpec
BY InitRefines, StepRefines, Invariant, PTL DEF Spec, MapSpec, Map!Spec

--------------------------------------------------------------------------------
(* A link is built as a query is.                                          *)

LEMMA LinkStepBuilds == [LinkNext]_linkVars => [Next]_vars
BY DEF LinkNext, linkVars, Build, Send, DecodeStep, PathDone, NameDone, ValueDone, vars

\* Sending and reading leave the query alone, so that what holds of queries holds
\* of the one that a link is made of.
THEOREM BuildsQuery == LinkSpec => Spec
<1>1. LinkInit => Init
  BY DEF LinkInit
<1> QED
  BY <1>1, LinkStepBuilds, PTL DEF LinkSpec, Spec

--------------------------------------------------------------------------------
(* Encoding.                                                               *)

Chars == 0..255

\* What no encoded text contains.
Marks == {U!Question, U!Hash, Ampersand, Equals}

LEMMA SameFlatten ==
  ASSUME NEW ss
  PROVE  U!FlattenSeq(ss) = Seqs!FlattenSeq(ss) /\ Lists!FlattenSeq(ss) = Seqs!FlattenSeq(ss)
BY DEF U!FlattenSeq, Lists!FlattenSeq, Seqs!FlattenSeq

\* The digits of an escape are two characters that are read as they were written.
LEMMA HexDigits ==
  ASSUME NEW n \in 0..15
  PROVE  /\ U!HexDigit(n) \in (48..57) \cup (65..70)
         /\ U!IsHex(U!HexDigit(n)) /\ U!Hex(U!HexDigit(n)) = n
<1> USE DEF U!HexDigit, U!Digits
<1>1. CASE n < 10
  <2>1. U!HexDigit(n) = 48 + n /\ 48 + n \in 48..57
    BY <1>1
  <2>2. U!Hex(48 + n) = n
    BY <2>1 DEF U!Hex
  <2> QED
    BY <2>1, <2>2 DEF U!IsHex
<1>2. CASE ~(n < 10)
  <2>1. U!HexDigit(n) = 55 + n /\ 55 + n \in 65..70 /\ 55 + n \notin 48..57
    BY <1>2
  <2>2. U!Hex(55 + n) = n
    BY <2>1 DEF U!Hex
  <2> QED
    BY <2>1, <2>2 DEF U!IsHex
<1> QED
  BY <1>1, <1>2

\* The three ways to encode a character.
Escape(c) == <<U!Percent, U!HexDigit(c \div 16), U!HexDigit(c % 16)>>

LEMMA EncodedChar ==
  ASSUME NEW c \in Chars, NEW inForm \in BOOLEAN
  PROVE  \/ inForm /\ c = U!Space /\ U!EncodeChar(c, inForm) = <<U!Plus>>
         \/ /\ c \notin Marks \cup {U!Percent} /\ U!EncodeChar(c, inForm) = <<c>>
            /\ inForm => c # U!Plus
         \/ U!EncodeChar(c, inForm) = Escape(c)
<1> USE DEF U!Space, U!Plus, U!Percent
<1>1. U!IsSafe(c, inForm) /\ ~(inForm /\ c = U!Space)
        => c \notin Marks \cup {U!Percent} /\ (inForm => c # U!Plus)
  BY DEF U!IsSafe, Marks, U!Question, U!Hash, Ampersand, Equals, U!Digits, U!Upper, U!Lower, Chars
<1> QED
  BY <1>1 DEF U!EncodeChar, Escape

LEMMA EscapeParts ==
  ASSUME NEW c \in Chars
  PROVE  c \div 16 \in 0..15 /\ c % 16 \in 0..15 /\ (c \div 16) * 16 + (c % 16) = c
<1>1. c \in 0..255
  BY DEF Chars
<1>2. c \div 16 \in 0..15 /\ c % 16 \in 0..15
  BY <1>1
<1> DEFINE d == c \div 16
           e == c % 16
<1>3. e = c - 16 * d
  BY <1>1
<1> HIDE DEF d, e
<1>4. d * 16 + e = c
  BY <1>1, <1>2, <1>3 DEF d
<1>5. (c \div 16) * 16 + (c % 16) = c
  BY <1>4, Zenon DEF d, e
<1> QED
  BY <1>2, <1>5

LEMMA EncodedCharType ==
  ASSUME NEW c \in Chars, NEW inForm \in BOOLEAN
  PROVE  /\ U!EncodeChar(c, inForm) \in Seq(Chars \ Marks)
         /\ Len(U!EncodeChar(c, inForm)) \in Nat /\ Len(U!EncodeChar(c, inForm)) >= 1
<1>1. U!Plus \in Chars \ Marks /\ U!Percent \in Chars \ Marks
  BY DEF Chars, Marks, U!Plus, U!Percent, U!Question, U!Hash, Ampersand, Equals
<1>2. CASE U!EncodeChar(c, inForm) = Escape(c)
  <2>1. \A d \in (48..57) \cup (65..70) : d \in Chars \ Marks
    BY DEF Chars, Marks, U!Question, U!Hash, Ampersand, Equals
  <2>2. U!HexDigit(c \div 16) \in Chars \ Marks /\ U!HexDigit(c % 16) \in Chars \ Marks
    BY <2>1, EscapeParts, HexDigits
  <2> HIDE DEF Chars, Marks
  <2> QED
    BY <1>1, <1>2, <2>2 DEF Escape
<1>3. CASE U!EncodeChar(c, inForm) = <<U!Plus>>
  BY <1>1, <1>3
<1>4. CASE c \notin Marks /\ U!EncodeChar(c, inForm) = <<c>>
  BY <1>4
<1> QED
  BY <1>2, <1>3, <1>4, EncodedChar

\* The pieces of an encoded text.
Pieces(s, inForm) == [k \in DOMAIN s |-> U!EncodeChar(s[k], inForm)]

LEMMA EncodedPieces ==
  ASSUME NEW s \in Seq(Chars), NEW inForm \in BOOLEAN
  PROVE  /\ Pieces(s, inForm) \in Seq(Seq(Chars \ Marks)) /\ Len(Pieces(s, inForm)) = Len(s)
         /\ \A k \in 1..Len(s) : Pieces(s, inForm)[k] = U!EncodeChar(s[k], inForm)
         /\ U!Encode(s, inForm) = Seqs!FlattenSeq(Pieces(s, inForm))
         /\ U!Encode(s, inForm) \in Seq(Chars \ Marks)
<1>1. DOMAIN s = 1..Len(s) /\ Len(s) \in Nat /\ \A k \in 1..Len(s) : s[k] \in Chars
  OBVIOUS
<1>2. \A k \in 1..Len(s) : U!EncodeChar(s[k], inForm) \in Seq(Chars \ Marks)
  BY <1>1, EncodedCharType
<1>3. /\ Pieces(s, inForm) \in [1..Len(s) -> Seq(Chars \ Marks)]
      /\ \A k \in 1..Len(s) : Pieces(s, inForm)[k] = U!EncodeChar(s[k], inForm)
  BY <1>1, <1>2 DEF Pieces
<1> DEFINE p == Pieces(s, inForm)
<1> HIDE DEF p
<1>4. p \in Seq(Seq(Chars \ Marks)) /\ Len(p) = Len(s)
  <2>1. p \in [1..Len(s) -> Seq(Chars \ Marks)]
    BY <1>3 DEF p
  <2> QED
    BY <1>1, <2>1
<1>5. U!Encode(s, inForm) = Seqs!FlattenSeq(Pieces(s, inForm))
  BY SameFlatten DEF U!Encode, Pieces
<1>6. U!Encode(s, inForm) \in Seq(Chars \ Marks)
  BY <1>4, <1>5, Seqs!FlattenType DEF p
<1> QED
  BY <1>3, <1>4, <1>5, <1>6 DEF p

--------------------------------------------------------------------------------
(* Decoding what was encoded.                                              *)

\* Where in the encoded text each character of a text lies.
Offset(s, inForm) == CHOOSE q : Seqs!LaysOut(q, Pieces(s, inForm))

LEMMA Offsets ==
  ASSUME NEW s \in Seq(Chars), NEW inForm \in BOOLEAN
  PROVE  LET q == Offset(s, inForm)
             e == U!Encode(s, inForm)
         IN  /\ q \in [0..Len(s) -> Nat] /\ q[0] = 0 /\ q[Len(s)] = Len(e)
             /\ \A k \in 1..Len(s) :
                  LET p == U!EncodeChar(s[k], inForm)
                  IN  /\ q[k] = q[k - 1] + Len(p) /\ q[k] <= Len(e)
                      /\ \A j \in 1..Len(p) : e[q[k - 1] + j] = p[j]
             /\ \A k \in 0..Len(s) : k < Len(s) => q[k] < Len(e)
<1> DEFINE q == Offset(s, inForm)
           e == U!Encode(s, inForm)
           ss == Pieces(s, inForm)
<1>1. /\ ss \in Seq(Seq(Chars \ Marks)) /\ Len(ss) = Len(s) /\ Len(s) \in Nat
      /\ \A k \in 1..Len(s) : ss[k] = U!EncodeChar(s[k], inForm) /\ s[k] \in Chars
      /\ e = Seqs!FlattenSeq(ss)
  BY EncodedPieces
<1>2. Seqs!LaysOut(q, ss)
  <2> HIDE DEF ss
  <2>1. \E f : Seqs!LaysOut(f, ss)
    BY <1>1, Seqs!FlattenLies
  <2> QED
    BY <2>1 DEF Offset, ss
<1> HIDE DEF q, e, ss
<1>3. /\ q \in [0..Len(s) -> Nat] /\ q[0] = 0 /\ q[Len(s)] = Len(e)
      /\ \A k \in 1..Len(s) : /\ q[k] = q[k - 1] + Len(ss[k])
                              /\ \A j \in 1..Len(ss[k]) : e[q[k - 1] + j] = ss[k][j]
      /\ \A k, l \in 0..Len(s) : k <= l => q[k] <= q[l]
  BY <1>1, <1>2 DEF Seqs!LaysOut
<1>4. \A k \in 1..Len(s) : q[k] <= Len(e)
  <2>1. \A k \in 1..Len(s) : k \in 0..Len(s) /\ Len(s) \in 0..Len(s) /\ k <= Len(s)
    BY <1>1
  <2> QED
    BY <1>3, <2>1
<1>5. ASSUME NEW k \in 0..Len(s), k < Len(s) PROVE q[k] < Len(e)
  <2>1. k + 1 \in 1..Len(s) /\ (k + 1) - 1 = k
    BY <1>1, <1>5
  <2>2. Len(ss[k + 1]) \in Nat /\ Len(ss[k + 1]) >= 1
    BY <1>1, <2>1, EncodedCharType
  <2>3. q[k + 1] = q[k] + Len(ss[k + 1]) /\ q[k + 1] <= Len(e)
    BY <1>3, <1>4, <2>1
  <2>4. Len(e) \in Nat /\ q[k] \in Nat
    <3>1. Len(s) \in 0..Len(s)
      BY <1>1
    <3> QED
      BY <1>3, <3>1
  <2> QED
    BY <2>2, <2>3, <2>4
<1> QED
  BY <1>1, <1>3, <1>4, <1>5 DEF q, e

\* The loop is decoding what Encode has made of a text, and has got to the end of
\* a character.
Decoding(s, inForm) ==
  /\ text = U!Encode(s, inForm) /\ form = inForm
  /\ \E m \in 0..Len(s) : /\ i = Offset(s, inForm)[m]
                          /\ out \in Seq(Chars) /\ Len(out) = m
                          /\ \A k \in 1..m : out[k] = s[k]

LEMMA DecodingBegins ==
  ASSUME NEW s \in Seq(Chars), NEW inForm \in BOOLEAN,
         text = U!Encode(s, inForm), form = inForm, i = 0, out = <<>>
  PROVE  Decoding(s, inForm)
<1>1. Offset(s, inForm)[0] = 0
  BY Offsets
<1>2. 0 \in 0..Len(s) /\ out \in Seq(Chars) /\ Len(out) = 0
  OBVIOUS
<1> QED
  BY <1>1, <1>2 DEF Decoding

LEMMA DecodingEnds ==
  ASSUME NEW s \in Seq(Chars), NEW inForm \in BOOLEAN, Decoding(s, inForm), U!Done
  PROVE  out = s
<1>1. PICK m \in 0..Len(s) : /\ i = Offset(s, inForm)[m]
                             /\ out \in Seq(Chars) /\ Len(out) = m
                             /\ \A k \in 1..m : out[k] = s[k]
  BY DEF Decoding
<1>2. i >= Len(U!Encode(s, inForm))
  BY DEF U!Done, Decoding
<1>3. i \in Nat /\ Len(U!Encode(s, inForm)) \in Nat
  BY <1>1, Offsets, EncodedPieces
<1>4. ~(m < Len(s))
  BY <1>1, <1>2, <1>3, Offsets
<1>5. m = Len(s)
  BY <1>1, <1>4
<1> QED
  BY <1>1, <1>5

\* A round of the loop reads the next character, whatever lies behind the text.
LEMMA DecodingStep ==
  ASSUME NEW s \in Seq(Chars), NEW inForm \in BOOLEAN, Decoding(s, inForm), U!Next
  PROVE  Decoding(s, inForm)'
<1> DEFINE q == Offset(s, inForm)
           e == U!Encode(s, inForm)
<1>1. PICK m \in 0..Len(s) : /\ i = q[m]
                             /\ out \in Seq(Chars) /\ Len(out) = m
                             /\ \A k \in 1..m : out[k] = s[k]
  BY DEF Decoding
<1>2. text = e /\ form = inForm /\ UNCHANGED <<text, form>> /\ i < Len(e)
  BY DEF Decoding, U!Next, U!Unescape, U!Copy
<1>3. m + 1 \in 1..Len(s) /\ (m + 1) - 1 = m /\ s[m + 1] \in Chars
  <2>1. q[Len(s)] = Len(e) /\ q[Len(s)] \in Nat
    BY Offsets
  <2>2. m # Len(s)
    BY <1>1, <1>2, <2>1
  <2> QED
    BY <1>1, <2>2
<1> DEFINE c == s[m + 1]
           p == U!EncodeChar(c, inForm)
<1>4. /\ q[m + 1] = q[m] + Len(p) /\ q[m + 1] <= Len(e) /\ \A j \in 1..Len(p) : e[q[m] + j] = p[j]
      /\ q[m] \in Nat /\ Len(e) \in Nat
  <2>1. \A k \in 1..Len(s) :
          LET r == U!EncodeChar(s[k], inForm)
          IN  /\ q[k] = q[k - 1] + Len(r) /\ q[k] <= Len(e)
              /\ \A j \in 1..Len(r) : e[q[k - 1] + j] = r[j]
    BY Offsets
  <2>2. q \in [0..Len(s) -> Nat] /\ e \in Seq(Chars \ Marks)
    BY Offsets, EncodedPieces
  <2> HIDE DEF q, e
  <2>3. q[m] \in Nat /\ Len(e) \in Nat
    BY <2>2
  <2> QED
    BY <1>3, <2>1, <2>3
<1> HIDE DEF q, e
<1>5. SUFFICES i' = q[m + 1] /\ out' = Append(out, c)
  <2>1. m + 1 \in 0..Len(s)
    BY <1>3
  <2>2. out' \in Seq(Chars) /\ Len(out') = m + 1 /\ \A k \in 1..(m + 1) : out'[k] = s[k]
    BY <1>1, <1>3
  <2> QED
    BY <1>2, <2>1, <2>2 DEF Decoding, q, e
<1>6. CASE p = Escape(c)
  <2>1. Len(p) = 3 /\ p[1] = U!Percent /\ p[2] = U!HexDigit(c \div 16) /\ p[3] = U!HexDigit(c % 16)
    BY <1>6 DEF Escape
  <2>2. /\ e[i + 1] = U!Percent /\ e[i + 2] = U!HexDigit(c \div 16) /\ e[i + 3] = U!HexDigit(c % 16)
        /\ i + 3 <= Len(e) /\ q[m + 1] = i + 3
    BY <1>1, <1>4, <2>1
  <2>3. /\ U!CharAt(i) = U!Percent /\ U!CharAt(i + 1) = U!HexDigit(c \div 16)
        /\ U!CharAt(i + 2) = U!HexDigit(c % 16) /\ U!EnoughSpace
    <3>1. /\ i < Len(e) /\ i + 1 < Len(e) /\ i + 2 < Len(e) /\ i < Len(e) - 2
          /\ (i + 1) + 1 = i + 2 /\ (i + 2) + 1 = i + 3
      <4> DEFINE l == Len(e)
      <4>1. i \in Nat /\ l \in Nat /\ i + 3 <= l
        BY <1>1, <1>4, <2>2
      <4> HIDE DEF l
      <4>2. /\ i < l /\ i + 1 < l /\ i + 2 < l /\ i < l - 2
            /\ (i + 1) + 1 = i + 2 /\ (i + 2) + 1 = i + 3
        BY <4>1
      <4> QED
        BY <4>2 DEF l
    <3> QED
      BY <1>2, <2>2, <3>1 DEF U!CharAt, U!EnoughSpace
  <2>4. /\ U!IsHex(U!CharAt(i + 1)) /\ U!IsHex(U!CharAt(i + 2))
        /\ U!Hex(U!CharAt(i + 1)) * 16 + U!Hex(U!CharAt(i + 2)) = c
    <3>1. /\ U!IsHex(U!HexDigit(c \div 16)) /\ U!Hex(U!HexDigit(c \div 16)) = c \div 16
          /\ U!IsHex(U!HexDigit(c % 16)) /\ U!Hex(U!HexDigit(c % 16)) = c % 16
          /\ (c \div 16) * 16 + (c % 16) = c
      BY <1>3, EscapeParts, HexDigits
    <3> QED
      BY <2>3, <3>1, Zenon
  <2>5. U!EscapeHere
    BY <2>3, <2>4 DEF U!EscapeHere
  <2> QED
    BY <2>2, <2>4, <2>5 DEF U!Next, U!Unescape, U!Copy
<1>7. ASSUME NEW d, p = <<d>>, d # U!Percent, U!ReadChar(d) = c
      PROVE  i' = q[m + 1] /\ out' = Append(out, c)
  <2>1. Len(p) = 1 /\ p[1] = d
    BY <1>7
  <2>2. e[i + 1] = d /\ q[m + 1] = i + 1
    BY <1>1, <1>4, <2>1
  <2>3. U!CharAt(i) = d
    BY <1>2, <2>2 DEF U!CharAt
  <2>4. ~U!EscapeHere
    BY <1>7, <2>3 DEF U!EscapeHere
  <2> QED
    BY <1>7, <2>2, <2>3, <2>4 DEF U!Next, U!Unescape, U!Copy
<1>8. CASE inForm /\ c = U!Space /\ p = <<U!Plus>>
  <2>1. U!Plus # U!Percent /\ U!ReadChar(U!Plus) = c
    BY <1>2, <1>8 DEF U!Plus, U!Percent, U!ReadChar
  <2> QED
    BY <1>7, <1>8, <2>1
<1>9. CASE c # U!Percent /\ p = <<c>> /\ (inForm => c # U!Plus)
  <2>1. U!ReadChar(c) = c
    BY <1>2, <1>9 DEF U!ReadChar
  <2> QED
    BY <1>7, <1>9, <2>1
<1> QED
  BY <1>3, <1>6, <1>8, <1>9, EncodedChar

--------------------------------------------------------------------------------
(* The parts of a target.                                                  *)

LEMMA Least ==
  ASSUME NEW S \in SUBSET Nat, S # {}
  PROVE  /\ U!Min(S) \in S /\ \A k \in S : U!Min(S) <= k
         /\ Lists!Min(S) \in S /\ \A k \in S : Lists!Min(S) <= k
<1>1. \E n \in S : \A k \in S : n <= k
  BY Seqs!LeastNumber
<1> QED
  BY <1>1 DEF U!Min, Lists!Min

\* The path ends before the first question mark or hash.
LEMMA PathEnds ==
  ASSUME NEW t \in Seq(Chars)
  PROVE  LET p == U!PathEnd(t)
         IN  /\ p \in 0..Len(t)
             /\ p < Len(t) => t[p + 1] \in {U!Question, U!Hash}
             /\ \A k \in 1..p : t[k] \notin {U!Question, U!Hash}
             /\ U!PathOf(t) \in Seq(Chars) /\ Len(U!PathOf(t)) = p
             /\ \A k \in 1..p : U!PathOf(t)[k] = t[k]
<1> DEFINE p == U!PathEnd(t)
           ends == {k \in DOMAIN t : t[k] \in {U!Question, U!Hash}}
<1>0. Len(t) \in Nat /\ DOMAIN t = 1..Len(t)
  OBVIOUS
<1>1. /\ p \in 0..Len(t)
      /\ p < Len(t) => t[p + 1] \in {U!Question, U!Hash}
      /\ \A k \in 1..p : t[k] \notin {U!Question, U!Hash}
  <2>1. CASE ends = {}
    <3>1. p = Len(t)
      BY <2>1 DEF U!PathEnd
    <3> QED
      BY <1>0, <2>1, <3>1
  <2>2. CASE ends # {}
    <3>1. ends \in SUBSET Nat
      BY <1>0
    <3>2. U!Min(ends) \in ends /\ \A k \in ends : U!Min(ends) <= k
      BY <2>2, <3>1, Least
    <3>3. p = U!Min(ends) - 1
      BY <2>2 DEF U!PathEnd
    <3> HIDE DEF p
    <3>4. PICK least \in ends : p = least - 1 /\ \A k \in ends : least <= k
      BY <3>2, <3>3
    <3>5. least \in 1..Len(t) /\ t[least] \in {U!Question, U!Hash} /\ least = p + 1
      BY <1>0, <3>4
    <3>6. \A k \in 1..p : k \in DOMAIN t /\ ~(least <= k)
      BY <1>0, <3>4, <3>5
    <3> QED
      BY <3>4, <3>5, <3>6
  <2> QED
    BY <2>1, <2>2
<1>2. U!PathOf(t) = SubSeq(t, 1, p)
  BY DEF U!PathOf
<1> HIDE DEF p, ends
<1>3. /\ SubSeq(t, 1, p) \in Seq(Chars) /\ Len(SubSeq(t, 1, p)) = p
      /\ \A k \in 1..p : SubSeq(t, 1, p)[k] = t[k]
  <2>1. 1 \in 1..(Len(t) + 1) /\ p \in (1 - 1)..Len(t) /\ p - 1 + 1 = p
    BY <1>0, <1>1
  <2>2. \A k \in 1..p : 1 + k - 1 = k
    BY <2>1
  <2> QED
    BY <2>1, <2>2, Seqs!SubSeqAt
<1> QED
  BY <1>1, <1>2, <1>3 DEF p

\* There is a query where there is a question mark, and it lies behind that.
LEMMA QueryLies ==
  ASSUME NEW t \in Seq(Chars)
  PROVE  LET p == U!PathEnd(t)
             query == U!QueryOf(t)
         IN  /\ query \in Seq(Chars)
             /\ query # <<>> => /\ p + 1 + Len(query) <= Len(t)
                                /\ t[p + 1] = U!Question
                                /\ \A k \in 1..Len(query) : query[k] = t[p + 1 + k]
             /\ p < Len(t) /\ t[p + 1] = U!Question /\ (\A k \in (p + 2)..Len(t) : t[k] # U!Hash)
                  => p + 1 + Len(query) = Len(t)
<1> DEFINE p == U!PathEnd(t)
           query == U!QueryOf(t)
           rest == SubSeq(t, p + 1, Len(t))
           hashes == {k \in 2..Len(rest) : rest[k] = U!Hash}
<1>1. Len(t) \in Nat /\ p \in 0..Len(t)
  <2>1. p \in 0..Len(t)
    BY PathEnds
  <2> QED
    BY <2>1
<1>2. query = IF rest = <<>> \/ rest[1] # U!Question THEN <<>>
              ELSE IF hashes = {} THEN Tail(rest)
              ELSE SubSeq(rest, 2, U!Min(hashes))
  BY DEF U!QueryOf
<1>3. /\ rest \in Seq(Chars) /\ Len(rest) = Len(t) - p
      /\ \A k \in 1..Len(rest) : rest[k] = t[p + k]
  <2> HIDE DEF p
  <2> QED
    BY <1>1
<1>4. CASE rest = <<>> \/ rest[1] # U!Question
  <2>1. query = <<>>
    BY <1>2, <1>4
  <2>2. p < Len(t) => t[p + 1] # U!Question
    <3> HIDE DEF p, rest
    <3> QED
      BY <1>1, <1>3, <1>4
  <2> HIDE DEF p, query
  <2> QED
    BY <2>1, <2>2 DEF p, query
<1>5. CASE ~(rest = <<>> \/ rest[1] # U!Question)
  <2>0. /\ Len(rest) \in Nat /\ Len(rest) >= 1 /\ p + 1 <= Len(t)
        /\ t[p + 1] = U!Question
    <3> HIDE DEF p, rest
    <3> QED
      BY <1>1, <1>3, <1>5
  <2>1. \E last \in 1..Len(rest) :
          /\ query = SubSeq(rest, 2, last)
          /\ (\A k \in (p + 2)..Len(t) : t[k] # U!Hash) => last = Len(rest)
    <3>1. CASE hashes = {}
      <4>1. query = Tail(rest)
        BY <1>2, <1>5, <3>1
      <4> HIDE DEF p, query, rest, hashes
      <4>2. Tail(rest) = SubSeq(rest, 2, Len(rest))
        BY <1>3, <2>0
      <4>3. Len(rest) \in 1..Len(rest)
        BY <2>0
      <4> QED
        BY <4>1, <4>2, <4>3
    <3>2. CASE hashes # {}
      <4>1. query = SubSeq(rest, 2, U!Min(hashes))
        BY <1>2, <1>5, <3>2
      <4>2. hashes \in SUBSET Nat
        OBVIOUS
      <4>3. U!Min(hashes) \in hashes
        BY <3>2, <4>2, Least
      <4>4. PICK last \in hashes : last = U!Min(hashes)
        BY <4>3
      <4>5. last \in 2..Len(rest) /\ rest[last] = U!Hash
        BY <4>4
      <4> HIDE DEF p, query, rest, hashes
      <4>6. /\ last \in 1..Len(rest) /\ p + last \in (p + 2)..Len(t)
            /\ t[p + last] = U!Hash
        BY <1>1, <1>3, <2>0, <4>5
      <4> QED
        BY <4>1, <4>4, <4>6
    <3> QED
      BY <3>1, <3>2
  <2> HIDE DEF p, query, rest
  <2>2. PICK last \in 1..Len(rest) :
          /\ query = SubSeq(rest, 2, last)
          /\ (\A k \in (p + 2)..Len(t) : t[k] # U!Hash) => last = Len(rest)
    BY <2>1
  <2>3. /\ SubSeq(rest, 2, last) \in Seq(Chars) /\ Len(SubSeq(rest, 2, last)) = last - 1
        /\ \A k \in 1..(last - 1) : SubSeq(rest, 2, last)[k] = rest[k + 1]
    BY <1>3, <2>0
  <2>4. query \in Seq(Chars) /\ Len(query) = last - 1 /\ p + 1 + Len(query) <= Len(t)
    BY <1>1, <1>3, <2>0, <2>2, <2>3
  <2>5. ASSUME NEW k \in 1..Len(query) PROVE query[k] = t[p + 1 + k]
    <3>1. k + 1 \in 1..Len(rest) /\ p + (k + 1) = p + 1 + k /\ k \in 1..(last - 1)
      BY <1>1, <2>0, <2>4
    <3> QED
      BY <1>3, <2>2, <2>3, <3>1
  <2>6. (\A k \in (p + 2)..Len(t) : t[k] # U!Hash) => p + 1 + Len(query) = Len(t)
    <3>1. Len(rest) = Len(t) - p /\ Len(query) = last - 1
      BY <1>3, <2>4
    <3>2. last = Len(rest) => p + 1 + Len(query) = Len(t)
      BY <1>1, <3>1
    <3> QED
      BY <2>2, <3>2
  <2> QED
    BY <2>0, <2>4, <2>5, <2>6 DEF p, query
<1> QED
  BY <1>4, <1>5

\* What SplitsTarget says holds of every target.
LEMMA Splits == target \in Seq(Chars) => SplitsTarget
<1> SUFFICES ASSUME target \in Seq(Chars) PROVE SplitsTarget
  OBVIOUS
<1> DEFINE p == U!PathEnd(target)
           pathOf == U!PathOf(target)
           query == U!QueryOf(target)
           mark == <<U!Question>>
<1>0. Len(target) \in Nat /\ DOMAIN target = 1..Len(target)
  OBVIOUS
<1>1. /\ p \in 0..Len(target)
      /\ p < Len(target) => target[p + 1] \in {U!Question, U!Hash}
      /\ \A k \in 1..p : target[k] \notin {U!Question, U!Hash}
      /\ pathOf \in Seq(Chars) /\ Len(pathOf) = p
      /\ \A k \in 1..p : pathOf[k] = target[k]
  BY PathEnds
<1>2. /\ query \in Seq(Chars)
      /\ query # <<>> => \A k \in 1..Len(query) : query[k] = target[p + 1 + k]
      /\ p < Len(target) /\ target[p + 1] = U!Question
           /\ (\A k \in (p + 2)..Len(target) : target[k] # U!Hash)
           => p + 1 + Len(query) = Len(target)
  BY QueryLies
<1> HIDE DEF p, pathOf, query
<1>3. \A k \in DOMAIN pathOf : pathOf[k] \notin {U!Question, U!Hash}
  BY <1>1
<1>4. ASSUME U!Hash \notin Lists!Range(target), pathOf # target
      PROVE  target = pathOf \o mark \o query
  <2>1. \A k \in 1..Len(target) : target[k] # U!Hash
    BY <1>0, <1>4 DEF Lists!Range
  <2>2. p # Len(target)
    <3> SUFFICES ASSUME p = Len(target) PROVE FALSE
      OBVIOUS
    <3>1. /\ target \in Seq(Chars) /\ pathOf \in Seq(Chars) /\ Len(pathOf) = Len(target)
          /\ \A k \in 1..Len(target) : pathOf[k] = target[k]
      BY <1>1
    <3>2. pathOf = target
      BY <3>1
    <3> QED
      BY <1>4, <3>2
  <2>3. p < Len(target) /\ p + 1 \in 1..Len(target) /\ target[p + 1] = U!Question
    <3>1. p < Len(target) /\ p + 1 \in 1..Len(target)
      <4> DEFINE n == Len(target)
      <4>1. n \in Nat /\ p \in 0..n /\ p # n
        BY <1>0, <1>1, <2>2
      <4> HIDE DEF n
      <4>2. p < n /\ p + 1 \in 1..n
        BY <4>1
      <4> QED
        BY <4>2 DEF n
    <3> QED
      BY <1>1, <2>1, <3>1
  <2>4. p + 1 + Len(query) = Len(target) /\ Len(query) \in Nat
    <3>1. \A k \in (p + 2)..Len(target) : k \in 1..Len(target)
      BY <1>0, <1>1
    <3> QED
      BY <1>2, <2>1, <2>3, <3>1
  <2>5. mark \in Seq(Chars) /\ Len(mark) = 1 /\ mark[1] = U!Question
    BY DEF U!Question, Chars
  <2> HIDE DEF mark
  <2>6. /\ p \in Nat /\ pathOf \o mark \in Seq(Chars) /\ Len(pathOf \o mark) = p + 1
        /\ \A k \in 1..p : (pathOf \o mark)[k] = target[k]
        /\ (pathOf \o mark)[p + 1] = target[p + 1]
    <3>1. /\ pathOf \o mark \in Seq(Chars) /\ Len(pathOf \o mark) = Len(pathOf) + Len(mark)
          /\ DOMAIN pathOf = 1..Len(pathOf) /\ DOMAIN mark = 1..Len(mark)
          /\ \A k \in DOMAIN pathOf : (pathOf \o mark)[k] = pathOf[k]
          /\ \A k \in DOMAIN mark : (pathOf \o mark)[Len(pathOf) + k] = mark[k]
      <4>1. pathOf \in Seq(Chars) /\ mark \in Seq(Chars)
        BY <1>1, <2>5
      <4> QED
        BY <4>1, Seqs!ConcatAt
    <3>2. 1 \in 1..Len(mark)
      BY <2>5
    <3> QED
      BY <1>0, <1>1, <2>3, <2>5, <3>1, <3>2
  <2> DEFINE whole == pathOf \o mark \o query
  <2> HIDE DEF whole
  <2>8. whole \in Seq(Chars) /\ Len(whole) = Len(target) /\ \A k \in 1..Len(target) : whole[k] = target[k]
    <3> DEFINE front == pathOf \o mark
    <3> HIDE DEF front
    <3>1. /\ front \in Seq(Chars) /\ Len(front) = p + 1 /\ DOMAIN front = 1..(p + 1)
          /\ \A k \in 1..(p + 1) : front[k] = target[k]
      <4>1. \A k \in 1..(p + 1) : k \in 1..p \/ k = p + 1
        BY <2>6
      <4>2. front \in Seq(Chars) /\ Len(front) = p + 1 /\ \A k \in 1..(p + 1) : front[k] = target[k]
        BY <2>6, <4>1 DEF front
      <4> QED
        BY <4>2
    <3>2. whole = front \o query
      BY DEF whole, front
    <3>3. /\ whole \in Seq(Chars) /\ Len(whole) = Len(front) + Len(query)
          /\ DOMAIN query = 1..Len(query)
          /\ \A k \in DOMAIN front : whole[k] = front[k]
          /\ \A k \in DOMAIN query : whole[Len(front) + k] = query[k]
      <4>1. front \in Seq(Chars) /\ query \in Seq(Chars)
        BY <1>2, <3>1
      <4> QED
        BY <3>2, <4>1, Seqs!ConcatAt
    <3>4. ASSUME NEW k \in 1..Len(target) PROVE whole[k] = target[k]
      <4>1. CASE k <= p + 1
        <5>1. k \in 1..(p + 1)
          BY <2>6, <4>1
        <5> QED
          BY <3>1, <3>3, <5>1
      <4>2. CASE ~(k <= p + 1)
        <5>1. k - (p + 1) \in 1..Len(query) /\ p + 1 + (k - (p + 1)) = k
          BY <1>0, <2>4, <2>6, <4>2
        <5>2. query # <<>>
          BY <5>1
        <5> QED
          BY <1>2, <3>1, <3>3, <5>1, <5>2
      <4> QED
        BY <4>1, <4>2
    <3> QED
      BY <2>4, <3>1, <3>3, <3>4
  <2>9. whole = target
    BY <2>8
  <2> QED
    BY <2>9 DEF whole
<1> QED
  BY <1>3, <1>4 DEF SplitsTarget, p, pathOf, query

--------------------------------------------------------------------------------
(* Decoding what a client made up.                                         *)

LEMMA Counting ==
  ASSUME NEW n \in Nat, NEW S \in SUBSET (1..n)
  PROVE  /\ U!Cardinality({}) = 0 /\ U!Cardinality(S) \in Nat
         /\ \A k \in 1..n : k \notin S => U!Cardinality(S \cup {k}) = U!Cardinality(S) + 1
<1>1. \A T : U!Cardinality(T) = Sets!Cardinality(T)
  BY DEF U!Cardinality, Sets!Cardinality
<1>2. Sets!IsFiniteSet(1..n)
  BY Sets!FS_Interval
<1>3. Sets!IsFiniteSet(S)
  BY <1>2, Sets!FS_Subset
<1>4. Sets!Cardinality(S) \in Nat
  BY <1>3, Sets!FS_CardinalityType
<1>5. \A k \in 1..n : k \notin S => Sets!Cardinality(S \cup {k}) = Sets!Cardinality(S) + 1
  BY <1>3, Sets!FS_AddElement
<1>6. Sets!Cardinality({}) = 0
  BY Sets!FS_EmptySet
<1> QED
  BY <1>1, <1>4, <1>5, <1>6

\* The escapes of the text that is decoded, and those the loop has passed.
Escapes ==
  {k \in 1..(Len(text) - 2) :
     text[k] = U!Percent /\ U!IsHex(text[k + 1]) /\ U!IsHex(text[k + 2])}

Passed == {k \in Escapes : k <= i}

\* Each passed escape has become one character, and the loop is within none.
Counted ==
  /\ text \in Seq(Chars) /\ i \in Nat /\ out \in Seq(Chars)
  /\ Len(text) >= 2 => /\ i <= Len(text)
                       /\ Len(out) = i - 2 * U!Cardinality(Passed)
                       /\ \A k \in Passed : k + 2 <= i

LEMMA CountedBegins ==
  ASSUME text \in Seq(Chars), i = 0, out = <<>>
  PROVE  Counted
<1>1. Len(text) \in Nat /\ out \in Seq(Chars) /\ Len(out) = 0
  OBVIOUS
<1>2. Passed = {}
  BY DEF Passed, Escapes
<1>3. U!Cardinality(Passed) = 0
  BY <1>2, Counting, 0 \in Nat, {} \in SUBSET (1..0)
<1> QED
  BY <1>1, <1>2, <1>3 DEF Counted

LEMMA CountedEnds == Counted => DecodesOnce
<1> SUFFICES ASSUME Counted, U!Done, Len(text) >= 2
             PROVE  Len(out) = Len(text) - 2 * U!Cardinality(Escapes)
  BY DEF DecodesOnce, U!DecodesOnce, Escapes
<1>1. i = Len(text) /\ Len(text) \in Nat
  <2>1. i \in Nat /\ Len(text) \in Nat /\ i <= Len(text) /\ i >= Len(text)
    BY DEF Counted, U!Done
  <2> QED
    BY <2>1
<1>2. Passed = Escapes
  BY <1>1 DEF Passed, Escapes
<1> QED
  BY <1>1, <1>2 DEF Counted

LEMMA CountedStep ==
  ASSUME Counted, U!Next
  PROVE  Counted'
<1> DEFINE n == Len(text)
<1>1. /\ text \in Seq(Chars) /\ n \in Nat /\ i \in Nat /\ i < n /\ out \in Seq(Chars)
      /\ Len(out) \in Nat /\ text' = text /\ \A k \in 1..n : text[k] \in Chars
  BY DEF Counted, U!Next, U!Unescape, U!Copy
<1>2. \A k \in 0..(n - 1) : U!CharAt(k) = text[k + 1]
  BY <1>1 DEF U!CharAt
<1>3. Escapes' = Escapes /\ Escapes \in SUBSET (1..n) /\ Passed \in SUBSET (1..n)
  BY <1>1 DEF Escapes, Passed
<1>4. CASE U!Unescape
  <2> DEFINE c == U!Hex(U!CharAt(i + 1)) * 16 + U!Hex(U!CharAt(i + 2))
  <2>1. i' = i + 3 /\ out' = Append(out, c) /\ U!EscapeHere
    BY <1>4 DEF U!Unescape
  <2>2. c \in Chars
    <3>1. \A d : U!Hex(d) \in 0..15
      BY DEF U!Hex, U!Digits
    <3>2. \A x, y \in 0..15 : x * 16 + y \in 0..255
      OBVIOUS
    <3> QED
      BY <3>1, <3>2 DEF Chars
  <2> HIDE DEF c
  <2>3. out' \in Seq(Chars) /\ Len(out') = Len(out) + 1
    BY <1>1, <2>1, <2>2
  <2>4. CASE n >= 2
    <3>1. i < n - 2
      BY <1>1, <2>1, <2>4 DEF U!EscapeHere, U!EnoughSpace
    <3>2. i \in 0..(n - 1) /\ i + 1 \in 0..(n - 1) /\ i + 2 \in 0..(n - 1) /\ i + 1 \in 1..(n - 2)
          /\ (i + 1) + 1 = i + 2 /\ (i + 1) + 2 = i + 3 /\ (i + 2) + 1 = i + 3 /\ i + 1 \in 1..n
      BY <1>1, <3>1
    <3>3. text[i + 1] = U!Percent /\ U!IsHex(text[i + 2]) /\ U!IsHex(text[i + 3])
      BY <1>2, <2>1, <3>2 DEF U!EscapeHere
    <3>4. i + 1 \in Escapes /\ i + 1 \notin Passed
      BY <1>1, <3>2, <3>3 DEF Escapes, Passed
    <3>5. i + 2 \notin Escapes /\ i + 3 \notin Escapes
      <4>1. ~U!IsHex(U!Percent)
        BY DEF U!IsHex, U!Percent, U!Digits
      <4>2. text[i + 2] # U!Percent /\ text[i + 3] # U!Percent
        BY <3>3, <4>1
      <4> QED
        BY <4>2 DEF Escapes
    <3>6. Passed' = Passed \cup {i + 1}
      <4>1. Passed' = {k \in Escapes : k <= i + 3}
        BY <1>3, <2>1 DEF Passed
      <4>2. ASSUME NEW k \in Escapes
            PROVE  k <= i + 3 <=> k <= i \/ k = i + 1
        <5>1. k # i + 2 /\ k # i + 3 /\ k \in Nat
          BY <1>3, <3>5
        <5> QED
          BY <1>1, <5>1
      <4> QED
        BY <3>4, <4>1, <4>2 DEF Passed
    <3>7. U!Cardinality(Passed') = U!Cardinality(Passed) + 1 /\ U!Cardinality(Passed) \in Nat
      BY <1>1, <1>3, <3>2, <3>4, <3>6, Counting
    <3>8. Len(out') = i' - 2 * U!Cardinality(Passed')
      <4> DEFINE d == U!Cardinality(Passed)
      <4>1. Len(out) = i - 2 * d /\ d \in Nat
        BY <2>4, <3>7 DEF Counted
      <4> HIDE DEF d
      <4>2. Len(out) + 1 = (i + 3) - 2 * (d + 1)
        BY <1>1, <4>1
      <4> QED
        BY <2>1, <2>3, <3>7, <4>2 DEF d
    <3>9. \A k \in Passed' : k + 2 <= i'
      <4>1. \A k \in Passed : k + 2 <= i /\ k \in Nat
        BY <1>3, <2>4 DEF Counted
      <4> QED
        BY <1>1, <2>1, <3>6, <4>1
    <3> QED
      BY <1>1, <2>1, <2>3, <3>1, <3>8, <3>9 DEF Counted
  <2>5. CASE ~(n >= 2)
    BY <1>1, <2>1, <2>3, <2>5 DEF Counted
  <2> QED
    BY <2>4, <2>5
<1>5. CASE U!Copy
  <2>1. i' = i + 1 /\ out' = Append(out, U!ReadChar(U!CharAt(i))) /\ ~U!EscapeHere
    BY <1>5 DEF U!Copy
  <2>2. U!ReadChar(U!CharAt(i)) \in Chars
    <3>1. i \in 0..(n - 1) /\ i + 1 \in 1..n
      BY <1>1
    <3>2. U!CharAt(i) \in Chars
      BY <1>1, <1>2, <3>1
    <3>3. U!Space \in Chars
      BY DEF U!Space, Chars
    <3> QED
      BY <3>2, <3>3 DEF U!ReadChar
  <2>3. out' \in Seq(Chars) /\ Len(out') = Len(out) + 1
    BY <1>1, <2>1, <2>2
  <2>4. CASE n >= 2
    <3>1. i + 1 \notin Escapes
      <4> SUFFICES ASSUME i + 1 \in Escapes PROVE FALSE
        OBVIOUS
      <4>1. /\ i + 1 \in 1..(n - 2) /\ text[i + 1] = U!Percent
            /\ U!IsHex(text[(i + 1) + 1]) /\ U!IsHex(text[(i + 1) + 2])
        BY DEF Escapes
      <4>2. /\ i \in 0..(n - 1) /\ i + 1 \in 0..(n - 1) /\ i + 2 \in 0..(n - 1) /\ i < n - 2
            /\ (i + 1) + 2 = (i + 2) + 1
        BY <1>1, <4>1
      <4>3. U!CharAt(i) = U!Percent /\ U!IsHex(U!CharAt(i + 1)) /\ U!IsHex(U!CharAt(i + 2))
        BY <1>2, <4>1, <4>2
      <4> QED
        BY <2>1, <4>2, <4>3 DEF U!EscapeHere, U!EnoughSpace
    <3>2. Passed' = Passed
      <4>1. Passed' = {k \in Escapes : k <= i + 1}
        BY <1>3, <2>1 DEF Passed
      <4>2. \A k \in Escapes : k <= i + 1 <=> k <= i
        BY <1>1, <1>3, <3>1
      <4> QED
        BY <4>1, <4>2 DEF Passed
    <3>3. Len(out') = i' - 2 * U!Cardinality(Passed')
      <4> DEFINE d == U!Cardinality(Passed)
      <4>1. Len(out) = i - 2 * d /\ d \in Nat
        BY <1>1, <1>3, <2>4, Counting DEF Counted
      <4> HIDE DEF d
      <4>2. Len(out) + 1 = (i + 1) - 2 * d
        BY <1>1, <4>1
      <4>3. Passed' = Passed => U!Cardinality(Passed') = U!Cardinality(Passed)
        BY Zenon
      <4> QED
        BY <2>1, <2>3, <3>2, <4>2, <4>3 DEF d
    <3>4. \A k \in Passed' : k + 2 <= i'
      <4>1. \A k \in Passed : k + 2 <= i /\ k \in Nat
        BY <1>3, <2>4 DEF Counted
      <4> QED
        BY <1>1, <2>1, <3>2, <4>1
    <3> QED
      BY <1>1, <2>1, <2>3, <3>3, <3>4 DEF Counted
  <2>5. CASE ~(n >= 2)
    BY <1>1, <2>1, <2>3, <2>5 DEF Counted
  <2> QED
    BY <2>4, <2>5
<1> QED
  BY <1>4, <1>5 DEF U!Next

--------------------------------------------------------------------------------
(* Writing a query.                                                        *)

\* The parts of which string() writes one after the other.
AllParts == [name : Names, value : {<<>>} \cup {<<v>> : v \in Values}]

LEMMA PartsOfParam ==
  ASSUME NEW param \in Param
  PROVE  /\ Parts(param) \in Seq(AllParts)
         /\ param.name \in Names /\ param.values \in Seq(Values) /\ Len(param.values) \in Nat
         /\ param.values = <<>> =>
              Len(Parts(param)) = 1 /\ Parts(param)[1] = Part(param.name, <<>>)
         /\ param.values # <<>> =>
              /\ Len(Parts(param)) = Len(param.values) /\ Len(param.values) >= 1
              /\ \A k \in 1..Len(param.values) :
                   Parts(param)[k] = Part(param.name, <<param.values[k]>>)
<1>1. param.name \in Names /\ param.values \in Seq(Values) /\ Len(param.values) \in Nat
  BY DEF Param
<1>2. CASE param.values = <<>>
  <2>1. Parts(param) = <<Part(param.name, <<>>)>>
    BY <1>2 DEF Parts
  <2>2. Part(param.name, <<>>) \in AllParts
    BY <1>1 DEF Part, AllParts
  <2> QED
    BY <1>1, <1>2, <2>1, <2>2
<1>3. CASE param.values # <<>>
  <2> DEFINE n == Len(param.values)
             p == Parts(param)
  <2>1. p = [k \in DOMAIN param.values |-> Part(param.name, <<param.values[k]>>)]
    BY <1>3 DEF Parts
  <2>2. DOMAIN param.values = 1..n /\ n \in Nat /\ n >= 1 /\ \A k \in 1..n : param.values[k] \in Values
    BY <1>1, <1>3
  <2>3. \A k \in 1..n : Part(param.name, <<param.values[k]>>) \in AllParts
    BY <1>1, <2>2 DEF Part, AllParts
  <2> HIDE DEF n, p
  <2>4. p \in [1..n -> AllParts] /\ \A k \in 1..n : p[k] = Part(param.name, <<param.values[k]>>)
    BY <2>1, <2>2, <2>3
  <2>5. p \in Seq(AllParts) /\ Len(p) = n
    BY <2>2, <2>4
  <2> QED
    BY <1>1, <1>3, <2>2, <2>4, <2>5 DEF n, p
<1> QED
  BY <1>2, <1>3

\* The parts of each parameter, and those of all of them.
Grouped(list) == [k \in DOMAIN list |-> Parts(list[k])]

LEMMA GroupedParts ==
  ASSUME NEW list \in Seq(Param)
  PROVE  /\ Grouped(list) \in Seq(Seq(AllParts)) /\ Len(Grouped(list)) = Len(list)
         /\ \A k \in 1..Len(list) : Grouped(list)[k] = Parts(list[k])
         /\ FlatList(list) = Seqs!FlattenSeq(Grouped(list)) /\ FlatList(list) \in Seq(AllParts)
<1>1. Len(list) \in Nat /\ DOMAIN list = 1..Len(list) /\ \A k \in 1..Len(list) : list[k] \in Param
  OBVIOUS
<1>2. \A k \in 1..Len(list) : Parts(list[k]) \in Seq(AllParts)
  BY <1>1, PartsOfParam
<1> DEFINE g == Grouped(list)
<1>3. g \in [1..Len(list) -> Seq(AllParts)] /\ \A k \in 1..Len(list) : g[k] = Parts(list[k])
  BY <1>1, <1>2 DEF Grouped
<1>4. FlatList(list) = Seqs!FlattenSeq(g)
  BY SameFlatten DEF FlatList, Grouped
<1> HIDE DEF g
<1>5. g \in Seq(Seq(AllParts)) /\ Len(g) = Len(list)
  BY <1>1, <1>3
<1>6. Seqs!FlattenSeq(g) \in Seq(AllParts)
  BY <1>5, Seqs!FlattenType
<1> QED
  BY <1>3, <1>4, <1>5, <1>6 DEF g

\* The texts of a part, encoded.
NameOf(part) == U!Encode(NameText[part.name], TRUE)
ValueOf(part) == U!Encode(ValueText[part.value[1]], TRUE)

LEMMA PartTexts ==
  ASSUME NEW part \in AllParts
  PROVE  /\ NameText[part.name] \in Seq(Chars) /\ NameOf(part) \in Seq(Chars \ Marks)
         /\ part.value # <<>> => /\ ValueText[part.value[1]] \in Seq(Chars)
                                 /\ ValueOf(part) \in Seq(Chars \ Marks)
                                 /\ PartText(part) = NameOf(part) \o (<<Equals>> \o ValueOf(part))
         /\ part.value = <<>> => PartText(part) = NameOf(part)
         /\ PartText(part) \in Seq(Chars \ {U!Question, U!Hash})
<1>1. NameText[part.name] \in Seq(Chars) /\ part.name \in Names
  BY LinkAssumption DEF AllParts, Chars
<1>2. NameOf(part) \in Seq(Chars \ Marks)
  BY <1>1, EncodedPieces DEF NameOf
<1> DEFINE Plain == Chars \ {U!Question, U!Hash}
<1>3. Chars \ Marks \subseteq Plain
  BY DEF Marks
<1>4. Equals \in Plain
  BY DEF Equals, U!Question, U!Hash, Chars
<1>5. CASE part.value = <<>>
  <2>1. PartText(part) = NameOf(part) \o <<>>
    BY <1>5 DEF PartText, NameOf
  <2>2. NameOf(part) \o <<>> = NameOf(part)
    BY <1>2
  <2>3. NameOf(part) \in Seq(Plain)
    <3> HIDE DEF Plain
    <3> QED
      BY <1>2, <1>3
  <2> QED
    BY <1>1, <1>2, <1>5, <2>1, <2>2, <2>3
<1>6. CASE part.value # <<>>
  <2>1. PICK v \in Values : part.value = <<v>>
    BY <1>6 DEF AllParts
  <2>2. ValueText[part.value[1]] \in Seq(Chars)
    BY <2>1, LinkAssumption DEF Chars
  <2>3. ValueOf(part) \in Seq(Chars \ Marks)
    BY <2>2, EncodedPieces DEF ValueOf
  <2>4. PartText(part) = NameOf(part) \o (<<Equals>> \o ValueOf(part))
    BY <1>6 DEF PartText, NameOf, ValueOf
  <2>5. NameOf(part) \o (<<Equals>> \o ValueOf(part)) \in Seq(Plain)
    <3> DEFINE a == NameOf(part)
               b == ValueOf(part)
    <3>1. a \in Seq(Chars \ Marks) /\ b \in Seq(Chars \ Marks)
      BY <1>2, <2>3
    <3> HIDE DEF a, b, Plain
    <3>2. a \in Seq(Plain) /\ b \in Seq(Plain) /\ <<Equals>> \in Seq(Plain)
      BY <1>3, <1>4, <3>1
    <3>3. a \o (<<Equals>> \o b) \in Seq(Plain)
      BY <3>2
    <3> QED
      BY <3>3 DEF a, b
  <2> QED
    BY <1>1, <1>2, <1>6, <2>2, <2>3, <2>4, <2>5
<1> QED
  BY <1>5, <1>6

\* The parts as they are put behind one another.
Sep(k) == IF k = 1 THEN <<>> ELSE <<Ampersand>>
Joined(list) == [k \in DOMAIN FlatList(list) |-> Sep(k) \o PartText(FlatList(list)[k])]

LEMMA JoinedParts ==
  ASSUME NEW list \in Seq(Param)
  PROVE  LET Plain == Chars \ {U!Question, U!Hash}
             n == Len(FlatList(list))
         IN  /\ n \in Nat /\ Joined(list) \in Seq(Seq(Plain)) /\ Len(Joined(list)) = n
             /\ \A k \in 1..n : /\ FlatList(list)[k] \in AllParts
                                /\ PartText(FlatList(list)[k]) \in Seq(Plain)
                                /\ Joined(list)[k] = Sep(k) \o PartText(FlatList(list)[k])
             /\ Written(list) = Seqs!FlattenSeq(Joined(list)) /\ Written(list) \in Seq(Plain)
<1> DEFINE Plain == Chars \ {U!Question, U!Hash}
           f == FlatList(list)
           n == Len(f)
           j == Joined(list)
<1>1. f \in Seq(AllParts) /\ n \in Nat /\ DOMAIN f = 1..n /\ \A k \in 1..n : f[k] \in AllParts
  <2>1. f \in Seq(AllParts)
    BY GroupedParts
  <2> HIDE DEF f
  <2> QED
    BY <2>1
<1>2. \A k \in 1..n : PartText(f[k]) \in Seq(Plain)
  BY <1>1, PartTexts
<1>3. Ampersand \in Plain
  BY DEF Ampersand, U!Question, U!Hash, Chars
<1>4. Written(list) = Seqs!FlattenSeq(j)
  BY SameFlatten DEF Written, Joined, Sep
<1>5. j = [k \in 1..n |-> Sep(k) \o PartText(f[k])]
  BY <1>1 DEF Joined
<1> HIDE DEF Plain, f, n, j
<1>6. ASSUME NEW k \in 1..n PROVE Sep(k) \o PartText(f[k]) \in Seq(Plain)
  <2>1. Sep(k) \in Seq(Plain)
    BY <1>3 DEF Sep
  <2> QED
    BY <1>2, <2>1
<1>7. j \in [1..n -> Seq(Plain)] /\ \A k \in 1..n : j[k] = Sep(k) \o PartText(f[k])
  BY <1>5, <1>6
<1>8. j \in Seq(Seq(Plain)) /\ Len(j) = n
  BY <1>1, <1>7
<1>9. Written(list) \in Seq(Plain)
  BY <1>4, <1>8, Seqs!FlattenType
<1> QED
  BY <1>1, <1>2, <1>4, <1>7, <1>8, <1>9 DEF Plain, f, n, j

--------------------------------------------------------------------------------
(* A link and the parts that a request finds in it.                        *)

LinkText(list, raw) == U!Encode(raw, FALSE) \o <<U!Question>> \o Written(list)

LEMMA LinkIs ==
  ASSUME NEW list \in Seq(Param), NEW raw \in Seq(Chars)
  PROVE  LET e == U!Encode(raw, FALSE)
             w == Written(list)
             t == LinkText(list, raw)
         IN  /\ t \in Seq(Chars) /\ Len(e) \in Nat /\ Len(w) \in Nat
             /\ Len(t) = Len(e) + 1 + Len(w) /\ U!PathOf(t) = e
             /\ QueryStart(t) = Len(e) + 2 /\ QueryEnd(t) = Len(e) + 2 + Len(w)
             /\ \A k \in 1..Len(w) : t[Len(e) + 1 + k] = w[k]
<1> DEFINE e == U!Encode(raw, FALSE)
           w == Written(list)
           t == LinkText(list, raw)
           Plain == Chars \ {U!Question, U!Hash}
           front == e \o <<U!Question>>
<1>1. e \in Seq(Plain) /\ w \in Seq(Plain) /\ Plain \subseteq Chars /\ U!Question \in Chars
  <2>1. e \in Seq(Chars \ Marks)
    BY EncodedPieces
  <2>2. Chars \ Marks \subseteq Plain
    BY DEF Marks
  <2>3. w \in Seq(Plain)
    BY JoinedParts
  <2>4. U!Question \in Chars
    BY DEF U!Question, Chars
  <2> HIDE DEF e, w, Plain
  <2>5. e \in Seq(Plain)
    BY <2>1, <2>2
  <2> QED
    BY <2>3, <2>4, <2>5 DEF Plain
<1>2. t = front \o w
  BY DEF LinkText
<1>3. \A c \in Plain : c # U!Question /\ c # U!Hash
  OBVIOUS
<1> HIDE DEF e, w, t, Plain, front
<1>4. /\ e \in Seq(Chars) /\ w \in Seq(Chars) /\ Len(e) \in Nat /\ Len(w) \in Nat
      /\ \A k \in 1..Len(e) : e[k] \in Plain
      /\ \A k \in 1..Len(w) : w[k] \in Plain
  BY <1>1
<1>5. /\ front \in Seq(Chars) /\ Len(front) = Len(e) + 1 /\ front[Len(e) + 1] = U!Question
      /\ \A k \in 1..Len(e) : front[k] = e[k]
  <2> DEFINE mark == <<U!Question>>
  <2>1. mark \in Seq(Chars) /\ Len(mark) = 1 /\ mark[1] = U!Question /\ front = e \o mark
    BY <1>1 DEF front
  <2> HIDE DEF mark
  <2>2. /\ e \o mark \in Seq(Chars) /\ Len(e \o mark) = Len(e) + Len(mark)
        /\ DOMAIN e = 1..Len(e) /\ DOMAIN mark = 1..Len(mark)
        /\ \A k \in DOMAIN e : (e \o mark)[k] = e[k]
        /\ \A k \in DOMAIN mark : (e \o mark)[Len(e) + k] = mark[k]
    <3>1. e \in Seq(Chars) /\ mark \in Seq(Chars)
      BY <1>4, <2>1
    <3>2. DOMAIN mark = 1..Len(mark)
      BY <2>1
    <3> QED
      BY <3>1, <3>2, Seqs!ConcatAt
  <2> QED
    BY <1>4, <2>1, <2>2
<1>6. /\ t \in Seq(Chars) /\ Len(t) = Len(e) + 1 + Len(w)
      /\ \A k \in 1..Len(e) : t[k] = e[k]
      /\ t[Len(e) + 1] = U!Question
      /\ \A k \in 1..Len(w) : t[Len(e) + 1 + k] = w[k]
  <2>1. /\ front \o w \in Seq(Chars) /\ Len(front \o w) = Len(front) + Len(w)
        /\ DOMAIN front = 1..Len(front) /\ DOMAIN w = 1..Len(w)
        /\ \A k \in DOMAIN front : (front \o w)[k] = front[k]
        /\ \A k \in DOMAIN w : (front \o w)[Len(front) + k] = w[k]
    <3>1. front \in Seq(Chars) /\ w \in Seq(Chars)
      BY <1>4, <1>5
    <3>2. DOMAIN w = 1..Len(w)
      BY <1>4
    <3> QED
      BY <3>1, <3>2, Seqs!ConcatAt
  <2>2. Len(e) + 1 \in 1..Len(front) /\ \A k \in 1..Len(e) : k \in 1..Len(front)
    BY <1>4, <1>5
  <2> QED
    BY <1>2, <1>5, <2>1, <2>2
<1> DEFINE p == U!PathEnd(t)
<1>7. p = Len(e)
  <2>1. /\ p \in 0..Len(t)
        /\ p < Len(t) => t[p + 1] \in {U!Question, U!Hash}
        /\ \A k \in 1..p : t[k] \notin {U!Question, U!Hash}
    BY <1>6, PathEnds
  <2> HIDE DEF p
  <2>2. ~(p >= Len(e) + 1)
    <3> SUFFICES ASSUME p >= Len(e) + 1 PROVE FALSE
      OBVIOUS
    <3>1. Len(e) + 1 \in 1..p
      BY <1>4, <2>1
    <3> QED
      BY <1>6, <2>1, <3>1
  <2>3. ~(p < Len(e))
    <3> SUFFICES ASSUME p < Len(e) PROVE FALSE
      OBVIOUS
    <3>1. p + 1 \in 1..Len(e) /\ p < Len(t)
      BY <1>4, <1>6, <2>1
    <3>2. t[p + 1] \in Plain
      BY <1>4, <1>6, <3>1
    <3> QED
      BY <1>3, <2>1, <3>1, <3>2
  <2> QED
    BY <1>4, <2>1, <2>2, <2>3
<1>8. U!PathOf(t) = e
  <2>1. /\ U!PathOf(t) \in Seq(Chars) /\ Len(U!PathOf(t)) = p
        /\ \A k \in 1..p : U!PathOf(t)[k] = t[k]
    BY <1>6, PathEnds
  <2> HIDE DEF p
  <2> QED
    BY <1>4, <1>6, <1>7, <2>1
<1> DEFINE query == U!QueryOf(t)
<1>9. query = w
  <2>1. /\ query \in Seq(Chars)
        /\ query # <<>> => \A k \in 1..Len(query) : query[k] = t[p + 1 + k]
        /\ p < Len(t) /\ t[p + 1] = U!Question /\ (\A k \in (p + 2)..Len(t) : t[k] # U!Hash)
             => p + 1 + Len(query) = Len(t)
    BY <1>6, QueryLies
  <2> HIDE DEF p, query
  <2>2. ASSUME NEW k \in (p + 2)..Len(t) PROVE t[k] # U!Hash
    <3>1. k - (Len(e) + 1) \in 1..Len(w) /\ Len(e) + 1 + (k - (Len(e) + 1)) = k
      BY <1>4, <1>6, <1>7
    <3>2. t[k] \in Plain
      BY <1>4, <1>6, <3>1
    <3> QED
      BY <1>3, <3>2
  <2>3. p < Len(t)
    BY <1>4, <1>6, <1>7
  <2>4. p + 1 + Len(query) = Len(t)
    BY <1>6, <1>7, <2>1, <2>2, <2>3
  <2>5. Len(query) = Len(w) /\ Len(query) \in Nat
    BY <1>4, <1>6, <1>7, <2>1, <2>4
  <2>6. \A k \in 1..Len(w) : query[k] = w[k]
    BY <1>6, <1>7, <2>1, <2>5
  <2> QED
    BY <1>4, <2>1, <2>5, <2>6
<1>10. QueryStart(t) = Len(e) + 2 /\ QueryEnd(t) = Len(e) + 2 + Len(w)
  <2>1. w # <<>> => w[1] # U!Question
    <3> SUFFICES ASSUME w # <<>> PROVE w[1] # U!Question
      OBVIOUS
    <3>1. 1 \in 1..Len(w)
      BY <1>4
    <3> QED
      BY <1>3, <1>4, <3>1
  <2> HIDE DEF query
  <2> QED
    BY <1>8, <1>9, <2>1 DEF QueryStart, QueryEnd, query
<1> QED
  BY <1>4, <1>6, <1>8, <1>10 DEF e, w, t

\* look_for finds what comes first.
LEMMA LookForBounds ==
  ASSUME NEW marks, NEW from \in Nat, QueryEnd(target) \in Nat, from <= QueryEnd(target)
  PROVE  LET stop == LookFor(marks, from)
         IN  /\ stop \in from..QueryEnd(target)
             /\ stop < QueryEnd(target) => target[stop] \in marks
             /\ \A k \in from..(stop - 1) : target[k] \notin marks
<1> DEFINE end == QueryEnd(target)
           found == {k \in from..(end - 1) : target[k] \in marks}
           stop == LookFor(marks, from)
<1>1. stop = IF found = {} THEN end ELSE Lists!Min(found)
  BY DEF LookFor
<1>2. CASE found = {}
  <2>1. stop = end /\ \A k \in from..(end - 1) : target[k] \notin marks
    BY <1>1, <1>2
  <2> HIDE DEF stop, found, end
  <2>2. end \in Nat /\ from <= end
    BY DEF end
  <2>3. stop \in from..end /\ ~(stop < end)
    BY <2>1, <2>2
  <2> QED
    BY <2>1, <2>3 DEF stop, end
<1>3. CASE found # {}
  <2>1. found \in SUBSET Nat
    OBVIOUS
  <2>2. Lists!Min(found) \in found /\ \A k \in found : Lists!Min(found) <= k
    BY <1>3, <2>1, Least
  <2>3. PICK least \in found : stop = least /\ \A k \in found : least <= k
    BY <1>1, <1>3, <2>2
  <2>4. least \in from..(end - 1) /\ target[least] \in marks
    BY <2>3
  <2>5. \A k \in from..(least - 1) : k \in from..(end - 1) /\ ~(least <= k)
    BY <2>4
  <2>6. \A k \in from..(least - 1) : target[k] \notin marks
    BY <2>3, <2>5
  <2> HIDE DEF stop, found, end
  <2>7. least \in from..end
    BY <2>4 DEF end
  <2> QED
    BY <2>3, <2>4, <2>6, <2>7 DEF stop, end
<1> QED
  BY <1>2, <1>3

LEMMA LookForFinds ==
  ASSUME NEW marks, NEW from \in Nat, NEW stop \in Nat, QueryEnd(target) \in Nat,
         from <= stop, stop <= QueryEnd(target),
         \A k \in from..(stop - 1) : target[k] \notin marks,
         stop = QueryEnd(target) \/ target[stop] \in marks
  PROVE  LookFor(marks, from) = stop
<1> DEFINE found == LookFor(marks, from)
           end == QueryEnd(target)
<1>1. /\ found \in from..end
      /\ found < end => target[found] \in marks
      /\ \A k \in from..(found - 1) : target[k] \notin marks
  <2>1. from <= end
    BY DEF end
  <2> QED
    BY <2>1, LookForBounds
<1>2. end \in Nat /\ stop <= end /\ (stop = end \/ target[stop] \in marks)
  OBVIOUS
<1> HIDE DEF found, end
<1>3. ~(found < stop)
  <2> SUFFICES ASSUME found < stop PROVE FALSE
    OBVIOUS
  <2>1. found \in from..(stop - 1) /\ found < end
    BY <1>1, <1>2
  <2> QED
    BY <1>1, <2>1
<1>4. ~(stop < found)
  <2> SUFFICES ASSUME stop < found PROVE FALSE
    OBVIOUS
  <2>1. stop \in from..(found - 1) /\ stop # end
    BY <1>1, <1>2
  <2> QED
    BY <1>1, <1>2, <2>1
<1> QED
  BY <1>1, <1>2, <1>3, <1>4 DEF found


--------------------------------------------------------------------------------
(* Where a request is in its target.                                       *)

LEMMA TargetBounds ==
  ASSUME NEW t \in Seq(Chars)
  PROVE  /\ Len(t) \in Nat /\ QueryStart(t) \in Nat /\ QueryEnd(t) \in Nat
         /\ 1 <= QueryStart(t) /\ QueryStart(t) <= QueryEnd(t)
         /\ QueryStart(t) < QueryEnd(t) => QueryEnd(t) <= Len(t) + 1
<1> DEFINE p == U!PathEnd(t)
           pathOf == U!PathOf(t)
           query == U!QueryOf(t)
<1>1. Len(t) \in Nat /\ p \in 0..Len(t) /\ Len(pathOf) = p
  <2>1. p \in 0..Len(t) /\ Len(pathOf) = p
    BY PathEnds
  <2> QED
    BY <2>1
<1>2. query \in Seq(Chars) /\ (query # <<>> => p + 1 + Len(query) <= Len(t))
  BY QueryLies
<1>3. QueryEnd(t) = Len(pathOf) + 2 + Len(query)
  BY DEF QueryEnd
<1>4. /\ query = <<>> => QueryStart(t) = Len(pathOf) + 2
      /\ QueryStart(t) \in {Len(pathOf) + 2, Len(pathOf) + 3}
  BY DEF QueryStart
<1> HIDE DEF p, pathOf, query
<1>5. Len(query) \in Nat /\ (query # <<>> <=> Len(query) # 0)
  BY <1>2
<1> QED
  BY <1>1, <1>2, <1>3, <1>4, <1>5

LEMMA CountedAnew ==
  ASSUME text' \in Seq(Chars), i' = 0, out' = <<>>
  PROVE  Counted'
<1>1. Len(text') \in Nat /\ out' \in Seq(Chars) /\ Len(out') = 0
  OBVIOUS
<1>2. Passed' = {}
  BY DEF Passed, Escapes
<1>3. U!Cardinality(Passed') = 0
  BY <1>2, Counting, 0 \in Nat, {} \in SUBSET (1..0)
<1> QED
  BY <1>1, <1>2, <1>3 DEF Counted

\* The decoded characters are those of the target, and what is left to read of
\* the query lies in it.
LinkTyped ==
  /\ target \in Seq(Chars)
  /\ Counted
  /\ phase \in {"name", "value"} =>
       /\ it \in Nat /\ 1 <= it /\ it <= QueryEnd(target)
       /\ QueryEnd(target) <= Len(target) + 1

LEMMA LinkStarts == LinkInit => LinkTyped
<1> SUFFICES ASSUME LinkInit PROVE LinkTyped
  OBVIOUS
<1>1. target \in Seq(Chars) /\ text \in Seq(Chars)
  <2>1. CASE phase = "build"
    BY <2>1 DEF LinkInit
  <2>2. CASE phase # "build"
    <3>1. target \in Seq(Chars) /\ text = U!PathOf(target)
      BY <2>2, LinkAssumption DEF LinkInit, Chars
    <3> QED
      BY <3>1, PathEnds
  <2> QED
    BY <2>1, <2>2
<1>2. i = 0 /\ out = <<>> /\ phase \notin {"name", "value"}
  BY DEF LinkInit
<1>3. Counted
  BY <1>1, <1>2, CountedBegins
<1> QED
  BY <1>1, <1>2, <1>3 DEF LinkTyped

LEMMA PieceOf ==
  ASSUME NEW t \in Seq(Chars), NEW after, NEW first \in Nat, NEW end \in Nat, NEW inForm,
         1 <= first, first <= end, end <= Len(t) + 1, Decode(t, after, first, end, inForm)
  PROVE  Counted'
<1>1. first \in 1..(Len(t) + 1) /\ end - 1 \in (first - 1)..Len(t)
  <2>1. Len(t) \in Nat
    OBVIOUS
  <2> QED
    BY <2>1
<1>2. SubSeq(t, first, end - 1) \in Seq(Chars)
  BY <1>1, Seqs!SubSeqAt
<1>3. text' \in Seq(Chars) /\ i' = 0 /\ out' = <<>>
  BY <1>2 DEF Decode
<1> QED
  BY <1>3, CountedAnew

LEMMA LinkStays ==
  ASSUME Counted, UNCHANGED loop
  PROVE  Counted'
BY DEF Counted, Passed, Escapes, loop

LEMMA NameAtTyped ==
  ASSUME LinkTyped, NEW at \in Nat, 1 <= at, target' = target, NameAt(at),
         at < QueryEnd(target) => QueryEnd(target) <= Len(target) + 1
  PROVE  LinkTyped'
<1>1. target \in Seq(Chars) /\ QueryEnd(target) \in Nat /\ Len(target) \in Nat /\ Counted
  BY TargetBounds DEF LinkTyped
<1>2. CASE at < QueryEnd(target)
  <2> DEFINE stop == LookFor({Equals, Ampersand}, at)
  <2>1. phase' = "name" /\ it' = at /\ Decode(target, memory, at, stop, TRUE)
    BY <1>2 DEF NameAt
  <2>2. stop \in at..QueryEnd(target)
    BY <1>1, <1>2, LookForBounds
  <2> HIDE DEF stop
  <2>3. Counted'
    <3>1. stop \in Nat /\ at <= stop /\ stop <= Len(target) + 1
      BY <1>1, <1>2, <2>2
    <3> QED
      BY <1>1, <2>1, <3>1, PieceOf
  <2> QED
    BY <1>1, <1>2, <2>1, <2>3 DEF LinkTyped
<1>3. CASE ~(at < QueryEnd(target))
  <2>1. phase' = "done" /\ UNCHANGED loop
    BY <1>3 DEF NameAt
  <2>2. Counted'
    BY <1>1, <2>1, LinkStays
  <2> QED
    BY <1>1, <2>1, <2>2 DEF LinkTyped
<1> QED
  BY <1>2, <1>3

LEMMA PartEndsTyped ==
  ASSUME LinkTyped, NEW stop \in Nat, 1 <= stop, target' = target, PartEnds(stop),
         QueryEnd(target) <= Len(target) + 1
  PROVE  LinkTyped'
<1>1. CASE Is(Ampersand, stop)
  <2>1. NameAt(stop + 1) /\ stop + 1 \in Nat /\ 1 <= stop + 1
    BY <1>1 DEF PartEnds
  <2> QED
    BY <2>1, NameAtTyped
<1>2. CASE ~Is(Ampersand, stop)
  <2>1. phase' = "done" /\ UNCHANGED loop /\ Counted /\ target \in Seq(Chars)
    BY <1>2 DEF PartEnds, LinkTyped
  <2>2. Counted'
    BY <2>1, LinkStays
  <2> QED
    BY <2>1, <2>2 DEF LinkTyped
<1> QED
  BY <1>1, <1>2

LEMMA LinkTypedStep ==
  ASSUME LinkTyped, TypeOK, [LinkNext]_linkVars
  PROVE  LinkTyped'
<1>0. target \in Seq(Chars) /\ Len(target) \in Nat /\ QueryEnd(target) \in Nat /\ Counted
  BY TargetBounds DEF LinkTyped
<1>1. CASE Build
  BY <1>0, <1>1, LinkStays DEF LinkTyped, Build
<1>2. CASE Send
  <2>1. PICK raw \in Paths, after \in Behind : Receive(LinkTo(raw), after)
    BY <1>2 DEF Send
  <2> DEFINE t == LinkTo(raw)
  <2>2. t \in Seq(Chars)
    <3>1. raw \in Seq(Chars) /\ values \in Seq(Param)
      BY LinkAssumption DEF TypeOK, Chars
    <3>2. t = LinkText(values, raw)
      BY DEF LinkTo, LinkText
    <3>3. LinkText(values, raw) \in Seq(Chars)
      BY <3>1, LinkIs
    <3> QED
      BY <3>2, <3>3
  <2> HIDE DEF t
  <2>3. /\ phase' = "path" /\ target' = t
        /\ Decode(t, after, 1, Len(U!PathOf(t)) + 1, FALSE)
    BY <2>1 DEF Receive, t
  <2>4. Len(U!PathOf(t)) \in 0..Len(t) /\ Len(t) \in Nat
    BY <2>2, PathEnds
  <2>5. Counted'
    <3>1. /\ Len(U!PathOf(t)) + 1 \in Nat /\ 1 <= Len(U!PathOf(t)) + 1
          /\ Len(U!PathOf(t)) + 1 <= Len(t) + 1 /\ 1 \in Nat /\ 1 <= 1
      BY <2>4
    <3> QED
      BY <2>2, <2>3, <3>1, PieceOf
  <2> QED
    BY <2>2, <2>3, <2>5 DEF LinkTyped
<1>3. CASE DecodeStep
  <2>1. UNCHANGED <<phase, target, it>> /\ U!Next
    BY <1>3 DEF DecodeStep
  <2>2. Counted'
    BY <1>0, <2>1, CountedStep
  <2> QED
    BY <2>1, <2>2 DEF LinkTyped
<1>4. CASE PathDone
  <2>1. NameAt(QueryStart(target)) /\ target' = target
    BY <1>4 DEF PathDone
  <2> QED
    BY <1>0, <2>1, TargetBounds, NameAtTyped
<1>5. CASE NameDone
  <2> DEFINE stop == LookFor({Equals, Ampersand}, it)
  <2>1. /\ phase = "name" /\ target' = target
        /\ IF Is(Equals, stop)
             THEN /\ phase' = "value" /\ it' = stop + 1
                  /\ Decode(target, memory, stop + 1, LookFor({Ampersand}, stop + 1), TRUE)
             ELSE PartEnds(stop)
    BY <1>5 DEF NameDone
  <2>2. it \in Nat /\ 1 <= it /\ it <= QueryEnd(target) /\ QueryEnd(target) <= Len(target) + 1
    BY <2>1 DEF LinkTyped
  <2>3. stop \in it..QueryEnd(target)
    BY <1>0, <2>2, LookForBounds
  <2> HIDE DEF stop
  <2>4. stop \in Nat /\ 1 <= stop
    BY <1>0, <2>2, <2>3
  <2>5. CASE Is(Equals, stop)
    <3> DEFINE end == LookFor({Ampersand}, stop + 1)
    <3>1. stop + 1 <= QueryEnd(target) /\ stop + 1 \in Nat /\ 1 <= stop + 1
      BY <1>0, <2>4, <2>5 DEF Is
    <3>2. end \in (stop + 1)..QueryEnd(target)
      BY <1>0, <3>1, LookForBounds
    <3> HIDE DEF end
    <3>3. end \in Nat /\ stop + 1 <= end /\ end <= Len(target) + 1
      BY <1>0, <2>2, <3>1, <3>2
    <3>4. phase' = "value" /\ it' = stop + 1 /\ Decode(target, memory, stop + 1, end, TRUE)
      BY <2>1, <2>5 DEF end
    <3>5. Counted'
      BY <1>0, <3>1, <3>3, <3>4, PieceOf
    <3> QED
      BY <1>0, <2>1, <2>2, <3>1, <3>4, <3>5 DEF LinkTyped
  <2>6. CASE ~Is(Equals, stop)
    BY <2>1, <2>2, <2>4, <2>6, PartEndsTyped
  <2> QED
    BY <2>5, <2>6
<1>6. CASE ValueDone
  <2> DEFINE stop == LookFor({Ampersand}, it)
  <2>1. phase = "value" /\ target' = target /\ PartEnds(stop)
    BY <1>6 DEF ValueDone
  <2>2. it \in Nat /\ 1 <= it /\ it <= QueryEnd(target) /\ QueryEnd(target) <= Len(target) + 1
    BY <2>1 DEF LinkTyped
  <2>3. stop \in it..QueryEnd(target)
    BY <1>0, <2>2, LookForBounds
  <2> HIDE DEF stop
  <2>4. stop \in Nat /\ 1 <= stop
    BY <1>0, <2>2, <2>3
  <2> QED
    BY <2>1, <2>2, <2>4, PartEndsTyped
<1>7. CASE UNCHANGED linkVars
  <2>1. UNCHANGED <<phase, target, it, loop>>
    BY <1>7 DEF linkVars
  <2> QED
    BY <1>0, <2>1, LinkStays DEF LinkTyped
<1> QED
  BY <1>1, <1>2, <1>3, <1>4, <1>5, <1>6, <1>7 DEF LinkNext

LEMMA LinkTypedAlways == LinkSpec => [](TypeOK /\ Indexed /\ LinkTyped)
<1>1. LinkSpec => []IInv
  BY BuildsQuery, Invariant, PTL
<1>2. IInv => TypeOK /\ Indexed
  BY DEF IInv
<1>3. IInv /\ LinkTyped /\ [LinkNext]_linkVars => LinkTyped'
  BY LinkTypedStep DEF IInv
<1> QED
  BY <1>1, <1>2, <1>3, LinkStarts, PTL DEF LinkSpec

\* Whatever a client sends, each piece of it is decoded escape by escape, and
\* none twice.
THEOREM DecodedOnce == LinkSpec => []DecodesOnce
<1>1. LinkTyped => DecodesOnce
  BY CountedEnds DEF LinkTyped
<1> QED
  BY <1>1, LinkTypedAlways, PTL

\* Whatever it sends, the request takes its target apart at the question mark.
THEOREM TargetSplit == LinkSpec => []SplitsTarget
<1>1. LinkTyped => SplitsTarget
  BY Splits DEF LinkTyped
<1> QED
  BY <1>1, LinkTypedAlways, PTL

--------------------------------------------------------------------------------
(* Where the parts of a query lie in the link.                             *)

PartsLie(list) == CHOOSE q : Seqs!LaysOut(q, Joined(list))

\* Where the text of a part begins in the link, and the place behind its end.
PartStart(list, raw, k) ==
  Len(U!Encode(raw, FALSE)) + 2 + PartsLie(list)[k - 1] + (IF k = 1 THEN 0 ELSE 1)
PartStop(list, raw, k) == Len(U!Encode(raw, FALSE)) + 2 + PartsLie(list)[k]

LEMMA SepJoins ==
  ASSUME NEW k \in Nat, NEW s \in Seq(Chars)
  PROVE  LET sep == IF k = 1 THEN 0 ELSE 1
         IN  /\ Len(Sep(k) \o s) = sep + Len(s) /\ Len(s) \in Nat
             /\ \A h \in 1..Len(s) : (Sep(k) \o s)[sep + h] = s[h]
             /\ k # 1 => (Sep(k) \o s)[1] = Ampersand
<1>1. CASE k = 1
  <2>1. Sep(k) = <<>> /\ <<>> \o s = s
    BY <1>1 DEF Sep
  <2>2. Len(s) \in Nat /\ \A h \in 1..Len(s) : 0 + h = h
    OBVIOUS
  <2> QED
    BY <1>1, <2>1, <2>2
<1>2. CASE k # 1
  <2> DEFINE mark == <<Ampersand>>
  <2>1. mark \in Seq(Chars) /\ Len(mark) = 1 /\ mark[1] = Ampersand /\ DOMAIN mark = 1..1
    BY DEF Ampersand, Chars
  <2>2. Sep(k) = mark
    BY <1>2 DEF Sep
  <2>3. Len(s) \in Nat /\ DOMAIN s = 1..Len(s)
    OBVIOUS
  <2> HIDE DEF mark
  <2>4. /\ Len(mark \o s) = Len(mark) + Len(s)
        /\ \A h \in DOMAIN mark : (mark \o s)[h] = mark[h]
        /\ \A h \in DOMAIN s : (mark \o s)[Len(mark) + h] = s[h]
    BY <2>1, Seqs!ConcatAt
  <2> QED
    BY <1>2, <2>1, <2>2, <2>3, <2>4
<1> QED
  BY <1>1, <1>2

LEMMA PartsInLink ==
  ASSUME NEW list \in Seq(Param), NEW raw \in Seq(Chars)
  PROVE  LET f == FlatList(list)
             n == Len(f)
             t == LinkText(list, raw)
         IN  /\ n \in Nat /\ QueryEnd(t) \in Nat
             /\ n = 0 => QueryStart(t) = QueryEnd(t)
             /\ n # 0 => QueryStart(t) = PartStart(list, raw, 1)
             /\ \A k \in 1..n :
                  LET start == PartStart(list, raw, k)
                      stop == PartStop(list, raw, k)
                  IN  /\ start \in Nat /\ 1 <= start /\ stop \in Nat /\ stop <= QueryEnd(t)
                      /\ stop = start + Len(PartText(f[k]))
                      /\ \A h \in 1..Len(PartText(f[k])) : t[start + h - 1] = PartText(f[k])[h]
                      /\ k = n => stop = QueryEnd(t)
                      /\ k # n => /\ k + 1 \in 1..n /\ stop < QueryEnd(t) /\ t[stop] = Ampersand
                                  /\ PartStart(list, raw, k + 1) = stop + 1
<1> DEFINE f == FlatList(list)
           n == Len(f)
           t == LinkText(list, raw)
           b == Len(U!Encode(raw, FALSE))
           w == Written(list)
           q == PartsLie(list)
           joined == Joined(list)
           sep(k) == IF k = 1 THEN 0 ELSE 1
<1>1. /\ b \in Nat /\ Len(w) \in Nat /\ QueryStart(t) = b + 2 /\ QueryEnd(t) = b + 2 + Len(w)
      /\ \A j \in 1..Len(w) : t[b + 1 + j] = w[j]
  BY LinkIs
<1>2. /\ n \in Nat /\ Len(joined) = n /\ w = Seqs!FlattenSeq(joined)
      /\ \A k \in 1..n : PartText(f[k]) \in Seq(Chars) /\ joined[k] = Sep(k) \o PartText(f[k])
  <2> DEFINE Plain == Chars \ {U!Question, U!Hash}
  <2>1. /\ n \in Nat /\ Len(joined) = n /\ w = Seqs!FlattenSeq(joined)
        /\ \A k \in 1..n : /\ PartText(f[k]) \in Seq(Plain)
                           /\ joined[k] = Sep(k) \o PartText(f[k])
    BY JoinedParts
  <2>2. Plain \subseteq Chars
    OBVIOUS
  <2> HIDE DEF Plain, f, n, joined, w
  <2>3. \A k \in 1..n : PartText(f[k]) \in Seq(Chars)
    BY <2>1, <2>2
  <2> QED
    BY <2>1, <2>3
<1>3. Seqs!LaysOut(q, joined)
  <2>1. \E S : joined \in Seq(Seq(S))
    BY JoinedParts
  <2>2. \E p : Seqs!LaysOut(p, joined)
    BY <2>1, Seqs!FlattenLies
  <2> QED
    BY <2>2 DEF PartsLie
<1> HIDE DEF f, n, t, w, q, joined, b
<1>4. /\ q \in [0..n -> Nat] /\ q[0] = 0 /\ q[n] = Len(w)
      /\ \A k \in 1..n : /\ q[k] = q[k - 1] + Len(joined[k])
                         /\ \A h \in 1..Len(joined[k]) : w[q[k - 1] + h] = joined[k][h]
      /\ \A k, l \in 0..n : k <= l => q[k] <= q[l]
  BY <1>2, <1>3 DEF Seqs!LaysOut
<1>5. ASSUME NEW k \in 1..n
      PROVE  /\ Len(joined[k]) = sep(k) + Len(PartText(f[k])) /\ Len(PartText(f[k])) \in Nat
             /\ \A h \in 1..Len(PartText(f[k])) : joined[k][sep(k) + h] = PartText(f[k])[h]
             /\ k # 1 => joined[k][1] = Ampersand
             /\ k - 1 \in 0..n /\ q[k - 1] \in Nat /\ q[k] \in Nat /\ q[k] <= Len(w)
             /\ q[k] = q[k - 1] + sep(k) + Len(PartText(f[k]))
  <2>1. k \in Nat /\ PartText(f[k]) \in Seq(Chars) /\ joined[k] = Sep(k) \o PartText(f[k])
    BY <1>2
  <2>2. /\ Len(joined[k]) = sep(k) + Len(PartText(f[k])) /\ Len(PartText(f[k])) \in Nat
        /\ \A h \in 1..Len(PartText(f[k])) : joined[k][sep(k) + h] = PartText(f[k])[h]
        /\ k # 1 => joined[k][1] = Ampersand
    <3> DEFINE s == PartText(f[k])
    <3>1. k \in Nat /\ s \in Seq(Chars)
      BY <2>1
    <3> HIDE DEF s
    <3>2. /\ Len(Sep(k) \o s) = sep(k) + Len(s) /\ Len(s) \in Nat
          /\ \A h \in 1..Len(s) : (Sep(k) \o s)[sep(k) + h] = s[h]
          /\ k # 1 => (Sep(k) \o s)[1] = Ampersand
      BY <3>1, SepJoins
    <3> HIDE DEF sep
    <3> QED
      BY <2>1, <3>2 DEF s
  <2>3. k - 1 \in 0..n /\ k \in 0..n /\ n \in 0..n /\ k <= n
    BY <1>2
  <2>4. q[k - 1] \in Nat /\ q[k] \in Nat /\ q[k] <= Len(w) /\ q[k] = q[k - 1] + Len(joined[k])
    BY <1>4, <2>3
  <2>5. q[k] = q[k - 1] + sep(k) + Len(PartText(f[k]))
    <3> DEFINE p == q[k - 1]
               len == Len(PartText(f[k]))
               d == sep(k)
    <3>1. q[k] = p + (d + len) /\ p \in Nat /\ len \in Nat /\ d \in Nat
      BY <2>2, <2>4
    <3> HIDE DEF p, len, d
    <3>2. q[k] = p + d + len
      BY <3>1
    <3> QED
      BY <3>2 DEF p, len, d
  <2> QED
    BY <2>2, <2>3, <2>4, <2>5
<1>6. ASSUME NEW k \in 1..n
      PROVE  /\ PartStart(list, raw, k) = b + 2 + q[k - 1] + sep(k)
             /\ PartStop(list, raw, k) = b + 2 + q[k]
  BY DEF PartStart, PartStop, b, q
<1>7. n = 0 => QueryStart(t) = QueryEnd(t)
  BY <1>1, <1>4
<1>8. n # 0 => QueryStart(t) = PartStart(list, raw, 1)
  <2> SUFFICES ASSUME n # 0 PROVE QueryStart(t) = PartStart(list, raw, 1)
    OBVIOUS
  <2>1. 1 \in 1..n /\ 1 - 1 = 0
    BY <1>2
  <2>2. PartStart(list, raw, 1) = b + 2 + q[0] + sep(1)
    BY <1>6, <2>1
  <2> QED
    BY <1>1, <1>4, <2>2
<1>9. ASSUME NEW k \in 1..n
      PROVE  LET start == PartStart(list, raw, k)
                 stop == PartStop(list, raw, k)
             IN  /\ start \in Nat /\ 1 <= start /\ stop \in Nat /\ stop <= QueryEnd(t)
                 /\ stop = start + Len(PartText(f[k]))
                 /\ \A h \in 1..Len(PartText(f[k])) : t[start + h - 1] = PartText(f[k])[h]
                 /\ k = n => stop = QueryEnd(t)
                 /\ k # n => /\ k + 1 \in 1..n /\ stop < QueryEnd(t) /\ t[stop] = Ampersand
                             /\ PartStart(list, raw, k + 1) = stop + 1
  <2> DEFINE start == PartStart(list, raw, k)
             stop == PartStop(list, raw, k)
             len == Len(PartText(f[k]))
             d == sep(k)
             p == q[k - 1]
  <2>1. /\ start = b + 2 + p + d /\ stop = b + 2 + q[k] /\ d \in {0, 1}
        /\ p \in Nat /\ len \in Nat /\ q[k] \in Nat /\ q[k] <= Len(w) /\ q[k] = p + d + len
    BY <1>5, <1>6
  <2>2. \A h \in 1..len : w[p + (d + h)] = PartText(f[k])[h]
    <3> SUFFICES ASSUME NEW h \in 1..len PROVE w[p + (d + h)] = PartText(f[k])[h]
      OBVIOUS
    <3>1. Len(joined[k]) = d + len /\ joined[k][d + h] = PartText(f[k])[h]
      BY <1>5
    <3> HIDE DEF d, len
    <3>2. d + h \in 1..Len(joined[k])
      BY <2>1, <3>1
    <3> QED
      BY <1>4, <3>1, <3>2
  <2>3. k = n => q[k] = Len(w)
    BY <1>4
  <2> HIDE DEF start, stop, len, d, p
  <2>4. start \in Nat /\ 1 <= start /\ stop \in Nat /\ stop <= QueryEnd(t) /\ stop = start + len
    <3>1. /\ b \in Nat /\ Len(w) \in Nat /\ start = b + 2 + p + d /\ d \in {0, 1} /\ p \in Nat
          /\ len \in Nat /\ p + d + len <= Len(w) /\ stop = b + 2 + (p + d + len)
          /\ QueryEnd(t) = b + 2 + Len(w)
      BY <1>1, <2>1
    <3> QED
      BY <3>1
  <2>5. ASSUME NEW h \in 1..len PROVE t[start + h - 1] = PartText(f[k])[h]
    <3> DEFINE j == p + (d + h)
    <3>1. j \in 1..Len(w) /\ start + h - 1 = b + 1 + j
      <4>1. /\ b \in Nat /\ Len(w) \in Nat /\ start = b + 2 + p + d /\ d \in {0, 1} /\ p \in Nat
            /\ len \in Nat /\ p + d + len <= Len(w) /\ h \in Nat /\ 1 <= h /\ h <= len
        BY <1>1, <2>1
      <4> QED
        BY <4>1
    <3>2. w[j] = PartText(f[k])[h]
      BY <2>2
    <3> HIDE DEF j
    <3> QED
      BY <1>1, <3>1, <3>2
  <2>6. k = n => stop = QueryEnd(t)
    BY <1>1, <2>1, <2>3
  <2>7. ASSUME k # n
        PROVE  /\ k + 1 \in 1..n /\ stop < QueryEnd(t) /\ t[stop] = Ampersand
               /\ PartStart(list, raw, k + 1) = stop + 1
    <3>1. k + 1 \in 1..n /\ (k + 1) - 1 = k /\ k + 1 # 1
      BY <1>2, <2>7
    <3>2. /\ joined[k + 1][1] = Ampersand /\ q[k + 1] <= Len(w) /\ q[k + 1] \in Nat
          /\ q[k + 1] = q[k] + 1 + Len(PartText(f[k + 1])) /\ Len(PartText(f[k + 1])) \in Nat
          /\ Len(joined[k + 1]) = 1 + Len(PartText(f[k + 1]))
      BY <1>5, <3>1
    <3>3. 1 \in 1..Len(joined[k + 1]) /\ q[k] + 1 \in 1..Len(w)
      BY <2>1, <3>2
    <3>4. w[q[k] + 1] = Ampersand
      BY <1>4, <3>1, <3>2, <3>3
    <3>5. t[b + 1 + (q[k] + 1)] = Ampersand
      BY <1>1, <3>3, <3>4
    <3>6. b + 1 + (q[k] + 1) = stop /\ stop < QueryEnd(t)
      <4>1. /\ b \in Nat /\ Len(w) \in Nat /\ q[k] \in Nat /\ q[k] + 1 <= Len(w)
            /\ stop = b + 2 + q[k] /\ QueryEnd(t) = b + 2 + Len(w)
        BY <1>1, <2>1, <3>3
      <4> QED
        BY <4>1
    <3>7. PartStart(list, raw, k + 1) = b + 2 + q[k] + 1
      BY <1>6, <3>1
    <3>8. PartStart(list, raw, k + 1) = stop + 1
      BY <1>1, <2>1, <3>7
    <3> QED
      BY <3>1, <3>5, <3>6, <3>8
  <2> QED
    BY <2>4, <2>5, <2>6, <2>7 DEF start, stop, len
<1> QED
  BY <1>1, <1>2, <1>7, <1>8, <1>9 DEF f, n, t

--------------------------------------------------------------------------------
(* Finding the parts again.                                                *)

LEMMA PartAt ==
  ASSUME NEW part \in AllParts
  PROVE  LET name == NameOf(part)
             value == ValueOf(part)
             pt == PartText(part)
             len == Len(name)
         IN  /\ name \in Seq(Chars) /\ len \in Nat /\ pt \in Seq(Chars)
             /\ \A h \in 1..len : pt[h] = name[h] /\ pt[h] \notin Marks
             /\ part.value = <<>> => Len(pt) = len
             /\ part.value # <<>> =>
                  /\ value \in Seq(Chars) /\ Len(value) \in Nat
                  /\ Len(pt) = len + 1 + Len(value) /\ pt[len + 1] = Equals
                  /\ \A h \in 1..Len(value) : pt[len + 1 + h] = value[h] /\ value[h] \notin Marks
<1> DEFINE name == NameOf(part)
           value == ValueOf(part)
           pt == PartText(part)
           len == Len(name)
           Free == Chars \ Marks
<1>1. /\ name \in Seq(Free) /\ (part.value = <<>> => pt = name)
      /\ part.value # <<>> => value \in Seq(Free) /\ pt = name \o (<<Equals>> \o value)
  BY PartTexts
<1>2. Equals \in Chars /\ \A c \in Free : c \in Chars /\ c \notin Marks
  BY DEF Equals, Chars
<1> HIDE DEF name, value, pt, Free
<1>3. /\ name \in Seq(Chars) /\ len \in Nat /\ DOMAIN name = 1..len
      /\ \A h \in 1..len : name[h] \notin Marks
  <2>1. \A h \in 1..Len(name) : name[h] \in Free
    BY <1>1
  <2>2. name \in Seq(Free) /\ Free \subseteq Chars
    BY <1>1, <1>2
  <2> QED
    BY <1>2, <2>1, <2>2
<1>4. CASE part.value = <<>>
  <2>1. pt = name
    BY <1>1, <1>4
  <2> QED
    BY <1>3, <1>4, <2>1 DEF name, value, pt
<1>5. CASE part.value # <<>>
  <2> DEFINE mark == <<Equals>>
             back == mark \o value
  <2>1. /\ value \in Seq(Chars) /\ Len(value) \in Nat /\ DOMAIN value = 1..Len(value)
        /\ \A h \in 1..Len(value) : value[h] \notin Marks
    <3>1. value \in Seq(Free) /\ Free \subseteq Chars
      BY <1>1, <1>2, <1>5
    <3>2. \A h \in 1..Len(value) : value[h] \in Free
      BY <3>1
    <3> QED
      BY <1>2, <3>1, <3>2
  <2>2. mark \in Seq(Chars) /\ Len(mark) = 1 /\ mark[1] = Equals /\ DOMAIN mark = 1..1
    BY <1>2
  <2> HIDE DEF mark
  <2>3. /\ back \in Seq(Chars) /\ Len(back) = 1 + Len(value) /\ back[1] = Equals
        /\ \A h \in 1..Len(value) : back[1 + h] = value[h]
        /\ DOMAIN back = 1..Len(back)
    <3>1. mark \in Seq(Chars) /\ value \in Seq(Chars)
      BY <2>1, <2>2
    <3>2. /\ back \in Seq(Chars) /\ Len(back) = Len(mark) + Len(value)
          /\ DOMAIN back = 1..Len(back)
          /\ \A h \in DOMAIN mark : back[h] = mark[h]
          /\ \A h \in DOMAIN value : back[Len(mark) + h] = value[h]
      BY <3>1, Seqs!ConcatAt
    <3> HIDE DEF back
    <3>3. Len(back) = 1 + Len(value) /\ 1 \in DOMAIN mark
      BY <2>2, <3>2
    <3>4. back[1] = Equals
      BY <2>2, <3>2, <3>3
    <3>5. \A h \in 1..Len(value) : back[1 + h] = value[h]
      BY <2>1, <2>2, <3>2
    <3> QED
      BY <3>2, <3>3, <3>4, <3>5
  <2>4. pt = name \o back
    BY <1>1, <1>5 DEF back, mark
  <2> HIDE DEF back
  <2>5. /\ pt \in Seq(Chars) /\ Len(pt) = len + Len(back)
        /\ \A h \in DOMAIN name : pt[h] = name[h]
        /\ \A h \in DOMAIN back : pt[len + h] = back[h]
    <3>1. name \in Seq(Chars) /\ back \in Seq(Chars)
      BY <1>3, <2>3
    <3> QED
      BY <2>4, <3>1, Seqs!ConcatAt
  <2>6. Len(pt) = len + 1 + Len(value)
    BY <1>3, <2>1, <2>3, <2>5
  <2>7. pt[len + 1] = Equals
    <3>1. 1 \in DOMAIN back
      BY <2>1, <2>3
    <3> QED
      BY <2>3, <2>5, <3>1
  <2>8. ASSUME NEW h \in 1..Len(value) PROVE pt[len + 1 + h] = value[h]
    <3>1. 1 + h \in DOMAIN back /\ len + (1 + h) = len + 1 + h
      BY <1>3, <2>1, <2>3
    <3> QED
      BY <2>3, <2>5, <3>1
  <2> QED
    BY <1>3, <1>5, <2>1, <2>5, <2>6, <2>7, <2>8 DEF name, value, pt
<1> QED
  BY <1>4, <1>5

LEMMA PieceIs ==
  ASSUME NEW t \in Seq(Chars), NEW s \in Seq(Chars), NEW first \in Nat, 1 <= first,
         first + Len(s) <= Len(t) + 1, \A h \in 1..Len(s) : t[first + h - 1] = s[h]
  PROVE  SubSeq(t, first, first + Len(s) - 1) = s
<1> DEFINE len == Len(s)
           last == first + len - 1
<1>1. len \in Nat /\ Len(t) \in Nat
  OBVIOUS
<1>2. /\ first \in 1..(Len(t) + 1) /\ last \in (first - 1)..Len(t) /\ last - first + 1 = len
  BY <1>1
<1> HIDE DEF last, len
<1>3. /\ SubSeq(t, first, last) \in Seq(Chars) /\ Len(SubSeq(t, first, last)) = len
      /\ \A h \in 1..len : SubSeq(t, first, last)[h] = t[first + h - 1]
  <2>1. /\ SubSeq(t, first, last) \in Seq(Chars) /\ Len(SubSeq(t, first, last)) = last - first + 1
        /\ \A h \in 1..(last - first + 1) : SubSeq(t, first, last)[h] = t[first + h - 1]
    BY <1>2, Seqs!SubSeqAt
  <2> QED
    BY <1>2, <2>1
<1>4. SubSeq(t, first, last) = s
  BY <1>1, <1>3 DEF len
<1> QED
  BY <1>4 DEF last, len

LEMMA PartRead ==
  ASSUME NEW list \in Seq(Param), NEW raw \in Seq(Chars), target = LinkText(list, raw),
         NEW k \in 1..Len(FlatList(list))
  PROVE  LET part == FlatList(list)[k]
             start == PartStart(list, raw, k)
             stop == PartStop(list, raw, k)
             named == start + Len(NameOf(part))
         IN  /\ part \in AllParts /\ named \in Nat
             /\ LookFor({Equals, Ampersand}, start) = named
             /\ SubSeq(target, start, named - 1) = NameOf(part)
             /\ part.value = <<>> => named = stop
             /\ part.value # <<>> => /\ Is(Equals, named)
                                     /\ LookFor({Ampersand}, named + 1) = stop
                                     /\ SubSeq(target, named + 1, stop - 1) = ValueOf(part)
             /\ ~Is(Equals, stop) /\ (Is(Ampersand, stop) <=> k # Len(FlatList(list)))
<1> DEFINE f == FlatList(list)
           n == Len(f)
           part == f[k]
           start == PartStart(list, raw, k)
           stop == PartStop(list, raw, k)
           name == NameOf(part)
           value == ValueOf(part)
           pt == PartText(part)
           len == Len(name)
           named == start + len
           end == QueryEnd(target)
<1>1. /\ start \in Nat /\ 1 <= start /\ stop \in Nat /\ stop <= end
      /\ stop = start + Len(pt)
      /\ \A h \in 1..Len(pt) : target[start + h - 1] = pt[h]
      /\ k = n => stop = end
      /\ k # n => stop < end /\ target[stop] = Ampersand
  BY PartsInLink
<1>2. part \in AllParts
  BY JoinedParts
<1>3. /\ name \in Seq(Chars) /\ len \in Nat /\ pt \in Seq(Chars)
      /\ \A h \in 1..len : pt[h] = name[h] /\ pt[h] \notin Marks
      /\ part.value = <<>> => Len(pt) = len
      /\ part.value # <<>> =>
           /\ value \in Seq(Chars) /\ Len(value) \in Nat
           /\ Len(pt) = len + 1 + Len(value) /\ pt[len + 1] = Equals
           /\ \A h \in 1..Len(value) : pt[len + 1 + h] = value[h] /\ value[h] \notin Marks
  BY <1>2, PartAt
<1>4. target \in Seq(Chars) /\ Len(target) \in Nat /\ end = Len(target) + 1 /\ end \in Nat
  <2> DEFINE e == Len(U!Encode(raw, FALSE))
             w == Len(Written(list))
  <2>1. /\ target \in Seq(Chars) /\ e \in Nat /\ w \in Nat
        /\ Len(target) = e + 1 + w /\ end = e + 2 + w
    BY LinkIs
  <2> HIDE DEF e, w, end
  <2> QED
    BY <2>1
<1>5. Ampersand \in Marks /\ Equals \in Marks /\ Equals # Ampersand
  BY DEF Marks, Ampersand, Equals
<1> HIDE DEF f, n, part, start, stop, name, value, pt, len, end
<1>6. len <= Len(pt) /\ Len(pt) \in Nat /\ named \in Nat /\ named <= stop /\ start <= named
  <2>1. Len(pt) \in Nat
    BY <1>3
  <2>2. len <= Len(pt)
    BY <1>3, <2>1
  <2> QED
    BY <1>1, <1>3, <2>1, <2>2
<1>7. \A h \in 1..len : target[start + h - 1] = name[h] /\ name[h] \notin Marks
  <2>1. 1..len \subseteq 1..Len(pt)
    BY <1>3, <1>6
  <2> QED
    BY <1>1, <1>3, <2>1
<1>8. SubSeq(target, start, named - 1) = name
  <2>1. start + Len(name) <= Len(target) + 1
    BY <1>1, <1>4, <1>6 DEF len
  <2>2. SubSeq(target, start, start + Len(name) - 1) = name
    BY <1>1, <1>3, <1>4, <1>7, <2>1, PieceIs DEF len
  <2>3. start + Len(name) - 1 = named - 1
    BY <1>1, <1>3 DEF len
  <2> HIDE DEF named
  <2> QED
    BY <2>2, <2>3
<1>9. part.value = <<>> => named = stop
  BY <1>1, <1>3
<1>10. ~Is(Equals, stop) /\ (Is(Ampersand, stop) <=> k # n)
  BY <1>1, <1>4, <1>5 DEF Is, end
<1>11. part.value # <<>> =>
         named < stop /\ target[named] = Equals /\ stop = named + 1 + Len(value)
  <2> SUFFICES ASSUME part.value # <<>>
               PROVE  named < stop /\ target[named] = Equals /\ stop = named + 1 + Len(value)
    OBVIOUS
  <2>1. /\ Len(value) \in Nat /\ Len(pt) = len + 1 + Len(value) /\ pt[len + 1] = Equals
        /\ len + 1 \in 1..Len(pt) /\ start + (len + 1) - 1 = named
    BY <1>1, <1>3
  <2>2. target[named] = Equals
    BY <1>1, <2>1
  <2>3. stop = named + 1 + Len(value)
    BY <1>1, <1>3, <2>1
  <2>4. named < stop
    BY <1>6, <2>1, <2>3
  <2> QED
    BY <2>2, <2>3, <2>4
<1>12. LookFor({Equals, Ampersand}, start) = named
  <2>1. ASSUME NEW j \in start..(named - 1) PROVE target[j] \notin {Equals, Ampersand}
    <3> DEFINE h == j - start + 1
    <3>1. h \in 1..len /\ start + h - 1 = j
      BY <1>1, <1>3
    <3> HIDE DEF h
    <3> QED
      BY <1>5, <1>7, <3>1
  <2>2. named <= end
    BY <1>1, <1>4, <1>6
  <2>3. named = end \/ target[named] \in {Equals, Ampersand}
    BY <1>1, <1>9, <1>11
  <2> HIDE DEF named
  <2> QED
    BY <1>1, <1>4, <1>6, <2>1, <2>2, <2>3, LookForFinds DEF end
<1>13. ASSUME part.value # <<>>
       PROVE  /\ Is(Equals, named) /\ LookFor({Ampersand}, named + 1) = stop
              /\ SubSeq(target, named + 1, stop - 1) = value
  <2>1. /\ named < stop /\ target[named] = Equals /\ stop = named + 1 + Len(value)
        /\ value \in Seq(Chars) /\ Len(value) \in Nat
    BY <1>3, <1>11, <1>13
  <2>2. Is(Equals, named)
    BY <1>1, <1>4, <1>6, <2>1 DEF Is, end
  <2>3. ASSUME NEW h \in 1..Len(value)
        PROVE  target[named + 1 + h - 1] = value[h] /\ value[h] \notin Marks
    <3>1. Len(pt) = len + 1 + Len(value) /\ pt[len + 1 + h] = value[h] /\ value[h] \notin Marks
      BY <1>3, <1>13
    <3>2. len + 1 + h \in 1..Len(pt) /\ start + (len + 1 + h) - 1 = named + 1 + h - 1
      BY <1>1, <1>3, <2>1, <3>1
    <3> QED
      BY <1>1, <3>1, <3>2
  <2> HIDE DEF named
  <2>4. named + 1 \in Nat /\ 1 <= named + 1 /\ named + 1 + Len(value) <= Len(target) + 1
    BY <1>1, <1>4, <1>6, <2>1
  <2>5. SubSeq(target, named + 1, stop - 1) = value
    <3>1. SubSeq(target, named + 1, named + 1 + Len(value) - 1) = value
      BY <1>4, <2>1, <2>3, <2>4, PieceIs
    <3> QED
      <4>1. named + 1 + Len(value) - 1 = stop - 1
        BY <1>6, <2>1
      <4> QED
        BY <3>1, <4>1
  <2>6. ASSUME NEW j \in (named + 1)..(stop - 1) PROVE target[j] \notin {Ampersand}
    <3> DEFINE h == j - named
    <3>1. h \in 1..Len(value) /\ named + 1 + h - 1 = j
      BY <1>1, <1>6, <2>1
    <3> HIDE DEF h
    <3> QED
      BY <1>5, <2>3, <3>1
  <2>7. named + 1 <= stop /\ (stop = end \/ target[stop] \in {Ampersand})
    BY <1>1, <1>6, <2>1
  <2>8. LookFor({Ampersand}, named + 1) = stop
    BY <1>1, <1>4, <2>4, <2>6, <2>7, LookForFinds DEF end
  <2> QED
    BY <2>2, <2>5, <2>8
<1> QED
  BY <1>2, <1>6, <1>8, <1>9, <1>10, <1>12, <1>13 DEF f, n, part, start, stop, name, value, len

--------------------------------------------------------------------------------
(* What the request has read.                                              *)

ParamsLie(list) == CHOOSE q : Seqs!LaysOut(q, Grouped(list))

LEMMA ParamsInList ==
  ASSUME NEW list \in Seq(Param)
  PROVE  LET q == ParamsLie(list)
             f == FlatList(list)
         IN  /\ Len(list) \in Nat /\ Len(f) \in Nat
             /\ q \in [0..Len(list) -> Nat] /\ q[0] = 0 /\ q[Len(list)] = Len(f)
             /\ \A m \in 1..Len(list) :
                  LET parts == Parts(list[m])
                  IN  /\ Len(parts) \in Nat /\ Len(parts) >= 1 /\ q[m] = q[m - 1] + Len(parts)
                      /\ \A j \in 1..Len(parts) : f[q[m - 1] + j] = parts[j]
             /\ \A l, m \in 0..Len(list) : l <= m => q[l] <= q[m]
<1> DEFINE q == ParamsLie(list)
           f == FlatList(list)
           g == Grouped(list)
           n == Len(list)
<1>1. /\ g \in Seq(Seq(AllParts)) /\ Len(g) = n /\ \A m \in 1..n : g[m] = Parts(list[m])
      /\ f = Seqs!FlattenSeq(g) /\ f \in Seq(AllParts)
  BY GroupedParts
<1>2. n \in Nat /\ \A m \in 1..n : list[m] \in Param
  OBVIOUS
<1>3. Seqs!LaysOut(q, g)
  <2>1. \E p : Seqs!LaysOut(p, g)
    BY <1>1, Seqs!FlattenLies
  <2> QED
    BY <2>1 DEF ParamsLie
<1> HIDE DEF q, f, g, n
<1>4. /\ q \in [0..n -> Nat] /\ q[0] = 0 /\ q[n] = Len(f)
      /\ \A m \in 1..n : /\ q[m] = q[m - 1] + Len(g[m])
                         /\ \A j \in 1..Len(g[m]) : f[q[m - 1] + j] = g[m][j]
      /\ \A l, m \in 0..n : l <= m => q[l] <= q[m]
  BY <1>1, <1>3 DEF Seqs!LaysOut
<1>5. ASSUME NEW m \in 1..n PROVE Len(Parts(list[m])) \in Nat /\ Len(Parts(list[m])) >= 1
  <2>1. list[m] \in Param
    BY <1>2
  <2> DEFINE param == list[m]
  <2>2. /\ Parts(param) \in Seq(AllParts)
        /\ param.values = <<>> => Len(Parts(param)) = 1
        /\ param.values # <<>> => Len(Parts(param)) = Len(param.values) /\ Len(param.values) >= 1
    BY <2>1, PartsOfParam
  <2> HIDE DEF param
  <2>3. Len(Parts(param)) \in Nat
    BY <2>2
  <2>4. Len(Parts(param)) >= 1
    <3>1. CASE param.values = <<>>
      <4>1. Len(Parts(param)) = 1
        BY <2>2, <3>1
      <4> QED
        BY <4>1
    <3>2. CASE param.values # <<>>
      <4>1. Len(Parts(param)) = Len(param.values) /\ Len(param.values) >= 1
        BY <2>2, <3>2
      <4> QED
        BY <4>1
    <3> QED
      BY <3>1, <3>2
  <2> QED
    BY <2>3, <2>4 DEF param
<1>6. Len(f) \in Nat
  BY <1>1
<1>7. ASSUME NEW m \in 1..n
      PROVE  /\ q[m] = q[m - 1] + Len(Parts(list[m]))
             /\ \A j \in 1..Len(Parts(list[m])) : f[q[m - 1] + j] = Parts(list[m])[j]
  <2>1. g[m] = Parts(list[m])
    BY <1>1
  <2> QED
    BY <1>4, <2>1
<1>8. /\ q \in [0..n -> Nat] /\ q[0] = 0 /\ q[n] = Len(f)
      /\ \A l, m \in 0..n : l <= m => q[l] <= q[m]
  BY <1>4
<1> QED
  BY <1>2, <1>5, <1>6, <1>7, <1>8 DEF q, f, n

\* A parameter with its first values, as texts.
Entry(param, count) ==
  [name |-> NameText[param.name], values |-> [h \in 1..count |-> ValueText[param.values[h]]]]

\* The list that is read once parts of the first m parameters have been, all
\* those before the last and j of that.
ReadOf(list, m, j) ==
  [l \in 1..m |-> Entry(list[l], IF l < m THEN Len(list[l].values)
                                 ELSE IF list[l].values = <<>> THEN 0 ELSE j)]

AllRead(list, m) == [l \in 1..m |-> Entry(list[l], Len(list[l].values))]

\* The list that is read once k parts have been.
ReadAt(list, result, k) ==
  \/ k = 0 /\ result = <<>>
  \/ \E m \in 1..Len(list) : \E j \in 1..Len(Parts(list[m])) :
       k = ParamsLie(list)[m - 1] + j /\ result = ReadOf(list, m, j)

\* No two parameters have the same name.
Distinct(list) == \A l, m \in DOMAIN list : list[l].name = list[m].name => l = m

Entries == {Entry(param, count) : param \in Param, count \in Nat}

LEMMA OtherNames ==
  ASSUME NEW list \in Seq(Param), Distinct(list),
         NEW l \in 1..Len(list), NEW m \in 1..Len(list), l # m
  PROVE  NameText[list[l].name] # NameText[list[m].name]
<1>1. list[l].name \in Names /\ list[m].name \in Names
  BY PartsOfParam
<1>2. list[l].name # list[m].name
  BY DEF Distinct
<1> QED
  BY <1>1, <1>2, LinkAssumption

\* The values that a part adds.
PartValue(part) == IF part.value = <<>> THEN <<>> ELSE <<ValueText[part.value[1]]>>

\* The first part of a parameter is put behind the parameters that have been read.
LEMMA TakenNew ==
  ASSUME NEW list \in Seq(Param), Distinct(list), NEW m \in 1..Len(list)
  PROVE  LET part == Parts(list[m])[1]
         IN  Taken(AllRead(list, m - 1), NameText[part.name], PartValue(part)) = ReadOf(list, m, 1)
<1> DEFINE part == Parts(list[m])[1]
           param == list[m]
           result == AllRead(list, m - 1)
           name == NameText[part.name]
           value == PartValue(part)
           new == [name |-> name, values |-> value]
           count == IF param.values = <<>> THEN 0 ELSE 1
<1>1. param \in Param /\ m \in Nat /\ m - 1 \in Nat /\ Len(list) \in Nat /\ m <= Len(list)
  OBVIOUS
<1>2. new = Entry(param, count)
  <2>1. /\ param.name \in Names /\ param.values \in Seq(Values) /\ Len(param.values) \in Nat
        /\ param.values = <<>> => part = Part(param.name, <<>>)
        /\ param.values # <<>> =>
             /\ Len(param.values) >= 1
             /\ \A j \in 1..Len(param.values) :
                  Parts(param)[j] = Part(param.name, <<param.values[j]>>)
    <3> HIDE DEF part
    <3>1. /\ param.name \in Names /\ param.values \in Seq(Values) /\ Len(param.values) \in Nat
          /\ param.values = <<>> => Parts(param)[1] = Part(param.name, <<>>)
          /\ param.values # <<>> =>
               /\ Len(param.values) >= 1
               /\ \A j \in 1..Len(param.values) :
                    Parts(param)[j] = Part(param.name, <<param.values[j]>>)
      BY <1>1, PartsOfParam
    <3> QED
      BY <3>1 DEF part
  <2> HIDE DEF part
  <2>2. CASE param.values = <<>>
    <3>1. part = Part(param.name, <<>>)
      BY <2>1, <2>2
    <3>2. name = NameText[param.name] /\ value = <<>>
      BY <3>1 DEF Part, PartValue
    <3>3. Entry(param, 0) = [name |-> NameText[param.name], values |-> <<>>]
      BY DEF Entry
    <3> QED
      BY <2>2, <3>2, <3>3
  <2>3. CASE param.values # <<>>
    <3>1. part = Part(param.name, <<param.values[1]>>)
      <4>1. 1 \in 1..Len(param.values)
        BY <2>1, <2>3
      <4> QED
        BY <2>1, <2>3, <4>1 DEF part
    <3>2. name = NameText[param.name] /\ value = <<ValueText[param.values[1]]>>
      BY <3>1 DEF Part, PartValue
    <3>3. Entry(param, 1) = [name |-> NameText[param.name], values |-> <<ValueText[param.values[1]]>>]
      BY DEF Entry
    <3> QED
      BY <2>3, <3>2, <3>3
  <2> QED
    BY <2>2, <2>3
<1>3. name = NameText[param.name]
  BY <1>2 DEF Entry
<1> HIDE DEF part, name, value, new
<1>4. /\ result \in [1..(m - 1) -> Entries] /\ new \in Entries
      /\ \A l \in 1..(m - 1) : /\ l \in 1..Len(list)
                               /\ result[l] = Entry(list[l], Len(list[l].values))
  <2>1. \A l \in 1..(m - 1) : l \in 1..Len(list)
    BY <1>1
  <2>2. ASSUME NEW l \in 1..(m - 1) PROVE Entry(list[l], Len(list[l].values)) \in Entries
    <3>1. list[l] \in Param
      BY <2>1
    <3>2. Len(list[l].values) \in Nat
      BY <3>1, PartsOfParam
    <3> QED
      BY <3>1, <3>2 DEF Entries
  <2>3. new \in Entries
    BY <1>1, <1>2 DEF Entries
  <2> QED
    BY <2>1, <2>2, <2>3 DEF AllRead
<1>5. {l \in DOMAIN result : result[l].name = name} = {}
  <2> SUFFICES ASSUME NEW l \in 1..(m - 1), result[l].name = name PROVE FALSE
    BY <1>4
  <2>1. result[l].name = NameText[list[l].name]
    <3>1. result[l] = Entry(list[l], Len(list[l].values))
      BY <1>4
    <3> HIDE DEF result
    <3> QED
      BY <3>1 DEF Entry
  <2>2. l \in 1..Len(list) /\ l # m
    BY <1>1, <1>4
  <2> QED
    BY <1>3, <2>1, <2>2, OtherNames
<1>6. Taken(result, name, value) = Append(result, new)
  BY <1>5 DEF Taken, new
<1> HIDE DEF result
<1>7. result \in Seq(Entries) /\ Len(result) = m - 1
  BY <1>1, <1>4
<1>8. /\ Append(result, new) \in Seq(Entries) /\ Len(Append(result, new)) = m
      /\ \A l \in 1..(m - 1) : Append(result, new)[l] = result[l]
      /\ Append(result, new)[m] = new
  <2>1. /\ Append(result, new) \in Seq(Entries) /\ DOMAIN result = 1..Len(result)
        /\ Len(Append(result, new)) = Len(result) + 1
        /\ \A l \in DOMAIN result : Append(result, new)[l] = result[l]
        /\ Append(result, new)[Len(result) + 1] = new
    BY <1>4, <1>7, Seqs!AppendAt
  <2> QED
    BY <1>1, <1>7, <2>1
<1> DEFINE whole == Append(result, new)
<1>9. ASSUME NEW l \in 1..m
      PROVE  whole[l] = Entry(list[l], IF l < m THEN Len(list[l].values)
                                       ELSE IF list[l].values = <<>> THEN 0 ELSE 1)
  <2>1. CASE l < m
    <3>1. l \in 1..(m - 1)
      BY <1>1, <2>1
    <3> QED
      BY <1>4, <1>8, <2>1, <3>1
  <2>2. CASE ~(l < m)
    <3>1. l = m
      BY <1>1, <2>2
    <3> QED
      BY <1>2, <1>8, <2>2, <3>1
  <2> QED
    BY <2>1, <2>2
<1> HIDE DEF whole
<1>10. whole = [l \in 1..m |-> whole[l]]
  <2>1. whole \in Seq(Entries) /\ Len(whole) = m
    BY <1>8 DEF whole
  <2> QED
    BY <1>1, <2>1
<1>11. whole = ReadOf(list, m, 1)
  BY <1>9, <1>10 DEF ReadOf
<1> QED
  BY <1>6, <1>11 DEF whole, part, name, value, result

\* Each further part adds its value to the parameter that is read.
LEMMA TakenMore ==
  ASSUME NEW list \in Seq(Param), Distinct(list), NEW m \in 1..Len(list),
         NEW j \in Nat, 1 <= j, j + 1 <= Len(list[m].values)
  PROVE  Taken(ReadOf(list, m, j), NameText[list[m].name], <<ValueText[list[m].values[j + 1]]>>)
           = ReadOf(list, m, j + 1)
<1> DEFINE result == ReadOf(list, m, j)
           next == ReadOf(list, m, j + 1)
           name == NameText[list[m].name]
           text1 == ValueText[list[m].values[j + 1]]
           value == <<text1>>
           vals == [h \in 1..j |-> ValueText[list[m].values[h]]]
           same == {l \in DOMAIN result : result[l].name = name}
<1>1. m \in Nat /\ 1 <= m /\ Len(list) \in Nat /\ m <= Len(list)
  OBVIOUS
<1>2. list[m].values \in Seq(Values) /\ list[m].values # <<>>
  <2>1. list[m] \in Param
    BY <1>1
  <2>2. list[m].values \in Seq(Values)
    BY <2>1, PartsOfParam
  <2>3. Len(list[m].values) # 0
    BY <2>2
  <2> QED
    BY <2>2, <2>3
<1>3. /\ DOMAIN result = 1..m /\ DOMAIN next = 1..m
      /\ \A l \in 1..m : l < m => /\ result[l] = Entry(list[l], Len(list[l].values))
                                  /\ next[l] = result[l]
      /\ result[m] = Entry(list[m], j) /\ next[m] = Entry(list[m], j + 1)
  BY <1>1, <1>2 DEF ReadOf
<1>4. result = [l \in 1..m |-> result[l]] /\ next = [l \in 1..m |-> next[l]]
  BY <1>1 DEF ReadOf
<1> HIDE DEF result, next
<1>5. same = {m}
  <2>1. ASSUME NEW l \in 1..m, l # m PROVE result[l].name # name
    <3>1. l < m /\ l \in 1..Len(list)
      BY <1>1, <2>1
    <3>2. result[l].name = NameText[list[l].name]
      BY <1>3, <3>1 DEF Entry
    <3> HIDE DEF name
    <3>3. NameText[list[l].name] # name
      BY <2>1, <3>1, OtherNames DEF name
    <3> QED
      BY <3>2, <3>3
  <2>2. result[m].name = name /\ m \in 1..m
    BY <1>1, <1>3 DEF Entry
  <2> QED
    BY <1>3, <2>1, <2>2
<1>6. [result[m] EXCEPT !.values = IF value = <<>> THEN <<>> ELSE @ \o value] = Entry(list[m], j + 1)
  <2>1. result[m] = [name |-> name, values |-> vals]
    BY <1>3 DEF Entry
  <2>2. [result[m] EXCEPT !.values = IF value = <<>> THEN <<>> ELSE @ \o value]
          = [name |-> name, values |-> vals \o value]
    <3>1. value # <<>>
      OBVIOUS
    <3> HIDE DEF value, vals, name, same
    <3>2. [[name |-> name, values |-> vals]
             EXCEPT !.values = IF value = <<>> THEN <<>> ELSE @ \o value]
            = [name |-> name, values |-> vals \o value]
      <4>1. \A v : [[name |-> name, values |-> vals] EXCEPT !.values = v]
                     = [name |-> name, values |-> v]
        OBVIOUS
      <4>2. [name |-> name, values |-> vals].values = vals
        OBVIOUS
      <4>3. (IF value = <<>> THEN <<>> ELSE [name |-> name, values |-> vals].values \o value)
              = vals \o value
        BY <3>1, <4>2
      <4> QED
        BY <4>1, <4>3
    <3> QED
      BY <2>1, <3>2
  <2>3. vals \o value = [h \in 1..(j + 1) |-> ValueText[list[m].values[h]]]
    <3>1. \A h \in 1..(j + 1) : ValueText[list[m].values[h]] \in Seq(0..255)
      <4>1. \A h \in 1..(j + 1) : h \in 1..Len(list[m].values)
        BY <1>2
      <4>2. \A h \in 1..(j + 1) : list[m].values[h] \in Values
        BY <1>2, <4>1
      <4> QED
        BY <4>2, LinkAssumption
    <3> DEFINE all == [h \in 1..(j + 1) |-> ValueText[list[m].values[h]]]
    <3>2. vals \in Seq(Seq(0..255)) /\ Len(vals) = j /\ value \in Seq(Seq(0..255)) /\ Len(value) = 1
      <4>1. \A h \in 1..j : h \in 1..(j + 1)
        OBVIOUS
      <4>2. j + 1 \in 1..(j + 1)
        OBVIOUS
      <4> HIDE DEF same
      <4>3. text1 \in Seq(0..255)
        BY <3>1, <4>2
      <4>4. vals \in [1..j -> Seq(0..255)]
        BY <3>1, <4>1
      <4> HIDE DEF text1, vals
      <4> QED
        BY <4>3, <4>4
    <3>3. /\ vals \o value \in Seq(Seq(0..255)) /\ Len(vals \o value) = j + 1
          /\ \A h \in 1..j : (vals \o value)[h] = vals[h]
          /\ (vals \o value)[j + 1] = value[1]
      <4> HIDE DEF vals, value
      <4>1. DOMAIN vals = 1..Len(vals) /\ DOMAIN value = 1..Len(value) /\ 1 \in DOMAIN value
        BY <3>2
      <4>2. /\ vals \o value \in Seq(Seq(0..255)) /\ Len(vals \o value) = Len(vals) + Len(value)
            /\ \A h \in DOMAIN vals : (vals \o value)[h] = vals[h]
            /\ \A h \in DOMAIN value : (vals \o value)[Len(vals) + h] = value[h]
        <5>1. vals \in Seq(Seq(0..255)) /\ value \in Seq(Seq(0..255))
          BY <3>2
        <5> QED
          BY <5>1, Seqs!ConcatAt
      <4> QED
        BY <3>2, <4>1, <4>2
    <3>4. all \in Seq(Seq(0..255)) /\ Len(all) = j + 1
      <4>1. all \in [1..(j + 1) -> Seq(0..255)]
        BY <3>1
      <4> HIDE DEF all
      <4> QED
        BY <4>1
    <3>5. ASSUME NEW h \in 1..(j + 1) PROVE (vals \o value)[h] = all[h]
      <4>1. CASE h = j + 1
        <5>1. value[1] = text1 /\ all[h] = text1
          BY <4>1
        <5> HIDE DEF vals, value, all, text1
        <5> QED
          BY <3>3, <4>1, <5>1
      <4>2. CASE h # j + 1
        <5>1. h \in 1..j
          BY <4>2
        <5>2. vals[h] = all[h]
          BY <5>1
        <5> HIDE DEF vals, value, all
        <5> QED
          BY <3>3, <5>1, <5>2
      <4> QED
        BY <4>1, <4>2
    <3> DEFINE both == vals \o value
    <3> HIDE DEF all, both
    <3>6. /\ both \in Seq(Seq(0..255)) /\ Len(both) = j + 1
          /\ \A h \in 1..(j + 1) : both[h] = all[h]
      BY <3>3, <3>5 DEF both
    <3>7. both = [h \in 1..(j + 1) |-> both[h]] /\ all = [h \in 1..(j + 1) |-> all[h]]
      BY <3>4, <3>6
    <3>8. both = all
      BY <3>6, <3>7
    <3> QED
      BY <3>8 DEF all, both
  <2> HIDE DEF vals, value
  <2> QED
    BY <2>2, <2>3 DEF Entry
<1>7. same # {} /\ m \in same /\ \A l \in 1..m : l < m => l \notin same
  BY <1>1, <1>5
<1> DEFINE taken == Taken(result, name, value)
<1>8. taken = [l \in 1..m |-> IF l \notin same THEN result[l]
                              ELSE [result[l] EXCEPT !.values = IF value = <<>> THEN <<>> ELSE @ \o value]]
  BY <1>3, <1>7 DEF Taken
<1> HIDE DEF same, value, taken, name
<1>9. ASSUME NEW l \in 1..m PROVE taken[l] = next[l]
  <2>1. CASE l < m
    BY <1>3, <1>7, <1>8, <2>1
  <2>2. CASE l = m
    BY <1>3, <1>6, <1>7, <1>8, <2>2
  <2> QED
    BY <1>1, <2>1, <2>2
<1>10. taken = [l \in 1..m |-> taken[l]]
  BY <1>8
<1>11. taken = next
  BY <1>4, <1>9, <1>10
<1> QED
  BY <1>11 DEF taken, result, next, name, value

\* A parameter has been read when all its parts have.
LEMMA LastRead ==
  ASSUME NEW list \in Seq(Param), NEW m \in 1..Len(list)
  PROVE  ReadOf(list, m, Len(Parts(list[m]))) = AllRead(list, m)
<1> DEFINE param == list[m]
           len == Len(Parts(param))
<1>1. param \in Param /\ m \in Nat
  OBVIOUS
<1>2. /\ param.values = <<>> => len = 1
      /\ param.values # <<>> => len = Len(param.values)
  BY <1>1, PartsOfParam
<1>3. (IF param.values = <<>> THEN 0 ELSE len) = Len(param.values)
  BY <1>2
<1>4. \A l \in 1..m : ~(l < m) => l = m
  BY <1>1
<1> HIDE DEF len
<1>5. ASSUME NEW l \in 1..m
      PROVE  (IF l < m THEN Len(list[l].values) ELSE IF list[l].values = <<>> THEN 0 ELSE len)
               = Len(list[l].values)
  <2>1. CASE l < m
    BY <2>1
  <2>2. CASE ~(l < m)
    BY <1>3, <1>4, <2>2
  <2> QED
    BY <2>1, <2>2
<1>6. ReadOf(list, m, len) = AllRead(list, m)
  BY <1>5, Zenon DEF ReadOf, AllRead
<1> QED
  BY <1>6 DEF len

\* Each part takes what has been read one part further.
LEMMA ReadStep ==
  ASSUME NEW list \in Seq(Param), Distinct(list), NEW result,
         NEW k \in 1..Len(FlatList(list)), ReadAt(list, result, k - 1)
  PROVE  LET part == FlatList(list)[k]
         IN  ReadAt(list, Taken(result, NameText[part.name], PartValue(part)), k)
<1> DEFINE f == FlatList(list)
           n == Len(f)
           q == ParamsLie(list)
           end == Len(list)
           part == f[k]
           len(m) == Len(Parts(list[m]))
<1>1. /\ end \in Nat /\ n \in Nat /\ q \in [0..end -> Nat] /\ q[0] = 0 /\ q[end] = n
      /\ \A m \in 1..end : /\ len(m) \in Nat /\ len(m) >= 1 /\ q[m] = q[m - 1] + len(m)
                           /\ \A j \in 1..len(m) : f[q[m - 1] + j] = Parts(list[m])[j]
  BY ParamsInList
<1>2. k \in Nat /\ 1 <= k /\ k <= n
  BY <1>1
<1> HIDE DEF f, n, q, part
<1>3. ASSUME NEW m \in 1..end, k - 1 = q[m - 1], result = AllRead(list, m - 1)
      PROVE  ReadAt(list, Taken(result, NameText[part.name], PartValue(part)), k)
  <2>1. 1 \in 1..len(m)
    <3>1. len(m) \in Nat /\ len(m) >= 1
      BY <1>1
    <3> HIDE DEF len
    <3> QED
      BY <3>1
  <2>2. k = q[m - 1] + 1
    <3>1. q[m - 1] \in Nat
      <4>1. m - 1 \in 0..end
        BY <1>1
      <4> QED
        BY <1>1, <4>1
    <3> QED
      BY <1>2, <1>3, <3>1
  <2>3. part = Parts(list[m])[1]
    BY <1>1, <2>1, <2>2 DEF part
  <2>4. Taken(result, NameText[part.name], PartValue(part)) = ReadOf(list, m, 1)
    BY <1>3, <2>3, TakenNew
  <2> QED
    BY <2>1, <2>2, <2>4 DEF ReadAt, q
<1>4. CASE k - 1 = 0 /\ result = <<>>
  <2>1. end # 0
    BY <1>1, <1>2
  <2>2. 1 \in 1..end /\ 1 - 1 = 0
    BY <1>1, <2>1
  <2>3. result = AllRead(list, 0)
    BY <1>4 DEF AllRead
  <2> DEFINE first == 1
  <2>4. first \in 1..end /\ k - 1 = q[first - 1] /\ result = AllRead(list, first - 1)
    BY <1>1, <1>4, <2>2, <2>3
  <2> HIDE DEF first
  <2> QED
    BY <1>3, <2>4 DEF part, f
<1>5. ASSUME NEW m \in 1..end, NEW j \in 1..len(m), k - 1 = q[m - 1] + j, result = ReadOf(list, m, j)
      PROVE  ReadAt(list, Taken(result, NameText[part.name], PartValue(part)), k)
  <2>1. /\ q[m - 1] \in Nat /\ j \in Nat /\ 1 <= j /\ j <= len(m) /\ len(m) \in Nat
        /\ m \in Nat /\ m <= end /\ 1 <= m
    <3>1. m - 1 \in 0..end /\ m \in Nat /\ m <= end /\ 1 <= m
      BY <1>1
    <3>2. q[m - 1] \in Nat /\ len(m) \in Nat
      BY <1>1, <3>1
    <3> HIDE DEF len
    <3> QED
      BY <3>1, <3>2
  <2>2. CASE j < len(m)
    <3> DEFINE param == list[m]
    <3>1. param \in Param
      OBVIOUS
    <3>2. /\ param.values \in Seq(Values) /\ Len(param.values) \in Nat
          /\ param.values = <<>> => len(m) = 1
          /\ param.values # <<>> =>
               /\ len(m) = Len(param.values)
               /\ \A h \in 1..Len(param.values) :
                    Parts(param)[h] = Part(param.name, <<param.values[h]>>)
      BY <3>1, PartsOfParam
    <3>3. param.values # <<>>
      <4> SUFFICES ASSUME param.values = <<>> PROVE FALSE
        OBVIOUS
      <4>1. len(m) = 1
        BY <3>2
      <4> QED
        BY <2>1, <2>2, <4>1
    <3>4. len(m) = Len(param.values)
      BY <3>2, <3>3
    <3> HIDE DEF param, len
    <3>5. j + 1 \in 1..len(m) /\ k = q[m - 1] + (j + 1) /\ j + 1 <= Len(param.values)
      <4> DEFINE l == len(m)
                 p == q[m - 1]
      <4>1. /\ l \in Nat /\ p \in Nat /\ j \in Nat /\ 1 <= j /\ j < l /\ k \in Nat /\ k - 1 = p + j
            /\ l = Len(param.values)
        BY <1>2, <1>5, <2>1, <2>2, <3>4
      <4> HIDE DEF l, p
      <4>2. j + 1 \in 1..l /\ k = p + (j + 1) /\ j + 1 <= l
        BY <4>1
      <4> QED
        BY <4>1, <4>2 DEF l, p
    <3>6. part = Parts(param)[j + 1]
      <4>1. f[q[m - 1] + (j + 1)] = Parts(list[m])[j + 1]
        BY <1>1, <3>5 DEF len
      <4> QED
        BY <3>5, <4>1 DEF part, param
    <3>7. part = Part(param.name, <<param.values[j + 1]>>)
      BY <3>2, <3>3, <3>4, <3>5, <3>6
    <3>8. /\ part.name = param.name
          /\ PartValue(part) = <<ValueText[param.values[j + 1]]>>
      BY <3>7 DEF Part, PartValue
    <3>9. Taken(result, NameText[part.name], PartValue(part)) = ReadOf(list, m, j + 1)
      <4>1. Taken(ReadOf(list, m, j), NameText[list[m].name], <<ValueText[list[m].values[j + 1]]>>)
              = ReadOf(list, m, j + 1)
        BY <2>1, <3>5, TakenMore DEF param
      <4> QED
        BY <1>5, <3>8, <4>1 DEF param
    <3> QED
      BY <3>5, <3>9 DEF ReadAt, q, len
  <2>3. CASE ~(j < len(m))
    <3>1. j = len(m)
      BY <2>1, <2>3
    <3>2. q[m] = q[m - 1] + len(m)
      BY <1>1
    <3>3. k - 1 = q[m] /\ result = AllRead(list, m)
      BY <1>5, <3>1, <3>2, LastRead
    <3>4. m # end
      BY <1>1, <1>2, <3>3
    <3>5. m + 1 \in 1..end /\ (m + 1) - 1 = m
      BY <1>1, <2>1, <3>4
    <3> QED
      BY <1>3, <3>3, <3>5
  <2> QED
    BY <2>2, <2>3
<1> QED
  BY <1>4, <1>5 DEF ReadAt, q, part, f

\* Once the parts of the first parameters have been read, these have.
LEMMA ReadEnds ==
  ASSUME NEW list \in Seq(Param), NEW result, NEW m \in 0..Len(list),
         ReadAt(list, result, ParamsLie(list)[m])
  PROVE  result = AllRead(list, m)
<1> DEFINE f == FlatList(list)
           q == ParamsLie(list)
           end == Len(list)
           len(l) == Len(Parts(list[l]))
<1>1. /\ end \in Nat /\ q \in [0..end -> Nat] /\ q[0] = 0
      /\ \A l \in 1..end : len(l) \in Nat /\ len(l) >= 1 /\ q[l] = q[l - 1] + len(l)
      /\ \A l, p \in 0..end : l <= p => q[l] <= q[p]
  BY ParamsInList
<1> HIDE DEF q, f
<1>2. CASE q[m] = 0 /\ result = <<>>
  <2>1. m = 0
    <3> SUFFICES ASSUME m # 0 PROVE FALSE
      OBVIOUS
    <3>1. m \in 1..end /\ m - 1 \in 0..end
      BY <1>1
    <3>2. q[m] = q[m - 1] + len(m) /\ len(m) \in Nat /\ len(m) >= 1 /\ q[m - 1] \in Nat
      BY <1>1, <3>1
    <3> HIDE DEF len
    <3> QED
      BY <1>2, <3>2
  <2> QED
    BY <1>2, <2>1 DEF AllRead
<1>3. ASSUME NEW l \in 1..end, NEW j \in 1..len(l), q[m] = q[l - 1] + j, result = ReadOf(list, l, j)
      PROVE  result = AllRead(list, m)
  <2>1. /\ l - 1 \in 0..end /\ l \in 0..end /\ m \in 0..end /\ l \in Nat /\ m \in Nat
    BY <1>1
  <2>2. /\ q[l - 1] \in Nat /\ q[l] \in Nat /\ q[m] \in Nat /\ len(l) \in Nat
        /\ q[l] = q[l - 1] + len(l) /\ q[l - 1] < q[m] /\ q[m] <= q[l] /\ j \in Nat /\ j <= len(l)
    <3>1. /\ q[l - 1] \in Nat /\ q[l] \in Nat /\ q[m] \in Nat /\ len(l) \in Nat
          /\ q[l] = q[l - 1] + len(l)
      BY <1>1, <2>1
    <3>2. j \in Nat /\ 1 <= j /\ j <= len(l)
      BY <3>1
    <3> HIDE DEF len
    <3> QED
      BY <1>3, <3>1, <3>2
  <2>3. ~(m <= l - 1)
    <3> SUFFICES ASSUME m <= l - 1 PROVE FALSE
      OBVIOUS
    <3>1. q[m] <= q[l - 1]
      BY <1>1, <2>1
    <3> QED
      BY <2>2, <3>1
  <2>4. ~(l < m)
    <3> SUFFICES ASSUME l < m PROVE FALSE
      OBVIOUS
    <3>1. m \in 1..end /\ m - 1 \in 0..end /\ l <= m - 1
      BY <1>1, <2>1
    <3>2. q[l] <= q[m - 1] /\ q[m] = q[m - 1] + len(m) /\ len(m) \in Nat /\ len(m) >= 1
          /\ q[m - 1] \in Nat
      BY <1>1, <2>1, <3>1
    <3> HIDE DEF len
    <3> QED
      BY <2>2, <3>2
  <2>5. l = m
    BY <2>1, <2>3, <2>4
  <2> HIDE DEF len
  <2>6. j = len(l)
    BY <1>3, <2>2, <2>5
  <2> QED
    BY <1>3, <2>5, <2>6, LastRead DEF len
<1> QED
  BY <1>2, <1>3 DEF ReadAt, q

--------------------------------------------------------------------------------
(* What is lost at the end of a query.                                     *)

LEMMA EncodedEmpty ==
  ASSUME NEW s \in Seq(Chars), NEW inForm \in BOOLEAN
  PROVE  U!Encode(s, inForm) = <<>> <=> s = <<>>
<1> DEFINE e == U!Encode(s, inForm)
           q == Offset(s, inForm)
<1>1. /\ q[0] = 0 /\ q[Len(s)] = Len(e) /\ \A k \in 0..Len(s) : k < Len(s) => q[k] < Len(e)
  BY Offsets
<1>2. e \in Seq(Chars \ Marks) /\ Len(s) \in Nat
  BY EncodedPieces
<1> HIDE DEF e, q
<1>3. Len(e) = 0 <=> Len(s) = 0
  <2>1. CASE Len(s) = 0
    BY <1>1, <2>1
  <2>2. CASE Len(s) # 0
    <3>1. 0 \in 0..Len(s) /\ 0 < Len(s)
      BY <1>2, <2>2
    <3>2. q[0] < Len(e)
      BY <1>1, <3>1
    <3> QED
      BY <1>1, <2>2, <3>2
  <2> QED
    BY <2>1, <2>2
<1>4. (e = <<>> <=> Len(e) = 0) /\ (s = <<>> <=> Len(s) = 0)
  BY <1>2
<1> QED
  BY <1>3, <1>4 DEF e

\* A part at the end of which the text shows nothing.
Lost(list) ==
  LET parts == FlatList(list)
  IN  Len(parts) # 0 /\ PartText(parts[Len(parts)]) = <<>>

LEMMA LostIs ==
  ASSUME NEW list \in Seq(Param)
  PROVE  LET M == Len(list)
         IN  /\ Lost(list) <=> /\ M # 0
                               /\ AllRead(list, M)[M] = [name |-> <<>>, values |-> <<>>]
             /\ Lost(list) => /\ M - 1 \in 0..M
                              /\ ParamsLie(list)[M - 1] = Len(FlatList(list)) - 1
<1> DEFINE f == FlatList(list)
           n == Len(f)
           q == ParamsLie(list)
           M == Len(list)
           len == Len(Parts(list[M]))
           param == list[M]
           part == f[n]
<1>1. /\ M \in Nat /\ n \in Nat /\ q \in [0..M -> Nat] /\ q[0] = 0 /\ q[M] = n
      /\ \A m \in 1..M : /\ Len(Parts(list[m])) \in Nat /\ Len(Parts(list[m])) >= 1
                         /\ q[m] = q[m - 1] + Len(Parts(list[m]))
                         /\ \A j \in 1..Len(Parts(list[m])) : f[q[m - 1] + j] = Parts(list[m])[j]
  BY ParamsInList
<1>2. Lost(list) <=> n # 0 /\ PartText(part) = <<>>
  BY DEF Lost
<1>3. CASE M = 0
  <2>1. n = 0
    BY <1>1, <1>3
  <2> QED
    BY <1>2, <1>3, <2>1
<1>4. CASE M # 0
  <2>1. M \in 1..M /\ M - 1 \in 0..M
    BY <1>1, <1>4
  <2>2. param \in Param
    BY <2>1
  <2>3. /\ len \in Nat /\ len >= 1 /\ n = q[M - 1] + len /\ q[M - 1] \in Nat
        /\ part = Parts(param)[len]
    <3>1. /\ len \in Nat /\ len >= 1 /\ q[M] = q[M - 1] + len /\ q[M - 1] \in Nat
          /\ \A j \in 1..len : f[q[M - 1] + j] = Parts(param)[j]
      BY <1>1, <2>1
    <3>2. len \in 1..len
      <4>1. len \in Nat /\ len >= 1
        BY <3>1
      <4> HIDE DEF len
      <4> QED
        BY <4>1
    <3> HIDE DEF len
    <3> QED
      BY <1>1, <3>1, <3>2
  <2>4. /\ param.name \in Names /\ param.values \in Seq(Values) /\ Len(param.values) \in Nat
        /\ param.values = <<>> => len = 1 /\ Parts(param)[1] = Part(param.name, <<>>)
        /\ param.values # <<>> =>
             /\ len = Len(param.values) /\ Len(param.values) >= 1
             /\ \A k \in 1..Len(param.values) : Parts(param)[k] = Part(param.name, <<param.values[k]>>)
    BY <2>2, PartsOfParam
  <2>5. AllRead(list, M)[M] = [name |-> NameText[param.name],
                               values |-> [h \in 1..Len(param.values) |-> ValueText[param.values[h]]]]
    BY <2>1 DEF AllRead, Entry
  <2>6. n # 0
    <3> HIDE DEF len, n
    <3> QED
      BY <2>3
  <2>7. part \in AllParts
    <3>1. n \in 1..n
      BY <1>1, <2>6
    <3> QED
      BY <3>1, JoinedParts
  <2> HIDE DEF param, len, part, f, n, q
  <2>8. CASE param.values = <<>>
    <3>1. part = Part(param.name, <<>>) /\ q[M - 1] = n - 1
      BY <2>3, <2>4, <2>8
    <3>2. PartText(part) = U!Encode(NameText[param.name], TRUE)
      <4>1. part.value = <<>> /\ part.name = param.name
        BY <3>1 DEF Part
      <4>2. PartText(part) = NameOf(part)
        BY <2>7, <4>1, PartTexts
      <4> QED
        BY <4>1, <4>2 DEF NameOf
    <3>3. PartText(part) = <<>> <=> NameText[param.name] = <<>>
      <4>1. NameText[param.name] \in Seq(Chars)
        BY <2>4, LinkAssumption DEF Chars
      <4> QED
        BY <3>2, <4>1, EncodedEmpty
    <3>4. AllRead(list, M)[M] = [name |-> NameText[param.name], values |-> <<>>]
      BY <2>5, <2>8
    <3>5. AllRead(list, M)[M] = [name |-> <<>>, values |-> <<>>] <=> NameText[param.name] = <<>>
      <4>1. AllRead(list, M)[M].name = NameText[param.name]
        BY <3>4
      <4>2. [name |-> <<>>, values |-> <<>>].name = <<>>
        OBVIOUS
      <4> QED
        BY <3>4, <4>1, <4>2
    <3> QED
      BY <1>2, <1>4, <2>1, <2>6, <3>1, <3>3, <3>5 DEF q, n, f
  <2>9. CASE param.values # <<>>
    <3>1. PartText(part) # <<>>
      <4>1. part = Part(param.name, <<param.values[len]>>)
        <5>1. len \in 1..Len(param.values)
          BY <2>3, <2>4, <2>9
        <5> QED
          BY <2>3, <2>4, <2>9, <5>1
      <4>2. part.value # <<>>
        BY <4>1 DEF Part
      <4> DEFINE a == Len(NameOf(part))
                 b == Len(ValueOf(part))
      <4>3. a \in Nat /\ b \in Nat /\ Len(PartText(part)) = a + 1 + b
        BY <2>7, <4>2, PartAt
      <4>4. Len(<<>>) = 0
        OBVIOUS
      <4> HIDE DEF a, b
      <4> QED
        BY <4>3, <4>4
    <3>2. AllRead(list, M)[M].values # <<>>
      <4>1. AllRead(list, M)[M].values = [h \in 1..Len(param.values) |-> ValueText[param.values[h]]]
        BY <2>5
      <4>2. 1 \in DOMAIN [h \in 1..Len(param.values) |-> ValueText[param.values[h]]]
        BY <2>4, <2>9
      <4>3. DOMAIN <<>> = {}
        OBVIOUS
      <4> QED
        BY <4>1, <4>2, <4>3
    <3>3. [name |-> <<>>, values |-> <<>>].values = <<>>
      OBVIOUS
    <3> QED
      BY <1>2, <3>1, <3>2, <3>3
  <2> QED
    BY <2>8, <2>9
<1> QED
  BY <1>3, <1>4

--------------------------------------------------------------------------------
(* The request in the course of reading a link.                            *)

LEMMA DecodingAnew ==
  ASSUME NEW s \in Seq(Chars), NEW inForm \in BOOLEAN,
         text' = U!Encode(s, inForm), form' = inForm, i' = 0, out' = <<>>
  PROVE  Decoding(s, inForm)'
<1>1. Offset(s, inForm)[0] = 0
  BY Offsets
<1>2. 0 \in 0..Len(s) /\ out' \in Seq(Chars) /\ Len(out') = 0
  OBVIOUS
<1> QED
  BY <1>1, <1>2 DEF Decoding

Carried(list, raw) ==
  LET parts == FlatList(list)
  IN  \/ phase = "path" /\ Decoding(raw, FALSE) /\ read = <<>>
      \/ /\ phase = "name" /\ path = raw
         /\ \E k \in 1..Len(parts) :
              /\ it = PartStart(list, raw, k) /\ it < QueryEnd(target)
              /\ Decoding(NameText[parts[k].name], TRUE)
              /\ ReadAt(list, read, k - 1)
      \/ /\ phase = "value" /\ path = raw
         /\ \E k \in 1..Len(parts) :
              /\ parts[k].value # <<>>
              /\ it = PartStart(list, raw, k) + Len(NameOf(parts[k])) + 1
              /\ called = NameText[parts[k].name]
              /\ Decoding(ValueText[parts[k].value[1]], TRUE)
              /\ ReadAt(list, read, k - 1)
      \/ /\ phase = "done" /\ path = raw
         /\ ReadAt(list, read, IF Lost(list) THEN Len(parts) - 1 ELSE Len(parts))

LEMMA NameAtCarries ==
  ASSUME NEW list \in Seq(Param), NEW raw \in Seq(Chars), target = LinkText(list, raw),
         target' = target, path' = raw, NEW k \in 1..Len(FlatList(list)),
         NameAt(PartStart(list, raw, k)), ReadAt(list, read', k - 1)
  PROVE  Carried(list, raw)'
<1> DEFINE f == FlatList(list)
           n == Len(f)
           part == f[k]
           start == PartStart(list, raw, k)
           stop == PartStop(list, raw, k)
           end == QueryEnd(target)
           named == start + Len(NameOf(part))
<1>1. /\ start \in Nat /\ stop = start + Len(PartText(part)) /\ stop <= end /\ end \in Nat
      /\ n \in Nat /\ (k # n => stop < end)
  BY PartsInLink
<1>2. /\ part \in AllParts /\ LookFor({Equals, Ampersand}, start) = named
      /\ SubSeq(target, start, named - 1) = NameOf(part)
  BY PartRead
<1> HIDE DEF f, n, part, start, stop, end, named
<1>3. CASE start < end
  <2>1. /\ phase' = "name" /\ it' = start /\ Decode(target, memory, start, named, TRUE)
    BY <1>2, <1>3 DEF NameAt, start, end
  <2>2. NameText[part.name] \in Seq(Chars)
    BY <1>2, PartTexts
  <2>3. text' = U!Encode(NameText[part.name], TRUE) /\ form' = TRUE /\ i' = 0 /\ out' = <<>>
    BY <1>2, <2>1 DEF Decode, NameOf
  <2>4. Decoding(NameText[part.name], TRUE)'
    BY <2>2, <2>3, DecodingAnew
  <2>5. it' < QueryEnd(target')
    BY <1>3, <2>1 DEF end
  <2> QED
    BY <2>1, <2>4, <2>5 DEF Carried, part, f, start
<1>4. CASE ~(start < end)
  <2>1. phase' = "done"
    BY <1>4 DEF NameAt, start, end
  <2>2. PartText(part) = <<>> /\ k = n
    <3>1. PartText(part) \in Seq(Chars)
      BY <1>2, PartAt
    <3>2. Len(PartText(part)) \in Nat
      BY <3>1
    <3>3. Len(PartText(part)) = 0 /\ ~(stop < end)
      BY <1>1, <1>4, <3>2
    <3> QED
      BY <1>1, <3>1, <3>3
  <2>3. Lost(list)
    <3>1. n # 0
      BY <1>1, <2>2 DEF n, f
    <3> QED
      BY <2>2, <3>1 DEF Lost, n, f, part
  <2>4. ReadAt(list, read', n - 1)
    BY <2>2
  <2> QED
    BY <2>1, <2>3, <2>4 DEF Carried, n, f
<1> QED
  BY <1>3, <1>4

LEMMA PartEndsCarries ==
  ASSUME NEW list \in Seq(Param), NEW raw \in Seq(Chars), target = LinkText(list, raw),
         target' = target, path' = raw, NEW k \in 1..Len(FlatList(list)),
         PartStart(list, raw, k) < QueryEnd(target),
         PartEnds(PartStop(list, raw, k)), ReadAt(list, read', k)
  PROVE  Carried(list, raw)'
<1> DEFINE f == FlatList(list)
           n == Len(f)
           part == f[k]
           start == PartStart(list, raw, k)
           stop == PartStop(list, raw, k)
           end == QueryEnd(target)
<1>1. /\ start \in Nat /\ stop = start + Len(PartText(part)) /\ end \in Nat /\ n \in Nat
      /\ (k = n => stop = end)
      /\ (k # n => k + 1 \in 1..n /\ PartStart(list, raw, k + 1) = stop + 1)
  BY PartsInLink
<1>2. Is(Ampersand, stop) <=> k # n
  BY PartRead
<1> HIDE DEF f, n, part, start, stop, end
<1>3. CASE k # n
  <2> DEFINE next == k + 1
  <2>1. next \in 1..n /\ PartStart(list, raw, next) = stop + 1 /\ next - 1 = k
    BY <1>1, <1>3 DEF n, f
  <2>2. NameAt(stop + 1)
    BY <1>2, <1>3 DEF PartEnds, stop
  <2> HIDE DEF next
  <2>3. NameAt(PartStart(list, raw, next)) /\ ReadAt(list, read', next - 1)
    BY <2>1, <2>2
  <2> QED
    BY <2>1, <2>3, NameAtCarries DEF n, f
<1>4. CASE k = n
  <2>1. phase' = "done"
    BY <1>2, <1>4 DEF PartEnds, stop
  <2>2. ~Lost(list)
    <3>1. PartText(part) # <<>>
      <4> SUFFICES ASSUME PartText(part) = <<>> PROVE FALSE
        OBVIOUS
      <4>1. Len(PartText(part)) = 0
        OBVIOUS
      <4>2. start < end
        BY DEF start, end
      <4> QED
        BY <1>1, <1>4, <4>1, <4>2
    <3>2. part = f[n]
      BY <1>4 DEF part
    <3> QED
      BY <3>1, <3>2 DEF Lost, n, f
  <2>3. ReadAt(list, read', n)
    BY <1>4
  <2> QED
    BY <2>1, <2>2, <2>3 DEF Carried, n, f
<1> QED
  BY <1>3, <1>4

\* The query that is built has nothing to do with the request until it is sent;
\* then what the request has is the beginning of it.
LinkCarried ==
  /\ phase = "build" => read = <<>>
  /\ phase # "build" =>
       \A list \in Seq(Param), raw \in Paths :
         values = list /\ target = LinkText(list, raw) => Carried(list, raw)

LEMMA PathPiece ==
  ASSUME NEW list \in Seq(Param), NEW raw \in Seq(Chars)
  PROVE  LET t == LinkText(list, raw)
         IN  /\ U!PathOf(t) = U!Encode(raw, FALSE)
             /\ SubSeq(t, 1, (Len(U!PathOf(t)) + 1) - 1) = U!Encode(raw, FALSE)
<1> DEFINE t == LinkText(list, raw)
           p == U!PathEnd(t)
<1>1. t \in Seq(Chars) /\ U!PathOf(t) = U!Encode(raw, FALSE)
  BY LinkIs
<1> HIDE DEF t
<1>2. p \in Nat /\ Len(U!PathOf(t)) = p
  <2>1. p \in 0..Len(t) /\ Len(U!PathOf(t)) = p
    BY <1>1, PathEnds
  <2> HIDE DEF p
  <2>2. p \in Nat
    BY <2>1
  <2> QED
    BY <2>1, <2>2
<1>3. (Len(U!PathOf(t)) + 1) - 1 = p
  BY <1>2
<1>4. U!PathOf(t) = SubSeq(t, 1, p)
  BY DEF U!PathOf
<1>5. SubSeq(t, 1, (Len(U!PathOf(t)) + 1) - 1) = U!Encode(raw, FALSE)
  BY <1>1, <1>3, <1>4
<1> QED
  BY <1>1, <1>5 DEF t

LEMMA CarriedBegins == LinkInit => LinkCarried
<1> SUFFICES ASSUME LinkInit PROVE LinkCarried
  OBVIOUS
<1>1. read = <<>>
  BY DEF LinkInit
<1> SUFFICES ASSUME phase # "build", NEW list \in Seq(Param), NEW raw \in Paths,
                    target = LinkText(list, raw)
             PROVE  Carried(list, raw)
  BY <1>1 DEF LinkCarried
<1>2. raw \in Seq(Chars)
  BY LinkAssumption DEF Chars
<1>3. phase = "path" /\ text = U!PathOf(target) /\ form = FALSE /\ i = 0 /\ out = <<>>
  BY DEF LinkInit
<1>4. text = U!Encode(raw, FALSE)
  BY <1>2, <1>3, PathPiece
<1>5. Decoding(raw, FALSE)
  BY <1>2, <1>3, <1>4, DecodingBegins
<1> QED
  BY <1>1, <1>3, <1>5 DEF Carried

LEMMA Read ==
  ASSUME NEW list \in Seq(Param), NEW raw \in Seq(Chars), target = LinkText(list, raw),
         Distinct(list), NEW k \in 1..Len(FlatList(list)), ReadAt(list, read, k - 1)
  PROVE  LET part == FlatList(list)[k]
         IN  ReadAt(list, Taken(read, NameText[part.name], PartValue(part)), k)
BY ReadStep

LEMMA PathCarries ==
  ASSUME NEW list \in Seq(Param), NEW raw \in Seq(Chars), target = LinkText(list, raw),
         Carried(list, raw), PathDone
  PROVE  Carried(list, raw)'
<1> DEFINE n == Len(FlatList(list))
<1>1. /\ phase = "path" /\ U!Done /\ path' = out /\ NameAt(QueryStart(target))
      /\ target' = target /\ read' = read
  BY DEF PathDone
<1>2. Decoding(raw, FALSE) /\ read = <<>>
  BY <1>1 DEF Carried
<1>3. path' = raw /\ read' = <<>>
  BY <1>1, <1>2, DecodingEnds
<1>4. ReadAt(list, read', 0)
  BY <1>3 DEF ReadAt
<1>5. /\ n \in Nat /\ QueryEnd(target) \in Nat
      /\ n = 0 => QueryStart(target) = QueryEnd(target)
      /\ n # 0 => QueryStart(target) = PartStart(list, raw, 1)
  BY PartsInLink
<1> HIDE DEF n
<1>6. CASE n = 0
  <2>1. phase' = "done"
    <3>1. ~(QueryStart(target) < QueryEnd(target))
      BY <1>5, <1>6
    <3> QED
      BY <1>1, <3>1 DEF NameAt
  <2>2. ~Lost(list)
    BY <1>6 DEF Lost, n
  <2> QED
    BY <1>3, <1>4, <1>6, <2>1, <2>2 DEF Carried, n
<1>7. CASE n # 0
  <2> DEFINE first == 1
  <2>1. first \in 1..n /\ first - 1 = 0
    BY <1>5, <1>7
  <2>2. NameAt(PartStart(list, raw, first))
    BY <1>1, <1>5, <1>7
  <2> HIDE DEF first
  <2>3. ReadAt(list, read', first - 1)
    BY <1>4, <2>1
  <2> QED
    BY <1>1, <1>3, <2>1, <2>2, <2>3, NameAtCarries DEF n
<1> QED
  BY <1>6, <1>7

LEMMA NameCarries ==
  ASSUME NEW list \in Seq(Param), NEW raw \in Seq(Chars), target = LinkText(list, raw),
         Distinct(list), Carried(list, raw), NameDone
  PROVE  Carried(list, raw)'
<1> DEFINE f == FlatList(list)
           n == Len(f)
<1>1. /\ phase = "name" /\ U!Done /\ target' = target /\ path' = path
  BY DEF NameDone
<1>2. PICK k \in 1..n : /\ it = PartStart(list, raw, k) /\ it < QueryEnd(target)
                        /\ Decoding(NameText[f[k].name], TRUE)
                        /\ ReadAt(list, read, k - 1)
  BY <1>1 DEF Carried
<1>3. path' = raw
  BY <1>1 DEF Carried
<1> DEFINE part == f[k]
           stop == PartStop(list, raw, k)
           named == it + Len(NameOf(part))
<1>4. /\ part \in AllParts /\ named \in Nat /\ LookFor({Equals, Ampersand}, it) = named
      /\ part.value = <<>> => named = stop
      /\ part.value # <<>> => /\ Is(Equals, named)
                              /\ LookFor({Ampersand}, named + 1) = stop
                              /\ SubSeq(target, named + 1, stop - 1) = ValueOf(part)
      /\ ~Is(Equals, stop)
  BY <1>2, PartRead
<1>5. NameText[part.name] \in Seq(Chars) /\ (part.value # <<>> => ValueText[part.value[1]] \in Seq(Chars))
  BY <1>4, PartTexts
<1> HIDE DEF f, n, part, stop, named
<1>6. out = NameText[part.name]
  BY <1>1, <1>2, <1>5, DecodingEnds DEF part
<1>7. IF Is(Equals, named)
        THEN /\ phase' = "value" /\ called' = out /\ it' = named + 1
             /\ Decode(target, memory, named + 1, LookFor({Ampersand}, named + 1), TRUE)
             /\ UNCHANGED read
        ELSE read' = Taken(read, out, <<>>) /\ PartEnds(named)
  BY <1>4 DEF NameDone
<1>8. CASE part.value # <<>>
  <2>1. /\ phase' = "value" /\ called' = out /\ it' = named + 1 /\ read' = read
        /\ Decode(target, memory, named + 1, stop, TRUE)
    BY <1>4, <1>7, <1>8
  <2>2. text' = U!Encode(ValueText[part.value[1]], TRUE) /\ form' = TRUE /\ i' = 0 /\ out' = <<>>
    BY <1>4, <1>8, <2>1 DEF Decode, ValueOf
  <2>3. Decoding(ValueText[part.value[1]], TRUE)'
    BY <1>5, <1>8, <2>2, DecodingAnew
  <2>4. it' = PartStart(list, raw, k) + Len(NameOf(part)) + 1
    BY <1>2, <2>1 DEF named
  <2>5. called' = NameText[part.name] /\ ReadAt(list, read', k - 1)
    BY <1>2, <1>6, <2>1
  <2> QED
    BY <1>3, <1>8, <2>1, <2>3, <2>4, <2>5 DEF Carried, part, f, n
<1>9. CASE part.value = <<>>
  <2>1. read' = Taken(read, out, <<>>) /\ PartEnds(stop)
    BY <1>4, <1>7, <1>9
  <2>2. read' = Taken(read, NameText[part.name], PartValue(part))
    BY <1>6, <1>9, <2>1 DEF PartValue
  <2>3. ReadAt(list, read', k)
    BY <1>2, <2>2, Read DEF part, f, n
  <2>4. PartStart(list, raw, k) < QueryEnd(target)
    BY <1>2
  <2> QED
    BY <1>1, <1>3, <2>1, <2>3, <2>4, PartEndsCarries DEF stop, n, f
<1> QED
  BY <1>8, <1>9

LEMMA ValueCarries ==
  ASSUME NEW list \in Seq(Param), NEW raw \in Seq(Chars), target = LinkText(list, raw),
         Distinct(list), Carried(list, raw), ValueDone
  PROVE  Carried(list, raw)'
<1> DEFINE f == FlatList(list)
           n == Len(f)
<1>1. /\ phase = "value" /\ U!Done /\ target' = target /\ path' = path
      /\ read' = Taken(read, called, <<out>>) /\ PartEnds(LookFor({Ampersand}, it))
  BY DEF ValueDone
<1>2. PICK k \in 1..n : /\ f[k].value # <<>>
                        /\ it = PartStart(list, raw, k) + Len(NameOf(f[k])) + 1
                        /\ called = NameText[f[k].name]
                        /\ Decoding(ValueText[f[k].value[1]], TRUE)
                        /\ ReadAt(list, read, k - 1)
  BY <1>1 DEF Carried
<1>3. path' = raw
  BY <1>1 DEF Carried
<1> DEFINE part == f[k]
           start == PartStart(list, raw, k)
           stop == PartStop(list, raw, k)
           named == start + Len(NameOf(part))
<1>4. /\ part \in AllParts /\ Is(Equals, named) /\ LookFor({Ampersand}, named + 1) = stop
  BY <1>2, PartRead
<1>5. ValueText[part.value[1]] \in Seq(Chars) /\ Len(NameOf(part)) \in Nat
  BY <1>2, <1>4, PartTexts, PartAt
<1>6. start \in Nat /\ QueryEnd(target) \in Nat
  BY PartsInLink
<1>7. LookFor({Ampersand}, it) = stop
  BY <1>2, <1>4
<1> HIDE DEF f, n, part, start, stop
<1>8. out = ValueText[part.value[1]]
  BY <1>1, <1>2, <1>5, DecodingEnds DEF part
<1>9. read' = Taken(read, NameText[part.name], PartValue(part))
  BY <1>1, <1>2, <1>8 DEF PartValue, part
<1>10. ReadAt(list, read', k)
  BY <1>2, <1>9, Read DEF part, f, n
<1>11. start < QueryEnd(target)
  <2>1. named < QueryEnd(target)
    BY <1>4 DEF Is
  <2> QED
    BY <1>5, <1>6, <2>1
<1> QED
  BY <1>1, <1>3, <1>7, <1>10, <1>11, PartEndsCarries DEF start, stop, n, f

LEMMA CarriedStep ==
  ASSUME LinkCarried, Indexed, [LinkNext]_linkVars
  PROVE  LinkCarried'
<1>1. phase' = "build" => read' = <<>>
  <2> SUFFICES ASSUME phase' = "build" PROVE read' = <<>>
    OBVIOUS
  <2>1. phase = "build" /\ read' = read
    BY DEF LinkNext, linkVars, Build, Send, Receive, DecodeStep, PathDone, NameDone, ValueDone,
           NameAt, PartEnds
  <2> QED
    BY <2>1 DEF LinkCarried
<1> SUFFICES ASSUME phase' # "build", NEW list \in Seq(Param), NEW raw \in Paths,
                    values' = list, target' = LinkText(list, raw)
             PROVE  Carried(list, raw)'
  BY <1>1 DEF LinkCarried
<1>2. raw \in Seq(Chars)
  BY LinkAssumption DEF Chars
<1>3. CASE Send
  <2>1. PICK other \in Paths, after \in Behind : Receive(LinkTo(other), after)
    BY <1>3 DEF Send
  <2>2. /\ phase = "build" /\ read' = read /\ phase' = "path"
        /\ Decode(target', after, 1, Len(U!PathOf(target')) + 1, FALSE)
    BY <1>3, <2>1 DEF Send, Receive
  <2>3. text' = U!Encode(raw, FALSE) /\ form' = FALSE /\ i' = 0 /\ out' = <<>>
    BY <1>2, <2>2, PathPiece DEF Decode
  <2>4. Decoding(raw, FALSE)'
    BY <1>2, <2>3, DecodingAnew
  <2>5. read' = <<>>
    BY <2>2 DEF LinkCarried
  <2> QED
    BY <2>2, <2>4, <2>5 DEF Carried
<1>4. CASE ~Send
  <2>1. phase # "build" /\ values' = values /\ target' = target
    BY <1>4 DEF LinkNext, linkVars, vars, Build, DecodeStep, PathDone, NameDone, ValueDone
  <2>2. values = list /\ target = LinkText(list, raw)
    BY <2>1
  <2>3. Carried(list, raw)
    BY <2>1, <2>2 DEF LinkCarried
  <2>4. Distinct(list)
    <3>1. Distinct(values)
      BY DEF Distinct, Indexed
    <3> QED
      BY <2>2, <3>1
  <2>5. CASE DecodeStep
    <3>1. /\ UNCHANGED <<phase, target, path, it, called, read>> /\ U!Next
          /\ phase \in {"path", "name", "value"}
      BY <2>5 DEF DecodeStep
    <3>2. CASE phase = "path"
      <4>1. Decoding(raw, FALSE) /\ read = <<>>
        BY <2>3, <3>2 DEF Carried
      <4>2. Decoding(raw, FALSE)'
        BY <1>2, <3>1, <4>1, DecodingStep
      <4> QED
        BY <3>1, <3>2, <4>1, <4>2 DEF Carried
    <3>3. CASE phase = "name"
      <4> DEFINE f == FlatList(list)
      <4>1. PICK k \in 1..Len(f) : /\ it = PartStart(list, raw, k) /\ it < QueryEnd(target)
                                   /\ Decoding(NameText[f[k].name], TRUE)
                                   /\ ReadAt(list, read, k - 1)
        BY <2>3, <3>3 DEF Carried
      <4>2. NameText[f[k].name] \in Seq(Chars)
        BY <2>2, JoinedParts, PartTexts
      <4>3. Decoding(NameText[f[k].name], TRUE)'
        BY <3>1, <4>1, <4>2, DecodingStep
      <4>4. path = raw
        BY <2>3, <3>3 DEF Carried
      <4> QED
        BY <3>1, <3>3, <4>1, <4>3, <4>4 DEF Carried
    <3>4. CASE phase = "value"
      <4> DEFINE f == FlatList(list)
      <4>1. PICK k \in 1..Len(f) : /\ f[k].value # <<>>
                                   /\ it = PartStart(list, raw, k) + Len(NameOf(f[k])) + 1
                                   /\ called = NameText[f[k].name]
                                   /\ Decoding(ValueText[f[k].value[1]], TRUE)
                                   /\ ReadAt(list, read, k - 1)
        BY <2>3, <3>4 DEF Carried
      <4>2. ValueText[f[k].value[1]] \in Seq(Chars)
        BY <4>1, JoinedParts, PartTexts
      <4>3. Decoding(ValueText[f[k].value[1]], TRUE)'
        BY <3>1, <4>1, <4>2, DecodingStep
      <4>4. path = raw
        BY <2>3, <3>4 DEF Carried
      <4> QED
        BY <3>1, <3>4, <4>1, <4>3, <4>4 DEF Carried
    <3> QED
      BY <3>1, <3>2, <3>3, <3>4
  <2>6. CASE PathDone
    BY <1>2, <2>2, <2>3, <2>6, PathCarries
  <2>7. CASE NameDone
    BY <1>2, <2>2, <2>3, <2>4, <2>7, NameCarries
  <2>8. CASE ValueDone
    BY <1>2, <2>2, <2>3, <2>4, <2>8, ValueCarries
  <2>9. CASE UNCHANGED linkVars
    <3>1. UNCHANGED <<phase, target, path, it, called, read, text, form, i, out>>
      BY <2>9 DEF linkVars, loop
    <3> QED
      BY <2>3, <3>1 DEF Carried, Decoding
  <2>10. ~Build
    BY <2>1 DEF Build
  <2> QED
    BY <1>4, <2>5, <2>6, <2>7, <2>8, <2>9, <2>10 DEF LinkNext
<1> QED
  BY <1>3, <1>4

LEMMA CarriedArrives ==
  ASSUME TypeOK, LinkCarried
  PROVE  LinkArrives
<1> SUFFICES ASSUME phase = "done", NEW raw \in Paths, target = LinkTo(raw)
             PROVE  LET texts == [k \in DOMAIN values |->
                          [name |-> NameText[values[k].name],
                           values |-> [j \in DOMAIN values[k].values |-> ValueText[values[k].values[j]]]]]
                        lost == texts # <<>> /\ Lists!Last(texts) = [name |-> <<>>, values |-> <<>>]
                    IN  path = raw /\ read = IF lost THEN Lists!Front(texts) ELSE texts
  BY DEF LinkArrives
<1> DEFINE n == Len(values)
           texts == AllRead(values, n)
           lost == texts # <<>> /\ Lists!Last(texts) = [name |-> <<>>, values |-> <<>>]
<1>1. values \in Seq(Param) /\ target = LinkText(values, raw)
  BY DEF TypeOK, LinkTo, LinkText
<1>2. Carried(values, raw)
  BY <1>1 DEF LinkCarried
<1>3. path = raw /\ ReadAt(values, read, IF Lost(values) THEN Len(FlatList(values)) - 1
                                        ELSE Len(FlatList(values)))
  BY <1>2 DEF Carried
<1>4. n \in Nat /\ DOMAIN values = 1..n /\ \A k \in 1..n : values[k] \in Param
  BY <1>1
<1>5. ASSUME NEW k \in 1..n PROVE DOMAIN values[k].values = 1..Len(values[k].values)
  <2>1. values[k].values \in Seq(Values)
    BY <1>4, PartsOfParam
  <2> QED
    BY <2>1
<1>6. texts = [k \in DOMAIN values |->
                 [name |-> NameText[values[k].name],
                  values |-> [j \in DOMAIN values[k].values |-> ValueText[values[k].values[j]]]]]
  BY <1>4, <1>5 DEF AllRead, Entry
<1>7. DOMAIN texts = 1..n /\ texts = [k \in 1..n |-> texts[k]]
  BY DEF AllRead
<1>8. \A m \in 0..n : AllRead(values, m) = [k \in 1..m |-> texts[k]]
  <2>1. \A m \in 0..n : \A k \in 1..m : k \in 1..n
    BY <1>4
  <2> QED
    BY <2>1 DEF AllRead
<1>9. /\ Lost(values) <=> n # 0 /\ texts[n] = [name |-> <<>>, values |-> <<>>]
      /\ Lost(values) => n - 1 \in 0..n /\ ParamsLie(values)[n - 1] = Len(FlatList(values)) - 1
      /\ ParamsLie(values)[n] = Len(FlatList(values))
  BY <1>1, LostIs, ParamsInList
<1> HIDE DEF n, texts
<1>10. Len(texts) = n /\ (texts # <<>> <=> n # 0)
  <2>1. Len(texts) = n
    BY <1>4, <1>7
  <2>2. n = 0 => texts = <<>>
    BY <1>7
  <2>3. n # 0 => texts # <<>>
    <3> SUFFICES ASSUME n # 0 PROVE texts # <<>>
      OBVIOUS
    <3>1. n \in DOMAIN texts
      BY <1>4, <1>7
    <3> QED
      BY <3>1
  <2> QED
    BY <2>1, <2>2, <2>3
<1>11. lost <=> Lost(values)
  BY <1>9, <1>10 DEF Lists!Last
<1>12. CASE Lost(values)
  <2>1. ReadAt(values, read, ParamsLie(values)[n - 1]) /\ n - 1 \in 0..n
    BY <1>3, <1>9, <1>12
  <2>2. read = AllRead(values, n - 1)
    BY <1>1, <2>1, ReadEnds DEF n
  <2>3. read = [k \in 1..(n - 1) |-> texts[k]]
    BY <1>8, <2>1, <2>2
  <2>4. read = Lists!Front(texts)
    BY <1>10, <2>3 DEF Lists!Front
  <2> QED
    BY <1>3, <1>6, <1>11, <1>12, <2>4
<1>13. CASE ~Lost(values)
  <2>1. ReadAt(values, read, ParamsLie(values)[n]) /\ n \in 0..n
    BY <1>3, <1>4, <1>9, <1>13
  <2>2. read = texts
    BY <1>1, <2>1, ReadEnds DEF n, texts
  <2> QED
    BY <1>3, <1>6, <1>11, <1>13, <2>2
<1> QED
  BY <1>12, <1>13

\* A link is read as it was written: the request has the path, and its query the
\* parameters with their values in the order in which they were added, whatever
\* the texts are; only a last parameter without name and value is lost.
THEOREM LinkRead == LinkSpec => []LinkArrives
<1>1. LinkSpec => [](TypeOK /\ Indexed)
  BY LinkTypedAlways, PTL
<1>2. Indexed /\ LinkCarried /\ [LinkNext]_linkVars => LinkCarried'
  BY CarriedStep
<1>3. TypeOK /\ LinkCarried => LinkArrives
  BY CarriedArrives
<1> QED
  BY <1>1, <1>2, <1>3, CarriedBegins, PTL DEF LinkSpec
================================================================================
