----------------------------- MODULE DelegateProofs -----------------------------
(***************************************************************************)
(* Proofs about Delegate, for any number of delegates, any memory and any  *)
(* types of function objects.                                              *)
(***************************************************************************)
EXTENDS Delegate, TLAPS

TypeOK ==
  /\ delegates \in [Delegates -> Members \cup {Gone}]
  /\ memory \in [Blocks -> Content \cup {Free}]

\* What is owned is not free.
Held == \A x \in Delegates : Owns(x) => memory[delegates[x].store] \in Content

IInv == TypeOK /\ Held /\ CallsItsOwn

\* What CallsItsOwn says of the members of one delegate and the block it owns.
Belong(members, block) ==
  /\ members.size = block.size
  /\ block.object # 0 =>
       /\ members.on = members.store
       /\ members.stub \in {block.type, "none"}
       /\ members.deleter = block.type
       /\ SizeOf[block.type] <= block.size

\* One delegate with what it would own.
Good(members, contents) ==
  members # Gone /\ members.store # NoBlock =>
    contents[members.store] \in Content /\ Belong(members, contents[members.store])

LEMMA Apart == Gone \notin Members /\ Free \notin Content
<1>1. Gone \notin Members
  BY DelegateAssumption DEF Gone, Members
<1>2. Free \notin Content
  BY DEF Free, Content
<1> QED
  BY <1>1, <1>2

LEMMA GoodAlready == ASSUME IInv, NEW x \in Delegates PROVE Good(delegates[x], memory)
BY DEF IInv, Held, CallsItsOwn, Good, Belong, Owns, Exists

\* Every operation comes to a call of Step, which keeps the invariant if the
\* delegates and the blocks it is given go together.
LEMMA StepIInv ==
  ASSUME NEW ds \in [Delegates -> Members \cup {Gone}], NEW contents,
         \A x \in Delegates : Good(ds[x], contents),
         Step(ds, contents)
  PROVE  IInv'
<1>1. ASSUME NEW x \in Delegates, ds[x] # Gone, ds[x].store # NoBlock
      PROVE  /\ ds[x].store \in Blocks
             /\ memory'[ds[x].store] = contents[ds[x].store]
  <2>1. ds[x] \in Members
    BY <1>1
  <2>2. ds[x].store \in Blocks
    BY <1>1, <2>1 DEF Members
  <2> QED
    BY <1>1, <2>2 DEF Step
<1>2. memory' \in [Blocks -> Content \cup {Free}]
  <2> SUFFICES ASSUME NEW b \in Blocks, NEW x \in Delegates, ds[x] # Gone, ds[x].store = b
               PROVE  contents[b] \in Content
    BY DEF Step
  <2> QED
    BY DelegateAssumption DEF Good
<1>3. TypeOK'
  BY <1>2 DEF TypeOK, Step
<1>4. Held'
  BY <1>1 DEF Held, Owns, Exists, Good, Step
<1>5. CallsItsOwn'
  BY <1>1 DEF CallsItsOwn, Owns, Exists, Good, Belong, Step
<1> QED
  BY <1>3, <1>4, <1>5 DEF IInv

\* A step that changes one delegate and no block.
LEMMA MembersStep ==
  ASSUME IInv, NEW x \in Delegates, NEW members \in Members \cup {Gone},
         Good(members, memory), Step(With(x, members), memory)
  PROVE  IInv'
<1>1. With(x, members) \in [Delegates -> Members \cup {Gone}]
  BY DEF IInv, TypeOK, With
<1>2. \A y \in Delegates : Good(With(x, members)[y], memory)
  BY GoodAlready DEF With, IInv, TypeOK
<1> QED
  BY <1>1, <1>2, StepIInv

\* A step that changes one delegate and the contents of a block that no other owns.
LEMMA BlockStep ==
  ASSUME IInv, NEW x \in Delegates, NEW members \in Members, NEW b \in Blocks,
         NEW content \in Content, members.store = b, Belong(members, content),
         \A y \in Delegates \ {x} : Owns(y) => delegates[y].store # b,
         Step(With(x, members), [memory EXCEPT ![b] = content])
  PROVE  IInv'
<1> DEFINE contents == [memory EXCEPT ![b] = content]
<1>1. With(x, members) \in [Delegates -> Members \cup {Gone}]
  BY DEF IInv, TypeOK, With
<1>2. contents[b] = content /\ \A c : c # b => contents[c] = memory[c]
  BY DEF IInv, TypeOK
<1>3. ASSUME NEW y \in Delegates PROVE Good(With(x, members)[y], contents)
  <2>1. CASE y = x
    BY <2>1, <1>2 DEF With, IInv, TypeOK, Good
  <2>2. CASE y # x
    <3>1. With(x, members)[y] = delegates[y]
      BY <2>2 DEF With, IInv, TypeOK
    <3>2. Good(delegates[y], memory)
      BY GoodAlready
    <3>3. Owns(y) => contents[delegates[y].store] = memory[delegates[y].store]
      BY <1>2, <2>2
    <3> QED
      BY <3>1, <3>2, <3>3 DEF Good, Owns, Exists
  <2> QED
    BY <2>1, <2>2
<1> QED
  BY <1>1, <1>3, StepIInv

\* A block that is free is nobody's.
LEMMA FreeIsUnowned ==
  ASSUME IInv, NEW b \in Blocks, memory[b] = Free, NEW y \in Delegates, Owns(y)
  PROVE  delegates[y].store # b
BY Apart DEF IInv, Held

\* An object in a block that no other delegate owns.
LEMMA PlacedStep ==
  ASSUME IInv, NEW x \in Delegates, NEW type \in Types, NEW b \in Blocks, NEW size \in Nat,
         SizeOf[type] <= size,
         \A y \in Delegates \ {x} : Owns(y) => delegates[y].store # b,
         Step(With(x, Calling(b, type, size)), Placed(b, type, size))
  PROVE  IInv'
<1> DEFINE content == [size |-> size, type |-> type,
                       object |-> IF memory[b] # Free /\ memory[b].object = 1 THEN 2 ELSE 1]
           members == Calling(b, type, size)
<1>1. content \in Content
  BY DEF Content
<1>2. members \in Members
  BY DEF Calling, Members
<1>3. Belong(members, content) /\ members.store = b
  BY DEF Belong, Calling
<1>4. Placed(b, type, size) = [memory EXCEPT ![b] = content]
  BY DEF Placed
<1>5. Step(With(x, members), [memory EXCEPT ![b] = content])
  BY <1>4
<1> HIDE DEF content, members
<1> QED
  BY <1>1, <1>2, <1>3, <1>5, BlockStep

\* The block of a delegate that may be used again.
LEMMA Reused ==
  ASSUME IInv, NEW x \in Delegates, NEW type \in Types, MayReuse(x, type)
  PROVE  LET b == delegates[x].store IN
           /\ delegates[x] \in Members /\ b \in Blocks /\ memory[b] \in Content
           /\ delegates[x].size = memory[b].size
           /\ \A y \in Delegates \ {x} : Owns(y) => delegates[y].store # b
           /\ SizeOf[type] <= delegates[x].size
<1>1. Owns(x)
  BY DEF MayReuse, Unique
<1>2. delegates[x] \in Members /\ delegates[x].store \in Blocks
  BY <1>1 DEF Owns, Exists, IInv, TypeOK, Members
<1>3. memory[delegates[x].store] \in Content /\ delegates[x].size = memory[delegates[x].store].size
  BY <1>1 DEF IInv, Held, CallsItsOwn
<1> QED
  BY <1>2, <1>3 DEF MayReuse, Unique

LEMMA AssignIInv ==
  ASSUME IInv, NEW x \in Delegates, NEW type \in Types, Assign(x, type) PROVE IInv'
<1>0. SizeOf[type] \in Nat
  BY DelegateAssumption
<1>1. CASE MayReuse(x, type)
  <2> DEFINE b == delegates[x].store
  <2>1. /\ b \in Blocks /\ memory[b] \in Content /\ delegates[x].size = memory[b].size
        /\ \A y \in Delegates \ {x} : Owns(y) => delegates[y].store # b
        /\ SizeOf[type] <= memory[b].size
    BY <1>1, Reused
  <2>2. memory[b].size \in Nat
    BY <2>1 DEF Content
  <2>3. Step(With(x, Calling(b, type, memory[b].size)), Placed(b, type, memory[b].size))
    BY <1>1, <2>1 DEF Assign
  <2> QED
    BY <2>1, <2>2, <2>3, PlacedStep
<1>2. CASE ~MayReuse(x, type)
  <2>1. PICK b \in Blocks : memory[b] = Free /\ Replace(x, type, b)
    BY <1>2 DEF Assign
  <2>2. \A y \in Delegates \ {x} : Owns(y) => delegates[y].store # b
    BY <2>1, FreeIsUnowned
  <2>3. Step(With(x, Calling(b, type, SizeOf[type])), Placed(b, type, SizeOf[type]))
    BY <2>1 DEF Replace
  <2>4. SizeOf[type] <= SizeOf[type]
    BY <1>0
  <2> QED
    BY <1>0, <2>2, <2>3, <2>4, PlacedStep
<1> QED
  BY <1>1, <1>2

LEMMA AssignThrowsIInv ==
  ASSUME IInv, NEW x \in Delegates, NEW type \in Types, AssignThrows(x, type) PROVE IInv'
<1>0. SizeOf[type] \in Nat
  BY DelegateAssumption
<1>1. CASE MayReuse(x, type)
  <2> DEFINE b == delegates[x].store
             content == [memory[b] EXCEPT !.object = 0]
  <2>1. /\ delegates[x] \in Members /\ b \in Blocks /\ memory[b] \in Content
        /\ delegates[x].size = memory[b].size
        /\ \A y \in Delegates \ {x} : Owns(y) => delegates[y].store # b
    BY <1>1, Reused
  <2>2. content \in Content /\ Belong(delegates[x], content)
    BY <2>1 DEF Content, Belong
  <2>3. With(x, delegates[x]) = delegates
    BY DEF With, IInv, TypeOK
  <2>4. Step(With(x, delegates[x]), [memory EXCEPT ![b] = content])
    BY <1>1, <2>3 DEF AssignThrows
  <2> HIDE DEF content
  <2> QED
    BY <2>1, <2>2, <2>4, BlockStep
<1>2. CASE ~MayReuse(x, type)
  <2>1. PICK b \in Blocks :
          /\ memory[b] = Free
          /\ Step(With(x, [delegates[x] EXCEPT !.store = b, !.size = SizeOf[type]]),
                  [memory EXCEPT ![b] = [size |-> SizeOf[type], type |-> type, object |-> 0]])
    BY <1>2 DEF AssignThrows
  <2> DEFINE members == [delegates[x] EXCEPT !.store = b, !.size = SizeOf[type]]
             content == [size |-> SizeOf[type], type |-> type, object |-> 0]
  <2>2. delegates[x] \in Members
    BY DEF AssignThrows, Exists, IInv, TypeOK
  <2>3. members \in Members /\ members.store = b
    BY <1>0, <2>2 DEF Members
  <2>4. content \in Content /\ Belong(members, content)
    BY <1>0, <2>2 DEF Content, Belong, Members
  <2>5. \A y \in Delegates \ {x} : Owns(y) => delegates[y].store # b
    BY <2>1, FreeIsUnowned
  <2>6. Step(With(x, members), [memory EXCEPT ![b] = content])
    BY <2>1
  <2> HIDE DEF members, content
  <2> QED
    BY <2>3, <2>4, <2>5, <2>6, BlockStep
<1> QED
  BY <1>1, <1>2

LEMMA WithoutObjectIInv ==
  ASSUME IInv, NEW x \in Delegates, WithoutObject(x) PROVE IInv'
<1>1. PICK stub \in {"none", "function"}, size \in Garbage, deleter \in Types :
        Step(With(x, [stub |-> stub, on |-> NoBlock, store |-> NoBlock,
                      size |-> size, deleter |-> deleter]), memory)
  BY DEF WithoutObject
<1> DEFINE members == [stub |-> stub, on |-> NoBlock, store |-> NoBlock,
                       size |-> size, deleter |-> deleter]
<1>2. members \in Members
  BY DelegateAssumption DEF Members
<1>3. Good(members, memory)
  BY DEF Good
<1>4. Step(With(x, members), memory)
  BY <1>1
<1> HIDE DEF members
<1> QED
  BY <1>2, <1>3, <1>4, MembersStep

LEMMA FromObjectIInv ==
  ASSUME IInv, NEW x \in Delegates, NEW type \in Types, FromObject(x, type) PROVE IInv'
<1>1. PICK b \in Blocks :
        /\ memory[b] = Free
        /\ Step(With(x, Calling(b, type, SizeOf[type])), Placed(b, type, SizeOf[type]))
  BY DEF FromObject
<1>2. \A y \in Delegates \ {x} : Owns(y) => delegates[y].store # b
  BY <1>1, FreeIsUnowned
<1>3. SizeOf[type] \in Nat /\ SizeOf[type] <= SizeOf[type]
  BY DelegateAssumption
<1> QED
  BY <1>1, <1>2, <1>3, PlacedStep

LEMMA CopyIInv ==
  ASSUME IInv, NEW x \in Delegates, NEW y \in Delegates, Copy(x, y) PROVE IInv'
<1>1. delegates[y] \in Members /\ Good(delegates[y], memory)
  BY GoodAlready DEF Copy, Exists, IInv, TypeOK
<1> QED
  BY <1>1, MembersStep DEF Copy

LEMMA MoveIInv ==
  ASSUME IInv, NEW x \in Delegates, NEW y \in Delegates, Move(x, y) PROVE IInv'
<1> DEFINE ds == [With(x, delegates[y]) EXCEPT ![y].store = NoBlock]
           moved == [delegates[y] EXCEPT !.store = NoBlock]
<1>1. delegates[y] \in Members /\ moved \in Members
  BY DEF Move, Exists, IInv, TypeOK, Members
<1>2. /\ ds \in [Delegates -> Members \cup {Gone}]
      /\ ds[x] = delegates[y] /\ ds[y] = moved
      /\ \A z \in Delegates \ {x, y} : ds[z] = delegates[z]
  BY <1>1 DEF Move, With, IInv, TypeOK
<1>3. Good(moved, memory)
  BY <1>1 DEF Good, Members
<1>4. \A z \in Delegates : Good(ds[z], memory)
  BY <1>2, <1>3, GoodAlready
<1>5. Step(ds, memory)
  BY DEF Move
<1> HIDE DEF ds
<1> QED
  BY <1>2, <1>4, <1>5, StepIInv

LEMMA SwapIInv ==
  ASSUME IInv, NEW x \in Delegates, NEW y \in Delegates, Swap(x, y) PROVE IInv'
<1> DEFINE ds == [delegates EXCEPT ![x] = delegates[y], ![y] = delegates[x]]
<1>1. ds \in [Delegates -> Members \cup {Gone}]
  BY DEF IInv, TypeOK
<1>2. \A z \in Delegates : \E w \in Delegates : ds[z] = delegates[w]
  BY DEF IInv, TypeOK
<1>3. \A z \in Delegates : Good(ds[z], memory)
  BY <1>2, GoodAlready
<1>4. Step(ds, memory)
  BY DEF Swap
<1> HIDE DEF ds
<1> QED
  BY <1>1, <1>3, <1>4, StepIInv

LEMMA ResetIInv ==
  ASSUME IInv, NEW x \in Delegates, Reset(x) PROVE IInv'
<1> DEFINE members == [delegates[x] EXCEPT !.stub = "none", !.store = NoBlock]
<1>1. members \in Members
  BY DEF Reset, Exists, IInv, TypeOK, Members
<1>2. members.store = NoBlock
  BY DEF Reset, Exists, IInv, TypeOK, Members
<1>3. Good(members, memory) /\ Step(With(x, members), memory)
  BY <1>2 DEF Good, Reset
<1> HIDE DEF members
<1> QED
  BY <1>1, <1>3, MembersStep

LEMMA ResetStubIInv ==
  ASSUME IInv, NEW x \in Delegates, ResetStub(x) PROVE IInv'
<1> DEFINE members == [delegates[x] EXCEPT !.stub = "none"]
<1>1. delegates[x] \in Members
  BY DEF ResetStub, Exists, IInv, TypeOK
<1>2. members \in Members /\ delegates[x] # Gone
  BY <1>1, Apart DEF Members
<1>3. Good(delegates[x], memory)
  BY GoodAlready
<1>4. Good(members, memory)
  BY <1>1, <1>2, <1>3 DEF Good, Belong, Members
<1>5. Step(With(x, members), memory)
  BY DEF ResetStub
<1> HIDE DEF members
<1> QED
  BY <1>2, <1>4, <1>5, MembersStep

LEMMA DestroyIInv ==
  ASSUME IInv, NEW x \in Delegates, Destroy(x) PROVE IInv'
<1>1. Good(Gone, memory)
  BY DEF Good
<1> QED
  BY <1>1, MembersStep DEF Destroy

LEMMA NextIInv == IInv /\ [Next]_vars => IInv'
<1> SUFFICES ASSUME IInv, [Next]_vars PROVE IInv'
  OBVIOUS
<1>1. ASSUME NEW x \in Delegates,
             WithoutObject(x) \/ Reset(x) \/ ResetStub(x) \/ Destroy(x)
      PROVE  IInv'
  BY <1>1, WithoutObjectIInv, ResetIInv, ResetStubIInv, DestroyIInv
<1>2. ASSUME NEW x \in Delegates, NEW type \in Types,
             FromObject(x, type) \/ Assign(x, type) \/ AssignThrows(x, type)
      PROVE  IInv'
  BY <1>2, FromObjectIInv, AssignIInv, AssignThrowsIInv
<1>3. ASSUME NEW x \in Delegates, NEW y \in Delegates,
             Copy(x, y) \/ Move(x, y) \/ Swap(x, y)
      PROVE  IInv'
  BY <1>3, CopyIInv, MoveIInv, SwapIInv
<1>4. CASE UNCHANGED vars
  BY <1>4 DEF vars, IInv, TypeOK, Held, CallsItsOwn, Owns, Exists
<1> QED
  BY <1>1, <1>2, <1>3, <1>4 DEF Next

LEMMA InitIInv == Init => IInv
BY DEF Init, IInv, TypeOK, Held, CallsItsOwn, Owns, Exists

LEMMA Inductive == Spec => []IInv
BY InitIInv, NextIInv, PTL DEF Spec

\* Whatever is done to delegates that share function objects, in any order, each
\* calls the object in its own store with the members that belong to it.
THEOREM OwnObjects == Spec => []CallsItsOwn
<1>1. IInv => CallsItsOwn
  BY DEF IInv
<1> QED
  BY <1>1, Inductive, PTL

--------------------------------------------------------------------------------
(* What a step leaves alone.                                               *)

\* The contents a step gives to a block, where the owner of it is not changed.
LEMMA StaysOwned ==
  ASSUME IInv, NEW x \in Delegates, Owns(x), delegates'[x] = delegates[x],
         NEW ds, NEW contents, Step(ds, contents),
         contents[delegates[x].store] = memory[delegates[x].store]
  PROVE  memory'[delegates[x].store] = memory[delegates[x].store]
<1>1. delegates[x].store \in Blocks
  BY DEF IInv, TypeOK, Owns, Exists, Members
<1>2. ds[x] # Gone /\ ds[x].store = delegates[x].store
  BY DEF Step, Owns, Exists
<1> QED
  BY <1>1, <1>2 DEF Step

\* A free block, or one with one owner, is not one that a delegate shares.
LEMMA SharedElsewhere ==
  ASSUME IInv, NEW x \in Delegates, Owns(x), ~Unique(x), NEW b \in Blocks,
         memory[b] = Free \/ \E z \in Delegates : Unique(z) /\ b = delegates[z].store
  PROVE  delegates[x].store # b
<1>1. CASE memory[b] = Free
  BY <1>1, FreeIsUnowned
<1>2. CASE \E z \in Delegates : Unique(z) /\ b = delegates[z].store
  BY <1>2 DEF Unique
<1> QED
  BY <1>1, <1>2

\* An operation that gives a block new contents, to one delegate.
LEMMA BlockKeeps ==
  ASSUME IInv, NEW x \in Delegates, Owns(x), ~Unique(x), delegates'[x] = delegates[x],
         NEW b \in Blocks, NEW content, NEW ds, Step(ds, [memory EXCEPT ![b] = content]),
         memory[b] = Free \/ \E z \in Delegates : Unique(z) /\ b = delegates[z].store
  PROVE  memory'[delegates[x].store] = memory[delegates[x].store]
<1> DEFINE contents == [memory EXCEPT ![b] = content]
<1>1. delegates[x].store # b
  BY SharedElsewhere
<1>2. contents[delegates[x].store] = memory[delegates[x].store]
  BY <1>1 DEF IInv, TypeOK
<1>3. Step(ds, contents)
  OBVIOUS
<1> HIDE DEF contents
<1> QED
  BY <1>2, <1>3, StaysOwned

LEMMA PlacedKeeps ==
  ASSUME IInv, NEW x \in Delegates, Owns(x), ~Unique(x), delegates'[x] = delegates[x],
         NEW b \in Blocks, NEW type, NEW size, NEW ds, Step(ds, Placed(b, type, size)),
         memory[b] = Free \/ \E z \in Delegates : Unique(z) /\ b = delegates[z].store
  PROVE  memory'[delegates[x].store] = memory[delegates[x].store]
<1> DEFINE content == [size |-> size, type |-> type,
                       object |-> IF memory[b] # Free /\ memory[b].object = 1 THEN 2 ELSE 1]
<1>1. Step(ds, [memory EXCEPT ![b] = content])
  BY DEF Placed
<1> HIDE DEF content
<1> QED
  BY <1>1, BlockKeeps

LEMMA AssignKeeps ==
  ASSUME IInv, NEW x \in Delegates, Owns(x), ~Unique(x), delegates'[x] = delegates[x],
         NEW z \in Delegates, NEW type \in Types, Assign(z, type) \/ AssignThrows(z, type)
  PROVE  memory'[delegates[x].store] = memory[delegates[x].store]
<1>1. CASE Assign(z, type) /\ MayReuse(z, type)
  <2>1. Unique(z) /\ delegates[z].store \in Blocks
    BY <1>1, Reused DEF MayReuse
  <2>2. Step(With(z, Calling(delegates[z].store, type, delegates[z].size)),
             Placed(delegates[z].store, type, memory[delegates[z].store].size))
    BY <1>1 DEF Assign
  <2> QED
    BY <2>1, <2>2, PlacedKeeps
<1>2. CASE Assign(z, type) /\ ~MayReuse(z, type)
  <2>1. PICK b \in Blocks : memory[b] = Free /\ Replace(z, type, b)
    BY <1>2 DEF Assign
  <2>2. Step(With(z, Calling(b, type, SizeOf[type])), Placed(b, type, SizeOf[type]))
    BY <2>1 DEF Replace
  <2> QED
    BY <2>1, <2>2, PlacedKeeps
<1>3. CASE AssignThrows(z, type) /\ MayReuse(z, type)
  <2> DEFINE content == [memory[delegates[z].store] EXCEPT !.object = 0]
  <2>1. Unique(z) /\ delegates[z].store \in Blocks
    BY <1>3, Reused DEF MayReuse
  <2>2. Step(delegates, [memory EXCEPT ![delegates[z].store] = content])
    BY <1>3 DEF AssignThrows
  <2> HIDE DEF content
  <2> QED
    BY <2>1, <2>2, BlockKeeps
<1>4. CASE AssignThrows(z, type) /\ ~MayReuse(z, type)
  <2> DEFINE content == [size |-> SizeOf[type], type |-> type, object |-> 0]
  <2>1. PICK b \in Blocks :
          /\ memory[b] = Free
          /\ Step(With(z, [delegates[z] EXCEPT !.store = b, !.size = SizeOf[type]]),
                  [memory EXCEPT ![b] = content])
    BY <1>4 DEF AssignThrows
  <2> HIDE DEF content
  <2> QED
    BY <2>1, BlockKeeps
<1> QED
  BY <1>1, <1>2, <1>3, <1>4

LEMMA NextKeeps ==
  ASSUME IInv, NEW x \in Delegates, Owns(x), ~Unique(x), delegates'[x] = delegates[x], Next
  PROVE  memory'[delegates[x].store] = memory[delegates[x].store]
<1>1. ASSUME NEW ds, Step(ds, memory)
      PROVE  memory'[delegates[x].store] = memory[delegates[x].store]
  BY <1>1, StaysOwned
<1>2. ASSUME NEW z \in Delegates,
             WithoutObject(z) \/ Reset(z) \/ ResetStub(z) \/ Destroy(z)
      PROVE  \E ds : Step(ds, memory)
  BY <1>2 DEF WithoutObject, Reset, ResetStub, Destroy
<1>3. ASSUME NEW z \in Delegates, NEW y \in Delegates,
             Copy(z, y) \/ Move(z, y) \/ Swap(z, y)
      PROVE  \E ds : Step(ds, memory)
  BY <1>3 DEF Copy, Move, Swap
<1>4. ASSUME NEW z \in Delegates, NEW type \in Types, FromObject(z, type)
      PROVE  memory'[delegates[x].store] = memory[delegates[x].store]
  <2>1. PICK b \in Blocks :
          /\ memory[b] = Free
          /\ Step(With(z, Calling(b, type, SizeOf[type])), Placed(b, type, SizeOf[type]))
    BY <1>4 DEF FromObject
  <2> QED
    BY <2>1, PlacedKeeps
<1>5. ASSUME NEW z \in Delegates, NEW type \in Types,
             Assign(z, type) \/ AssignThrows(z, type)
      PROVE  memory'[delegates[x].store] = memory[delegates[x].store]
  BY <1>5, AssignKeeps
<1> QED
  BY <1>1, <1>2, <1>3, <1>4, <1>5 DEF Next

\* Assigning to a delegate never touches an object that a copy of it still owns.
THEOREM SharedObjects == Spec => CopiesKeep
<1>1. IInv /\ [Next]_vars =>
        [\A x \in Delegates :
           Owns(x) /\ ~Unique(x) /\ delegates'[x] = delegates[x] =>
             memory'[delegates[x].store] = memory[delegates[x].store]]_vars
  BY NextKeeps DEF vars
<1> QED
  BY <1>1, Inductive, PTL DEF Spec, CopiesKeep
================================================================================
