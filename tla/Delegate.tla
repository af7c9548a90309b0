-------------------------------- MODULE Delegate --------------------------------
(***************************************************************************)
(* The callback of a route: delegate                                       *)
(* (libs/http-router/include/http-router/delegate.hh).  It calls a         *)
(* function, or a function object that it owns together with its copies,   *)
(* in memory that an assignment may use again.                             *)
(*                                                                         *)
(* delegate() and the functions from() for plain functions leave some      *)
(* members without a value; anything may then be read from them.  A        *)
(* constructor of a function object may throw.  The last owner of a block  *)
(* destroys the object with the deleter of the type for which the block    *)
(* was made, and an assignment after one that threw destroys an object     *)
(* that is not there; what comes of the wrong destructor is left out.      *)
(*                                                                         *)
(* Definitions called Faulty... are the ones below them with one likely    *)
(* mistake; no action uses them.  They show what each property excludes.   *)
(***************************************************************************)
EXTENDS Integers

CONSTANTS
  Delegates,   \* variables of the type
  Blocks,      \* addresses that operator new may return
  NoBlock,     \* a null pointer
  Types,       \* of function objects
  SizeOf,      \* sizeof each of them
  Garbage      \* what may be read from store_size_ where it has no value

ASSUME DelegateAssumption ==
  /\ NoBlock \notin Blocks
  /\ SizeOf \in [Types -> Nat]
  /\ Garbage \subseteq Nat
  /\ {"none", "function", "gone"} \cap Types = {}

VARIABLES
  delegates,   \* the members of each delegate, or Gone
  memory       \* what is at each address

vars == <<delegates, memory>>

Gone == [stub |-> "gone"]

\* stub_ptr_ is of a type, of a function or null; deleter_ is of a type.
Members == [stub : Types \cup {"none", "function"}, on : Blocks \cup {NoBlock},
            store : Blocks \cup {NoBlock}, size : Nat, deleter : Types]

\* A block has its size, and a place for an object: none is there, 0, if its
\* constructor threw; other numbers tell one object from the next.
Content == [size : Nat, type : Types, object : 0..2]
Free == [size |-> 0]

Exists(x) == delegates[x] # Gone

\* store_ is not null
Owns(x) == Exists(x) /\ delegates[x].store # NoBlock

Init ==
  /\ delegates = [x \in Delegates |-> Gone]
  /\ memory = [b \in Blocks |-> Free]

\* What std::shared_ptr does: a block is freed with the last delegate that owns it.
Step(ds, contents) ==
  /\ delegates' = ds
  /\ memory' = [b \in Blocks |->
                  IF \E x \in Delegates : ds[x] # Gone /\ ds[x].store = b THEN contents[b]
                                                                         ELSE Free]

With(x, members) == [delegates EXCEPT ![x] = members]

\* new (store_.get()) functor_type(...), in a block of this size
Placed(b, type, size) ==
  [memory EXCEPT ![b] = [size |-> size, type |-> type,
                         object |-> IF memory[b] # Free /\ memory[b].object = 1 THEN 2 ELSE 1]]

\* The members of a delegate that calls an object in its store.
Calling(b, type, size) ==
  [stub |-> type, on |-> b, store |-> b, size |-> size, deleter |-> type]

\* delegate(), delegate(nullptr), from<function>(), for a new delegate
WithoutObject(x) ==
  /\ ~Exists(x)
  /\ \E stub \in {"none", "function"}, size \in Garbage, deleter \in Types :
       Step(With(x, [stub |-> stub, on |-> NoBlock, store |-> NoBlock,
                     size |-> size, deleter |-> deleter]), memory)

\* delegate(T&& f).  If the constructor of the object throws, no delegate comes to be.
FromObject(x, type) ==
  /\ ~Exists(x)
  /\ \E b \in Blocks :
       /\ memory[b] = Free
       /\ Step(With(x, Calling(b, type, SizeOf[type])), Placed(b, type, SizeOf[type]))

\* store_.unique()
Unique(x) == Owns(x) /\ \A y \in Delegates \ {x} : Owns(y) => delegates[y].store # delegates[x].store

\* Faulty: the store may be shared.
FaultyMayReuse(x, type) == SizeOf[type] <= delegates[x].size /\ Owns(x)

\* The object is put into the store there is; deleter_ destroys the one in it.
MayReuse(x, type) == SizeOf[type] <= delegates[x].size /\ Unique(x)

\* Faulty: the size stays when the store is a new one.
FaultyReplace(x, type, b) ==
  Step(With(x, Calling(b, type, delegates[x].size)), Placed(b, type, SizeOf[type]))

\* store_.reset(operator new(...)), and the object in the new store
Replace(x, type, b) ==
  Step(With(x, Calling(b, type, SizeOf[type])), Placed(b, type, SizeOf[type]))

\* operator=(T&& f)
Assign(x, type) ==
  /\ Exists(x)
  /\ IF MayReuse(x, type)
       THEN LET b == delegates[x].store
            IN  Step(With(x, Calling(b, type, delegates[x].size)),
                     Placed(b, type, memory[b].size))
       ELSE \E b \in Blocks : memory[b] = Free /\ Replace(x, type, b)

\* The same, where the constructor throws: the old object is gone, or the store is
\* new and empty, while the other members are what they were.
AssignThrows(x, type) ==
  /\ Exists(x)
  /\ IF MayReuse(x, type)
       THEN Step(delegates, [memory EXCEPT ![delegates[x].store].object = 0])
       ELSE \E b \in Blocks :
              /\ memory[b] = Free
              /\ Step(With(x, [delegates[x] EXCEPT !.store = b, !.size = SizeOf[type]]),
                      [memory EXCEPT ![b] = [size |-> SizeOf[type], type |-> type, object |-> 0]])

\* delegate(delegate const&) and operator=(delegate const&)
Copy(x, y) ==
  /\ x # y
  /\ Exists(y)
  /\ Step(With(x, delegates[y]), memory)

\* delegate(delegate&&) and operator=(delegate&&): only store_ is taken away, the
\* other members are copied.
Move(x, y) ==
  /\ x # y
  /\ Exists(y)
  /\ Step([With(x, delegates[y]) EXCEPT ![y].store = NoBlock], memory)

\* swap
Swap(x, y) ==
  /\ Exists(x) /\ Exists(y)
  /\ Step([delegates EXCEPT ![x] = delegates[y], ![y] = delegates[x]], memory)

\* reset: store_size_ and the rest stay.
Reset(x) ==
  /\ Exists(x)
  /\ Step(With(x, [delegates[x] EXCEPT !.stub = "none", !.store = NoBlock]), memory)

\* reset_stub
ResetStub(x) ==
  /\ Exists(x)
  /\ Step(With(x, [delegates[x] EXCEPT !.stub = "none"]), memory)

\* ~delegate
Destroy(x) ==
  /\ Exists(x)
  /\ Step(With(x, Gone), memory)

Next ==
  \E x \in Delegates :
    \/ WithoutObject(x) \/ Reset(x) \/ ResetStub(x) \/ Destroy(x)
    \/ \E type \in Types : FromObject(x, type) \/ Assign(x, type) \/ AssignThrows(x, type)
    \/ \E y \in Delegates : Copy(x, y) \/ Move(x, y) \/ Swap(x, y)

Spec == Init /\ [][Next]_vars

--------------------------------------------------------------------------------
(* Properties.                                                             *)

\* A delegate that owns a function object has the address, the caller, the
\* deleter and the size that belong to it, whatever was assigned, copied, moved and
\* reset before, to whichever delegate, and whatever has thrown: the object is in
\* the delegate's store, fits into it, and is of the type that is called.
CallsItsOwn ==
  \A x \in Delegates :
    LET store == memory[delegates[x].store]
    IN  Owns(x) =>
          /\ delegates[x].size = store.size
          /\ store.object # 0 =>
               /\ delegates[x].on = delegates[x].store
               /\ delegates[x].stub \in {store.type, "none"}
               /\ delegates[x].deleter = store.type
               /\ SizeOf[store.type] <= store.size

\* What is done to a delegate is nothing to its copies: an object that several
\* delegates own is not replaced or destroyed under any of them, whatever is
\* assigned to another, also if that throws.
CopiesKeep ==
  [][\A x \in Delegates :
       Owns(x) /\ ~Unique(x) /\ delegates'[x] = delegates[x] =>
         memory'[delegates[x].store] = memory[delegates[x].store]]_vars
================================================================================
