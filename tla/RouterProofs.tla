------------------------------ MODULE RouterProofs ------------------------------
(***************************************************************************)
(* Proofs about Router, for all configurations, resources and bounds.      *)
(*                                                                         *)
(* The invariant of the dispatch comes first.  The longer part, from "What *)
(* a parameter takes" on, is about masks: from the ways to match a part of *)
(* an expression over runs of such ways and the rounds of the loop in      *)
(* parse_matcher up to MatchesIsFits, what the expression of a mask        *)
(* matches, and Rebuilds, what its captures are.  The theorems of Router   *)
(* are at the end.                                                         *)
(***************************************************************************)
EXTENDS Router, SequenceLemmas, FiniteSetTheorems

\* A normalised registration: what the property about sending is about.
Normalised == \A k \in DOMAIN filters : filters[k].prefix = UsePath(filters[k].prefix)
Absolute == resource # <<>> /\ resource[1] = "/"

\* The filters that were looked at, and of these exactly the ones in scope that
\* send, have been called, in their order.
HookedSoFar ==
  /\ \A i, j \in DOMAIN hooked : i < j => hooked[i] < hooked[j]
  /\ \A i \in DOMAIN hooked : hooked[i] < next
  /\ \A k \in DOMAIN filters : k < next =>
       ((\E i \in DOMAIN hooked : hooked[i] = k) <=>
          filters[k].send /\ Within(filters[k].prefix, resource))

(* What TypeOK says, as far as the proofs need it. *)
Typed ==
  /\ filters \in Seq(Filter)
  /\ resource \in Seq(STRING)
  /\ pc \in {"start", "filters", "handler", "sending", "done", "threw"}
  /\ next \in 1..(Len(filters) + 1)
  /\ hooked \in Seq(1..Len(filters))

LegalInside == pc \in {"filters", "handler"} => Legal(resource)
NotYetHooked == pc \in {"start", "filters", "handler"} => hooked = <<>>
HooksInOrder == pc \in {"sending", "done"} /\ Normalised /\ Absolute => HookedSoFar
AllHooked == pc = "done" => next = Len(filters) + 1

IInv ==
  /\ TypeOK
  /\ AnsweredOnce
  /\ LegalInside
  /\ NotYetHooked
  /\ HooksInOrder
  /\ AllHooked

--------------------------------------------------------------------------------
(* Paths.                                                                  *)

LEMMA UsePathSeq ==
  ASSUME NEW p \in Seq(STRING)
  PROVE  UsePath(p) \in Seq(STRING)
<1>1. CASE p = <<>>
  BY <1>1 DEF UsePath, WithoutLastSlash
<1>2. CASE p # <<>>
  <2>1. Len(p) \in Nat /\ Len(p) - 1 \in 0..Len(p)
    BY <1>2
  <2>2. SubSeq(p, 1, Len(p) - 1) \in Seq(STRING)
    BY <2>1, SubSeqProperties
  <2> QED
    BY <2>2 DEF UsePath, WithoutLastSlash
<1> QED
  BY <1>1, <1>2

LEMMA TypesOfAll == TypeOK => Typed
<1> SUFFICES ASSUME TypeOK PROVE Typed
  OBVIOUS
<1> QED
  BY DEF TypeOK, Typed

LEMMA PrefixSeq ==
  ASSUME NEW f \in Filter
  PROVE  f.prefix \in Seq(STRING) /\ f.pre \in BOOLEAN /\ f.send \in BOOLEAN
BY UsePathSeq, CasesAssumption DEF Filter

\* For an absolute resource, and a prefix as it should be, prefixes says whether
\* the resource lies in the directory.
LEMMA ScopeIsWithin ==
  ASSUME NEW p \in Seq(STRING), p = UsePath(p),
         NEW r \in Seq(STRING), r # <<>>, r[1] = "/",
         NEW answer, answer \in InScope(p, r)
  PROVE  answer <=> Within(p, r)
<1> DEFINE Scope == /\ StartsWith(r, p)
                    /\ \/ Len(r) = Len(p)
                       \/ r[Len(p) + 1] = "/"
<1>1. p = <<>> \/ LastOf(p) # "/"
  BY DEF UsePath, WithoutLastSlash
<1>2. answer = Scope
  BY <1>1 DEF InScope
<1>3. Append(p, "/") \in Seq(STRING) /\ Len(Append(p, "/")) = Len(p) + 1
  OBVIOUS
<1>4. StartsWith(r, Append(p, "/")) <=>
        StartsWith(r, p) /\ Len(p) < Len(r) /\ r[Len(p) + 1] = "/"
  BY <1>3 DEF StartsWith
<1>5. r = p <=> StartsWith(r, p) /\ Len(r) = Len(p)
  <2>1. ASSUME StartsWith(r, p), Len(r) = Len(p) PROVE r = p
    BY <2>1 DEF StartsWith
  <2> QED
    BY <2>1 DEF StartsWith
<1>6. StartsWith(r, p) => Len(p) <= Len(r)
  BY DEF StartsWith
<1> QED
  BY <1>2, <1>4, <1>5, <1>6 DEF Within

--------------------------------------------------------------------------------
(* The invariant.                                                          *)

LEMMA InitIInv == Init => IInv
<1> SUFFICES ASSUME Init PROVE IInv
  OBVIOUS
<1>1. PICK c \in Cases : /\ filters = c.filters /\ routes = c.routes
                         /\ resource = c.resource /\ verb = c.verb
  BY DEF Init
<1>2. c \in Case
  BY CasesAssumption
<1>3. /\ filters \in Seq(Filter) /\ routes \in [Verbs -> Seq(RouteEntry)]
      /\ resource \in Seq(STRING) /\ verb \in Verbs
  BY <1>1, <1>2 DEF Case
<1>4. hooked \in Seq(1..Len(filters)) /\ next \in 1..(Len(filters) + 1)
  <2>1. hooked = <<>> /\ next = 1
    BY DEF Init
  <2>2. Len(filters) \in Nat
    BY <1>3
  <2> QED
    BY <2>1, <2>2
<1>5. TypeOK
  BY <1>3, <1>4 DEF Init, TypeOK, Replies
<1> QED
  BY <1>5 DEF Init, IInv, AnsweredOnce, LegalInside, NotYetHooked, HooksInOrder, AllHooked

\* A step that responds: the sending filters are looked at from the first.
LEMMA RespondStep ==
  ASSUME IInv, NEW what \in Replies, Respond(what), called' = called,
         pc \in {"start", "filters", "handler"}
  PROVE  IInv'
<1> USE DEF Respond, config
<1>1. Typed
  BY TypesOfAll DEF IInv
<1>2. TypeOK'
  BY <1>1 DEF IInv, TypeOK, Typed
<1>3. hooked' = <<>> /\ next' = 1
  BY DEF IInv, NotYetHooked
<1>4. HooksInOrder'
  <2> SUFFICES HookedSoFar'
    BY DEF HooksInOrder
  <2> QED
    BY <1>1, <1>3 DEF HookedSoFar, Typed
<1> QED
  BY <1>2, <1>4 DEF IInv, AnsweredOnce, LegalInside, NotYetHooked, AllHooked

LEMMA StepIInv == IInv /\ [Next]_vars => IInv'
<1> SUFFICES ASSUME IInv, [Next]_vars PROVE IInv'
  OBVIOUS
<1> USE DEF config
<1>t. Typed
  BY TypesOfAll DEF IInv
<1>r. routes[verb] \in Seq(RouteEntry)
  BY DEF IInv, TypeOK
<1>1. CASE RefuseResource
  BY <1>1, RespondStep DEF RefuseResource, Replies
<1>2. CASE BeginFilters
  BY <1>2 DEF BeginFilters, IInv, TypeOK, AnsweredOnce, LegalInside, NotYetHooked,
              HooksInOrder, AllHooked
<1>3. CASE SkipFilter
  BY <1>3, <1>t DEF SkipFilter, IInv, TypeOK, Typed, AnsweredOnce, LegalInside,
              NotYetHooked, HooksInOrder, AllHooked
<1>4. CASE CarryOn
  BY <1>4, <1>t DEF CarryOn, IInv, TypeOK, Typed, AnsweredOnce, LegalInside,
              NotYetHooked, HooksInOrder, AllHooked
<1>5. CASE Finish
  BY <1>5, RespondStep DEF Finish, Replies
<1>6. CASE FindRoute
  <2>1. called' \in Nat
    BY <1>6, <1>r DEF FindRoute, Candidates
  <2> QED
    BY <1>6, <2>1 DEF FindRoute, IInv, TypeOK, AnsweredOnce, LegalInside, NotYetHooked,
              HooksInOrder, AllHooked
<1>13. CASE NoRoute
  <2>1. \A p : (IF p THEN "unknown method" ELSE "not found") \in Replies
    BY DEF Replies
  <2> QED
    BY <1>13, <2>1, RespondStep DEF NoRoute
<1>7. CASE CallRoute
  BY <1>7, RespondStep DEF CallRoute, Replies
<1>8. CASE SkipHook
  <2> USE <1>8 DEF SkipHook
  <2>1. TypeOK'
    BY <1>t DEF IInv, TypeOK, Typed
  <2>2. HooksInOrder'
    <3> SUFFICES ASSUME Normalised, Absolute PROVE HookedSoFar'
      BY DEF HooksInOrder, Normalised, Absolute
    <3>1. HookedSoFar
      BY DEF IInv, HooksInOrder
    <3>2. next \in DOMAIN filters /\ filters[next] \in Filter
      BY <1>t DEF Typed
    <3>3. ~(filters[next].send /\ Within(filters[next].prefix, resource))
      <4>1. CASE ~filters[next].send
        BY <4>1
      <4>2. CASE Covers(FALSE)
        BY <4>2, <3>2, <1>t, PrefixSeq, ScopeIsWithin DEF Covers, Normalised, Absolute, Typed
      <4> QED
        BY <4>1, <4>2
    <3>4. \A i \in DOMAIN hooked : hooked[i] \in Nat /\ hooked[i] < next
      BY <3>1, <1>t DEF HookedSoFar, Typed
    <3>5. ASSUME NEW k \in DOMAIN filters, k < next + 1
          PROVE  (\E i \in DOMAIN hooked : hooked[i] = k) <=>
                    filters[k].send /\ Within(filters[k].prefix, resource)
      <4>1. CASE k < next
        BY <4>1, <3>1 DEF HookedSoFar
      <4>2. CASE k = next
        BY <4>2, <3>3, <3>4, <1>t DEF Typed
      <4> QED
        BY <4>1, <4>2, <3>5, <1>t DEF Typed
    <3>6. \A i, j \in DOMAIN hooked : i < j => hooked[i] < hooked[j]
      BY <3>1 DEF HookedSoFar
    <3>7. \A i \in DOMAIN hooked : hooked[i] < next + 1
      BY <3>4, <1>t DEF Typed
    <3> QED
      BY <3>5, <3>6, <3>7 DEF HookedSoFar, Within, StartsWith
  <2> QED
    BY <2>1, <2>2 DEF IInv, AnsweredOnce, LegalInside, NotYetHooked, AllHooked
<1>9. CASE CallHook
  <2> USE <1>9 DEF CallHook
  <2>1. TypeOK'
    BY <1>t DEF IInv, TypeOK, Typed
  <2>2. HooksInOrder'
    <3> SUFFICES ASSUME Normalised, Absolute PROVE HookedSoFar'
      BY DEF HooksInOrder, Normalised, Absolute
    <3>1. HookedSoFar
      BY DEF IInv, HooksInOrder
    <3>2. next \in DOMAIN filters /\ filters[next] \in Filter
      BY <1>t DEF Typed
    <3>3. filters[next].send /\ Within(filters[next].prefix, resource)
      BY <3>2, <1>t, PrefixSeq, ScopeIsWithin DEF Covers, Normalised, Absolute, Typed
    <3>4. /\ Len(hooked') = Len(hooked) + 1
          /\ DOMAIN hooked = 1..Len(hooked)
          /\ DOMAIN hooked' = 1..(Len(hooked) + 1)
          /\ \A i \in DOMAIN hooked : hooked'[i] = hooked[i]
          /\ hooked'[Len(hooked) + 1] = next
      BY <1>t, <3>2 DEF Typed
    <3>5. \A i \in DOMAIN hooked : hooked[i] \in Nat /\ hooked[i] < next
      BY <3>1, <1>t DEF HookedSoFar, Typed
    <3>6. \A i, j \in DOMAIN hooked' : i < j => hooked'[i] < hooked'[j]
      BY <3>1, <3>4, <3>5, <1>t DEF HookedSoFar, Typed
    <3>7. \A i \in DOMAIN hooked' : hooked'[i] < next'
      BY <3>4, <3>5, <1>t DEF Typed
    <3>8. ASSUME NEW k \in DOMAIN filters, k < next + 1
          PROVE  (\E i \in DOMAIN hooked' : hooked'[i] = k) <=>
                    filters[k].send /\ Within(filters[k].prefix, resource)
      <4>1. CASE k < next
        <5>1. (\E i \in DOMAIN hooked' : hooked'[i] = k) <=>
                 (\E i \in DOMAIN hooked : hooked[i] = k)
          BY <4>1, <3>4, <1>t DEF Typed
        <5> QED
          BY <5>1, <4>1, <3>1 DEF HookedSoFar
      <4>2. CASE k = next
        <5>1. Len(hooked) + 1 \in DOMAIN hooked'
          BY <3>4, <1>t DEF Typed
        <5> QED
          BY <5>1, <4>2, <3>3, <3>4
      <4> QED
        BY <4>1, <4>2, <3>8, <1>t DEF Typed
    <3>9. filters' = filters /\ resource' = resource /\ next' = next + 1
      BY DEF config
    <3>10. ASSUME NEW k \in DOMAIN filters', k < next'
           PROVE  (\E i \in DOMAIN hooked' : hooked'[i] = k) <=>
                     filters'[k].send /\ Within(filters'[k].prefix, resource')
      BY <3>8, <3>9, <3>10
    <3> HIDE DEF CallHook
    <3> QED
      BY <3>6, <3>7, <3>10 DEF HookedSoFar, Within, StartsWith
  <2> QED
    BY <2>1, <2>2 DEF IInv, AnsweredOnce, LegalInside, NotYetHooked, AllHooked
<1>10. CASE HandOver
  <2> USE <1>10 DEF HandOver
  <2>1. HooksInOrder'
    <3> SUFFICES ASSUME Normalised, Absolute PROVE HookedSoFar'
      BY DEF HooksInOrder, Normalised, Absolute
    <3>1. HookedSoFar
      BY DEF IInv, HooksInOrder
    <3> QED
      BY <3>1 DEF HookedSoFar, Within, StartsWith
  <2>2. AllHooked'
    BY <1>t DEF AllHooked, Typed
  <2> QED
    BY <2>1, <2>2 DEF IInv, TypeOK, AnsweredOnce, LegalInside, NotYetHooked
<1>11. CASE Throws
  BY <1>11 DEF Throws, IInv, TypeOK, AnsweredOnce, LegalInside, NotYetHooked,
               HooksInOrder, AllHooked
<1>12. CASE UNCHANGED vars
  <2> USE <1>12 DEF vars
  <2>1. HooksInOrder'
    <3> SUFFICES ASSUME pc \in {"sending", "done"}, Normalised, Absolute PROVE HookedSoFar'
      BY DEF HooksInOrder, Normalised, Absolute
    <3>1. HookedSoFar
      BY DEF IInv, HooksInOrder
    <3> QED
      BY <3>1 DEF HookedSoFar, Within, StartsWith
  <2> QED
    BY <2>1 DEF IInv, TypeOK, AnsweredOnce, LegalInside, NotYetHooked, AllHooked, Legal, HasUpDir
<1> QED
  BY <1>1, <1>2, <1>3, <1>4, <1>5, <1>6, <1>7, <1>8, <1>9, <1>10, <1>11, <1>12, <1>13 DEF Next

\* What the search for a route has come to.
Found ==
  /\ called # 0 => called \in Candidates /\ \A j \in Candidates : called <= j
  /\ reply = "not found" => Candidates = {}

LEMMA InitFound == Init => Found
BY DEF Init, Found

\* The configuration stays, and only FindRoute and NoRoute say what was found.
LEMMA StepFound == Found /\ [Next]_vars => Found'
<1> SUFFICES ASSUME Found, [Next]_vars PROVE Found'
  OBVIOUS
<1>1. routes' = routes /\ verb' = verb /\ resource' = resource
  BY DEF Next, vars, config, RefuseResource, BeginFilters, SkipFilter, CarryOn, Finish, FindRoute, NoRoute,
         CallRoute, SkipHook, CallHook, HandOver, Throws, Respond
<1>2. Candidates' = Candidates
  BY <1>1 DEF Candidates
<1>3. CASE FindRoute
  BY <1>2, <1>3 DEF FindRoute, Found
<1>4. CASE NoRoute
  BY <1>2, <1>4 DEF NoRoute, Respond, Found
<1>5. CASE ~FindRoute /\ ~NoRoute
  <2>1. called' = called /\ (reply' = reply \/ reply' # "not found")
    BY <1>5 DEF Next, vars, RefuseResource, BeginFilters, SkipFilter, CarryOn, Finish,
           CallRoute, SkipHook, CallHook, HandOver, Throws, Respond
  <2> QED
    BY <1>2, <2>1 DEF Found
<1> QED
  BY <1>3, <1>4, <1>5

--------------------------------------------------------------------------------
(* What a parameter takes: Once and Capture list the places where the      *)
(* expression of a parameter may end.  A repetition is a row of pieces with *)
(* the prefix between any two.                                             *)

Separators == {<<>>, <<"/">>, <<".">>}
KeyPart ==
  {key \in [kind : {"key"}, value : [name : STRING \cup {""}, index : Nat],
            prefix : Separators, delimiter : {"/", "."}, pattern : {"default", "digits", "any"},
            repeat : BOOLEAN, optional : BOOLEAN, partial : BOOLEAN] :
     /\ key.delimiter = IF key.prefix = <<>> THEN "/" ELSE key.prefix[1]
     /\ key.pattern = "any" => ~key.repeat}
Text(text) == [kind |-> "text", text |-> text]
Part == {Text(text) : text \in Seq(STRING)} \cup KeyPart \cup {Slash}

\* The positions of a path, that behind its end included.
Places(path) == 1..(Len(path) + 1)
WayIn(path) == [end : Places(path), captured : Seq(Seq(STRING))]

\* The fields of a key.
LEMMA KeyFields ==
  ASSUME NEW key \in KeyPart
  PROVE  /\ key.kind = "key" /\ key.prefix \in Separators /\ key.partial \in BOOLEAN
         /\ key.optional \in BOOLEAN /\ key.repeat \in BOOLEAN
         /\ key.repeat => key.pattern # "any"
BY DEF KeyPart

\* Slashes and dots have no case.
LEMMA SameSeparator ==
  ASSUME NEW c \in {"/", "."}, NEW d \in STRING, NEW options
  PROVE  (Same(c, d, options) <=> c = d) /\ (Same(d, c, options) <=> c = d)
<1>1. DOMAIN LowerCase = {"A", "B"} /\ LowerCase["A"] = "a" /\ LowerCase["B"] = "b"
  BY DEF LowerCase
<1>2. Lower(c) = c
  BY <1>1 DEF Lower
<1>3. Lower(d) = c => d = c
  BY <1>1 DEF Lower
<1> QED
  BY <1>2, <1>3 DEF Same

\* A prefix is empty or one character, which is in the path itself.
LEMMA PrefixStands ==
  ASSUME NEW prefix \in Separators, NEW path \in Seq(STRING), NEW at \in Places(path), NEW options
  PROVE  /\ Len(prefix) \in {0, 1} /\ (Len(prefix) = 0 <=> prefix = <<>>)
         /\ Stands(prefix, path, at, options) <=>
              /\ at + Len(prefix) <= Len(path) + 1
              /\ prefix # <<>> => <<path[at]>> = prefix
<1>1. CASE prefix = <<>>
  BY <1>1 DEF Stands, Places
<1>2. ASSUME NEW c \in {"/", "."}, prefix = <<c>>
      PROVE  /\ Len(prefix) \in {0, 1} /\ (Len(prefix) = 0 <=> prefix = <<>>)
             /\ Stands(prefix, path, at, options) <=>
                  /\ at + Len(prefix) <= Len(path) + 1
                  /\ prefix # <<>> => <<path[at]>> = prefix
  <2>1. Len(prefix) = 1 /\ prefix[1] = c /\ DOMAIN prefix = {1}
    BY <1>2
  <2>2. at + 1 <= Len(path) + 1 => path[at] \in STRING /\ at + 1 - 1 = at
    BY DEF Places
  <2>3. at + 1 <= Len(path) + 1 => (Same(path[at + 1 - 1], c, options) <=> <<path[at]>> = <<c>>)
    BY <2>2, SameSeparator
  <2>4. Stands(prefix, path, at, options) <=>
          at + 1 <= Len(path) + 1 /\ Same(path[at + 1 - 1], c, options)
    BY <2>1 DEF Stands
  <2> QED
    BY <1>2, <2>1, <2>3, <2>4
<1> QED
  BY <1>1, <1>2 DEF Separators

\* All of these characters are for the parameter.
TakesAll(key, path, a, e) == \A k \in a..(e - 1) : Takes(key, path[k])

\* Where the pattern of a parameter may end.
OnceEnds(key, path, at) ==
  {e \in at..(Len(path) + 1) : (e = at => key.pattern = "any") /\ TakesAll(key, path, at, e)}

\* The places that Once lists.
LEMMA OnceIs ==
  ASSUME NEW key \in KeyPart, NEW path \in Seq(STRING), NEW at \in Places(path)
  PROVE  Once(key, path, at) \in Seq(Places(path)) /\ Range(Once(key, path, at)) = OnceEnds(key, path, at)
<1> DEFINE N == Len(path) + 1
           Stop(e) == /\ \A k \in at..(e - 1) : Takes(key, path[k])
                      /\ e = Len(path) + 1 \/ ~Takes(key, path[e])
           longest == CHOOSE e \in at..(Len(path) + 1) : Stop(e)
           shortest == IF key.pattern = "any" THEN at ELSE at + 1
           once == [k \in 1..(longest + 1 - shortest) |->
                      IF key.pattern = "default" THEN shortest + k - 1 ELSE longest + 1 - k]
<1>0. N \in Nat /\ at \in 1..N
  BY DEF Places
<1>1. longest \in at..N /\ Stop(longest)
  <2> DEFINE L == {e \in at..N : e = N \/ ~Takes(key, path[e])}
  <2>1. L \subseteq Nat /\ N \in L
    BY <1>0
  <2>2. PICK n \in L : \A m \in L : n <= m
    BY <2>1, LeastNumber
  <2>3. \A k \in at..(n - 1) : Takes(key, path[k])
    <3> SUFFICES ASSUME NEW k \in at..(n - 1) PROVE Takes(key, path[k])
      OBVIOUS
    <3>1. k \in at..N /\ ~(n <= k)
      BY <1>0, <2>2
    <3> QED
      BY <2>2, <3>1
  <2>4. n \in at..N /\ Stop(n)
    BY <2>2, <2>3
  <2> QED
    BY <2>4
<1>2. Once(key, path, at) = once
  BY DEF Once
<1> HIDE DEF longest
<1>3. shortest \in {at, at + 1} /\ (shortest = at <=> key.pattern = "any") /\ shortest \in Nat
  BY <1>0
<1> HIDE DEF shortest
<1>4. longest + 1 - shortest \in Nat
  BY <1>0, <1>1, <1>3
<1>5. \A k \in 1..(longest + 1 - shortest) : once[k] \in shortest..longest
  BY <1>0, <1>1, <1>3
<1>6. once \in Seq(Places(path)) /\ DOMAIN once = 1..(longest + 1 - shortest)
  <2>1. \A k \in 1..(longest + 1 - shortest) : once[k] \in Places(path)
    BY <1>0, <1>1, <1>3, <1>5 DEF Places
  <2>2. once = [k \in 1..(longest + 1 - shortest) |-> once[k]]
    OBVIOUS
  <2> HIDE DEF once
  <2>3. DOMAIN once = 1..(longest + 1 - shortest)
    BY <2>2
  <2> QED
    BY <1>4, <2>1, <2>2, <2>3
<1>7. ASSUME NEW e \in shortest..longest PROVE e \in Range(once)
  <2>1. CASE key.pattern = "default"
    <3>1. e - shortest + 1 \in 1..(longest + 1 - shortest) /\ shortest + (e - shortest + 1) - 1 = e
      BY <1>0, <1>1, <1>3
    <3>2. once[e - shortest + 1] = e
      BY <2>1, <3>1
    <3> QED
      BY <1>6, <3>1, <3>2 DEF Range
  <2>2. CASE key.pattern # "default"
    <3>1. longest + 1 - e \in 1..(longest + 1 - shortest) /\ longest + 1 - (longest + 1 - e) = e
      BY <1>0, <1>1, <1>3
    <3>2. once[longest + 1 - e] = e
      BY <2>2, <3>1
    <3> QED
      BY <1>6, <3>1, <3>2 DEF Range
  <2> QED
    BY <2>1, <2>2
<1>8. Range(once) = shortest..longest
  BY <1>5, <1>6, <1>7 DEF Range
<1>9. shortest..longest = OnceEnds(key, path, at)
  <2>1. ASSUME NEW e \in shortest..longest PROVE e \in OnceEnds(key, path, at)
    <3>1. e \in at..N /\ (e = at => key.pattern = "any") /\ e <= longest
      BY <1>0, <1>1, <1>3
    <3>2. \A k \in at..(e - 1) : k \in at..(longest - 1)
      BY <1>0, <1>1, <3>1
    <3> QED
      BY <1>1, <3>1, <3>2 DEF OnceEnds, TakesAll
  <2>2. ASSUME NEW e \in OnceEnds(key, path, at) PROVE e \in shortest..longest
    <3>1. e \in at..N /\ (e = at => key.pattern = "any") /\ \A k \in at..(e - 1) : Takes(key, path[k])
      BY DEF OnceEnds, TakesAll
    <3>2. shortest <= e
      BY <1>0, <1>3, <3>1
    <3>3. ASSUME longest < e PROVE FALSE
      <4>1. longest \in at..(e - 1) /\ longest # N
        BY <1>0, <1>1, <3>1, <3>3
      <4> QED
        BY <1>1, <3>1, <4>1
    <3> QED
      BY <1>0, <1>1, <1>3, <3>1, <3>2, <3>3
  <2> QED
    BY <2>1, <2>2
<1> QED
  BY <1>2, <1>6, <1>8, <1>9

\* Induction from the end of a path down.
LEMMA Downwards ==
  ASSUME NEW a \in Nat, NEW N \in Nat, NEW T,
         \A e \in a..N : (\A y \in (e + 1)..N : y \in T) => e \in T
  PROVE  \A e \in a..N : e \in T
<1> SUFFICES ASSUME NEW e0 \in a..N, e0 \notin T PROVE FALSE
  OBVIOUS
<1> DEFINE Left == {d \in Nat : d <= N /\ N - d \in a..N /\ N - d \notin T}
<1>1. N - e0 \in Left
  <2>1. N - e0 \in Nat /\ N - e0 <= N /\ N - (N - e0) = e0
    OBVIOUS
  <2> QED
    BY <2>1
<1>2. PICK d \in Left : \A c \in Left : d <= c
  BY <1>1, LeastNumber
<1>3. d \in Nat /\ d <= N /\ N - d \in a..N /\ N - d \notin T
  BY <1>2
<1>4. \A y \in ((N - d) + 1)..N : y \in T
  <2> SUFFICES ASSUME NEW y \in ((N - d) + 1)..N, y \notin T PROVE FALSE
    OBVIOUS
  <2>1. N - y \in Nat /\ N - y <= N /\ N - (N - y) = y /\ y \in a..N /\ ~(d <= N - y)
    BY <1>3
  <2>2. N - y \in Left
    BY <2>1
  <2> QED
    BY <1>2, <2>1, <2>2
<1> QED
  BY <1>3, <1>4

\* The character is the prefix of the parameter.
IsSeparator(key, path, k) == <<path[k]>> = key.prefix

\* Pieces with a separator between any two.
Row(key, path, a, e) ==
  /\ a < e
  /\ \A k \in a..(e - 1) :
       \/ Takes(key, path[k])
       \/ /\ IsSeparator(key, path, k) /\ a < k /\ k < e - 1
          /\ ~IsSeparator(key, path, k - 1) /\ ~IsSeparator(key, path, k + 1)

\* No repeated parameter takes its own prefix.
LEMMA NoneTaken ==
  ASSUME NEW key \in KeyPart, key.pattern # "any", NEW path \in Seq(STRING), NEW k \in DOMAIN path
  PROVE  ~(Takes(key, path[k]) /\ IsSeparator(key, path, k))
<1> SUFFICES ASSUME Takes(key, path[k]), IsSeparator(key, path, k) PROVE FALSE
  OBVIOUS
<1>1. /\ key.prefix \in Separators /\ key.pattern \in {"default", "digits"}
      /\ key.delimiter = IF key.prefix = <<>> THEN "/" ELSE key.prefix[1]
  BY DEF KeyPart
<1>2. key.prefix = <<path[k]>> /\ key.prefix # <<>> /\ key.prefix[1] = path[k]
  <2>1. key.prefix = <<path[k]>>
    BY DEF IsSeparator
  <2>2. \A c : <<c>> # <<>> /\ <<c>>[1] = c
    OBVIOUS
  <2> QED
    BY <2>1, <2>2
<1>3. path[k] \in {"/", "."}
  BY <1>1, <1>2 DEF Separators
<1>4. CASE key.pattern = "default"
  BY <1>1, <1>2, <1>4 DEF Takes
<1>5. CASE key.pattern = "digits"
  BY <1>3, <1>5 DEF Takes, Digits
<1> QED
  BY <1>1, <1>4, <1>5

\* A row is a piece, or a piece, the prefix and a row.
LEMMA RowSplits ==
  ASSUME NEW key \in KeyPart, key.pattern # "any", NEW path \in Seq(STRING), NEW options,
         NEW a \in Places(path), NEW x \in Places(path)
  PROVE  Row(key, path, a, x) <=>
           \E y \in OnceEnds(key, path, a) :
             \/ x = y
             \/ /\ Stands(key.prefix, path, y, options)
                /\ Row(key, path, y + Len(key.prefix), x)
<1> DEFINE N == Len(path) + 1
           Sep(k) == IsSeparator(key, path, k)
           Tak(k) == Takes(key, path[k])
<1>0. N \in Nat /\ a \in 1..N /\ x \in 1..N /\ key.prefix \in Separators /\ DOMAIN path = 1..(N - 1)
  BY KeyFields DEF Places
<1>1. \A k \in 1..(N - 1) : ~(Tak(k) /\ Sep(k))
  BY <1>0, NoneTaken
<1>2. key.prefix = <<>> => \A k : ~Sep(k)
  BY DEF IsSeparator
<1> HIDE DEF Sep, Tak
<1>3. \A b, e : Row(key, path, b, e) <=>
        /\ b < e
        /\ \A k \in b..(e - 1) :
             Tak(k) \/ (Sep(k) /\ b < k /\ k < e - 1 /\ ~Sep(k - 1) /\ ~Sep(k + 1))
  BY DEF Row, Sep, Tak
<1>4. \A y : y \in OnceEnds(key, path, a) <=> y \in a..N /\ y # a /\ \A k \in a..(y - 1) : Tak(k)
  BY DEF OnceEnds, TakesAll, Tak
<1>5. ASSUME NEW y \in OnceEnds(key, path, a)
      PROVE  Stands(key.prefix, path, y, options) <=>
               key.prefix = <<>> \/ (y + 1 <= N /\ Sep(y))
  <2>1. y \in Places(path)
    BY <1>0, <1>4 DEF Places
  <2>2. /\ Len(key.prefix) \in {0, 1} /\ (Len(key.prefix) = 0 <=> key.prefix = <<>>)
        /\ Stands(key.prefix, path, y, options) <=>
             y + Len(key.prefix) <= N /\ (key.prefix # <<>> => <<path[y]>> = key.prefix)
    BY <1>0, <2>1, PrefixStands
  <2>3. Sep(y) <=> <<path[y]>> = key.prefix
    BY DEF Sep, IsSeparator
  <2>4. y + 0 <= N
    BY <1>0, <1>4
  <2> QED
    BY <2>2, <2>3, <2>4
<1>6. key.prefix # <<>> => Len(key.prefix) = 1
  BY <1>0 DEF Separators
<1>7. ASSUME Row(key, path, a, x)
      PROVE  \E y \in OnceEnds(key, path, a) :
               \/ x = y
               \/ Stands(key.prefix, path, y, options) /\ Row(key, path, y + Len(key.prefix), x)
  <2> DEFINE L == {e \in a..x : e = x \/ ~Tak(e)}
  <2>0. a < x /\ \A k \in a..(x - 1) :
             Tak(k) \/ (Sep(k) /\ a < k /\ k < x - 1 /\ ~Sep(k - 1) /\ ~Sep(k + 1))
    BY <1>3, <1>7
  <2>1. L \subseteq Nat /\ x \in L
    BY <1>0, <2>0
  <2>2. PICK y \in L : \A m \in L : y <= m
    BY <2>1, LeastNumber
  <2>3. y \in a..x /\ (y = x \/ ~Tak(y))
    BY <2>2
  <2>4. \A k \in a..(y - 1) : Tak(k)
    <3> SUFFICES ASSUME NEW k \in a..(y - 1), ~Tak(k) PROVE FALSE
      OBVIOUS
    <3>1. k \in a..x /\ ~(y <= k)
      BY <1>0, <2>3
    <3> QED
      BY <2>2, <3>1
  <2>5. y # a
    <3>1. a \in a..(x - 1) /\ ~(a < a)
      BY <1>0, <2>0
    <3>2. Tak(a)
      BY <2>0, <3>1
    <3> QED
      BY <2>0, <2>3, <3>2
  <2>6. y \in OnceEnds(key, path, a)
    <3>1. y \in a..N
      BY <1>0, <2>3
    <3> QED
      BY <1>4, <2>4, <2>5, <3>1
  <2>7. CASE y = x
    BY <2>6, <2>7
  <2>8. CASE y # x
    <3>1. y \in a..(x - 1)
      BY <1>0, <2>3, <2>8
    <3>2. Sep(y) /\ a < y /\ y < x - 1 /\ ~Sep(y + 1)
      BY <2>0, <2>3, <2>8, <3>1
    <3>3. key.prefix # <<>> /\ Len(key.prefix) = 1
      BY <1>2, <1>6, <3>2
    <3>4. Stands(key.prefix, path, y, options)
      <4>1. y + 1 <= N
        BY <1>0, <2>3, <3>2
      <4> QED
        BY <1>5, <2>6, <3>2, <4>1
    <3>5. y + 1 < x
      BY <1>0, <2>3, <3>2
    <3>6. ASSUME NEW k \in (y + 1)..(x - 1)
          PROVE  Tak(k) \/ (Sep(k) /\ y + 1 < k /\ k < x - 1 /\ ~Sep(k - 1) /\ ~Sep(k + 1))
      <4>1. k \in a..(x - 1) /\ (k # y + 1 => y + 1 < k)
        BY <1>0, <2>3
      <4>2. Sep(k) => k # y + 1
        BY <3>2
      <4> QED
        BY <2>0, <4>1, <4>2
    <3>7. Row(key, path, y + 1, x)
      BY <1>3, <3>5, <3>6
    <3> QED
      BY <2>6, <3>3, <3>4, <3>7
  <2> QED
    BY <2>7, <2>8
<1>8. ASSUME NEW y \in OnceEnds(key, path, a),
             \/ x = y
             \/ Stands(key.prefix, path, y, options) /\ Row(key, path, y + Len(key.prefix), x)
      PROVE  Row(key, path, a, x)
  <2>0. y \in a..N /\ a < y /\ \A k \in a..(y - 1) : Tak(k)
    BY <1>0, <1>4
  <2>1. CASE x = y
    BY <1>3, <2>0, <2>1
  <2>2. CASE key.prefix = <<>> /\ x # y
    <3>1. Row(key, path, y, x)
      <4>1. Len(key.prefix) = 0 /\ y + 0 = y
        BY <2>0, <2>2
      <4> QED
        BY <1>8, <2>2, <4>1
    <3>2. y < x /\ \A k \in y..(x - 1) : Tak(k)
      BY <1>2, <1>3, <2>2, <3>1
    <3>3. a < x /\ \A k \in a..(x - 1) : k \in a..(y - 1) \/ k \in y..(x - 1)
      BY <1>0, <2>0, <3>2
    <3> QED
      BY <1>3, <2>0, <3>2, <3>3
  <2>3. CASE key.prefix # <<>> /\ x # y
    <3>1. Row(key, path, y + 1, x) /\ Sep(y) /\ y + 1 <= N
      BY <1>5, <1>6, <1>8, <2>3
    <3>2. /\ y + 1 < x
          /\ \A k \in (y + 1)..(x - 1) :
               Tak(k) \/ (Sep(k) /\ y + 1 < k /\ k < x - 1 /\ ~Sep(k - 1) /\ ~Sep(k + 1))
      BY <1>3, <3>1
    <3>3. Tak(y + 1) /\ y + 1 \in 1..(N - 1) /\ Tak(y - 1) /\ y - 1 \in 1..(N - 1)
      <4>1. y + 1 \in (y + 1)..(x - 1) /\ ~(y + 1 < y + 1) /\ y + 1 \in 1..(N - 1)
        BY <1>0, <2>0, <3>2
      <4>2. y - 1 \in a..(y - 1) /\ y - 1 \in 1..(N - 1)
        BY <1>0, <2>0
      <4> QED
        BY <2>0, <3>2, <4>1, <4>2
    <3>4. ~Sep(y + 1) /\ ~Sep(y - 1)
      BY <1>1, <3>3
    <3>5. ASSUME NEW k \in a..(x - 1)
          PROVE  Tak(k) \/ (Sep(k) /\ a < k /\ k < x - 1 /\ ~Sep(k - 1) /\ ~Sep(k + 1))
      <4>1. CASE k \in a..(y - 1)
        BY <2>0, <4>1
      <4>2. CASE k = y
        <5>1. y < x - 1
          BY <1>0, <2>0, <3>2
        <5> QED
          BY <2>0, <3>1, <3>4, <4>2, <5>1
      <4>3. CASE k \in (y + 1)..(x - 1)
        <5>1. y + 1 < k => a < k
          BY <1>0, <2>0, <4>3
        <5> QED
          BY <3>2, <4>3, <5>1
      <4>4. k \in a..(y - 1) \/ k = y \/ k \in (y + 1)..(x - 1)
        BY <1>0, <2>0
      <4> QED
        BY <4>1, <4>2, <4>3, <4>4
    <3>6. a < x
      BY <1>0, <2>0, <3>2
    <3> QED
      BY <1>3, <3>5, <3>6
  <2> QED
    BY <2>1, <2>2, <2>3
<1> QED
  BY <1>7, <1>8

\* A round of the recursion that takes the repetitions of a parameter.
Round(key, path, e, options) ==
  IF key.repeat /\ Stands(key.prefix, path, e, options)
    THEN Once(key, path, e + Len(key.prefix)) ELSE <<>>

\* The values of a function along a list.
Along(m, list) == [k \in DOMAIN list |-> m[list[k]]]

\* What Capture makes of the places that follow.
More(key, path, options, m, e) == FlattenSeq(Along(m, Round(key, path, e, options))) \o <<e>>

\* The positions of a path behind one.
Behind(path, e) == (e + 1)..(Len(path) + 1)

\* The entries of a list.
LEMMA EntryIn ==
  ASSUME NEW S, NEW list \in Seq(S)
  PROVE  /\ Len(list) \in Nat /\ DOMAIN list = 1..Len(list) /\ Range(list) \subseteq S
         /\ \A k \in DOMAIN list : list[k] \in S /\ list[k] \in Range(list)
BY DEF Range

\* A round goes forward.
LEMMA RoundIs ==
  ASSUME NEW key \in KeyPart, NEW path \in Seq(STRING), NEW options, NEW e \in Places(path)
  PROVE  /\ Round(key, path, e, options) \in Seq(Behind(path, e))
         /\ Range(Round(key, path, e, options)) =
              IF key.repeat /\ Stands(key.prefix, path, e, options)
                THEN OnceEnds(key, path, e + Len(key.prefix)) ELSE {}
<1>0. Len(path) \in Nat /\ e \in 1..(Len(path) + 1) /\ key.prefix \in Separators
      /\ (key.repeat => key.pattern # "any")
  BY KeyFields DEF Places
<1>1. CASE key.repeat /\ Stands(key.prefix, path, e, options)
  <2>1. Len(key.prefix) \in {0, 1} /\ e + Len(key.prefix) <= Len(path) + 1
    BY <1>0, <1>1, PrefixStands
  <2>2. e + Len(key.prefix) \in Places(path)
    BY <1>0, <2>1 DEF Places
  <2> DEFINE once == Once(key, path, e + Len(key.prefix))
  <2>3. once \in Seq(Places(path)) /\ Range(once) = OnceEnds(key, path, e + Len(key.prefix))
    BY <2>2, OnceIs
  <2>4. \A y \in OnceEnds(key, path, e + Len(key.prefix)) : y \in Behind(path, e)
    BY <1>0, <1>1, <2>1 DEF OnceEnds, Behind
  <2> HIDE DEF once
  <2>5. \A k \in DOMAIN once : once[k] \in Behind(path, e)
    BY <2>3, <2>4 DEF Range
  <2>6. once \in Seq(Behind(path, e))
    BY <2>3, <2>5, EachIn
  <2>7. Round(key, path, e, options) = once
    BY <1>1 DEF Round, once
  <2> QED
    BY <1>1, <2>3, <2>6, <2>7
<1>2. CASE ~(key.repeat /\ Stands(key.prefix, path, e, options))
  <2>1. Round(key, path, e, options) = <<>>
    BY <1>2 DEF Round
  <2>2. <<>> \in Seq(Behind(path, e)) /\ Range(<<>>) = {}
    BY DEF Range
  <2> QED
    BY <1>2, <2>1, <2>2
<1> QED
  BY <1>1, <1>2

\* Only the places behind matter.
LEMMA MoreAgrees ==
  ASSUME NEW key \in KeyPart, NEW path \in Seq(STRING), NEW options, NEW e \in Places(path),
         NEW m, NEW n, \A y \in Behind(path, e) : m[y] = n[y]
  PROVE  More(key, path, options, m, e) = More(key, path, options, n, e)
<1> DEFINE onward == Round(key, path, e, options)
<1>1. onward \in Seq(Behind(path, e))
  BY RoundIs
<1> HIDE DEF onward
<1>2. \A k \in DOMAIN onward : m[onward[k]] = n[onward[k]]
  BY <1>1, EntryIn
<1>3. Along(m, onward) = Along(n, onward)
  BY <1>2 DEF Along
<1> QED
  BY <1>3 DEF More, onward

\* The recursion of Capture has a solution.
LEMMA MoreExists ==
  ASSUME NEW key \in KeyPart, NEW path \in Seq(STRING), NEW options, NEW at \in Places(path)
  PROVE  \E m : m = [e \in at..(Len(path) + 1) |-> More(key, path, options, m, e)]
<1> DEFINE N == Len(path) + 1
           F(m, e) == More(key, path, options, m, e)
           T == {a \in at..(N + 1) : \E m : m = [e \in a..N |-> F(m, e)]}
<1>0. N \in Nat /\ at \in 1..N /\ at \in Nat
  BY DEF Places
<1>1. ASSUME NEW e \in 1..N, NEW m, NEW n, \A y \in (e + 1)..N : m[y] = n[y]
      PROVE  F(m, e) = F(n, e)
  <2>1. e \in Places(path) /\ \A y \in Behind(path, e) : m[y] = n[y]
    BY <1>1 DEF Places, Behind
  <2> QED
    BY <2>1, MoreAgrees
<1> HIDE DEF N, F
<1>2. N + 1 \in T
  <2>1. (N + 1)..N = {} /\ N + 1 \in at..(N + 1)
    BY <1>0
  <2>2. <<>> = [e \in (N + 1)..N |-> F(<<>>, e)]
    BY <2>1
  <2>3. \E m : m = [e \in (N + 1)..N |-> F(m, e)]
    BY <2>2
  <2> QED
    BY <2>1, <2>3
<1>3. ASSUME NEW a \in at..N, a + 1 \in T PROVE a \in T
  <2>1. PICK m : m = [e \in (a + 1)..N |-> F(m, e)]
    BY <1>3
  <2> DEFINE g == [e \in a..N |-> IF e = a THEN F(m, e) ELSE m[e]]
  <2>2. ASSUME NEW e \in a..N PROVE g[e] = F(g, e)
    <3>1. e \in 1..N /\ \A y \in (e + 1)..N : y \in a..N /\ y # a
      BY <1>0
    <3>2. \A y \in (e + 1)..N : m[y] = g[y]
      BY <3>1
    <3>3. F(m, e) = F(g, e)
      <4> HIDE DEF g
      <4> QED
        BY <1>1, <3>1, <3>2
    <3>4. e # a => e \in (a + 1)..N
      BY <1>0
    <3>5. e # a => m[e] = F(m, e)
      BY <2>1, <3>4
    <3> QED
      BY <3>3, <3>5
  <2>3. g = [e \in a..N |-> F(g, e)]
    BY <2>2
  <2> HIDE DEF g
  <2>4. a \in at..(N + 1)
    BY <1>0
  <2>5. \E h : h = [e \in a..N |-> F(h, e)]
    BY <2>3
  <2> QED
    BY <2>4, <2>5
<1>4. \A a \in at..(N + 1) : a \in T
  <2>0. N + 1 \in Nat
    BY <1>0
  <2> HIDE DEF T
  <2>1. ASSUME NEW a \in at..(N + 1), \A y \in (a + 1)..(N + 1) : y \in T PROVE a \in T
    <3>1. a = N + 1 \/ (a \in at..N /\ a + 1 \in (a + 1)..(N + 1))
      BY <1>0
    <3> QED
      BY <1>2, <1>3, <2>1, <3>1
  <2> QED
    BY <1>0, <2>0, <2>1, Downwards
<1>5. at \in at..(N + 1)
  BY <1>0
<1>6. \E m : m = [e \in at..N |-> F(m, e)]
  BY <1>4, <1>5
<1> QED
  BY <1>6 DEF N, F

\* Capture, by that solution.
LEMMA CaptureBy ==
  ASSUME NEW key \in KeyPart, NEW path \in Seq(STRING), NEW options, NEW at \in Places(path)
  PROVE  \E m : /\ \A e \in at..(Len(path) + 1) : m[e] = More(key, path, options, m, e)
                /\ Capture(key, path, at, options) = FlattenSeq(Along(m, Once(key, path, at)))
<1> DEFINE more == CHOOSE m : m = [e \in at..(Len(path) + 1) |-> More(key, path, options, m, e)]
<1>1. more = [e \in at..(Len(path) + 1) |-> More(key, path, options, more, e)]
  BY MoreExists
<1>2. Capture(key, path, at, options) = FlattenSeq(Along(more, Once(key, path, at)))
  BY DEF Capture, More, Round, Along
<1> HIDE DEF more
<1>3. \A e \in at..(Len(path) + 1) : more[e] = More(key, path, options, more, e)
  BY <1>1
<1> QED
  BY <1>2, <1>3

\* Where the expression of a parameter may end.
CaptureEnds(key, path, at) ==
  IF key.repeat THEN {e \in Places(path) : Row(key, path, at, e)} ELSE OnceEnds(key, path, at)

\* The entries of a flattened list.
LEMMA AlongIs ==
  ASSUME NEW S, NEW L, NEW list \in Seq(L), NEW m, \A y \in L : m[y] \in Seq(S)
  PROVE  /\ FlattenSeq(Along(m, list)) \in Seq(S)
         /\ \A x : x \in Range(FlattenSeq(Along(m, list))) <=> \E y \in Range(list) : x \in Range(m[y])
<1> DEFINE ss == Along(m, list)
<1>1. /\ Len(list) \in Nat /\ DOMAIN list = 1..Len(list)
      /\ \A k \in DOMAIN list : list[k] \in L /\ list[k] \in Range(list)
  BY EntryIn
<1>2. DOMAIN ss = 1..Len(list) /\ ss = [k \in 1..Len(list) |-> ss[k]]
      /\ \A k \in 1..Len(list) : ss[k] = m[list[k]]
  BY <1>1 DEF Along
<1> HIDE DEF ss
<1>3. \A k \in 1..Len(list) : ss[k] \in Seq(S)
  BY <1>1, <1>2
<1>4. ss \in Seq(Seq(S))
  BY <1>1, <1>2, <1>3
<1>5. FlattenSeq(ss) \in Seq(S) /\ Range(FlattenSeq(ss)) = UNION {Range(ss[k]) : k \in DOMAIN ss}
  BY <1>4, FlattenType, FlattenRange
<1>6. ASSUME NEW x
      PROVE  x \in UNION {Range(ss[k]) : k \in DOMAIN ss} <=> \E y \in Range(list) : x \in Range(m[y])
  <2>1. \A y \in Range(list) : \E k \in DOMAIN list : y = list[k]
    BY DEF Range
  <2> QED
    BY <1>1, <1>2, <2>1
<1> QED
  BY <1>5, <1>6 DEF ss

\* A list with an entry more.
LEMMA OneMore ==
  ASSUME NEW S, NEW list \in Seq(S), NEW e \in S
  PROVE  /\ list \o <<e>> \in Seq(S)
         /\ \A x : x \in Range(list \o <<e>>) <=> x \in Range(list) \/ x = e
<1> DEFINE last == <<e>>
<1>1. last \in Seq(S) /\ Range(last) = {e}
  BY DEF Range
<1> HIDE DEF last
<1>2. list \o last \in Seq(S) /\ Range(list \o last) = Range(list) \cup Range(last)
  BY <1>1, ConcatRange, ConcatAt
<1>3. \A x : x \in Range(list \o last) <=> x \in Range(list) \/ x = e
  BY <1>1, <1>2
<1> QED
  BY <1>2, <1>3 DEF last

\* The places that Capture lists.
LEMMA CaptureIs ==
  ASSUME NEW key \in KeyPart, NEW path \in Seq(STRING), NEW options, NEW at \in Places(path)
  PROVE  /\ Capture(key, path, at, options) \in Seq(Places(path))
         /\ Range(Capture(key, path, at, options)) = CaptureEnds(key, path, at)
<1> DEFINE N == Len(path) + 1
           P == Places(path)
           first == Once(key, path, at)
           onward(e) == Round(key, path, e, options)
           cap == Capture(key, path, at, options)
<1>0. N \in Nat /\ at \in 1..N /\ at \in Nat /\ key.prefix \in Separators /\ P = 1..N
      /\ (key.repeat => key.pattern # "any")
  BY KeyFields DEF Places
<1>1. PICK m : /\ \A e \in at..N : m[e] = FlattenSeq(Along(m, onward(e))) \o <<e>>
               /\ cap = FlattenSeq(Along(m, first))
  BY CaptureBy DEF More
<1>2. ASSUME NEW e \in at..N
      PROVE  /\ onward(e) \in Seq(Behind(path, e))
             /\ Range(onward(e)) = IF key.repeat /\ Stands(key.prefix, path, e, options)
                                     THEN OnceEnds(key, path, e + Len(key.prefix)) ELSE {}
             /\ Behind(path, e) = (e + 1)..N
  <2>1. e \in Places(path)
    BY <1>0
  <2> QED
    BY <2>1, RoundIs DEF Behind
<1>3. first \in Seq(P) /\ Range(first) = OnceEnds(key, path, at)
  BY OnceIs
<1>4. OnceEnds(key, path, at) \subseteq at..N
  BY DEF OnceEnds
<1> HIDE DEF N, first, onward, P, cap
<1>5. \A e \in at..N :
        /\ m[e] \in Seq(P)
        /\ \A x : x \in Range(m[e]) <=> x = e \/ \E y \in Range(onward(e)) : x \in Range(m[y])
  <2> DEFINE Good(e) ==
        /\ m[e] \in Seq(P)
        /\ \A x : x \in Range(m[e]) <=> x = e \/ \E y \in Range(onward(e)) : x \in Range(m[y])
             T == {e \in at..N : Good(e)}
  <2>1. ASSUME NEW e \in at..N, \A y \in (e + 1)..N : y \in T PROVE e \in T
    <3>1. \A y \in Behind(path, e) : m[y] \in Seq(P)
      BY <1>2, <2>1
    <3> DEFINE rest == FlattenSeq(Along(m, onward(e)))
    <3>2. /\ rest \in Seq(P)
          /\ \A x : x \in Range(rest) <=> \E y \in Range(onward(e)) : x \in Range(m[y])
      <4>1. onward(e) \in Seq(Behind(path, e))
        BY <1>2
      <4> QED
        BY <3>1, <4>1, AlongIs
    <3>3. m[e] = rest \o <<e>>
      BY <1>1
    <3>4. e \in P
      BY <1>0
    <3> HIDE DEF rest
    <3>5. rest \o <<e>> \in Seq(P) /\ \A x : x \in Range(rest \o <<e>>) <=> x \in Range(rest) \/ x = e
      BY <3>2, <3>4, OneMore
    <3>6. Good(e)
      BY <3>2, <3>3, <3>5
    <3> QED
      BY <3>6
  <2> HIDE DEF T
  <2>2. \A e \in at..N : e \in T
    BY <1>0, <2>1, Downwards
  <2> QED
    BY <2>2 DEF T
<1>6. cap \in Seq(P) /\ \A x : x \in Range(cap) <=> \E y \in OnceEnds(key, path, at) : x \in Range(m[y])
  <2> DEFINE L == OnceEnds(key, path, at)
  <2>1. \A k \in DOMAIN first : first[k] \in L
    BY <1>3 DEF Range
  <2>2. first \in Seq(L)
    <3> HIDE DEF L
    <3> QED
      BY <1>3, <2>1, EachIn
  <2>3. \A y \in L : m[y] \in Seq(P)
    BY <1>4, <1>5
  <2> HIDE DEF L
  <2>4. /\ FlattenSeq(Along(m, first)) \in Seq(P)
        /\ \A x : x \in Range(FlattenSeq(Along(m, first))) <=> \E y \in Range(first) : x \in Range(m[y])
    BY <2>2, <2>3, AlongIs
  <2> QED
    BY <1>1, <1>3, <2>4
<1>7. CASE ~key.repeat
  <2>1. \A y \in at..N : Range(onward(y)) = {}
    BY <1>2, <1>7
  <2>2. \A y \in at..N : \A x : x \in Range(m[y]) <=> x = y
    BY <1>5, <2>1
  <2>3. ASSUME NEW x PROVE x \in Range(cap) <=> x \in OnceEnds(key, path, at)
    <3>1. \A y \in OnceEnds(key, path, at) : x \in Range(m[y]) <=> x = y
      BY <1>4, <2>2
    <3>2. x \in Range(cap) <=> \E y \in OnceEnds(key, path, at) : x \in Range(m[y])
      BY <1>6
    <3> QED
      BY <3>1, <3>2
  <2>4. Range(cap) = CaptureEnds(key, path, at)
    BY <1>7, <2>3 DEF CaptureEnds
  <2> QED
    BY <1>6, <2>4 DEF P, cap
<1>8. CASE key.repeat
  <2> DEFINE Goal(e, x) == \/ x = e
                           \/ /\ Stands(key.prefix, path, e, options)
                              /\ Row(key, path, e + Len(key.prefix), x)
             Ends(e) == \A x \in P : x \in Range(m[e]) <=> Goal(e, x)
             T == {e \in at..N : Ends(e)}
  <2>0. key.pattern # "any"
    BY <1>0, <1>8
  <2>1. ASSUME NEW e \in at..N, \A y \in (e + 1)..N : y \in T PROVE e \in T
    <3>1. CASE ~Stands(key.prefix, path, e, options)
      <4>1. Range(onward(e)) = {}
        BY <1>2, <3>1
      <4>2. \A x : x \in Range(m[e]) <=> x = e
        BY <1>5, <4>1
      <4> QED
        BY <3>1, <4>2
    <3>2. CASE Stands(key.prefix, path, e, options)
      <4> DEFINE b == e + Len(key.prefix)
      <4>1. b \in Places(path) /\ b >= e
        <5>1. e \in Places(path)
          BY <1>0 DEF P
        <5>2. Len(key.prefix) \in {0, 1} /\ e + Len(key.prefix) <= Len(path) + 1
          BY <1>0, <3>2, <5>1, PrefixStands
        <5> QED
          BY <1>0, <5>2 DEF N, P
      <4>2. Range(onward(e)) = OnceEnds(key, path, b)
        BY <1>2, <1>8, <3>2
      <4> HIDE DEF b
      <4>3. \A y \in OnceEnds(key, path, b) : y \in (e + 1)..N
        BY <1>0, <2>0, <4>1 DEF OnceEnds, N
      <4>4. ASSUME NEW x \in P
            PROVE  x \in Range(m[e]) <=> Goal(e, x)
        <5>1. x \in Places(path)
          BY DEF P
        <5>2. x \in Range(m[e]) <=> x = e \/ \E y \in OnceEnds(key, path, b) : x \in Range(m[y])
          BY <1>5, <4>2
        <5>3. \A y \in OnceEnds(key, path, b) : x \in Range(m[y]) <=> Goal(y, x)
          BY <2>1, <4>3
        <5>4. Row(key, path, b, x) <=> \E y \in OnceEnds(key, path, b) : Goal(y, x)
          BY <2>0, <4>1, <5>1, RowSplits
        <5>5. Goal(e, x) <=> x = e \/ Row(key, path, b, x)
          BY <3>2 DEF b
        <5> HIDE DEF Goal
        <5> QED
          BY <5>2, <5>3, <5>4, <5>5
      <4> QED
        BY <4>4
    <3> QED
      BY <3>1, <3>2
  <2> HIDE DEF T
  <2>2. \A e \in at..N : e \in T
    BY <1>0, <2>1, Downwards
  <2>3. ASSUME NEW x \in P
        PROVE  x \in Range(cap) <=> Row(key, path, at, x)
    <3>1. \A y \in OnceEnds(key, path, at) : x \in Range(m[y]) <=> Goal(y, x)
      BY <1>4, <2>2 DEF T
    <3>2. x \in Places(path)
      BY DEF P
    <3>3. Row(key, path, at, x) <=> \E y \in OnceEnds(key, path, at) : Goal(y, x)
      BY <2>0, <3>2, RowSplits
    <3> HIDE DEF Goal
    <3> QED
      BY <1>6, <3>1, <3>3
  <2>4. Range(cap) \subseteq P
    BY <1>6, EntryIn
  <2>5. Range(cap) = CaptureEnds(key, path, at)
    <3>1. CaptureEnds(key, path, at) = {e \in P : Row(key, path, at, e)}
      BY <1>8 DEF CaptureEnds, P
    <3> QED
      BY <2>3, <2>4, <3>1
  <2> QED
    BY <1>6, <2>5 DEF P, cap
<1> QED
  BY <1>7, <1>8

--------------------------------------------------------------------------------
(* The ways to match a part, by the three kinds of parts.                  *)

\* Which ways there are to match a part from a position on.
IsTaken(key, path, at, options, way) ==
  /\ Stands(key.prefix, path, at, options)
  /\ \E e \in CaptureEnds(key, path, at + Len(key.prefix)) :
       way = Way(e, <<SubSeq(path, at + Len(key.prefix), e - 1)>>)

IsLeft(key, path, at, options, way) ==
  /\ key.optional
  /\ \/ ~key.partial /\ way = Way(at, << <<>> >>)
     \/ /\ key.partial /\ Stands(key.prefix, path, at, options)
        /\ way = Way(at + Len(key.prefix), << <<>> >>)

\* A way and the list of it alone, with captures,
LEMMA OneWay ==
  ASSUME NEW path \in Seq(STRING), NEW e \in Places(path), NEW c \in Seq(Seq(STRING))
  PROVE  /\ Way(e, c) \in WayIn(path) /\ Way(e, c).end = e /\ Way(e, c).captured = c
         /\ <<Way(e, c)>> \in Seq(WayIn(path)) /\ Range(<<Way(e, c)>>) = {Way(e, c)}
<1>1. Way(e, c) \in WayIn(path) /\ Way(e, c).end = e /\ Way(e, c).captured = c
  BY DEF Way, WayIn
<1> DEFINE way == Way(e, c)
<1> HIDE DEF way
<1>2. way \in WayIn(path)
  BY <1>1 DEF way
<1>3. <<way>> \in Seq(WayIn(path)) /\ Range(<<way>>) = {way}
  BY <1>2 DEF Range
<1> QED
  BY <1>1, <1>3 DEF way

\* without a capture,
LEMMA PlainWay ==
  ASSUME NEW path \in Seq(STRING), NEW e \in Places(path)
  PROVE  /\ Way(e, <<>>) \in WayIn(path) /\ Way(e, <<>>).end = e /\ Way(e, <<>>).captured = <<>>
         /\ <<Way(e, <<>>)>> \in Seq(WayIn(path)) /\ Range(<<Way(e, <<>>)>>) = {Way(e, <<>>)}
<1> DEFINE c == <<>>
<1>1. c \in Seq(Seq(STRING))
  OBVIOUS
<1> HIDE DEF c
<1> QED
  BY <1>1, OneWay DEF c

\* and with an empty one.
LEMMA AbsentWay ==
  ASSUME NEW path \in Seq(STRING), NEW e \in Places(path)
  PROVE  /\ Way(e, << <<>> >>) \in WayIn(path)
         /\ Way(e, << <<>> >>).end = e /\ Way(e, << <<>> >>).captured = << <<>> >>
         /\ <<Way(e, << <<>> >>)>> \in Seq(WayIn(path))
         /\ Range(<<Way(e, << <<>> >>)>>) = {Way(e, << <<>> >>)}
<1> DEFINE c == << <<>> >>
<1>1. c \in Seq(Seq(STRING))
  OBVIOUS
<1> HIDE DEF c
<1> QED
  BY <1>1, OneWay DEF c

\* The ways to match a text,
LEMMA TextWays ==
  ASSUME NEW text \in Seq(STRING), NEW path \in Seq(STRING), NEW at \in Places(path), NEW options
  PROVE  /\ Ways(Text(text), path, at, options) \in Seq(WayIn(path))
         /\ \A way : way \in Range(Ways(Text(text), path, at, options)) <=>
              Stands(text, path, at, options) /\ way = Way(at + Len(text), <<>>)
<1>1. Text(text).kind = "text" /\ Text(text).text = text
  BY DEF Text
<1>2. Ways(Text(text), path, at, options) =
        IF Stands(text, path, at, options) THEN <<Way(at + Len(text), <<>>)>> ELSE <<>>
  BY <1>1 DEF Ways
<1>3. CASE Stands(text, path, at, options)
  <2>1. at + Len(text) \in Places(path)
    BY <1>3 DEF Stands, Places
  <2> DEFINE way == Way(at + Len(text), <<>>)
  <2>2. <<way>> \in Seq(WayIn(path)) /\ Range(<<way>>) = {way}
    BY <2>1, PlainWay
  <2> HIDE DEF way
  <2>3. Ways(Text(text), path, at, options) = <<way>>
    BY <1>2, <1>3 DEF way
  <2>4. \A v : v \in Range(Ways(Text(text), path, at, options)) <=> v = way
    BY <2>2, <2>3
  <2> QED
    BY <1>3, <2>2, <2>3, <2>4 DEF way
<1>4. CASE ~Stands(text, path, at, options)
  <2>1. Ways(Text(text), path, at, options) = <<>>
    BY <1>2, <1>4
  <2>2. <<>> \in Seq(WayIn(path)) /\ Range(<<>>) = {}
    BY DEF Range
  <2> QED
    BY <1>4, <2>1, <2>2
<1> QED
  BY <1>3, <1>4

\* the slash at the end,
LEMMA SlashWays ==
  ASSUME NEW path \in Seq(STRING), NEW at \in Places(path), NEW options
  PROVE  /\ Ways(Slash, path, at, options) \in Seq(WayIn(path))
         /\ \A way : way \in Range(Ways(Slash, path, at, options)) <=>
              way = Way(at, <<>>) \/ (at = Len(path) /\ path[at] = "/" /\ way = Way(at + 1, <<>>))
<1>1. Slash.kind = "slash"
  BY DEF Slash
<1>2. Ways(Slash, path, at, options) =
        IF at = Len(path) /\ path[at] = "/" THEN <<Way(at + 1, <<>>), Way(at, <<>>)>>
                                            ELSE <<Way(at, <<>>)>>
  BY <1>1 DEF Ways
<1>4. /\ Way(at, <<>>) \in WayIn(path)
      /\ <<Way(at, <<>>)>> \in Seq(WayIn(path)) /\ Range(<<Way(at, <<>>)>>) = {Way(at, <<>>)}
  BY PlainWay
<1>5. CASE at = Len(path) /\ path[at] = "/"
  <2>1. at + 1 \in Places(path)
    BY <1>5 DEF Places
  <2>2. Way(at + 1, <<>>) \in WayIn(path)
    BY <2>1, PlainWay
  <2> DEFINE v == Way(at + 1, <<>>)
             w == Way(at, <<>>)
  <2> HIDE DEF v, w
  <2>3. v \in WayIn(path) /\ w \in WayIn(path)
    BY <1>4, <2>2 DEF v, w
  <2>4. <<v, w>> \in Seq(WayIn(path)) /\ Range(<<v, w>>) = {v, w}
    BY <2>3 DEF Range
  <2> QED
    BY <1>2, <1>5, <2>4 DEF v, w
<1>6. CASE ~(at = Len(path) /\ path[at] = "/")
  <2>1. Ways(Slash, path, at, options) = <<Way(at, <<>>)>>
    BY <1>2, <1>6
  <2>2. \A way : way \in Range(Ways(Slash, path, at, options)) <=> way = Way(at, <<>>)
    BY <1>4, <2>1
  <2> QED
    BY <1>4, <1>6, <2>1, <2>2
<1> QED
  BY <1>5, <1>6

\* and a parameter.
LEMMA KeyWaysAre ==
  ASSUME NEW key \in KeyPart, NEW path \in Seq(STRING), NEW at \in Places(path), NEW options
  PROVE  /\ Ways(key, path, at, options) \in Seq(WayIn(path))
         /\ \A way : way \in Range(Ways(key, path, at, options)) <=>
              IsTaken(key, path, at, options, way) \/ IsLeft(key, path, at, options, way)
<1> DEFINE begin == at + Len(key.prefix)
           ends == IF Stands(key.prefix, path, at, options) THEN Capture(key, path, begin, options)
                                                            ELSE <<>>
           Taken(e) == Way(e, <<SubSeq(path, begin, e - 1)>>)
           taken == [k \in DOMAIN ends |-> Way(ends[k], <<SubSeq(path, begin, ends[k] - 1)>>)]
           left == CASE key.optional /\ ~key.partial -> <<Way(at, << <<>> >>)>>
                     [] key.optional /\ key.partial /\ Stands(key.prefix, path, at, options)
                          -> <<Way(begin, << <<>> >>)>>
                     [] OTHER -> <<>>
<1>0. key.kind = "key" /\ key.prefix \in Separators /\ key.partial \in BOOLEAN /\ key.optional \in BOOLEAN
      /\ Len(path) \in Nat /\ at \in 1..(Len(path) + 1)
  BY KeyFields DEF Places
<1>1. Ways(key, path, at, options) = taken \o left
  BY <1>0 DEF Ways, KeyWays
<1>2. Stands(key.prefix, path, at, options) => begin \in Places(path)
  <2>1. Len(key.prefix) \in {0, 1}
        /\ (Stands(key.prefix, path, at, options) => at + Len(key.prefix) <= Len(path) + 1)
    BY <1>0, PrefixStands
  <2> QED
    BY <1>0, <2>1 DEF Places
<1>3. /\ ends \in Seq(Places(path))
      /\ Range(ends) = IF Stands(key.prefix, path, at, options) THEN CaptureEnds(key, path, begin) ELSE {}
  <2>1. CASE Stands(key.prefix, path, at, options)
    BY <1>2, <2>1, CaptureIs
  <2>2. CASE ~Stands(key.prefix, path, at, options)
    <3>1. ends = <<>>
      BY <2>2
    <3>2. <<>> \in Seq(Places(path)) /\ Range(<<>>) = {}
      BY DEF Range
    <3> QED
      BY <2>2, <3>1, <3>2
  <2> QED
    BY <2>1, <2>2
<1>4. ASSUME Stands(key.prefix, path, at, options), NEW e \in CaptureEnds(key, path, begin)
      PROVE  e \in Places(path) /\ begin <= e /\ Taken(e) \in WayIn(path)
  <2>1. e \in Places(path) /\ begin <= e
    BY <1>2, <1>4 DEF CaptureEnds, OnceEnds, Row, Places
  <2>2. SubSeq(path, begin, e - 1) \in Seq(STRING)
    <3>1. begin \in 1..(Len(path) + 1) /\ e - 1 \in (begin - 1)..Len(path)
      BY <1>0, <1>2, <1>4, <2>1 DEF Places
    <3> QED
      BY <3>1, SubSeqAt
  <2> DEFINE piece == SubSeq(path, begin, e - 1)
  <2> HIDE DEF piece
  <2>3. piece \in Seq(STRING)
    BY <2>2 DEF piece
  <2>4. <<piece>> \in Seq(Seq(STRING))
    BY <2>3
  <2>5. Way(e, <<piece>>) \in WayIn(path)
    BY <2>1, <2>4, OneWay
  <2> QED
    BY <2>1, <2>5 DEF piece
<1>5. /\ taken \in Seq(WayIn(path))
      /\ \A way : way \in Range(taken) <=> IsTaken(key, path, at, options, way)
  <2>1. DOMAIN ends = 1..Len(ends) /\ Len(ends) \in Nat /\ \A k \in DOMAIN ends : ends[k] \in Range(ends)
    BY <1>3, EntryIn
  <2>2. DOMAIN taken = 1..Len(ends) /\ taken = [k \in 1..Len(ends) |-> taken[k]]
        /\ \A k \in 1..Len(ends) : taken[k] = Taken(ends[k])
    BY <2>1
  <2> HIDE DEF taken, ends, Taken
  <2>3. \A k \in 1..Len(ends) : taken[k] \in WayIn(path)
    BY <1>3, <1>4, <2>1, <2>2
  <2>4. taken \in Seq(WayIn(path))
    BY <2>1, <2>2, <2>3
  <2>5. \A way : way \in Range(taken) <=> \E e \in Range(ends) : way = Taken(e)
    BY <2>1, <2>2 DEF Range
  <2>6. \A way : IsTaken(key, path, at, options, way) <=>
          /\ Stands(key.prefix, path, at, options)
          /\ \E e \in CaptureEnds(key, path, begin) : way = Taken(e)
    BY DEF IsTaken, Taken
  <2>7. \A way : way \in Range(taken) <=> IsTaken(key, path, at, options, way)
    <3> HIDE DEF begin
    <3> QED
      BY <1>3, <2>5, <2>6
  <2> QED
    BY <2>4, <2>7
<1>6. /\ left \in Seq(WayIn(path))
      /\ \A way : way \in Range(left) <=> IsLeft(key, path, at, options, way)
  <2>1. CASE key.optional /\ ~key.partial
    <3>1. left = <<Way(at, << <<>> >>)>>
      BY <2>1
    <3>2. /\ <<Way(at, << <<>> >>)>> \in Seq(WayIn(path))
          /\ Range(<<Way(at, << <<>> >>)>>) = {Way(at, << <<>> >>)}
      BY AbsentWay
    <3>3. \A way : IsLeft(key, path, at, options, way) <=> way = Way(at, << <<>> >>)
      BY <2>1 DEF IsLeft
    <3> HIDE DEF left
    <3> QED
      BY <3>1, <3>2, <3>3
  <2>2. CASE key.optional /\ key.partial /\ Stands(key.prefix, path, at, options)
    <3>1. left = <<Way(begin, << <<>> >>)>>
      BY <2>2
    <3>2. /\ <<Way(begin, << <<>> >>)>> \in Seq(WayIn(path))
          /\ Range(<<Way(begin, << <<>> >>)>>) = {Way(begin, << <<>> >>)}
      BY <1>2, <2>2, AbsentWay
    <3>3. \A way : IsLeft(key, path, at, options, way) <=> way = Way(begin, << <<>> >>)
      BY <2>2 DEF IsLeft
    <3> HIDE DEF left
    <3> QED
      BY <3>1, <3>2, <3>3
  <2>3. CASE ~(key.optional /\ (~key.partial \/ Stands(key.prefix, path, at, options)))
    <3>1. left = <<>>
      BY <2>3
    <3>2. <<>> \in Seq(WayIn(path)) /\ Range(<<>>) = {}
      BY DEF Range
    <3>3. \A way : ~IsLeft(key, path, at, options, way)
      BY <2>3 DEF IsLeft
    <3> HIDE DEF left
    <3> QED
      BY <3>1, <3>2, <3>3
  <2> HIDE DEF left
  <2> QED
    BY <1>0, <2>1, <2>2, <2>3
<1> HIDE DEF taken, left
<1>7. taken \o left \in Seq(WayIn(path)) /\ Range(taken \o left) = Range(taken) \cup Range(left)
  BY <1>5, <1>6, ConcatRange, ConcatAt
<1>8. \A way : way \in Range(taken \o left) <=> way \in Range(taken) \/ way \in Range(left)
  BY <1>7
<1> QED
  BY <1>1, <1>5, <1>6, <1>7, <1>8

\* All of them are ways in the path.
LEMMA WaysType ==
  ASSUME NEW part \in Part, NEW path \in Seq(STRING), NEW at \in Places(path), NEW options
  PROVE  Ways(part, path, at, options) \in Seq(WayIn(path))
BY TextWays, KeyWaysAre, SlashWays DEF Part

--------------------------------------------------------------------------------
(* regex_match.  A run is a way to match each part, each from where the one *)
(* before it ends; Captured finds the captures of a run to the end of the  *)
(* path if there is one.                                                   *)

\* Where a way of a run starts, where the run ends, and what it captures.
StartOf(w, at, j) == IF j = 1 THEN at ELSE w[j - 1].end
EndOf(w, at) == StartOf(w, at, Len(w) + 1)
Captures(w) == FlattenSeq([j \in DOMAIN w |-> w[j].captured])

\* A run over the parts of an expression from one on.
RunsFrom(route, i, path, at, options) ==
  {w \in Seq(WayIn(path)) :
     /\ Len(w) = (Len(route) + 1) - i
     /\ \A j \in 1..Len(w) :
          w[j] \in Range(Ways(route[(i + j) - 1], path, StartOf(w, at, j), options))}

\* The ways of a run start and end in the path.
LEMMA WayFields ==
  ASSUME NEW path \in Seq(STRING), NEW w \in Seq(WayIn(path)), NEW at \in Places(path)
  PROVE  /\ Len(w) \in Nat /\ DOMAIN w = 1..Len(w)
         /\ \A j \in 1..Len(w) : /\ w[j] \in WayIn(path) /\ w[j].end \in Places(path)
                                 /\ w[j].captured \in Seq(Seq(STRING))
         /\ \A j \in 1..(Len(w) + 1) : StartOf(w, at, j) \in Places(path)
         /\ EndOf(w, at) \in Places(path)
<1>1. Len(w) \in Nat /\ DOMAIN w = 1..Len(w) /\ \A j \in 1..Len(w) : w[j] \in WayIn(path)
  BY EntryIn
<1>2. \A way \in WayIn(path) : way.end \in Places(path) /\ way.captured \in Seq(Seq(STRING))
  BY DEF WayIn
<1>3. ASSUME NEW j \in 1..(Len(w) + 1) PROVE StartOf(w, at, j) \in Places(path)
  <2>1. j # 1 => j - 1 \in 1..Len(w)
    BY <1>1
  <2> QED
    BY <1>1, <1>2, <2>1 DEF StartOf
<1>4. Len(w) + 1 \in 1..(Len(w) + 1)
  BY <1>1
<1> QED
  BY <1>1, <1>2, <1>3, <1>4 DEF EndOf

\* The captures are texts.
LEMMA CapturesType ==
  ASSUME NEW path \in Seq(STRING), NEW w \in Seq(WayIn(path))
  PROVE  /\ [j \in DOMAIN w |-> w[j].captured] \in Seq(Seq(Seq(STRING)))
         /\ Captures(w) \in Seq(Seq(STRING))
<1> DEFINE ss == [j \in DOMAIN w |-> w[j].captured]
           S == Seq(STRING)
<1>1. Len(w) \in Nat /\ DOMAIN w = 1..Len(w) /\ \A j \in 1..Len(w) : w[j].captured \in Seq(S)
  <2>1. \A way \in WayIn(path) : way.captured \in Seq(Seq(STRING))
    BY DEF WayIn
  <2> QED
    BY <2>1, EntryIn
<1>2. ss = [j \in 1..Len(w) |-> w[j].captured]
  BY <1>1
<1> HIDE DEF S
<1>3. ss \in Seq(Seq(S))
  BY <1>1, <1>2
<1>4. FlattenSeq(ss) \in Seq(S)
  <2> HIDE DEF ss
  <2> QED
    BY <1>3, FlattenType
<1> QED
  BY <1>3, <1>4 DEF Captures, S

\* The captures of a run with one way in front.
LEMMA CapturesFirst ==
  ASSUME NEW path \in Seq(STRING), NEW way \in WayIn(path), NEW w \in Seq(WayIn(path))
  PROVE  Captures(<<way>> \o w) = way.captured \o Captures(w)
<1> DEFINE v == <<way>> \o w
           ss == [j \in DOMAIN w |-> w[j].captured]
           s == way.captured
           S == Seq(STRING)
           one == <<s>>
           tt == [j \in DOMAIN v |-> v[j].captured]
<1>1. /\ Len(w) \in Nat /\ DOMAIN w = 1..Len(w) /\ v \in Seq(WayIn(path)) /\ Len(v) = 1 + Len(w)
      /\ DOMAIN v = 1..(1 + Len(w)) /\ v[1] = way /\ \A j \in 1..Len(w) : v[1 + j] = w[j]
  <2> DEFINE head == <<way>>
  <2>1. head \in Seq(WayIn(path)) /\ Len(head) = 1 /\ DOMAIN head = 1..1 /\ head[1] = way
    OBVIOUS
  <2> HIDE DEF head
  <2>2. /\ Len(w) \in Nat /\ DOMAIN w = 1..Len(w)
        /\ head \o w \in Seq(WayIn(path)) /\ Len(head \o w) = Len(head) + Len(w)
        /\ DOMAIN (head \o w) = 1..Len(head \o w)
        /\ \A i \in DOMAIN head : (head \o w)[i] = head[i]
        /\ \A i \in DOMAIN w : (head \o w)[Len(head) + i] = w[i]
    BY <2>1, ConcatAt, EntryIn
  <2>3. 1 \in 1..1
    OBVIOUS
  <2> QED
    BY <2>1, <2>2, <2>3 DEF head
<1>2. s \in Seq(S) /\ ss \in Seq(Seq(S)) /\ one \in Seq(Seq(S))
  <2>1. s \in Seq(S)
    BY DEF WayIn
  <2>2. ss \in Seq(Seq(S))
    BY CapturesType
  <2> HIDE DEF s
  <2> QED
    BY <2>1, <2>2
<1>3. tt \in Seq(Seq(S))
  <2> HIDE DEF v
  <2> QED
    BY <1>1, CapturesType
<1>4. /\ one \o ss \in Seq(Seq(S)) /\ Len(one \o ss) = 1 + Len(w)
      /\ (one \o ss)[1] = s /\ \A j \in 1..Len(w) : (one \o ss)[1 + j] = ss[j]
  <2> DEFINE R == Seq(S)
  <2>1. Len(one) = 1 /\ DOMAIN one = 1..1 /\ one[1] = s /\ one \in Seq(R) /\ ss \in Seq(R)
    BY <1>2
  <2>2. Len(ss) = Len(w) /\ DOMAIN ss = 1..Len(w)
    BY <1>1, <1>2
  <2> HIDE DEF R, one, ss
  <2>5. one \o ss \in Seq(R)
    BY <2>1, ConcatProperties
  <2>3. /\ Len(one \o ss) = Len(one) + Len(ss)
        /\ \A i \in DOMAIN one : (one \o ss)[i] = one[i]
        /\ \A i \in DOMAIN ss : (one \o ss)[Len(one) + i] = ss[i]
    <3>1. one \in Seq(R) /\ ss \in Seq(R)
      BY <2>1
    <3> QED
      BY <3>1, ConcatAt
  <2>4. 1 \in 1..1
    OBVIOUS
  <2> QED
    BY <2>1, <2>2, <2>3, <2>4, <2>5 DEF R
<1>5. Len(tt) = 1 + Len(w) /\ tt[1] = s /\ \A j \in 1..Len(w) : tt[1 + j] = ss[j]
  <2>1. DOMAIN tt = 1..(1 + Len(w)) /\ \A j \in 1..(1 + Len(w)) : tt[j] = v[j].captured
    BY <1>1
  <2>2. \A j \in 1..Len(w) : ss[j] = w[j].captured
    BY <1>1
  <2> HIDE DEF tt, ss, v
  <2>3. Len(tt) = 1 + Len(w)
    BY <1>1, <1>3, <2>1
  <2>4. 1 \in 1..(1 + Len(w)) /\ \A j \in 1..Len(w) : 1 + j \in 1..(1 + Len(w))
    BY <1>1
  <2> QED
    BY <1>1, <2>1, <2>2, <2>3, <2>4
<1> HIDE DEF tt, ss, v, one
<1>6. tt = one \o ss
  <2> DEFINE R == Seq(S)
  <2>1. \A i \in 1..Len(tt) : i = 1 \/ (i - 1 \in 1..Len(w) /\ 1 + (i - 1) = i)
    BY <1>1, <1>5
  <2>2. \A i \in 1..Len(tt) : tt[i] = (one \o ss)[i]
    BY <1>4, <1>5, <2>1
  <2>3. tt \in Seq(R) /\ one \o ss \in Seq(R) /\ Len(tt) = Len(one \o ss)
    BY <1>3, <1>4, <1>5
  <2> HIDE DEF R
  <2> QED
    BY <2>2, <2>3, SeqEqual
<1>7. FlattenSeq(one \o ss) = s \o FlattenSeq(ss)
  <2> HIDE DEF S, s
  <2> QED
    BY <1>2, FlattenFirst DEF one
<1> QED
  BY <1>6, <1>7 DEF Captures, v, tt, ss

\* The ways that lead to the end, and the first of them.
Leading(ways, onward) == {k \in DOMAIN ways : onward[ways[k].end] # <<>>}
FirstLeading(ways, onward) == ways[Min(Leading(ways, onward))]

\* A cell, and a column, of the table that Captured builds.
Matched(route, path, options, from, i, at) ==
  IF i > Len(route)
    THEN IF at > Len(path) THEN << <<>> >> ELSE <<>>
    ELSE LET ways == Ways(route[i], path, at, options)
             way == FirstLeading(ways, from[i + 1])
         IN  IF Leading(ways, from[i + 1]) = {} THEN <<>>
             ELSE <<way.captured \o from[i + 1][way.end][1]>>
Column(route, path, options, from, i) ==
  [at \in 1..(Len(path) + 1) |-> Matched(route, path, options, from, i, at)]

\* What the recursion makes of each part and position.
IsTable(route, path, options, from) ==
  \A i \in 1..(Len(route) + 1), at \in Places(path) :
    from[i][at] = Matched(route, path, options, from, i, at)

\* A column depends on the next one only.
LEMMA ColumnAgrees ==
  ASSUME NEW route, Len(route) \in Nat, NEW path, NEW options, NEW f, NEW g, NEW i \in 1..(Len(route) + 1),
         i # Len(route) + 1 => f[i + 1] = g[i + 1]
  PROVE  Column(route, path, options, f, i) = Column(route, path, options, g, i)
<1>1. ASSUME NEW at PROVE Matched(route, path, options, f, i, at) = Matched(route, path, options, g, i, at)
  <2>1. CASE i > Len(route)
    BY <2>1 DEF Matched
  <2>2. CASE ~(i > Len(route))
    <3>1. f[i + 1] = g[i + 1]
      BY <2>2
    <3> QED
      BY <3>1 DEF Matched
  <2> QED
    BY <2>1, <2>2
<1> QED
  BY <1>1 DEF Column

\* The table exists,
LEMMA ColumnsExist ==
  ASSUME NEW route, Len(route) \in Nat, NEW path, NEW options
  PROVE  \E f : f = [i \in 1..(Len(route) + 1) |-> Column(route, path, options, f, i)]
<1> DEFINE N == Len(route) + 1
           F(m, i) == Column(route, path, options, m, i)
           T == {a \in 1..(N + 1) : \E m : m = [i \in a..N |-> F(m, i)]}
<1>0. N \in Nat /\ 1 \in Nat /\ N >= 1
  OBVIOUS
<1>1. ASSUME NEW i \in 1..N, NEW m, NEW n, i # N => m[i + 1] = n[i + 1]
      PROVE  F(m, i) = F(n, i)
  BY <1>1, ColumnAgrees
<1> HIDE DEF N, F
<1>2. N + 1 \in T
  <2>1. (N + 1)..N = {} /\ N + 1 \in 1..(N + 1)
    BY <1>0
  <2>2. <<>> = [i \in (N + 1)..N |-> F(<<>>, i)]
    BY <2>1
  <2>3. \E m : m = [i \in (N + 1)..N |-> F(m, i)]
    BY <2>2
  <2> QED
    BY <2>1, <2>3
<1>3. ASSUME NEW a \in 1..N, a + 1 \in T PROVE a \in T
  <2>1. PICK m : m = [i \in (a + 1)..N |-> F(m, i)]
    BY <1>3
  <2> DEFINE g == [i \in a..N |-> IF i = a THEN F(m, i) ELSE m[i]]
  <2>2. ASSUME NEW i \in a..N PROVE g[i] = F(g, i)
    <3>1. i \in 1..N /\ (i # N => i + 1 \in a..N /\ i + 1 # a)
      BY <1>0
    <3>2. i # N => m[i + 1] = g[i + 1]
      BY <3>1
    <3>3. F(m, i) = F(g, i)
      <4> HIDE DEF g
      <4> QED
        BY <1>1, <3>1, <3>2
    <3>4. i # a => i \in (a + 1)..N
      BY <1>0
    <3>5. i # a => m[i] = F(m, i)
      BY <2>1, <3>4
    <3> QED
      BY <3>3, <3>5
  <2>3. g = [i \in a..N |-> F(g, i)]
    BY <2>2
  <2> HIDE DEF g
  <2>4. a \in 1..(N + 1)
    BY <1>0
  <2>5. \E h : h = [i \in a..N |-> F(h, i)]
    BY <2>3
  <2> QED
    BY <2>4, <2>5
<1>4. \A a \in 1..(N + 1) : a \in T
  <2>0. N + 1 \in Nat
    BY <1>0
  <2> HIDE DEF T
  <2>1. ASSUME NEW a \in 1..(N + 1), \A y \in (a + 1)..(N + 1) : y \in T PROVE a \in T
    <3>1. a = N + 1 \/ (a \in 1..N /\ a + 1 \in (a + 1)..(N + 1))
      BY <1>0
    <3> QED
      BY <1>2, <1>3, <2>1, <3>1
  <2> QED
    BY <1>0, <2>0, <2>1, Downwards
<1>5. 1 \in 1..(N + 1)
  BY <1>0
<1>6. \E m : m = [i \in 1..N |-> F(m, i)]
  BY <1>4, <1>5
<1> QED
  BY <1>6 DEF N, F

\* and Captured reads it.
LEMMA CapturedBy ==
  ASSUME NEW route, Len(route) \in Nat, NEW path \in Seq(STRING), NEW options
  PROVE  \E f : /\ IsTable(route, path, options, f)
                /\ Captured(route, path, options) = f[1][1]
<1> DEFINE from == CHOOSE f : f = [i \in 1..(Len(route) + 1) |-> Column(route, path, options, f, i)]
<1>1. from = [i \in 1..(Len(route) + 1) |-> Column(route, path, options, from, i)]
  <2>1. \E f : f = [i \in 1..(Len(route) + 1) |-> Column(route, path, options, f, i)]
    BY ColumnsExist
  <2> QED
    BY <2>1
<1>2. Captured(route, path, options) = from[1][1]
  BY DEF Captured, Foremost, Column, Matched, FirstLeading, Leading
<1> HIDE DEF from
<1>3. ASSUME NEW i \in 1..(Len(route) + 1), NEW at \in Places(path)
      PROVE  from[i][at] = Matched(route, path, options, from, i, at)
  <2>1. from[i] = Column(route, path, options, from, i)
    BY <1>1
  <2> QED
    BY <2>1 DEF Column, Places
<1> QED
  BY <1>2, <1>3 DEF IsTable

\* The first of the ways that lead to the end is one of them.
LEMMA FirstLeads ==
  ASSUME NEW S, NEW ways \in Seq(S), NEW onward, Leading(ways, onward) # {}
  PROVE  /\ FirstLeading(ways, onward) \in S /\ FirstLeading(ways, onward) \in Range(ways)
         /\ onward[FirstLeading(ways, onward).end] # <<>>
<1> DEFINE leading == Leading(ways, onward)
<1>1. leading \subseteq Nat /\ DOMAIN ways = 1..Len(ways)
      /\ \A k \in DOMAIN ways : ways[k] \in S /\ ways[k] \in Range(ways)
  BY EntryIn DEF Leading
<1>2. \E n \in leading : \A k \in leading : n <= k
  BY <1>1, LeastNumber
<1>3. Min(leading) \in leading
  BY <1>2 DEF Min
<1>4. Min(leading) \in DOMAIN ways /\ onward[ways[Min(leading)].end] # <<>>
  BY <1>3 DEF Leading
<1> QED
  BY <1>1, <1>4 DEF FirstLeading

\* An expression has a match from a part and a position on if and only if there is
\* a run from there to the end of the path, and its captures are those of a run.
LEMMA MatchedRuns ==
  ASSUME NEW route \in Seq(Part), NEW path \in Seq(STRING), NEW options, NEW from,
         IsTable(route, path, options, from)
  PROVE  \A i \in 1..(Len(route) + 1), at \in Places(path) :
           /\ from[i][at] # <<>> =>
                \E w \in RunsFrom(route, i, path, at, options) :
                  EndOf(w, at) = Len(path) + 1 /\ from[i][at][1] = Captures(w)
           /\ (\E w \in RunsFrom(route, i, path, at, options) : EndOf(w, at) = Len(path) + 1) =>
                from[i][at] # <<>>
<1> DEFINE n == Len(route)
           Way_(w, i, at) == w \in RunsFrom(route, i, path, at, options) /\ EndOf(w, at) = Len(path) + 1
           Sound(i, at) == from[i][at] # <<>> => \E w : Way_(w, i, at) /\ from[i][at][1] = Captures(w)
           Complete(i, at) == (\E w : Way_(w, i, at)) => from[i][at] # <<>>
           T == {i \in 1..(n + 1) : \A at \in Places(path) : Sound(i, at) /\ Complete(i, at)}
<1>0. n \in Nat /\ n + 1 \in Nat /\ \A i \in 1..n : route[i] \in Part
  OBVIOUS
<1>1. ASSUME NEW at \in Places(path) PROVE Sound(n + 1, at) /\ Complete(n + 1, at)
  <2>1. from[n + 1][at] = IF at > Len(path) THEN << <<>> >> ELSE <<>>
    <3>1. n + 1 \in 1..(n + 1) /\ n + 1 > n
      BY <1>0
    <3> QED
      BY <3>1 DEF IsTable, Matched
  <2>2. \A w : Way_(w, n + 1, at) <=> w = <<>> /\ at = Len(path) + 1
    <3>1. ASSUME NEW w, Way_(w, n + 1, at) PROVE w = <<>> /\ at = Len(path) + 1
      <4>1. w \in Seq(WayIn(path)) /\ Len(w) = (n + 1) - (n + 1) /\ EndOf(w, at) = Len(path) + 1
        BY <3>1 DEF RunsFrom
      <4>2. Len(w) = 0 /\ w = <<>>
        BY <1>0, <4>1
      <4> QED
        BY <4>1, <4>2 DEF EndOf, StartOf
    <3>2. ASSUME at = Len(path) + 1 PROVE Way_(<<>>, n + 1, at)
      <4>1. <<>> \in Seq(WayIn(path)) /\ Len(<<>>) = 0 /\ (n + 1) - (n + 1) = 0
        BY <1>0
      <4>2. <<>> \in RunsFrom(route, n + 1, path, at, options)
        BY <4>1 DEF RunsFrom
      <4>3. EndOf(<<>>, at) = at
        BY <4>1 DEF EndOf, StartOf
      <4> QED
        BY <3>2, <4>2, <4>3
    <3> QED
      BY <3>1, <3>2
  <2>3. Captures(<<>>) = <<>>
    BY DEF Captures, FlattenSeq
  <2>4. at > Len(path) <=> at = Len(path) + 1
    BY DEF Places
  <2>5. << <<>> >> # <<>> /\ << <<>> >>[1] = <<>>
    OBVIOUS
  <2> HIDE DEF Way_
  <2>6. CASE at > Len(path)
    <3>1. from[n + 1][at] = << <<>> >> /\ Way_(<<>>, n + 1, at)
      BY <2>1, <2>2, <2>4, <2>6
    <3> QED
      BY <2>3, <2>5, <3>1
  <2>7. CASE ~(at > Len(path))
    <3>1. from[n + 1][at] = <<>> /\ \A w : ~Way_(w, n + 1, at)
      BY <2>1, <2>2, <2>4, <2>7
    <3> QED
      BY <3>1
  <2> QED
    BY <2>6, <2>7
<1>2. ASSUME NEW i \in 1..n, \A at \in Places(path) : Sound(i + 1, at) /\ Complete(i + 1, at),
             NEW at \in Places(path)
      PROVE  Sound(i, at) /\ Complete(i, at)
  <2> DEFINE ways == Ways(route[i], path, at, options)
             onward == from[i + 1]
             way == FirstLeading(ways, onward)
  <2>0. i \in Nat /\ i \in 1..(n + 1) /\ ~(i > n) /\ i + 1 \in 1..(n + 1)
    BY <1>0
  <2>1. ways \in Seq(WayIn(path)) /\ \A k \in DOMAIN ways : ways[k] \in WayIn(path) /\ ways[k].end \in Places(path)
    <3>1. ways \in Seq(WayIn(path))
      BY <1>0, WaysType
    <3>2. \A v \in WayIn(path) : v.end \in Places(path)
      BY DEF WayIn
    <3> HIDE DEF ways
    <3> QED
      BY <3>1, <3>2, EntryIn
  <2>2. from[i][at] = IF Leading(ways, onward) = {} THEN <<>> ELSE <<way.captured \o onward[way.end][1]>>
    <3>1. from[i][at] = Matched(route, path, options, from, i, at)
      BY <2>0 DEF IsTable
    <3> QED
      BY <2>0, <3>1 DEF Matched
  <2> HIDE DEF Way_
  <2>3. Sound(i, at)
    <3> SUFFICES ASSUME from[i][at] # <<>>
                 PROVE  \E w : Way_(w, i, at) /\ from[i][at][1] = Captures(w)
      OBVIOUS
    <3>1. Leading(ways, onward) # {} /\ from[i][at] = <<way.captured \o onward[way.end][1]>>
      BY <2>2
    <3>2. way \in WayIn(path) /\ way \in Range(ways) /\ onward[way.end] # <<>>
      <4> HIDE DEF ways
      <4> QED
        BY <2>1, <3>1, FirstLeads
    <3>3. way.end \in Places(path)
      BY <3>2 DEF WayIn
    <3> HIDE DEF ways, onward, way
    <3>4. PICK w : Way_(w, i + 1, way.end) /\ onward[way.end][1] = Captures(w)
      BY <1>2, <3>2, <3>3 DEF onward
    <3>5. /\ w \in Seq(WayIn(path)) /\ Len(w) = (n + 1) - (i + 1) /\ EndOf(w, way.end) = Len(path) + 1
          /\ \A j \in 1..Len(w) :
               w[j] \in Range(Ways(route[((i + 1) + j) - 1], path, StartOf(w, way.end, j), options))
      BY <3>4 DEF Way_, RunsFrom
    <3> DEFINE v == <<way>> \o w
    <3>6. /\ v \in Seq(WayIn(path)) /\ Len(v) = 1 + Len(w) /\ v[1] = way
          /\ \A j \in 1..Len(w) : v[1 + j] = w[j]
      <4> DEFINE head == <<way>>
      <4>1. head \in Seq(WayIn(path)) /\ Len(head) = 1 /\ DOMAIN head = 1..1 /\ head[1] = way
        BY <3>2
      <4>2. DOMAIN w = 1..Len(w)
        BY <3>5, EntryIn
      <4> HIDE DEF head
      <4>3. /\ head \o w \in Seq(WayIn(path)) /\ Len(head \o w) = Len(head) + Len(w)
            /\ \A k \in DOMAIN head : (head \o w)[k] = head[k]
            /\ \A k \in DOMAIN w : (head \o w)[Len(head) + k] = w[k]
        <5>1. head \in Seq(WayIn(path)) /\ w \in Seq(WayIn(path))
          BY <3>5, <4>1
        <5> QED
          BY <5>1, ConcatAt
      <4>4. 1 \in 1..1
        OBVIOUS
      <4> QED
        BY <4>1, <4>2, <4>3, <4>4 DEF head
    <3>7. Captures(v) = way.captured \o Captures(w)
      BY <3>2, <3>5, CapturesFirst
    <3> HIDE DEF v
    <3>8. Len(w) \in Nat /\ Len(v) = (n + 1) - i
      BY <1>0, <2>0, <3>5, <3>6
    <3>9. /\ StartOf(v, at, 1) = at
          /\ \A j \in 1..(Len(w) + 1) : StartOf(v, at, 1 + j) = StartOf(w, way.end, j)
      <4>1. ASSUME NEW j \in 1..(Len(w) + 1) PROVE StartOf(v, at, 1 + j) = StartOf(w, way.end, j)
        <5>1. 1 + j # 1 /\ (1 + j) - 1 = j /\ (j # 1 => j - 1 \in 1..Len(w) /\ 1 + (j - 1) = j)
          BY <3>8
        <5>2. StartOf(v, at, 1 + j) = v[j].end
          BY <5>1 DEF StartOf
        <5>3. CASE j = 1
          BY <3>6, <5>2, <5>3 DEF StartOf
        <5>4. CASE j # 1
          <6>1. v[j] = w[j - 1]
            <7>1. v[1 + (j - 1)] = w[j - 1]
              BY <3>6, <5>1, <5>4
            <7> QED
              BY <5>1, <5>4, <7>1
          <6> QED
            BY <5>2, <5>4, <6>1 DEF StartOf
        <5> QED
          BY <5>3, <5>4
      <4> QED
        BY <4>1 DEF StartOf
    <3>10. ASSUME NEW j \in 1..Len(v)
           PROVE  v[j] \in Range(Ways(route[(i + j) - 1], path, StartOf(v, at, j), options))
      <4>1. CASE j = 1
        <5>1. (i + j) - 1 = i
          BY <2>0, <4>1
        <5> QED
          BY <3>2, <3>6, <3>9, <4>1, <5>1 DEF ways
      <4>2. CASE j # 1
        <5> DEFINE k == j - 1
        <5>1. k \in 1..Len(w) /\ k \in 1..(Len(w) + 1) /\ 1 + k = j /\ ((i + 1) + k) - 1 = (i + j) - 1
          <6>1. i \in Nat /\ Len(w) \in Nat /\ j \in 1..(1 + Len(w)) /\ j # 1
            BY <2>0, <3>6, <3>8, <4>2
          <6> QED
            BY <6>1
        <5> HIDE DEF k
        <5>2. v[1 + k] = w[k] /\ StartOf(v, at, 1 + k) = StartOf(w, way.end, k)
          BY <3>6, <3>9, <5>1
        <5>3. w[k] \in Range(Ways(route[((i + 1) + k) - 1], path, StartOf(w, way.end, k), options))
          BY <3>5, <5>1
        <5> QED
          BY <5>1, <5>2, <5>3
      <4> QED
        BY <4>1, <4>2
    <3>11. v \in RunsFrom(route, i, path, at, options)
      BY <3>6, <3>8, <3>10 DEF RunsFrom
    <3>12. EndOf(v, at) = Len(path) + 1
      <4>1. Len(v) + 1 = 1 + (Len(w) + 1) /\ Len(w) + 1 \in 1..(Len(w) + 1)
        BY <3>6, <3>8
      <4> QED
        BY <3>5, <3>9, <4>1 DEF EndOf
    <3>13. from[i][at][1] = Captures(v)
      BY <3>1, <3>4, <3>7
    <3> QED
      BY <3>11, <3>12, <3>13 DEF Way_
  <2>4. Complete(i, at)
    <3> SUFFICES ASSUME NEW v, Way_(v, i, at) PROVE from[i][at] # <<>>
      OBVIOUS
    <3>1. /\ v \in Seq(WayIn(path)) /\ Len(v) = (n + 1) - i /\ EndOf(v, at) = Len(path) + 1
          /\ \A j \in 1..Len(v) :
               v[j] \in Range(Ways(route[(i + j) - 1], path, StartOf(v, at, j), options))
      BY DEF Way_, RunsFrom
    <3>2. Len(v) \in Nat /\ Len(v) >= 1 /\ 1 \in 1..Len(v) /\ (i + 1) - 1 = i
      BY <1>0, <2>0, <3>1
    <3>3. v[1] \in Range(ways) /\ v[1] \in WayIn(path) /\ v[1].end \in Places(path)
      <4>1. v[1] \in Range(Ways(route[(i + 1) - 1], path, StartOf(v, at, 1), options))
        BY <3>1, <3>2
      <4>2. StartOf(v, at, 1) = at
        BY DEF StartOf
      <4>3. v[1] \in WayIn(path)
        BY <3>1, <3>2, EntryIn
      <4> QED
        BY <3>2, <4>1, <4>2, <4>3 DEF WayIn
    <3> DEFINE w == [j \in 1..(Len(v) - 1) |-> v[1 + j]]
    <3>4. /\ w \in Seq(WayIn(path)) /\ Len(w) = Len(v) - 1 /\ Len(w) \in Nat
          /\ \A j \in 1..Len(w) : w[j] = v[1 + j]
      <4>1. Len(v) - 1 \in Nat /\ \A j \in 1..(Len(v) - 1) : v[1 + j] \in WayIn(path)
        <5>1. \A j \in 1..(Len(v) - 1) : 1 + j \in 1..Len(v)
          BY <3>2
        <5>2. \A j \in 1..Len(v) : v[j] \in WayIn(path)
          BY <3>1, EntryIn
        <5> QED
          BY <3>2, <5>1, <5>2
      <4> QED
        BY <4>1
    <3> HIDE DEF w
    <3>5. \A j \in 1..(Len(w) + 1) : StartOf(w, v[1].end, j) = StartOf(v, at, 1 + j)
      <4> SUFFICES ASSUME NEW j \in 1..(Len(w) + 1) PROVE StartOf(w, v[1].end, j) = StartOf(v, at, 1 + j)
        OBVIOUS
      <4>1. 1 + j # 1 /\ (1 + j) - 1 = j /\ (j # 1 => j - 1 \in 1..Len(w) /\ 1 + (j - 1) = j)
        BY <3>4
      <4>2. StartOf(v, at, 1 + j) = v[j].end
        BY <4>1 DEF StartOf
      <4>3. CASE j = 1
        BY <4>2, <4>3 DEF StartOf
      <4>4. CASE j # 1
        <5>1. w[j - 1] = v[j]
          <6>1. w[j - 1] = v[1 + (j - 1)]
            BY <3>4, <4>1, <4>4
          <6> QED
            BY <4>1, <4>4, <6>1
        <5> QED
          BY <4>2, <4>4, <5>1 DEF StartOf
      <4> QED
        BY <4>3, <4>4
    <3>6. Way_(w, i + 1, v[1].end)
      <4>1. Len(w) = (n + 1) - (i + 1)
        BY <1>0, <2>0, <3>1, <3>4
      <4>2. ASSUME NEW j \in 1..Len(w)
            PROVE  w[j] \in Range(Ways(route[((i + 1) + j) - 1], path, StartOf(w, v[1].end, j), options))
        <5>1. 1 + j \in 1..Len(v) /\ j \in 1..(Len(w) + 1) /\ (i + (1 + j)) - 1 = ((i + 1) + j) - 1
          <6>1. i \in Nat /\ Len(v) \in Nat /\ Len(w) = Len(v) - 1 /\ j \in 1..(Len(v) - 1)
            BY <2>0, <3>2, <3>4
          <6>2. 1 + j \in 1..Len(v) /\ j \in 1..(Len(w) + 1)
            BY <6>1
          <6>3. j \in Nat
            BY <6>1
          <6>4. (i + (1 + j)) - 1 = ((i + 1) + j) - 1
            <7> HIDE DEF ways, onward, way, T
            <7> QED
              BY <6>1, <6>3
          <6> QED
            BY <6>2, <6>4
        <5>2. v[1 + j] \in Range(Ways(route[(i + (1 + j)) - 1], path, StartOf(v, at, 1 + j), options))
          BY <3>1, <5>1
        <5>3. w[j] = v[1 + j] /\ StartOf(w, v[1].end, j) = StartOf(v, at, 1 + j)
          BY <3>4, <3>5, <5>1
        <5> QED
          BY <5>1, <5>2, <5>3
      <4>3. EndOf(w, v[1].end) = Len(path) + 1
        <5>1. 1 + (Len(w) + 1) = Len(v) + 1 /\ Len(w) + 1 \in 1..(Len(w) + 1)
          BY <3>2, <3>4
        <5>2. StartOf(w, v[1].end, Len(w) + 1) = StartOf(v, at, Len(v) + 1)
          BY <3>5, <5>1
        <5> QED
          BY <3>1, <5>2 DEF EndOf
      <4> QED
        BY <3>4, <4>1, <4>2, <4>3 DEF Way_, RunsFrom
    <3>7. onward[v[1].end] # <<>>
      BY <1>2, <3>3, <3>6
    <3>8. Leading(ways, onward) # {}
      <4>1. PICK k \in DOMAIN ways : v[1] = ways[k]
        BY <3>3 DEF Range
      <4> QED
        BY <3>7, <4>1 DEF Leading
    <3> HIDE DEF ways, onward, way
    <3> QED
      BY <2>2, <3>8
  <2> QED
    BY <2>3, <2>4
<1>3. \A i \in 1..(n + 1) : i \in T
  <2>1. ASSUME NEW i \in 1..(n + 1), \A y \in (i + 1)..(n + 1) : y \in T PROVE i \in T
    <3>1. CASE i = n + 1
      BY <1>1, <3>1
    <3>2. CASE i # n + 1
      <4>1. i \in 1..n /\ i + 1 \in (i + 1)..(n + 1)
        BY <1>0, <3>2
      <4>2. \A at \in Places(path) : Sound(i + 1, at) /\ Complete(i + 1, at)
        BY <2>1, <4>1
      <4>3. \A at \in Places(path) : Sound(i, at) /\ Complete(i, at)
        BY <1>2, <4>1, <4>2
      <4> QED
        BY <4>3
    <3> QED
      BY <3>1, <3>2
  <2> HIDE DEF T
  <2>2. 1 \in Nat
    OBVIOUS
  <2> QED
    BY <1>0, <2>1, <2>2, Downwards
<1> QED
  BY <1>3

--------------------------------------------------------------------------------
(* What parts reach: the places in the path where a run over them ends, and *)
(* its captures; how a part more changes that.                             *)

\* A run over all the parts from the beginning of the path.
Runs(parts, path, options) ==
  {w \in Seq(WayIn(path)) :
     /\ Len(w) = Len(parts)
     /\ \A j \in 1..Len(w) : w[j] \in Range(Ways(parts[j], path, StartOf(w, 1, j), options))}

\* The parts take a path up to a position, and the captures are these.
Reaches(parts, path, options, e, captures) ==
  \E w \in Runs(parts, path, options) : EndOf(w, 1) = e /\ Captures(w) = captures

\* Captured finds something if the parts reach the end, and then captures of such a run.
LEMMA CapturedIs ==
  ASSUME NEW route \in Seq(Part), NEW path \in Seq(STRING), NEW options
  PROVE  /\ Captured(route, path, options) # <<>> =>
              Reaches(route, path, options, Len(path) + 1, Captured(route, path, options)[1])
         /\ (\E c : Reaches(route, path, options, Len(path) + 1, c)) =>
              Captured(route, path, options) # <<>>
<1>0. Len(route) \in Nat /\ 1 \in 1..(Len(route) + 1) /\ 1 \in Places(path)
  BY DEF Places
<1>1. RunsFrom(route, 1, path, 1, options) = Runs(route, path, options)
  <2>1. (Len(route) + 1) - 1 = Len(route)
    BY <1>0
  <2>2. \A w \in Seq(WayIn(path)) : \A j \in 1..Len(w) : (1 + j) - 1 = j
    OBVIOUS
  <2>3. \A w : w \in RunsFrom(route, 1, path, 1, options) <=> w \in Runs(route, path, options)
    BY <2>1, <2>2 DEF RunsFrom, Runs
  <2> QED
    BY <2>3
<1>2. PICK from :
        /\ IsTable(route, path, options, from)
        /\ Captured(route, path, options) = from[1][1]
  BY <1>0, CapturedBy
<1>3. /\ from[1][1] # <<>> =>
           \E w \in RunsFrom(route, 1, path, 1, options) :
             EndOf(w, 1) = Len(path) + 1 /\ from[1][1][1] = Captures(w)
      /\ (\E w \in RunsFrom(route, 1, path, 1, options) : EndOf(w, 1) = Len(path) + 1) => from[1][1] # <<>>
  <2>1. \A i \in 1..(Len(route) + 1), at \in Places(path) :
           /\ from[i][at] # <<>> =>
                \E w \in RunsFrom(route, i, path, at, options) :
                  EndOf(w, at) = Len(path) + 1 /\ from[i][at][1] = Captures(w)
           /\ (\E w \in RunsFrom(route, i, path, at, options) : EndOf(w, at) = Len(path) + 1) =>
                from[i][at] # <<>>
    BY <1>2, MatchedRuns
  <2> QED
    BY <1>0, <2>1
<1> QED
  BY <1>1, <1>2, <1>3 DEF Reaches

\* Places and captures that are reached.
LEMMA ReachesType ==
  ASSUME NEW parts, NEW path \in Seq(STRING), NEW options, NEW e, NEW c,
         Reaches(parts, path, options, e, c)
  PROVE  e \in Places(path) /\ c \in Seq(Seq(STRING))
<1>1. PICK w \in Seq(WayIn(path)) : EndOf(w, 1) = e /\ Captures(w) = c
  BY DEF Reaches, Runs
<1>2. 1 \in Places(path)
  BY DEF Places
<1> QED
  BY <1>1, <1>2, WayFields, CapturesType

\* No parts reach the beginning alone.
LEMMA ReachesNone ==
  ASSUME NEW path \in Seq(STRING), NEW options, NEW e, NEW c
  PROVE  Reaches(<<>>, path, options, e, c) <=> e = 1 /\ c = <<>>
<1>1. <<>> \in Runs(<<>>, path, options)
  BY DEF Runs
<1>2. \A w \in Runs(<<>>, path, options) : w = <<>>
  <2> SUFFICES ASSUME NEW w \in Runs(<<>>, path, options) PROVE w = <<>>
    OBVIOUS
  <2>1. w \in Seq(WayIn(path)) /\ Len(w) = 0
    BY DEF Runs
  <2> QED
    BY <2>1
<1>3. EndOf(<<>>, 1) = 1 /\ Captures(<<>>) = <<>>
  <2>1. Len(<<>>) + 1 = 1
    OBVIOUS
  <2> QED
    BY <2>1 DEF EndOf, StartOf, Captures, FlattenSeq
<1> QED
  BY <1>1, <1>2, <1>3 DEF Reaches

\* A run with a way more.
LEMMA OneWayMore ==
  ASSUME NEW path \in Seq(STRING), NEW w \in Seq(WayIn(path)), NEW way \in WayIn(path)
  PROVE  /\ Append(w, way) \in Seq(WayIn(path)) /\ Len(Append(w, way)) = Len(w) + 1 /\ Len(w) \in Nat
         /\ \A j \in 1..Len(w) : Append(w, way)[j] = w[j]
         /\ Append(w, way)[Len(w) + 1] = way
         /\ \A j \in 1..(Len(w) + 1) : StartOf(Append(w, way), 1, j) = StartOf(w, 1, j)
         /\ EndOf(Append(w, way), 1) = way.end
         /\ Captures(Append(w, way)) = Captures(w) \o way.captured
<1> DEFINE v == Append(w, way)
<1>1. /\ v \in Seq(WayIn(path)) /\ Len(v) = Len(w) + 1 /\ Len(w) \in Nat
      /\ DOMAIN w = 1..Len(w) /\ DOMAIN v = 1..(Len(w) + 1)
      /\ \A j \in 1..Len(w) : v[j] = w[j]
      /\ v[Len(w) + 1] = way
  BY AppendAt
<1> HIDE DEF v
<1>2. \A j \in 1..(Len(w) + 1) : StartOf(v, 1, j) = StartOf(w, 1, j)
  <2>1. \A j \in 1..(Len(w) + 1) : j # 1 => j - 1 \in 1..Len(w)
    BY <1>1
  <2> QED
    BY <1>1, <2>1 DEF StartOf
<1>3. EndOf(v, 1) = way.end
  <2>1. Len(v) + 1 # 1 /\ (Len(v) + 1) - 1 = Len(w) + 1
    BY <1>1
  <2> QED
    BY <1>1, <2>1 DEF EndOf, StartOf
<1>4. Captures(v) = Captures(w) \o way.captured
  <2> DEFINE S == Seq(STRING)
             ss == [j \in DOMAIN w |-> w[j].captured]
             tt == [j \in DOMAIN v |-> v[j].captured]
             s == way.captured
  <2>1. ss \in Seq(Seq(S)) /\ tt \in Seq(Seq(S)) /\ s \in Seq(S)
    BY <1>1, CapturesType DEF WayIn
  <2>2. DOMAIN ss = 1..Len(w) /\ \A j \in 1..Len(w) : ss[j] = w[j].captured
    BY <1>1
  <2>3. DOMAIN tt = 1..(Len(w) + 1) /\ \A j \in 1..(Len(w) + 1) : tt[j] = v[j].captured
    BY <1>1
  <2> DEFINE R == Seq(S)
  <2> HIDE DEF ss, tt, s, R
  <2>4. ss \in Seq(R) /\ tt \in Seq(R) /\ s \in R
    BY <2>1 DEF R
  <2>5. /\ Append(ss, s) \in Seq(R) /\ Len(Append(ss, s)) = Len(ss) + 1
        /\ \A k \in DOMAIN ss : Append(ss, s)[k] = ss[k]
        /\ Append(ss, s)[Len(ss) + 1] = s
    BY <2>4, AppendAt
  <2>6. Len(ss) = Len(w) /\ Len(tt) = Len(w) + 1
    BY <1>1, <2>2, <2>3, <2>4
  <2>7. ASSUME NEW j \in 1..Len(tt) PROVE tt[j] = Append(ss, s)[j]
    <3>1. j \in 1..Len(w) \/ j = Len(w) + 1
      BY <1>1, <2>6
    <3>2. CASE j \in 1..Len(w)
      <4>1. j \in 1..(Len(w) + 1)
        BY <1>1, <3>2
      <4> QED
        BY <1>1, <2>2, <2>3, <2>5, <3>2, <4>1
    <3>3. CASE j = Len(w) + 1
      <4>1. j \in 1..(Len(w) + 1)
        BY <1>1, <3>3
      <4> QED
        BY <1>1, <2>3, <2>5, <2>6, <3>3, <4>1 DEF s
    <3> QED
      BY <3>1, <3>2, <3>3
  <2>8. tt = Append(ss, s)
    BY <2>4, <2>5, <2>6, <2>7, SeqEqual
  <2> HIDE DEF S
  <2>9. FlattenSeq(Append(ss, s)) = FlattenSeq(ss) \o s
    BY <2>1, FlattenLast
  <2> QED
    BY <2>8, <2>9 DEF Captures, ss, tt, s
<1> QED
  BY <1>1, <1>2, <1>3, <1>4 DEF v

\* A way to match the part, behind a run over the others.
Onward(parts, part, path, options, e, c) ==
  \E m \in Places(path), b \in Seq(Seq(STRING)) : \E way \in Range(Ways(part, path, m, options)) :
    Reaches(parts, path, options, m, b) /\ e = way.end /\ c = b \o way.captured

\* A part more goes on from where the parts before it have come to,
LEMMA ReachesAppend ==
  ASSUME NEW parts \in Seq(Part), NEW part \in Part, NEW path \in Seq(STRING), NEW options, NEW e, NEW c
  PROVE  Reaches(Append(parts, part), path, options, e, c) <=> Onward(parts, part, path, options, e, c)
<1> DEFINE n == Len(parts)
           all == Append(parts, part)
<1>1. n \in Nat /\ Len(all) = n + 1 /\ all[n + 1] = part /\ \A j \in 1..n : all[j] = parts[j]
  BY AppendAt
<1> HIDE DEF n, all
<1>0. 1 \in Places(path)
  BY DEF Places
<1>2. ASSUME NEW v \in Runs(all, path, options)
      PROVE  \E m \in Places(path), b \in Seq(Seq(STRING)) : \E way \in Range(Ways(part, path, m, options)) :
               Reaches(parts, path, options, m, b) /\ EndOf(v, 1) = way.end /\ Captures(v) = b \o way.captured
  <2>1. v \in Seq(WayIn(path)) /\ Len(v) = n + 1
        /\ \A j \in 1..(n + 1) : v[j] \in Range(Ways(all[j], path, StartOf(v, 1, j), options))
    BY <1>1 DEF Runs
  <2>2. \A j \in 1..(n + 1) : v[j] \in WayIn(path)
    BY <2>1, EntryIn
  <2> DEFINE w == [j \in 1..n |-> v[j]]
             way == v[n + 1]
  <2>3. w \in Seq(WayIn(path)) /\ Len(w) = n /\ \A j \in 1..n : w[j] = v[j]
    <3>1. \A j \in 1..n : v[j] \in WayIn(path)
      BY <1>1, <2>2
    <3> QED
      BY <1>1, <3>1
  <2>4. way \in WayIn(path)
    BY <1>1, <2>2
  <2> HIDE DEF w, way
  <2>5. v = Append(w, way)
    <3>1. Append(w, way) \in Seq(WayIn(path)) /\ Len(Append(w, way)) = n + 1
          /\ (\A j \in 1..n : Append(w, way)[j] = w[j]) /\ Append(w, way)[n + 1] = way
      BY <2>3, <2>4, OneWayMore
    <3>2. \A j \in 1..(n + 1) : j \in 1..n \/ j = n + 1
      BY <1>1
    <3>3. \A j \in 1..Len(v) : v[j] = Append(w, way)[j]
      BY <2>1, <2>3, <3>1, <3>2 DEF way
    <3> QED
      BY <2>1, <3>1, <3>3, SeqEqual
  <2>6. /\ \A j \in 1..(n + 1) : StartOf(v, 1, j) = StartOf(w, 1, j)
        /\ EndOf(v, 1) = way.end /\ Captures(v) = Captures(w) \o way.captured
    BY <2>3, <2>4, <2>5, OneWayMore
  <2>7. w \in Runs(parts, path, options)
    <3>1. ASSUME NEW j \in 1..n
          PROVE  w[j] \in Range(Ways(parts[j], path, StartOf(w, 1, j), options))
      <4>1. j \in 1..(n + 1)
        BY <1>1
      <4> QED
        BY <1>1, <2>1, <2>3, <2>6, <4>1
    <3> QED
      BY <2>3, <3>1 DEF Runs, n
  <2>8. way \in Range(Ways(part, path, EndOf(w, 1), options))
    <3>1. n + 1 \in 1..(n + 1) /\ EndOf(w, 1) = StartOf(w, 1, n + 1)
      BY <1>1, <2>3 DEF EndOf
    <3>2. v[n + 1] \in Range(Ways(all[n + 1], path, StartOf(v, 1, n + 1), options))
      BY <2>1, <3>1
    <3> QED
      BY <1>1, <2>6, <3>1, <3>2 DEF way
  <2>9. EndOf(w, 1) \in Places(path) /\ Reaches(parts, path, options, EndOf(w, 1), Captures(w))
    BY <1>0, <2>3, <2>7, WayFields DEF Reaches
  <2>10. Captures(w) \in Seq(Seq(STRING))
    BY <2>3, CapturesType
  <2> QED
    BY <2>6, <2>8, <2>9, <2>10
<1>3. ASSUME NEW m \in Places(path), NEW b \in Seq(Seq(STRING)), NEW way \in Range(Ways(part, path, m, options)),
             Reaches(parts, path, options, m, b)
      PROVE  Reaches(all, path, options, way.end, b \o way.captured)
  <2>1. PICK w \in Runs(parts, path, options) : EndOf(w, 1) = m /\ Captures(w) = b
    BY <1>3 DEF Reaches
  <2>2. /\ w \in Seq(WayIn(path)) /\ Len(w) = n
        /\ \A j \in 1..n : w[j] \in Range(Ways(parts[j], path, StartOf(w, 1, j), options))
    BY <2>1 DEF Runs, n
  <2>3. way \in WayIn(path)
    <3>1. Ways(part, path, m, options) \in Seq(WayIn(path))
      BY WaysType
    <3> QED
      BY <3>1, EntryIn
  <2> DEFINE v == Append(w, way)
  <2>4. /\ v \in Seq(WayIn(path)) /\ Len(v) = n + 1
        /\ (\A j \in 1..n : v[j] = w[j]) /\ v[n + 1] = way
        /\ \A j \in 1..(n + 1) : StartOf(v, 1, j) = StartOf(w, 1, j)
        /\ EndOf(v, 1) = way.end /\ Captures(v) = Captures(w) \o way.captured
    BY <2>2, <2>3, OneWayMore
  <2> HIDE DEF v
  <2>5. ASSUME NEW j \in 1..(n + 1)
        PROVE  v[j] \in Range(Ways(all[j], path, StartOf(v, 1, j), options))
    <3>1. CASE j \in 1..n
      BY <1>1, <2>2, <2>4, <3>1
    <3>2. CASE j = n + 1
      <4>1. StartOf(v, 1, j) = m
        BY <2>1, <2>2, <2>4, <3>2 DEF EndOf
      <4> QED
        BY <1>1, <1>3, <2>4, <3>2, <4>1
    <3> QED
      BY <1>1, <3>1, <3>2
  <2>6. v \in Runs(all, path, options)
    BY <1>1, <2>4, <2>5 DEF Runs
  <2> QED
    BY <2>1, <2>4, <2>6 DEF Reaches
<1>4. Reaches(all, path, options, e, c) <=>
        \E v \in Runs(all, path, options) : EndOf(v, 1) = e /\ Captures(v) = c
  BY DEF Reaches
<1> QED
  BY <1>2, <1>3, <1>4 DEF all, Onward

\* What a parameter may take from m to e, and what is captured.
KeyTakes(key, path, options, m, e, b, c) ==
  \/ /\ Stands(key.prefix, path, m, options)
     /\ e \in CaptureEnds(key, path, m + Len(key.prefix))
     /\ c = Append(b, SubSeq(path, m + Len(key.prefix), e - 1))
  \/ /\ key.optional /\ ~key.partial /\ e = m
     /\ c = Append(b, <<>>)
  \/ /\ key.optional /\ key.partial /\ Stands(key.prefix, path, m, options)
     /\ e = m + Len(key.prefix)
     /\ c = Append(b, <<>>)

\* A list with one entry behind it.
LEMMA ConcatOne ==
  ASSUME NEW S, NEW b \in Seq(S), NEW x \in S
  PROVE  b \o <<x>> = Append(b, x)
OBVIOUS

\* by its text,
LEMMA ReachesText ==
  ASSUME NEW parts \in Seq(Part), NEW text \in Seq(STRING), NEW path \in Seq(STRING), NEW options, NEW e, NEW c
  PROVE  Reaches(Append(parts, Text(text)), path, options, e, c) <=>
           \E m \in Places(path) :
             Reaches(parts, path, options, m, c) /\ Stands(text, path, m, options) /\ e = m + Len(text)
<1>1. Text(text) \in Part
  BY DEF Part
<1> DEFINE W(m) == Range(Ways(Text(text), path, m, options))
<1>2. \A m \in Places(path) : \A way : way \in W(m) <=>
         Stands(text, path, m, options) /\ way = Way(m + Len(text), <<>>)
  BY TextWays
<1>3. Reaches(Append(parts, Text(text)), path, options, e, c) <=>
        \E m \in Places(path), b \in Seq(Seq(STRING)) : \E way \in W(m) :
           Reaches(parts, path, options, m, b) /\ e = way.end /\ c = b \o way.captured
  <2>1. Reaches(Append(parts, Text(text)), path, options, e, c) <=> Onward(parts, Text(text), path, options, e, c)
    BY <1>1, ReachesAppend
  <2> QED
    BY <2>1 DEF Onward, W
<1>4. \A b \in Seq(Seq(STRING)) : b \o <<>> = b
  OBVIOUS
<1>5. \A m : Way(m + Len(text), <<>>).end = m + Len(text) /\ Way(m + Len(text), <<>>).captured = <<>>
  BY DEF Way
<1> HIDE DEF W
<1>6. ASSUME NEW m \in Places(path), NEW b \in Seq(Seq(STRING)), NEW way \in W(m),
             Reaches(parts, path, options, m, b), e = way.end, c = b \o way.captured
      PROVE  Reaches(parts, path, options, m, c) /\ Stands(text, path, m, options) /\ e = m + Len(text)
  BY <1>2, <1>4, <1>5, <1>6
<1>7. ASSUME NEW m \in Places(path),
             Reaches(parts, path, options, m, c), Stands(text, path, m, options), e = m + Len(text)
      PROVE  \E b \in Seq(Seq(STRING)) : \E way \in W(m) :
               Reaches(parts, path, options, m, b) /\ e = way.end /\ c = b \o way.captured
  <2>1. c \in Seq(Seq(STRING))
    BY <1>7, ReachesType
  <2> QED
    BY <1>2, <1>4, <1>5, <1>7, <2>1
<1> QED
  BY <1>3, <1>6, <1>7

\* by a slash or nothing,
LEMMA ReachesSlash ==
  ASSUME NEW parts \in Seq(Part), NEW path \in Seq(STRING), NEW options, NEW e, NEW c
  PROVE  Reaches(Append(parts, Slash), path, options, e, c) <=>
           \/ Reaches(parts, path, options, e, c)
           \/ /\ e = Len(path) + 1 /\ path # <<>> /\ path[Len(path)] = "/"
              /\ Reaches(parts, path, options, Len(path), c)
<1> DEFINE part == Slash
           W(m) == Range(Ways(part, path, m, options))
<1>1. part \in Part
  BY DEF Part
<1>2. \A m \in Places(path) : \A way : way \in W(m) <=>
         way = Way(m, <<>>) \/ (m = Len(path) /\ path[m] = "/" /\ way = Way(m + 1, <<>>))
  BY SlashWays
<1> HIDE DEF part
<1>3. Reaches(Append(parts, part), path, options, e, c) <=>
        \E m \in Places(path), b \in Seq(Seq(STRING)) : \E way \in W(m) :
           Reaches(parts, path, options, m, b) /\ e = way.end /\ c = b \o way.captured
  <2>1. Reaches(Append(parts, part), path, options, e, c) <=> Onward(parts, part, path, options, e, c)
    BY <1>1, ReachesAppend
  <2> QED
    BY <2>1 DEF Onward, W
<1>4. \A b \in Seq(Seq(STRING)) : b \o <<>> = b
  OBVIOUS
<1>5. \A m : Way(m, <<>>).end = m /\ Way(m, <<>>).captured = <<>>
  BY DEF Way
<1>6. Len(path) \in Nat /\ (path # <<>> <=> Len(path) \in Places(path))
  BY DEF Places
<1> HIDE DEF W
<1>7. ASSUME NEW m \in Places(path), NEW b \in Seq(Seq(STRING)), NEW way \in W(m),
             Reaches(parts, path, options, m, b), e = way.end, c = b \o way.captured
      PROVE  \/ Reaches(parts, path, options, e, c)
             \/ /\ e = Len(path) + 1 /\ path # <<>> /\ path[Len(path)] = "/"
                /\ Reaches(parts, path, options, Len(path), c)
  <2>1. way.captured = <<>> /\ (way.end = m \/ (m = Len(path) /\ path[m] = "/" /\ way.end = m + 1))
    BY <1>2, <1>5, <1>7
  <2>2. c = b
    BY <1>4, <1>7, <2>1
  <2> QED
    BY <1>6, <1>7, <2>1, <2>2
<1>8. ASSUME Reaches(parts, path, options, e, c)
      PROVE  \E m \in Places(path), b \in Seq(Seq(STRING)) : \E way \in W(m) :
               Reaches(parts, path, options, m, b) /\ e = way.end /\ c = b \o way.captured
  <2>1. c \in Seq(Seq(STRING)) /\ e \in Places(path)
    BY <1>8, ReachesType
  <2>2. Way(e, <<>>) \in W(e) /\ Way(e, <<>>).end = e /\ c \o Way(e, <<>>).captured = c
    BY <1>2, <1>4, <1>5, <2>1
  <2> QED
    BY <1>8, <2>1, <2>2
<1>9. ASSUME e = Len(path) + 1, path # <<>>, path[Len(path)] = "/",
             Reaches(parts, path, options, Len(path), c)
      PROVE  \E m \in Places(path), b \in Seq(Seq(STRING)) : \E way \in W(m) :
               Reaches(parts, path, options, m, b) /\ e = way.end /\ c = b \o way.captured
  <2>1. c \in Seq(Seq(STRING)) /\ Len(path) \in Places(path)
    BY <1>9, ReachesType
  <2>2. Way(e, <<>>) \in W(Len(path)) /\ Way(e, <<>>).end = e /\ c \o Way(e, <<>>).captured = c
    BY <1>2, <1>4, <1>5, <1>9, <2>1
  <2> QED
    BY <1>9, <2>1, <2>2
<1> QED
  BY <1>3, <1>7, <1>8, <1>9 DEF part

\* or by what the parameter takes.
LEMMA ReachesKey ==
  ASSUME NEW parts \in Seq(Part), NEW key \in KeyPart, NEW path \in Seq(STRING), NEW options, NEW e, NEW c
  PROVE  Reaches(Append(parts, key), path, options, e, c) <=>
           \E m \in Places(path), b \in Seq(Seq(STRING)) :
             Reaches(parts, path, options, m, b) /\ KeyTakes(key, path, options, m, e, b, c)
<1>1. key \in Part
  BY DEF Part
<1> DEFINE W(m) == Range(Ways(key, path, m, options))
<1>2. \A m \in Places(path) : \A way : way \in W(m) <=>
         IsTaken(key, path, m, options, way) \/ IsLeft(key, path, m, options, way)
  BY KeyWaysAre
<1>3. Reaches(Append(parts, key), path, options, e, c) <=>
        \E m \in Places(path), b \in Seq(Seq(STRING)) : \E way \in W(m) :
           Reaches(parts, path, options, m, b) /\ e = way.end /\ c = b \o way.captured
  <2>1. Reaches(Append(parts, key), path, options, e, c) <=> Onward(parts, key, path, options, e, c)
    BY <1>1, ReachesAppend
  <2> QED
    BY <2>1 DEF Onward, W
<1>4. \A b \in Seq(Seq(STRING)) : \A x \in Seq(STRING) : b \o <<x>> = Append(b, x)
  <2> DEFINE R == Seq(STRING)
  <2> HIDE DEF R
  <2>1. \A b \in Seq(R) : \A x \in R : b \o <<x>> = Append(b, x)
    BY ConcatOne
  <2> QED
    BY <2>1 DEF R
<1>5. ASSUME NEW m \in Places(path), NEW y \in CaptureEnds(key, path, m + Len(key.prefix))
      PROVE  SubSeq(path, m + Len(key.prefix), y - 1) \in Seq(STRING)
  <2>1. Len(key.prefix) \in {0, 1} /\ m \in 1..(Len(path) + 1)
    BY DEF KeyPart, Separators, Places
  <2> DEFINE from == m + Len(key.prefix)
  <2>2. from \in Nat /\ 1 <= from
    BY <2>1
  <2> HIDE DEF from
  <2>3. y - 1 \in Int /\ y - 1 <= Len(path)
    <3>1. y \in Places(path) \/ y \in from..(Len(path) + 1)
      BY DEF CaptureEnds, OnceEnds, from
    <3> QED
      BY <2>2, <3>1 DEF Places
  <2>4. SubSeq(path, from, y - 1) \in Seq(STRING)
    BY <2>2, <2>3
  <2> QED
    BY <2>4 DEF from
<1>6. \A x, y : Way(x, y).end = x /\ Way(x, y).captured = y
  BY DEF Way
<1>7. <<>> \in Seq(STRING)
  OBVIOUS
<1> HIDE DEF W
<1>8. ASSUME NEW m \in Places(path), NEW b \in Seq(Seq(STRING)), NEW way \in W(m),
             e = way.end, c = b \o way.captured
      PROVE  KeyTakes(key, path, options, m, e, b, c)
  <2>1. CASE IsTaken(key, path, m, options, way)
    <3>1. /\ Stands(key.prefix, path, m, options)
          /\ \E y \in CaptureEnds(key, path, m + Len(key.prefix)) :
               way = Way(y, <<SubSeq(path, m + Len(key.prefix), y - 1)>>)
      BY <2>1 DEF IsTaken
    <3>2. PICK y \in CaptureEnds(key, path, m + Len(key.prefix)) :
               way = Way(y, <<SubSeq(path, m + Len(key.prefix), y - 1)>>)
      BY <3>1
    <3> DEFINE x == SubSeq(path, m + Len(key.prefix), y - 1)
    <3>3. x \in Seq(STRING)
      BY <1>5
    <3>4. way = Way(y, <<x>>)
      BY <3>2
    <3>5. e = y /\ way.captured = <<x>>
      BY <1>6, <1>8, <3>4
    <3>6. x = SubSeq(path, m + Len(key.prefix), e - 1)
      BY <3>5
    <3> HIDE DEF x
    <3>7. c = Append(b, x)
      BY <1>4, <1>8, <3>3, <3>5
    <3> QED
      BY <3>1, <3>5, <3>6, <3>7 DEF KeyTakes
  <2>2. CASE IsLeft(key, path, m, options, way)
    <3> DEFINE none == <<>>
    <3>1. none \in Seq(STRING)
      OBVIOUS
    <3>2. /\ key.optional
          /\ \/ ~key.partial /\ way = Way(m, <<none>>)
             \/ /\ key.partial /\ Stands(key.prefix, path, m, options)
                /\ way = Way(m + Len(key.prefix), <<none>>)
      BY <2>2 DEF IsLeft
    <3> HIDE DEF none
    <3>3. way.captured = <<none>>
      BY <1>6, <3>2
    <3>4. c = Append(b, none)
      BY <1>4, <1>8, <3>1, <3>3
    <3> QED
      BY <1>6, <1>8, <3>2, <3>4 DEF KeyTakes, none
  <2> QED
    BY <1>2, <2>1, <2>2
<1>9. ASSUME NEW m \in Places(path), NEW b \in Seq(Seq(STRING)), KeyTakes(key, path, options, m, e, b, c)
      PROVE  \E way \in W(m) : e = way.end /\ c = b \o way.captured
  <2>1. CASE /\ Stands(key.prefix, path, m, options)
             /\ e \in CaptureEnds(key, path, m + Len(key.prefix))
             /\ c = Append(b, SubSeq(path, m + Len(key.prefix), e - 1))
    <3> DEFINE x == SubSeq(path, m + Len(key.prefix), e - 1)
    <3>1. x \in Seq(STRING)
      BY <1>5, <2>1
    <3>2. IsTaken(key, path, m, options, Way(e, <<x>>))
      BY <2>1 DEF IsTaken
    <3>3. c = Append(b, x)
      BY <2>1
    <3> HIDE DEF x
    <3>4. Way(e, <<x>>) \in W(m) /\ c = b \o Way(e, <<x>>).captured /\ Way(e, <<x>>).end = e
      BY <1>2, <1>4, <1>6, <3>1, <3>2, <3>3
    <3> QED
      BY <3>4
  <2>2. CASE key.optional /\ ~key.partial /\ e = m /\ c = Append(b, <<>>)
    <3> DEFINE none == <<>>
    <3>1. none \in Seq(STRING)
      OBVIOUS
    <3>2. IsLeft(key, path, m, options, Way(e, <<none>>))
      BY <2>2 DEF IsLeft
    <3>3. c = Append(b, none)
      BY <2>2
    <3> HIDE DEF none
    <3>4. Way(e, <<none>>) \in W(m) /\ c = b \o Way(e, <<none>>).captured /\ Way(e, <<none>>).end = e
      BY <1>2, <1>4, <1>6, <3>1, <3>2, <3>3
    <3> QED
      BY <3>4
  <2>3. CASE /\ key.optional /\ key.partial /\ Stands(key.prefix, path, m, options)
             /\ e = m + Len(key.prefix) /\ c = Append(b, <<>>)
    <3> DEFINE none == <<>>
    <3>1. none \in Seq(STRING)
      OBVIOUS
    <3>2. IsLeft(key, path, m, options, Way(e, <<none>>))
      BY <2>3 DEF IsLeft
    <3>3. c = Append(b, none)
      BY <2>3
    <3> HIDE DEF none
    <3>4. Way(e, <<none>>) \in W(m) /\ c = b \o Way(e, <<none>>).captured /\ Way(e, <<none>>).end = e
      BY <1>2, <1>4, <1>6, <3>1, <3>2, <3>3
    <3> QED
      BY <3>4
  <2> QED
    BY <1>9, <2>1, <2>2, <2>3 DEF KeyTakes
<1> QED
  BY <1>3, <1>8, <1>9

--------------------------------------------------------------------------------
(* parse_matcher: what the tokens of the first elements of a mask reach, round *)
(* by round of its loop.                                                   *)

\* The rounds of the loop over what path_regex finds.
Begun == [path |-> <<>>, tokens |-> <<>>, count |-> 0]
Turn(mask, state, k) == IF k = 0 THEN Begun ELSE Parsed(state[k - 1], mask[k], k < Len(mask))
AreTurns(mask, state) == \A k \in 0..Len(mask) : state[k] = Turn(mask, state, k)
State == [path : Seq(STRING), tokens : Seq(Part), count : Nat]

\* The tokens, and what is left of the text behind them.
Extended(state) == Append(state.tokens, Text(state.path))

\* The recursion of Tokens has a solution,
LEMMA TurnsExist ==
  ASSUME NEW mask, NEW n \in Nat
  PROVE  \E f : f = [k \in 0..n |-> Turn(mask, f, k)]
<1> DEFINE T == {m \in Nat : \E f : f = [k \in 0..m |-> Turn(mask, f, k)]}
<1>1. 0 \in T
  <2> DEFINE g == [k \in 0..0 |-> Begun]
  <2>1. \A k \in 0..0 : g[k] = Turn(mask, g, k)
    BY DEF Turn
  <2>2. g = [k \in 0..0 |-> Turn(mask, g, k)]
    BY <2>1
  <2> HIDE DEF g
  <2> QED
    BY <2>2
<1>2. ASSUME NEW m \in T PROVE m + 1 \in T
  <2>1. PICK f : f = [k \in 0..m |-> Turn(mask, f, k)]
    OBVIOUS
  <2> DEFINE g == [k \in 0..(m + 1) |-> IF k = m + 1 THEN Turn(mask, f, k) ELSE f[k]]
  <2>2. ASSUME NEW k \in 0..(m + 1) PROVE g[k] = Turn(mask, g, k)
    <3>1. k # 0 => k - 1 \in 0..m /\ g[k - 1] = f[k - 1]
      OBVIOUS
    <3>2. Turn(mask, g, k) = Turn(mask, f, k)
      BY <3>1 DEF Turn
    <3>3. k # m + 1 => k \in 0..m /\ f[k] = Turn(mask, f, k)
      BY <2>1
    <3> QED
      BY <3>2, <3>3
  <2>3. g = [k \in 0..(m + 1) |-> Turn(mask, g, k)]
    BY <2>2
  <2> HIDE DEF g
  <2>4. \E h : h = [k \in 0..(m + 1) |-> Turn(mask, h, k)]
    BY <2>3
  <2> QED
    BY <2>4
<1>3. T = Nat
  BY <1>1, <1>2, NumberInduction
<1> QED
  BY <1>3

\* and Tokens reads its last entry.
LEMMA TokensBy ==
  ASSUME NEW mask, Len(mask) \in Nat
  PROVE  \E state : /\ AreTurns(mask, state)
                    /\ Tokens(mask) = Push(state[Len(mask)].tokens, state[Len(mask)].path)
<1> DEFINE state == CHOOSE f : f = [k \in 0..Len(mask) |-> Turn(mask, f, k)]
<1>1. state = [k \in 0..Len(mask) |-> Turn(mask, state, k)]
  BY TurnsExist
<1>2. Tokens(mask) = Push(state[Len(mask)].tokens, state[Len(mask)].path)
  BY DEF Tokens, Turn, Begun
<1> HIDE DEF state
<1>3. AreTurns(mask, state)
  BY <1>1 DEF AreTurns
<1> QED
  BY <1>2, <1>3

\* The fields of an element.
LEMMA ElementIs ==
  ASSUME NEW element \in Element
  PROVE  \/ element.kind = "character" /\ element.is \in STRING
         \/ /\ element.kind = "parameter" /\ element.prefix \in Separators /\ element.name \in STRING \cup {""}
            /\ element.pattern \in {"default", "digits", "any"}
            /\ element.modifier \in {"", "?", "*", "+"}
            /\ element.pattern = "any" => element.modifier = ""
<1>1. ASSUME element \in [kind : {"character"}, is : STRING]
      PROVE  element.kind = "character" /\ element.is \in STRING
  BY <1>1
<1>2. ASSUME NEW Patterns, NEW Names, NEW Modifiers,
             element \in [kind : {"parameter"}, prefix : {<<>>, <<"/">>, <<".">>}, name : Names,
                         pattern : Patterns, modifier : Modifiers]
      PROVE  /\ element.kind = "parameter" /\ element.prefix \in Separators /\ element.name \in Names
             /\ element.pattern \in Patterns /\ element.modifier \in Modifiers
  BY <1>2 DEF Separators
<1> DEFINE P == {"default", "digits"}
           M == {"", "?", "*", "+"}
           Q == {"any"}
           N == {""}
<1>3. \/ element \in [kind : {"character"}, is : STRING]
      \/ element \in [kind : {"parameter"}, prefix : {<<>>, <<"/">>, <<".">>}, name : STRING,
                      pattern : P, modifier : M]
      \/ element \in [kind : {"parameter"}, prefix : {<<>>, <<"/">>, <<".">>}, name : N,
                      pattern : Q, modifier : N]
  BY DEF Element
<1> HIDE DEF P, M, Q, N
<1>4. \/ element.kind = "character" /\ element.is \in STRING
      \/ /\ element.kind = "parameter" /\ element.prefix \in Separators
         /\ \/ element.name \in STRING \cup {""} /\ element.pattern \in P /\ element.modifier \in M
            \/ element.name \in N /\ element.pattern \in Q /\ element.modifier \in N
  BY <1>1, <1>2, <1>3
<1>5. /\ N \subseteq STRING \cup {""} /\ (\A x \in Q : x = "any") /\ (\A x \in N : x = "")
      /\ P \subseteq {"default", "digits", "any"} /\ Q \subseteq {"default", "digits", "any"}
      /\ M \subseteq {"", "?", "*", "+"} /\ N \subseteq {"", "?", "*", "+"}
      /\ "any" \notin P
  BY DEF P, M, Q, N
<1> QED
  BY <1>4, <1>5

\* The fields of a token.
LEMMA TokenType ==
  ASSUME NEW element \in Element, element.kind # "character", NEW count \in Nat, NEW followed \in BOOLEAN
  PROVE  /\ Token(element, count, followed) \in KeyPart
         /\ Token(element, count, followed).prefix = element.prefix
         /\ Token(element, count, followed).pattern = element.pattern
         /\ Token(element, count, followed).repeat = (element.modifier \in {"+", "*"})
         /\ Token(element, count, followed).optional = (element.modifier \in {"?", "*"})
         /\ Token(element, count, followed).partial = (element.prefix # <<>> /\ followed)
         /\ Token(element, count, followed).value =
              IF element.name = "" THEN Key("", count) ELSE Key(element.name, 0)
         /\ Token(element, count, followed).kind = "key"
<1>1. /\ element.prefix \in Separators /\ element.name \in STRING \cup {""}
      /\ element.pattern \in {"default", "digits", "any"}
      /\ element.modifier \in {"", "?", "*", "+"}
      /\ element.pattern = "any" => element.modifier = ""
  BY ElementIs
<1> DEFINE token == Token(element, count, followed)
           value == IF element.name = "" THEN Key("", count) ELSE Key(element.name, 0)
           delimiter == IF element.prefix = <<>> THEN "/" ELSE element.prefix[1]
           repeat == element.modifier \in {"+", "*"}
           optional == element.modifier \in {"?", "*"}
           partial == element.prefix # <<>> /\ followed
<1>2. value \in [name : STRING \cup {""}, index : Nat]
  BY <1>1 DEF Key
<1>3. delimiter \in {"/", "."}
  <2>1. \A c : <<c>>[1] = c
    OBVIOUS
  <2>2. element.prefix = <<>> \/ element.prefix = <<"/">> \/ element.prefix = <<".">>
    BY <1>1 DEF Separators
  <2> QED
    BY <2>1, <2>2
<1>4. repeat \in BOOLEAN /\ optional \in BOOLEAN /\ partial \in BOOLEAN
  OBVIOUS
<1>5. element.pattern = "any" => ~repeat
  BY <1>1
<1>6. token = [kind |-> "key", value |-> value, prefix |-> element.prefix, delimiter |-> delimiter,
               pattern |-> element.pattern, repeat |-> repeat, optional |-> optional, partial |-> partial]
  BY DEF Token
<1>7. delimiter = IF element.prefix = <<>> THEN "/" ELSE element.prefix[1]
  OBVIOUS
<1> HIDE DEF token, value, delimiter, repeat, optional, partial
<1>8. /\ token.kind = "key" /\ token.value = value /\ token.prefix = element.prefix
      /\ token.delimiter = delimiter /\ token.pattern = element.pattern
      /\ token.repeat = repeat /\ token.optional = optional /\ token.partial = partial
  BY <1>6
<1>9. token \in [kind : {"key"}, value : [name : STRING \cup {""}, index : Nat],
            prefix : Separators, delimiter : {"/", "."}, pattern : {"default", "digits", "any"},
            repeat : BOOLEAN, optional : BOOLEAN, partial : BOOLEAN]
  BY <1>1, <1>2, <1>3, <1>4, <1>6
<1>10. token \in KeyPart
  BY <1>5, <1>7, <1>8, <1>9 DEF KeyPart
<1> QED
  BY <1>8, <1>10 DEF token, value, repeat, optional, partial

\* Push keeps to tokens,
LEMMA PushType ==
  ASSUME NEW tokens \in Seq(Part), NEW text \in Seq(STRING)
  PROVE  Push(tokens, text) \in Seq(Part)
<1>1. Text(text) \in Part
  BY DEF Part
<1>2. Push(tokens, text) = IF text = <<>> THEN tokens ELSE Append(tokens, Text(text))
  BY DEF Push, Text
<1> QED
  BY <1>1, <1>2

\* each round to the states of the loop,
LEMMA ParsedType ==
  ASSUME NEW state \in State, NEW element \in Element, NEW followed \in BOOLEAN
  PROVE  Parsed(state, element, followed) \in State
<1>0. state.path \in Seq(STRING) /\ state.tokens \in Seq(Part) /\ state.count \in Nat
  BY DEF State
<1>1. CASE element.kind = "character"
  <2>1. element.is \in STRING
    BY <1>1, ElementIs
  <2>2. Append(state.path, element.is) \in Seq(STRING)
    BY <1>0, <2>1
  <2> QED
    BY <1>1, <2>2 DEF Parsed, State
<1>2. CASE element.kind # "character"
  <2> DEFINE token == Token(element, state.count, followed)
             tokens == Append(Push(state.tokens, state.path), token)
             count == IF element.name = "" THEN state.count + 1 ELSE state.count
  <2>1. token \in Part
    BY <1>0, <1>2, TokenType DEF Part
  <2>2. tokens \in Seq(Part) /\ count \in Nat
    <3>1. Push(state.tokens, state.path) \in Seq(Part)
      BY <1>0, PushType
    <3>2. count \in Nat
      <4>1. state.count \in Nat /\ state.count + 1 \in Nat
        BY <1>0
      <4> QED
        BY <4>1
    <3> HIDE DEF token
    <3>3. tokens \in Seq(Part)
      BY <2>1, <3>1, AppendAt
    <3> QED
      BY <3>2, <3>3
  <2>3. Parsed(state, element, followed) = [path |-> <<>>, tokens |-> tokens, count |-> count]
    BY <1>2 DEF Parsed
  <2> HIDE DEF tokens, count
  <2> QED
    BY <2>2, <2>3 DEF State
<1> QED
  BY <1>1, <1>2

\* and so do all of them.
LEMMA TurnsType ==
  ASSUME NEW mask \in Seq(Element), NEW state, AreTurns(mask, state)
  PROVE  /\ \A k \in 0..Len(mask) : state[k] \in State
         /\ state[0] = Begun
         /\ \A k \in 1..Len(mask) : /\ k - 1 \in 0..Len(mask) /\ mask[k] \in Element
                                    /\ state[k] = Parsed(state[k - 1], mask[k], k < Len(mask))
<1>0. Len(mask) \in Nat /\ \A k \in 1..Len(mask) : mask[k] \in Element
  OBVIOUS
<1>1. state[0] = Begun /\ Begun \in State
  <2>1. Begun \in State
    BY DEF Begun, State
  <2> QED
    BY <1>0, <2>1 DEF AreTurns, Turn
<1>2. \A k \in 1..Len(mask) : /\ k - 1 \in 0..Len(mask) /\ mask[k] \in Element
                              /\ state[k] = Parsed(state[k - 1], mask[k], k < Len(mask))
  <2>1. \A k \in 1..Len(mask) : k # 0 /\ k \in 0..Len(mask) /\ k - 1 \in 0..Len(mask)
    BY <1>0
  <2> QED
    BY <1>0, <2>1 DEF AreTurns, Turn
<1> DEFINE T == {k \in Nat : k <= Len(mask) => state[k] \in State}
<1>3. 0 \in T
  BY <1>1
<1>4. ASSUME NEW k \in T PROVE k + 1 \in T
  <2>1. CASE k + 1 <= Len(mask)
    <3>1. k \in Nat /\ k + 1 \in 1..Len(mask) /\ (k + 1) - 1 = k /\ k <= Len(mask)
      BY <1>0, <2>1
    <3>2. state[k] \in State /\ mask[k + 1] \in Element
          /\ state[k + 1] = Parsed(state[k], mask[k + 1], k + 1 < Len(mask))
      BY <1>2, <1>4, <3>1
    <3> DEFINE followed == k + 1 < Len(mask)
    <3>4. followed \in BOOLEAN /\ state[k + 1] = Parsed(state[k], mask[k + 1], followed)
      BY <3>2
    <3> HIDE DEF followed
    <3>3. state[k + 1] \in State
      BY <3>2, <3>4, ParsedType
    <3> QED
      BY <3>1, <3>3
  <2> QED
    BY <2>1
<1>5. T = Nat
  BY <1>3, <1>4, NumberInduction
<1>6. \A k \in 0..Len(mask) : state[k] \in State
  BY <1>0, <1>5
<1> QED
  BY <1>1, <1>2, <1>6

\* What an element takes from m to e, and what is captured.
ElementTakes(element, count, followed, path, options, m, e, b, c) ==
  IF element.kind = "character"
    THEN m <= Len(path) /\ Same(path[m], element.is, options) /\ e = m + 1 /\ c = b
    ELSE KeyTakes(Token(element, count, followed), path, options, m, e, b, c)

\* An empty text stands everywhere,
LEMMA NoText ==
  ASSUME NEW path \in Seq(STRING), NEW options, NEW m \in Places(path)
  PROVE  Stands(<<>>, path, m, options) /\ Len(<<>>) = 0 /\ m + 0 = m
BY DEF Stands, Places

\* so that it changes nothing as the last part,
LEMMA ReachesNoText ==
  ASSUME NEW parts \in Seq(Part), NEW path \in Seq(STRING), NEW options, NEW e, NEW c
  PROVE  Reaches(Append(parts, Text(<<>>)), path, options, e, c) <=> Reaches(parts, path, options, e, c)
<1> DEFINE none == <<>>
<1>1. none \in Seq(STRING)
  OBVIOUS
<1>2. \A m \in Places(path) : Stands(none, path, m, options) /\ m + Len(none) = m
  BY NoText
<1> HIDE DEF none
<1>3. Reaches(Append(parts, Text(none)), path, options, e, c) <=>
        \E m \in Places(path) :
           Reaches(parts, path, options, m, c) /\ Stands(none, path, m, options) /\ e = m + Len(none)
  BY <1>1, ReachesText
<1>4. Reaches(Append(parts, Text(none)), path, options, e, c) <=>
        \E m \in Places(path) : Reaches(parts, path, options, m, c) /\ e = m
  BY <1>2, <1>3
<1>5. Reaches(parts, path, options, e, c) => e \in Places(path)
  BY ReachesType
<1> QED
  BY <1>4, <1>5 DEF none

\* and Push leaving it out does not either.
LEMMA ReachesPush ==
  ASSUME NEW tokens \in Seq(Part), NEW text \in Seq(STRING), NEW path \in Seq(STRING), NEW options, NEW e, NEW c
  PROVE  Reaches(Push(tokens, text), path, options, e, c) <=>
           Reaches(Append(tokens, Text(text)), path, options, e, c)
<1>1. CASE text = <<>>
  BY <1>1, ReachesNoText DEF Push
<1>2. CASE text # <<>>
  <2>1. Push(tokens, text) = Append(tokens, Text(text))
    BY <1>2 DEF Push, Text
  <2> QED
    BY <2>1
<1> QED
  BY <1>1, <1>2

\* A text with a character more.
LEMMA StandsMore ==
  ASSUME NEW text \in Seq(STRING), NEW d \in STRING, NEW path \in Seq(STRING), NEW options, NEW m \in Places(path)
  PROVE  /\ Len(Append(text, d)) = Len(text) + 1 /\ Len(text) \in Nat
         /\ Stands(Append(text, d), path, m, options) <=>
              /\ Stands(text, path, m, options)
              /\ m + Len(text) <= Len(path)
              /\ Same(path[m + Len(text)], d, options)
<1> DEFINE n == Len(text)
           more == Append(text, d)
           Meets(k) == Same(path[m + k - 1], more[k], options)
<1>1. n \in Nat /\ Len(more) = n + 1 /\ DOMAIN text = 1..n /\ DOMAIN more = 1..(n + 1)
      /\ (\A k \in 1..n : more[k] = text[k]) /\ more[n + 1] = d
  <2> HIDE DEF Meets
  <2>1. /\ n \in Nat /\ DOMAIN text = 1..n /\ Len(more) = n + 1 /\ DOMAIN more = 1..(n + 1)
        /\ more[n + 1] = d /\ \A k \in DOMAIN text : more[k] = text[k]
    <3> HIDE DEF n, more
    <3>1. n = Len(text) /\ more = Append(text, d)
      BY DEF n, more
    <3>2. /\ Len(text) \in Nat /\ DOMAIN text = 1..Len(text)
          /\ Len(Append(text, d)) = Len(text) + 1 /\ DOMAIN Append(text, d) = 1..(Len(text) + 1)
      BY AppendAt
    <3>3. Append(text, d)[Len(text) + 1] = d
      BY AppendAt
    <3>4. \A k \in DOMAIN text : Append(text, d)[k] = text[k]
      BY AppendAt
    <3> QED
      BY <3>1, <3>2, <3>3, <3>4
  <2> QED
    BY <2>1
<1>2. m \in Nat /\ Len(path) \in Nat
  BY DEF Places
<1> HIDE DEF n, more
<1>3. Stands(text, path, m, options) <=> m + n <= Len(path) + 1 /\ \A k \in 1..n : Meets(k)
  BY <1>1 DEF Stands, n
<1>4. Stands(more, path, m, options) <=>
        m + (n + 1) <= Len(path) + 1 /\ \A k \in 1..(n + 1) : Meets(k)
  BY <1>1 DEF Stands
<1>5. Meets(n + 1) <=> Same(path[m + n], d, options)
  <2>1. m + (n + 1) - 1 = m + n
    BY <1>1, <1>2
  <2> QED
    BY <1>1, <2>1
<1> HIDE DEF Meets
<1>6. (\A k \in 1..(n + 1) : Meets(k)) <=> (\A k \in 1..n : Meets(k)) /\ Meets(n + 1)
  <2>1. \A k : k \in 1..(n + 1) <=> k \in 1..n \/ k = n + 1
    BY <1>1
  <2> QED
    BY <2>1
<1>7. m + (n + 1) <= Len(path) + 1 <=> m + n <= Len(path)
  BY <1>1, <1>2
<1>8. m + n <= Len(path) => m + n <= Len(path) + 1
  BY <1>1, <1>2
<1> QED
  BY <1>1, <1>3, <1>4, <1>5, <1>6, <1>7, <1>8 DEF n, more

\* A round goes on by what its element takes.
LEMMA ParsedReaches ==
  ASSUME NEW state \in State, NEW element \in Element, NEW followed \in BOOLEAN,
         NEW path \in Seq(STRING), NEW options, NEW e, NEW c
  PROVE  Reaches(Extended(Parsed(state, element, followed)), path, options, e, c) <=>
           \E m \in Places(path), b \in Seq(Seq(STRING)) :
             /\ Reaches(Extended(state), path, options, m, b)
             /\ ElementTakes(element, state.count, followed, path, options, m, e, b, c)
<1>0. state.path \in Seq(STRING) /\ state.tokens \in Seq(Part) /\ state.count \in Nat
  BY DEF State
<1> DEFINE tokens == state.tokens
           text == state.path
           after == Parsed(state, element, followed)
<1> HIDE DEF tokens, text
<1>1. tokens \in Seq(Part) /\ text \in Seq(STRING) /\ Extended(state) = Append(tokens, Text(text))
  BY <1>0 DEF Extended, tokens, text
<1>2. CASE element.kind = "character"
  <2> DEFINE d == element.is
             more == Append(text, d)
  <2>1. d \in STRING
    BY <1>2, ElementIs
  <2>2. after.tokens = tokens /\ after.path = more
    <3>1. after = [state EXCEPT !.path = Append(@, element.is)]
      BY <1>2 DEF Parsed
    <3> QED
      BY <3>1 DEF State, tokens, text
  <2>3. Extended(after) = Append(tokens, Text(more))
    BY <2>2 DEF Extended
  <2> HIDE DEF d, after
  <2>4. more \in Seq(STRING) /\ Len(more) = Len(text) + 1 /\ Len(text) \in Nat
    BY <1>1, <2>1, AppendAt
  <2>5. \A m \in Places(path) :
           Stands(more, path, m, options) <=>
              /\ Stands(text, path, m, options)
              /\ m + Len(text) <= Len(path)
              /\ Same(path[m + Len(text)], d, options)
    BY <1>1, <2>1, StandsMore
  <2> HIDE DEF more
  <2>6. Reaches(Append(tokens, Text(more)), path, options, e, c) <=>
          \E m \in Places(path) :
             Reaches(tokens, path, options, m, c) /\ Stands(more, path, m, options) /\ e = m + Len(more)
    BY <1>1, <2>4, ReachesText
  <2>7. \A y : Reaches(Append(tokens, Text(text)), path, options, y, c) <=>
          \E m \in Places(path) :
             Reaches(tokens, path, options, m, c) /\ Stands(text, path, m, options) /\ y = m + Len(text)
    BY <1>1, ReachesText
  <2>8. ASSUME NEW m \in Places(path), Reaches(tokens, path, options, m, c),
               Stands(more, path, m, options), e = m + Len(more)
        PROVE  \E y \in Places(path) :
                 /\ Reaches(Append(tokens, Text(text)), path, options, y, c)
                 /\ y <= Len(path) /\ Same(path[y], d, options) /\ e = y + 1
    <3> DEFINE y == m + Len(text)
    <3>1. y \in Places(path) /\ e = y + 1
      BY <2>4, <2>5, <2>8 DEF Places
    <3>2. Reaches(Append(tokens, Text(text)), path, options, y, c)
      BY <2>5, <2>7, <2>8
    <3>3. y <= Len(path) /\ Same(path[y], d, options)
      BY <2>5, <2>8
    <3> HIDE DEF y
    <3> QED
      BY <3>1, <3>2, <3>3
  <2>9. ASSUME NEW y \in Places(path), Reaches(Append(tokens, Text(text)), path, options, y, c),
               y <= Len(path), Same(path[y], d, options), e = y + 1
        PROVE  \E m \in Places(path) :
                 Reaches(tokens, path, options, m, c) /\ Stands(more, path, m, options) /\ e = m + Len(more)
    <3>1. PICK m \in Places(path) :
             Reaches(tokens, path, options, m, c) /\ Stands(text, path, m, options) /\ y = m + Len(text)
      BY <2>7, <2>9
    <3>2. Stands(more, path, m, options)
      BY <2>5, <2>9, <3>1
    <3>3. e = m + Len(more)
      BY <2>4, <2>9, <3>1 DEF Places
    <3> QED
      BY <3>1, <3>2, <3>3
  <2>10. ASSUME NEW y \in Places(path), Reaches(Append(tokens, Text(text)), path, options, y, c)
         PROVE  c \in Seq(Seq(STRING))
    BY <2>10, ReachesType
  <2>11. (\E m \in Places(path), b \in Seq(Seq(STRING)) :
             /\ Reaches(Append(tokens, Text(text)), path, options, m, b)
             /\ ElementTakes(element, state.count, followed, path, options, m, e, b, c)) <=>
          \E y \in Places(path) :
             /\ Reaches(Append(tokens, Text(text)), path, options, y, c)
             /\ y <= Len(path) /\ Same(path[y], d, options) /\ e = y + 1
    BY <1>2, <2>10 DEF ElementTakes, d
  <2> QED
    BY <1>1, <2>3, <2>6, <2>8, <2>9, <2>11 DEF after
<1>3. CASE element.kind # "character"
  <2> DEFINE token == Token(element, state.count, followed)
             before == Push(tokens, text)
             none == <<>>
  <2>1. token \in KeyPart /\ token \in Part
    BY <1>0, <1>3, TokenType DEF Part
  <2>2. after.tokens = Append(before, token) /\ after.path = none
    BY <1>3 DEF Parsed, tokens, text
  <2>3. before \in Seq(Part)
    BY <1>1, PushType
  <2>4. \A m, b : Reaches(before, path, options, m, b) <=> Reaches(Extended(state), path, options, m, b)
    BY <1>1, ReachesPush
  <2> HIDE DEF token, before, after
  <2>5. Append(before, token) \in Seq(Part)
    BY <2>1, <2>3
  <2>6. Reaches(Append(Append(before, token), Text(<<>>)), path, options, e, c) <=>
          Reaches(Append(before, token), path, options, e, c)
    BY <2>5, ReachesNoText
  <2>7. Reaches(Append(before, token), path, options, e, c) <=>
          \E m \in Places(path), b \in Seq(Seq(STRING)) :
             Reaches(before, path, options, m, b) /\ KeyTakes(token, path, options, m, e, b, c)
    BY <2>1, <2>3, ReachesKey
  <2>8. Extended(after) = Append(Append(before, token), Text(<<>>))
    BY <2>2 DEF Extended
  <2>9. \A m, b : ElementTakes(element, state.count, followed, path, options, m, e, b, c) <=>
                     KeyTakes(token, path, options, m, e, b, c)
    BY <1>3 DEF ElementTakes, token
  <2> QED
    BY <2>4, <2>6, <2>7, <2>8, <2>9 DEF after
<1> QED
  BY <1>2, <1>3

--------------------------------------------------------------------------------
(* The pieces of a path that stand for an element are those that its token *)
(* takes.                                                                  *)

\* Where a parameter may end.
KeyEnds(key, path, options, m, e) ==
  \/ Stands(key.prefix, path, m, options) /\ e \in CaptureEnds(key, path, m + Len(key.prefix))
  \/ key.optional /\ ~key.partial /\ e = m
  \/ /\ key.optional /\ key.partial /\ Stands(key.prefix, path, m, options)
     /\ e = m + Len(key.prefix)

\* The piece of the path from m up to e.
Piece(path, m, e) == SubSeq(path, m, e - 1)

\* Its characters.
LEMMA PieceAt ==
  ASSUME NEW path \in Seq(STRING), NEW m \in Places(path), NEW e \in Places(path), m <= e
  PROVE  /\ Piece(path, m, e) \in Seq(STRING) /\ Len(Piece(path, m, e)) = e - m
         /\ DOMAIN Piece(path, m, e) = 1..(e - m)
         /\ \A j \in 1..(e - m) : Piece(path, m, e)[j] = path[(m + j) - 1]
         /\ \A k \in m..(e - 1) : /\ path[k] \in STRING /\ k \in DOMAIN path
                                  /\ (k + 1) - m \in 1..(e - m)
                                  /\ Piece(path, m, e)[(k + 1) - m] = path[k]
<1>1. m \in 1..(Len(path) + 1) /\ e - 1 \in (m - 1)..Len(path) /\ Len(path) \in Nat
  BY DEF Places
<1>2. /\ SubSeq(path, m, e - 1) \in Seq(STRING) /\ Len(SubSeq(path, m, e - 1)) = ((e - 1) - m) + 1
      /\ \A k \in 1..(((e - 1) - m) + 1) : SubSeq(path, m, e - 1)[k] = path[(m + k) - 1]
  <2>1. \A k \in 1..(((e - 1) - m) + 1) : m + k - 1 = (m + k) - 1
    BY <1>1
  <2> QED
    BY <1>1, <2>1, SubSeqAt
<1>3. ((e - 1) - m) + 1 = e - m
  BY <1>1
<1> DEFINE piece == Piece(path, m, e)
<1>4. /\ piece \in Seq(STRING) /\ Len(piece) = e - m /\ DOMAIN piece = 1..(e - m)
      /\ \A j \in 1..(e - m) : piece[j] = path[(m + j) - 1]
  BY <1>2, <1>3 DEF Piece
<1> HIDE DEF piece
<1>5. ASSUME NEW k \in m..(e - 1)
      PROVE  /\ path[k] \in STRING /\ k \in DOMAIN path /\ (k + 1) - m \in 1..(e - m)
             /\ piece[(k + 1) - m] = path[k]
  <2>1. k \in 1..Len(path) /\ (k + 1) - m \in 1..(e - m) /\ (m + ((k + 1) - m)) - 1 = k
    BY <1>1
  <2> QED
    BY <1>4, <2>1
<1> QED
  BY <1>4, <1>5 DEF piece

\* The first entry of a list.
LEMMA FirstOnly ==
  ASSUME NEW S, NEW s \in Seq(S), Len(s) # 0
  PROVE  SubSeq(s, 1, 1) = <<s[1]>>
<1>1. Len(s) \in Nat /\ 1 \in 1..(Len(s) + 1) /\ 1 \in (1 - 1)..Len(s) /\ s[1] \in S
  OBVIOUS
<1> DEFINE one == SubSeq(s, 1, 1)
<1>2. one \in Seq(S) /\ Len(one) = 1 - 1 + 1 /\ \A k \in 1..(1 - 1 + 1) : one[k] = s[1 + k - 1]
  BY <1>1, SubSeqAt
<1>3. 1 - 1 + 1 = 1 /\ 1 + 1 - 1 = 1
  OBVIOUS
<1>4. Len(one) = 1 /\ one[1] = s[1]
  BY <1>2, <1>3
<1> DEFINE first == s[1]
<1> HIDE DEF one, first
<1>5. <<first>> \in Seq(S) /\ Len(<<first>>) = 1 /\ <<first>>[1] = first
  BY <1>1 DEF first
<1>6. \A k \in 1..Len(one) : one[k] = <<first>>[k]
  BY <1>4, <1>5 DEF first
<1> QED
  BY <1>2, <1>4, <1>5, <1>6, SeqEqual DEF one, first

\* A piece behind a prefix.
LEMMA BehindPrefix ==
  ASSUME NEW path \in Seq(STRING), NEW m \in Places(path), NEW e \in Places(path), m <= e,
         NEW prefix \in Separators, NEW options
  PROVE  /\ IsPrefix(prefix, Piece(path, m, e)) <=>
              Stands(prefix, path, m, options) /\ m + Len(prefix) <= e
         /\ m + Len(prefix) <= e =>
              /\ m + Len(prefix) \in Places(path)
              /\ SubSeq(Piece(path, m, e), Len(prefix) + 1, Len(Piece(path, m, e))) = Piece(path, m + Len(prefix), e)
<1> DEFINE piece == Piece(path, m, e)
           n == Len(prefix)
<1>1. /\ piece \in Seq(STRING) /\ Len(piece) = e - m /\ DOMAIN piece = 1..(e - m)
      /\ \A j \in 1..(e - m) : piece[j] = path[(m + j) - 1]
  BY PieceAt
<1>2. /\ n \in {0, 1} /\ (n = 0 <=> prefix = <<>>)
      /\ Stands(prefix, path, m, options) <=>
           m + n <= Len(path) + 1 /\ (prefix # <<>> => <<path[m]>> = prefix)
  BY PrefixStands
<1>3. m \in 1..(Len(path) + 1) /\ e \in m..(Len(path) + 1) /\ Len(path) \in Nat
  BY DEF Places
<1> HIDE DEF piece, n
<1>4. IsPrefix(prefix, piece) <=> n <= e - m /\ SubSeq(prefix, 1, n) = SubSeq(piece, 1, n)
  BY <1>1 DEF IsPrefix, n
<1>5. CASE prefix = <<>>
  <2>1. n = 0 /\ SubSeq(prefix, 1, 0) = <<>> /\ SubSeq(piece, 1, 0) = <<>> /\ m + 0 = m
    BY <1>1, <1>2, <1>3, <1>5
  <2>2. IsPrefix(prefix, piece) /\ Stands(prefix, path, m, options) /\ m + n <= e
    BY <1>2, <1>3, <1>4, <1>5, <2>1
  <2>3. SubSeq(piece, n + 1, Len(piece)) = piece
    BY <1>1, <2>1
  <2> QED
    BY <1>3, <2>1, <2>2, <2>3 DEF piece, n, Places
<1>6. CASE prefix # <<>>
  <2>1. n = 1 /\ n \in Nat
    BY <1>2, <1>6
  <2>2. prefix = <<prefix[1]>> /\ SubSeq(prefix, 1, 1) = prefix
    <3>1. \A c : <<c>>[1] = c
      OBVIOUS
    <3>2. prefix = <<prefix[1]>>
      BY <1>6, <3>1 DEF Separators
    <3>3. prefix \in Seq({prefix[1]}) /\ Len(prefix) # 0
      <4> DEFINE c == prefix[1]
      <4> HIDE DEF c
      <4>1. <<c>> \in Seq({c}) /\ Len(<<c>>) # 0
        OBVIOUS
      <4> QED
        BY <3>2, <4>1 DEF c
    <3> QED
      BY <3>2, <3>3, FirstOnly
  <2>3. ASSUME m + 1 <= e PROVE SubSeq(piece, 1, 1) = <<path[m]>>
    <3>1. 1 \in 1..(Len(piece) + 1) /\ 1 \in (1 - 1)..Len(piece) /\ 1 \in 1..(e - m) /\ (m + 1) - 1 = m
      BY <1>1, <1>3, <2>3
    <3>2. SubSeq(piece, 1, 1) = <<piece[1]>>
      BY <1>1, <3>1, FirstOnly
    <3> QED
      BY <1>1, <3>1, <3>2
  <2>4. 1 <= e - m <=> m + 1 <= e
    BY <1>3
  <2>5. m + 1 <= e => m + 1 <= Len(path) + 1
    BY <1>3
  <2>6. IsPrefix(prefix, piece) <=> Stands(prefix, path, m, options) /\ m + n <= e
    BY <1>2, <1>4, <1>6, <2>1, <2>2, <2>3, <2>4, <2>5
  <2>7. ASSUME m + 1 <= e
        PROVE  m + 1 \in Places(path) /\ SubSeq(piece, 2, Len(piece)) = Piece(path, m + 1, e)
    <3>1. m + 1 \in Places(path)
      BY <1>3, <2>7 DEF Places
    <3> DEFINE rest == Piece(path, m + 1, e)
               tail == SubSeq(piece, 2, Len(piece))
    <3>2. /\ rest \in Seq(STRING) /\ Len(rest) = e - (m + 1)
          /\ \A j \in 1..(e - (m + 1)) : rest[j] = path[((m + 1) + j) - 1]
      BY <2>7, <3>1, PieceAt
    <3>3. 2 \in 1..(Len(piece) + 1) /\ Len(piece) \in (2 - 1)..Len(piece) /\ (Len(piece) - 2) + 1 = e - (m + 1)
      BY <1>1, <1>3, <2>7
    <3>4. /\ tail \in Seq(STRING) /\ Len(tail) = e - (m + 1)
          /\ \A k \in 1..(e - (m + 1)) : tail[k] = piece[(2 + k) - 1]
      BY <1>1, <3>3
    <3> HIDE DEF rest, tail
    <3>5. \A k \in 1..(e - (m + 1)) :
            (2 + k) - 1 \in 1..(e - m) /\ (m + ((2 + k) - 1)) - 1 = ((m + 1) + k) - 1
      BY <1>3
    <3>6. \A k \in 1..Len(rest) : tail[k] = rest[k]
      BY <1>1, <3>2, <3>4, <3>5
    <3>7. tail = rest
      BY <3>2, <3>4, <3>6, SeqEqual
    <3> QED
      BY <3>1, <3>7 DEF rest, tail
  <2> QED
    BY <2>1, <2>6, <2>7 DEF piece, n
<1> QED
  BY <1>5, <1>6

\* A token of a parameter, or what TAKE_REST makes of it.
Mirrors(key, element) ==
  /\ key \in KeyPart /\ key.prefix = element.prefix /\ key.pattern = element.pattern
  /\ key.delimiter = IF key.prefix = <<>> THEN "/" ELSE key.prefix[1]

\* The characters for the parameter are the same,
LEMMA TakesBelongs ==
  ASSUME NEW key, NEW element, Mirrors(key, element), NEW c
  PROVE  Takes(key, c) <=> Belongs(element, c)
<1>1. /\ key.prefix \in Separators /\ key.pattern \in {"default", "digits", "any"}
      /\ key.prefix = element.prefix /\ key.pattern = element.pattern
      /\ key.delimiter = IF key.prefix = <<>> THEN "/" ELSE key.prefix[1]
  BY DEF Mirrors, KeyPart
<1>2. CASE key.pattern = "any"
  BY <1>1, <1>2 DEF Takes, Belongs
<1>3. CASE key.pattern = "digits"
  BY <1>1, <1>3 DEF Takes, Belongs
<1>4. CASE key.pattern = "default"
  <2>1. Takes(key, c) <=> c # key.delimiter
    BY <1>4 DEF Takes
  <2>2. Belongs(element, c) <=> IF key.prefix = <<>> THEN c # "/" ELSE <<c>> # key.prefix
    BY <1>1, <1>4 DEF Belongs
  <2>3. key.prefix # <<>> => (<<c>> = key.prefix <=> c = key.prefix[1])
    <3>1. \A d, f : (<<d>> = <<f>> <=> d = f) /\ <<f>>[1] = f
      OBVIOUS
    <3> QED
      BY <1>1, <3>1 DEF Separators
  <2> QED
    BY <1>1, <2>1, <2>2, <2>3
<1> QED
  BY <1>1, <1>2, <1>3, <1>4

\* A piece is empty if it ends where it begins.
LEMMA EmptyPiece ==
  ASSUME NEW path \in Seq(STRING), NEW a \in Places(path), NEW e \in Places(path), a <= e
  PROVE  Piece(path, a, e) = <<>> <=> a = e
<1>1. Piece(path, a, e) \in Seq(STRING) /\ Len(Piece(path, a, e)) = e - a
  BY PieceAt
<1>2. a \in Nat /\ e \in Nat
  BY DEF Places
<1> QED
  BY <1>1, <1>2

\* so are its single pieces,
LEMMA SingleIs ==
  ASSUME NEW key, NEW element, Mirrors(key, element), NEW path \in Seq(STRING),
         NEW a \in Places(path), NEW e \in Places(path), a <= e
  PROVE  Single(element, Piece(path, a, e)) <=> e \in OnceEnds(key, path, a)
<1> DEFINE piece == Piece(path, a, e)
<1>1. /\ DOMAIN piece = 1..(e - a)
      /\ \A j \in 1..(e - a) : piece[j] = path[(a + j) - 1]
      /\ \A k \in a..(e - 1) : (k + 1) - a \in 1..(e - a) /\ piece[(k + 1) - a] = path[k]
  BY PieceAt
<1>2. piece = <<>> <=> a = e
  BY EmptyPiece
<1>3. a \in Nat /\ e \in Nat /\ e \in a..(Len(path) + 1)
  BY DEF Places
<1>4. \A c : Takes(key, c) <=> Belongs(element, c)
  BY TakesBelongs
<1>5. key.pattern = element.pattern
  BY DEF Mirrors
<1> HIDE DEF piece
<1>6. (\A j \in DOMAIN piece : Belongs(element, piece[j])) <=> TakesAll(key, path, a, e)
  <2>1. \A j \in 1..(e - a) : (a + j) - 1 \in a..(e - 1)
    BY <1>3
  <2> QED
    BY <1>1, <1>4, <2>1 DEF TakesAll
<1>7. Single(element, piece) <=> (piece # <<>> \/ element.pattern = "any") /\ TakesAll(key, path, a, e)
  BY <1>6 DEF Single
<1>8. e \in OnceEnds(key, path, a) <=> (e = a => key.pattern = "any") /\ TakesAll(key, path, a, e)
  BY <1>3 DEF OnceEnds
<1> QED
  BY <1>2, <1>5, <1>7, <1>8 DEF piece

\* and its repeated ones.
LEMMA SeveralIs ==
  ASSUME NEW key, NEW element, Mirrors(key, element), NEW path \in Seq(STRING),
         NEW a \in Places(path), NEW e \in Places(path), a <= e
  PROVE  Several(element, Piece(path, a, e)) <=> Row(key, path, a, e)
<1> DEFINE piece == Piece(path, a, e)
           Between(j) == <<piece[j]>> = element.prefix
           Sep(k) == IsSeparator(key, path, k)
           Good(j) == \/ Belongs(element, piece[j])
                      \/ /\ Between(j) /\ 1 < j /\ j < Len(piece)
                         /\ ~Between(j - 1) /\ ~Between(j + 1)
           Fine(k) == \/ Takes(key, path[k])
                      \/ /\ Sep(k) /\ a < k /\ k < e - 1
                         /\ ~Sep(k - 1) /\ ~Sep(k + 1)
<1>1. /\ DOMAIN piece = 1..(e - a) /\ Len(piece) = e - a
      /\ \A k \in a..(e - 1) : (k + 1) - a \in 1..(e - a) /\ piece[(k + 1) - a] = path[k]
  BY PieceAt
<1>2. piece = <<>> <=> a = e
  BY EmptyPiece
<1>3. a \in Nat /\ e \in Nat /\ a <= e
  BY DEF Places
<1>4. \A c : Takes(key, c) <=> Belongs(element, c)
  BY TakesBelongs
<1>5. key.prefix = element.prefix
  BY DEF Mirrors
<1>6. Several(element, piece) <=> piece # <<>> /\ \A j \in DOMAIN piece : Good(j)
  BY DEF Several
<1>7. Row(key, path, a, e) <=> a < e /\ \A k \in a..(e - 1) : Fine(k)
  BY DEF Row
<1> HIDE DEF piece
<1>8. \A k \in a..(e - 1) : Between((k + 1) - a) <=> Sep(k)
  BY <1>1, <1>5 DEF IsSeparator
<1> HIDE DEF Between, Sep
<1>9. ASSUME NEW k \in a..(e - 1) PROVE Good((k + 1) - a) <=> Fine(k)
  <2> DEFINE j == (k + 1) - a
  <2>1. /\ j \in 1..(e - a) /\ (1 < j <=> a < k) /\ (j < e - a <=> k < e - 1)
        /\ (a < k => k - 1 \in a..(e - 1) /\ ((k - 1) + 1) - a = j - 1)
        /\ (k < e - 1 => k + 1 \in a..(e - 1) /\ ((k + 1) + 1) - a = j + 1)
    BY <1>3
  <2>2. piece[j] = path[k] /\ (Between(j) <=> Sep(k))
    BY <1>1, <1>8
  <2>3. a < k => (Between(j - 1) <=> Sep(k - 1))
    BY <1>8, <2>1
  <2>4. k < e - 1 => (Between(j + 1) <=> Sep(k + 1))
    BY <1>8, <2>1
  <2> HIDE DEF j
  <2>5. Good(j) <=> Fine(k)
    BY <1>1, <1>4, <2>1, <2>2, <2>3, <2>4
  <2> QED
    BY <2>5 DEF j
<1>10. \A j \in 1..(e - a) : (a + j) - 1 \in a..(e - 1) /\ (((a + j) - 1) + 1) - a = j
  BY <1>3
<1> HIDE DEF Good, Fine
<1>11. (\A j \in DOMAIN piece : Good(j)) <=> \A k \in a..(e - 1) : Fine(k)
  BY <1>1, <1>9, <1>10
<1> QED
  BY <1>2, <1>3, <1>6, <1>7, <1>11 DEF piece

\* A list of one entry.
LEMMA OneEntry ==
  ASSUME NEW S, NEW s \in Seq(S), Len(s) = 1
  PROVE  s = <<s[1]>>
<1> DEFINE first == s[1]
<1>1. first \in S
  OBVIOUS
<1> HIDE DEF first
<1>2. <<first>> \in Seq(S) /\ Len(<<first>>) = 1 /\ <<first>>[1] = first
  BY <1>1
<1>3. \A k \in 1..Len(s) : s[k] = <<first>>[k]
  BY <1>2 DEF first
<1> QED
  BY <1>2, <1>3, SeqEqual DEF first

\* The piece for a character.
LEMMA CharacterStands ==
  ASSUME NEW mask \in Seq(Element), NEW k \in 1..Len(mask), mask[k].kind = "character",
         NEW path \in Seq(STRING), NEW m \in Places(path), NEW e \in Places(path), NEW options
  PROVE  m <= e /\ StandsFor(mask, k, options, Piece(path, m, e)) <=>
           m <= Len(path) /\ Same(path[m], mask[k].is, options) /\ e = m + 1
<1> DEFINE piece == Piece(path, m, e)
<1>1. m \in Nat /\ e \in Nat /\ e <= Len(path) + 1 /\ Len(path) \in Nat
  BY DEF Places
<1>2. m <= e => /\ Len(piece) = e - m
                /\ \A j \in 1..(e - m) : piece[j] = path[(m + j) - 1]
  BY PieceAt
<1>3. StandsFor(mask, k, options, piece) <=> Len(piece) = 1 /\ Same(piece[1], mask[k].is, options)
  BY DEF StandsFor
<1> HIDE DEF piece
<1>4. (m + 1) - 1 = m /\ 1 \in 1..((m + 1) - m) /\ (m <= e => (e - m = 1 <=> e = m + 1)) /\ m <= m + 1
  BY <1>1
<1>5. e = m + 1 => m <= Len(path) /\ m <= e /\ piece[1] = path[m]
  <2>1. e = m + 1 => m <= Len(path) /\ m <= e /\ 1 \in 1..(e - m)
    BY <1>1
  <2> QED
    BY <1>2, <1>4, <2>1
<1> QED
  BY <1>2, <1>3, <1>4, <1>5 DEF piece

\* The piece for a parameter that is left out.
LEMMA AbsentStands ==
  ASSUME NEW prefix \in Separators, NEW followed \in BOOLEAN,
         NEW path \in Seq(STRING), NEW m \in Places(path), NEW e \in Places(path), m <= e, NEW options
  PROVE  Piece(path, m, e) = (IF followed THEN prefix ELSE <<>>) <=>
           IF prefix # <<>> /\ followed THEN Stands(prefix, path, m, options) /\ e = m + Len(prefix)
                                        ELSE e = m
<1> DEFINE piece == Piece(path, m, e)
<1>1. Len(piece) = e - m /\ piece \in Seq(STRING) /\ \A j \in 1..(e - m) : piece[j] = path[(m + j) - 1]
  BY PieceAt
<1>2. m \in Nat /\ e \in Nat /\ e <= Len(path) + 1 /\ Len(path) \in Nat
  BY DEF Places
<1>3. piece = <<>> <=> m = e
  BY EmptyPiece
<1>4. /\ Len(prefix) \in {0, 1} /\ (Len(prefix) = 0 <=> prefix = <<>>)
      /\ Stands(prefix, path, m, options) <=>
           m + Len(prefix) <= Len(path) + 1 /\ (prefix # <<>> => <<path[m]>> = prefix)
  BY PrefixStands
<1> HIDE DEF piece
<1>5. CASE prefix # <<>> /\ followed
  <2>1. Len(prefix) = 1
    BY <1>4, <1>5
  <2>2. prefix = <<prefix[1]>>
    <3>1. \A c : <<c>>[1] = c
      OBVIOUS
    <3> QED
      BY <1>5, <3>1 DEF Separators
  <2>3. ASSUME piece = prefix PROVE e = m + 1 /\ <<path[m]>> = prefix
    <3>1. e - m = 1
      BY <1>1, <2>1, <2>3
    <3>2. e = m + 1 /\ 1 \in 1..(e - m) /\ (m + 1) - 1 = m
      BY <1>2, <3>1
    <3>3. piece[1] = path[m]
      BY <1>1, <3>2
    <3> QED
      BY <2>2, <2>3, <3>2, <3>3
  <2>4. ASSUME e = m + 1, <<path[m]>> = prefix PROVE piece = prefix
    <3>1. e - m = 1 /\ 1 \in 1..(e - m) /\ (m + 1) - 1 = m
      BY <1>2, <2>4
    <3>2. Len(piece) = 1 /\ piece[1] = path[m]
      BY <1>1, <3>1
    <3> DEFINE c == path[m]
    <3> HIDE DEF c
    <3>3. piece[1] = c /\ prefix = <<c>>
      BY <2>4, <3>2 DEF c
    <3>4. piece = <<c>>
      BY <1>1, <3>2, <3>3, OneEntry
    <3> QED
      BY <3>3, <3>4
  <2>5. e = m + 1 => m + Len(prefix) <= Len(path) + 1 /\ e = m + Len(prefix)
    BY <1>2, <2>1
  <2> QED
    BY <1>4, <1>5, <2>1, <2>3, <2>4, <2>5 DEF piece
<1>6. CASE ~(prefix # <<>> /\ followed)
  <2>1. (IF followed THEN prefix ELSE <<>>) = <<>>
    BY <1>6
  <2> QED
    BY <1>3, <1>6, <2>1 DEF piece
<1> QED
  BY <1>5, <1>6

\* The piece for a parameter that is given.
LEMMA GivenStands ==
  ASSUME NEW key, NEW element, Mirrors(key, element),
         NEW path \in Seq(STRING), NEW m \in Places(path), NEW e \in Places(path), m <= e, NEW options
  PROVE  LET piece == Piece(path, m, e)
             given == SubSeq(piece, Len(element.prefix) + 1, Len(piece))
         IN  IsPrefix(element.prefix, piece)
                 /\ (IF key.repeat THEN Several(element, given) ELSE Single(element, given)) <=>
               /\ Stands(key.prefix, path, m, options)
               /\ e \in CaptureEnds(key, path, m + Len(key.prefix))
<1> DEFINE piece == Piece(path, m, e)
           given == SubSeq(piece, Len(element.prefix) + 1, Len(piece))
           a == m + Len(key.prefix)
<1>1. key.prefix = element.prefix /\ key.prefix \in Separators
  BY KeyFields DEF Mirrors
<1>2. /\ IsPrefix(key.prefix, piece) <=> Stands(key.prefix, path, m, options) /\ a <= e
      /\ a <= e => a \in Places(path) /\ SubSeq(piece, Len(key.prefix) + 1, Len(piece)) = Piece(path, a, e)
  BY <1>1, BehindPrefix
<1>3. a \in Int /\ e \in Nat /\ Len(path) \in Nat
  <2>1. Len(key.prefix) \in {0, 1}
    BY <1>1 DEF Separators
  <2> QED
    BY <2>1 DEF Places
<1> HIDE DEF piece, a
<1>4. ASSUME a <= e
      PROVE  (IF key.repeat THEN Several(element, given) ELSE Single(element, given)) <=>
               e \in CaptureEnds(key, path, a)
  <2>1. a \in Places(path) /\ given = Piece(path, a, e)
    BY <1>1, <1>2, <1>4
  <2> HIDE DEF given
  <2>2. Single(element, given) <=> e \in OnceEnds(key, path, a)
    BY <1>4, <2>1, SingleIs
  <2>3. Several(element, given) <=> Row(key, path, a, e)
    BY <1>4, <2>1, SeveralIs
  <2>4. key.repeat => (e \in CaptureEnds(key, path, a) <=> Row(key, path, a, e))
    BY DEF CaptureEnds
  <2>5. ~key.repeat => (e \in CaptureEnds(key, path, a) <=> e \in OnceEnds(key, path, a))
    BY DEF CaptureEnds
  <2> QED
    BY <2>2, <2>3, <2>4, <2>5
<1>5. e \in CaptureEnds(key, path, a) => a <= e
  <2>1. e \in OnceEnds(key, path, a) => a <= e
    BY <1>3 DEF OnceEnds
  <2>2. Row(key, path, a, e) => a < e
    BY DEF Row
  <2> QED
    BY <1>3, <2>1, <2>2 DEF CaptureEnds
<1> HIDE DEF given
<1>6. IsPrefix(element.prefix, piece)
                 /\ (IF key.repeat THEN Several(element, given) ELSE Single(element, given)) <=>
               Stands(key.prefix, path, m, options) /\ e \in CaptureEnds(key, path, a)
  BY <1>1, <1>2, <1>4, <1>5
<1> QED
  BY <1>6 DEF piece, given, a

\* A parameter ends behind its beginning.
LEMMA KeyEndsAfter ==
  ASSUME NEW key \in KeyPart, NEW path \in Seq(STRING), NEW m \in Places(path), NEW e \in Places(path), NEW options,
         KeyEnds(key, path, options, m, e)
  PROVE  m <= e
<1>1. m \in Nat /\ e \in Nat /\ Len(key.prefix) \in {0, 1}
  BY KeyFields DEF Places, Separators
<1>2. ASSUME e \in CaptureEnds(key, path, m + Len(key.prefix)) PROVE m <= e
  <2>1. m + Len(key.prefix) <= e
    <3>1. e \in OnceEnds(key, path, m + Len(key.prefix)) => m + Len(key.prefix) <= e
      BY <1>1 DEF OnceEnds
    <3>2. Row(key, path, m + Len(key.prefix), e) => m + Len(key.prefix) < e
      BY DEF Row
    <3> QED
      BY <1>1, <1>2, <3>1, <3>2 DEF CaptureEnds
  <2> QED
    BY <1>1, <2>1
<1> QED
  BY <1>1, <1>2 DEF KeyEnds

\* The pieces for a parameter are those its token takes,
LEMMA ParameterStands ==
  ASSUME NEW mask \in Seq(Element), NEW k \in 1..Len(mask), mask[k].kind # "character",
         NEW count \in Nat, NEW options, ~IsRest(mask, k, options),
         NEW path \in Seq(STRING), NEW m \in Places(path), NEW e \in Places(path)
  PROVE  m <= e /\ StandsFor(mask, k, options, Piece(path, m, e)) <=>
           KeyEnds(Token(mask[k], count, k < Len(mask)), path, options, m, e)
<1> DEFINE element == mask[k]
           followed == k < Len(mask)
           key == Token(element, count, followed)
           piece == Piece(path, m, e)
           given == SubSeq(piece, Len(element.prefix) + 1, Len(piece))
<1>1. element \in Element /\ followed \in BOOLEAN
  OBVIOUS
<1>2. element.prefix \in Separators /\ element.pattern \in {"default", "digits", "any"}
      /\ element.modifier \in {"", "?", "*", "+"}
  BY <1>1, ElementIs
<1>3. /\ key \in KeyPart /\ key.prefix = element.prefix /\ key.pattern = element.pattern
      /\ key.repeat = (element.modifier \in {"+", "*"})
      /\ key.optional = (element.modifier \in {"?", "*"})
      /\ key.partial = (element.prefix # <<>> /\ followed)
  <2> HIDE DEF followed
  <2> QED
    BY <1>1, TokenType
<1>4. StandsFor(mask, k, options, piece) <=>
        \/ /\ IsPrefix(element.prefix, piece)
           /\ IF key.repeat THEN Several(element, given) ELSE Single(element, given)
        \/ key.optional /\ piece = (IF followed THEN element.prefix ELSE <<>>)
  <2> HIDE DEF given, piece
  <2>1. StandsFor(mask, k, options, piece) <=>
          \/ /\ IsPrefix(element.prefix, piece)
             /\ CASE IsRest(mask, k, options) -> TRUE
                  [] ~IsRest(mask, k, options) /\ element.modifier \in {"+", "*"} -> Several(element, given)
                  [] OTHER -> Single(element, given)
          \/ MayBeAbsent(mask, k, options) /\ piece = Absent(mask, k)
    BY DEF StandsFor, given
  <2>2. MayBeAbsent(mask, k, options) <=> key.optional
    BY <1>3 DEF MayBeAbsent
  <2>3. Absent(mask, k) = IF followed THEN element.prefix ELSE <<>>
    BY DEF Absent
  <2>4. element.modifier \in {"+", "*"} <=> key.repeat
    BY <1>3
  <2> HIDE DEF element, key
  <2>5. (CASE IsRest(mask, k, options) -> TRUE
           [] ~IsRest(mask, k, options) /\ element.modifier \in {"+", "*"} -> Several(element, given)
           [] OTHER -> Single(element, given)) <=> IF key.repeat THEN Several(element, given) ELSE Single(element, given)
    BY <2>4
  <2> QED
    BY <2>1, <2>2, <2>3, <2>5
<1>5. Mirrors(key, element)
  <2>1. key.delimiter = IF key.prefix = <<>> THEN "/" ELSE key.prefix[1]
    BY <1>3 DEF KeyPart
  <2> QED
    BY <1>3, <2>1 DEF Mirrors
<1> HIDE DEF element, key, followed, piece, given
<1>6. ASSUME m <= e
      PROVE  IsPrefix(element.prefix, piece)
                 /\ (IF key.repeat THEN Several(element, given) ELSE Single(element, given)) <=>
               Stands(key.prefix, path, m, options) /\ e \in CaptureEnds(key, path, m + Len(key.prefix))
  BY <1>5, <1>6, GivenStands DEF piece, given
<1>7. ASSUME m <= e
      PROVE  piece = (IF followed THEN element.prefix ELSE <<>>) <=>
               IF element.prefix # <<>> /\ followed
                 THEN Stands(element.prefix, path, m, options) /\ e = m + Len(element.prefix) ELSE e = m
  <2> DEFINE prefix == element.prefix
  <2> HIDE DEF prefix
  <2>1. prefix \in Separators
    BY <1>2 DEF prefix
  <2>2. Piece(path, m, e) = (IF followed THEN prefix ELSE <<>>) <=>
           IF prefix # <<>> /\ followed THEN Stands(prefix, path, m, options) /\ e = m + Len(prefix)
                                        ELSE e = m
    BY <1>1, <1>7, <2>1, AbsentStands
  <2> QED
    BY <2>2 DEF prefix, piece
<1>8. m <= e => (StandsFor(mask, k, options, piece) <=> KeyEnds(key, path, options, m, e))
  BY <1>3, <1>4, <1>6, <1>7 DEF KeyEnds
<1>9. KeyEnds(key, path, options, m, e) => m <= e
  BY <1>3, KeyEndsAfter
<1> QED
  BY <1>8, <1>9 DEF element, key, followed, piece

\* What TAKE_REST makes of the last token,
LEMMA RestType ==
  ASSUME NEW key \in KeyPart
  PROVE  /\ Rest(key) \in KeyPart /\ Rest(key).prefix = key.prefix /\ Rest(key).pattern = "any"
         /\ ~Rest(key).repeat /\ ~Rest(key).optional /\ Rest(key).value = key.value
         /\ Rest(key).delimiter = key.delimiter /\ Rest(key).kind = "key"
<1> DEFINE rest == Rest(key)
           All == [kind : {"key"}, value : [name : STRING \cup {""}, index : Nat],
                   prefix : Separators, delimiter : {"/", "."}, pattern : {"default", "digits", "any"},
                   repeat : BOOLEAN, optional : BOOLEAN, partial : BOOLEAN]
<1>1. key \in All /\ key.delimiter = IF key.prefix = <<>> THEN "/" ELSE key.prefix[1]
  BY DEF KeyPart
<1>2. rest = [key EXCEPT !.pattern = "any", !.repeat = FALSE, !.optional = FALSE]
  BY DEF Rest
<1> HIDE DEF rest
<1>3. /\ rest \in All /\ rest.prefix = key.prefix /\ rest.pattern = "any" /\ rest.repeat = FALSE
      /\ rest.optional = FALSE /\ rest.value = key.value /\ rest.delimiter = key.delimiter /\ rest.kind = "key"
  BY <1>1, <1>2
<1>4. rest \in KeyPart
  BY <1>1, <1>3 DEF KeyPart
<1> QED
  BY <1>3, <1>4 DEF rest

\* and the pieces for that one.
LEMMA RestStands ==
  ASSUME NEW mask \in Seq(Element), NEW k \in 1..Len(mask), mask[k].kind # "character",
         NEW count \in Nat, NEW options, IsRest(mask, k, options),
         NEW path \in Seq(STRING), NEW m \in Places(path), NEW e \in Places(path)
  PROVE  m <= e /\ StandsFor(mask, k, options, Piece(path, m, e)) <=>
           KeyEnds(Rest(Token(mask[k], count, k < Len(mask))), path, options, m, e)
<1> DEFINE element == mask[k]
           followed == k < Len(mask)
           token == Token(element, count, followed)
           key == Rest(token)
           piece == Piece(path, m, e)
           a == m + Len(key.prefix)
<1>1. element \in Element /\ followed \in BOOLEAN
  OBVIOUS
<1>2. element.prefix \in Separators
  BY <1>1, ElementIs
<1>3. token \in KeyPart /\ token.prefix = element.prefix
  <2> HIDE DEF followed
  <2> QED
    BY <1>1, TokenType
<1>4. key \in KeyPart /\ key.prefix = element.prefix /\ key.pattern = "any" /\ ~key.repeat /\ ~key.optional
  <2> HIDE DEF token
  <2> QED
    BY <1>3, RestType
<1>5. StandsFor(mask, k, options, piece) <=> IsPrefix(element.prefix, piece)
  BY DEF StandsFor, MayBeAbsent
<1> HIDE DEF element, key, token, followed, piece
<1>6. m \in Nat /\ e \in Nat /\ e <= Len(path) + 1 /\ Len(path) \in Nat /\ Len(key.prefix) \in {0, 1}
  BY <1>2, <1>4 DEF Places, Separators
<1>7. m <= e => (IsPrefix(element.prefix, piece) <=> Stands(key.prefix, path, m, options) /\ a <= e)
  BY <1>2, <1>4, BehindPrefix DEF piece
<1>8. e \in CaptureEnds(key, path, a) <=> a <= e
  <2>1. CaptureEnds(key, path, a) = OnceEnds(key, path, a)
    BY <1>4 DEF CaptureEnds
  <2>2. \A c : Takes(key, c)
    BY <1>4 DEF Takes
  <2>3. OnceEnds(key, path, a) = a..(Len(path) + 1)
    BY <1>4, <2>2 DEF OnceEnds, TakesAll
  <2> QED
    BY <1>6, <2>1, <2>3
<1>9. KeyEnds(key, path, options, m, e) <=> Stands(key.prefix, path, m, options) /\ a <= e
  BY <1>4, <1>8 DEF KeyEnds
<1>10. a <= e => m <= e
  BY <1>6
<1> QED
  BY <1>5, <1>7, <1>9, <1>10 DEF element, key, token, followed, piece

--------------------------------------------------------------------------------
(* description::make.  The path reaches its end by the expression if and only *)
(* if it can be cut into pieces that stand for the elements of the mask.   *)

\* The two ends of a list with an entry behind it.
LEMMA AppendEnds ==
  ASSUME NEW S, NEW s \in Seq(S), NEW x \in S
  PROVE  Append(s, x) # <<>> /\ Last(Append(s, x)) = x /\ Front(Append(s, x)) = s
<1>1. Len(s) \in Nat /\ Len(Append(s, x)) = Len(s) + 1 /\ Append(s, x)[Len(s) + 1] = x
      /\ Append(s, x) \in Seq(S) /\ \A k \in 1..Len(s) : Append(s, x)[k] = s[k]
  OBVIOUS
<1> DEFINE t == Append(s, x)
<1> HIDE DEF t
<1>2. (Len(s) + 1) - 1 = Len(s)
  BY <1>1
<1>3. Front(t) = SubSeq(t, 1, Len(s))
  BY <1>1, <1>2 DEF Front, t
<1>4. 1 \in 1..(Len(t) + 1) /\ Len(s) \in (1 - 1)..Len(t) /\ Len(s) - 1 + 1 = Len(s)
      /\ \A k \in 1..Len(s) : 1 + k - 1 = k
  BY <1>1 DEF t
<1>5. t \in Seq(S)
  BY <1>1 DEF t
<1>6. /\ SubSeq(t, 1, Len(s)) \in Seq(S) /\ Len(SubSeq(t, 1, Len(s))) = Len(s)
      /\ \A k \in 1..Len(s) : SubSeq(t, 1, Len(s))[k] = t[k]
  BY <1>4, <1>5, SubSeqAt
<1>7. SubSeq(t, 1, Len(s)) = s
  BY <1>1, <1>6, SeqEqual DEF t
<1> QED
  BY <1>1, <1>3, <1>7 DEF Last, t

\* How the last element shows in the tokens.
LEMMA LastCharacter ==
  ASSUME NEW before \in State, NEW element \in Element, element.kind = "character", NEW followed \in BOOLEAN
  PROVE  LET after == Parsed(before, element, followed)
             tokens == Push(after.tokens, after.path)
         IN  /\ after.tokens = before.tokens /\ after.path = Append(before.path, element.is)
             /\ tokens \in Seq(Part) /\ tokens # <<>> /\ tokens = Append(before.tokens, Text(after.path))
             /\ Last(tokens) = Text(after.path) /\ Last(after.path) = element.is
             /\ Front(tokens) = before.tokens /\ Front(after.path) = before.path
<1> DEFINE after == Parsed(before, element, followed)
           tokens == Push(after.tokens, after.path)
           d == element.is
<1>1. before.tokens \in Seq(Part) /\ before.path \in Seq(STRING) /\ d \in STRING
  BY ElementIs DEF State
<1>2. after.tokens = before.tokens /\ after.path = Append(before.path, d)
  <2>1. after = [before EXCEPT !.path = Append(@, element.is)]
    BY DEF Parsed
  <2> QED
    BY <2>1 DEF State
<1> HIDE DEF after, d
<1>3. \A s \in Seq(STRING) : \A x \in STRING : Append(s, x) # <<>> /\ Last(Append(s, x)) = x /\ Front(Append(s, x)) = s
  BY AppendEnds
<1>4. after.path \in Seq(STRING) /\ after.path # <<>>
  BY <1>1, <1>2, <1>3
<1>5. tokens = Append(before.tokens, Text(after.path))
  BY <1>2, <1>4 DEF Push, Text
<1>6. Text(after.path) \in Part
  BY <1>4 DEF Part
<1> HIDE DEF tokens
<1>7. tokens \in Seq(Part)
  BY <1>1, <1>5, <1>6
<1>8. Last(tokens) = Text(after.path) /\ Front(tokens) = before.tokens /\ tokens # <<>>
  BY <1>1, <1>5, <1>6, AppendEnds
<1>9. Last(after.path) = d /\ Front(after.path) = before.path
  BY <1>1, <1>2, <1>3
<1> QED
  BY <1>2, <1>5, <1>7, <1>8, <1>9 DEF after, tokens, d

\* A parameter at the end, or a character.
LEMMA LastParameter ==
  ASSUME NEW before \in State, NEW element \in Element, element.kind # "character", NEW followed \in BOOLEAN
  PROVE  LET after == Parsed(before, element, followed)
             tokens == Push(after.tokens, after.path)
             token == Token(element, before.count, followed)
         IN  /\ after.path = <<>> /\ after.tokens = Append(Push(before.tokens, before.path), token)
             /\ token \in KeyPart /\ token \in Part /\ token.kind = "key"
             /\ tokens = after.tokens /\ tokens \in Seq(Part) /\ tokens # <<>>
             /\ Last(tokens) = token /\ Front(tokens) = Push(before.tokens, before.path)
             /\ Push(before.tokens, before.path) \in Seq(Part)
<1> DEFINE after == Parsed(before, element, followed)
           tokens == Push(after.tokens, after.path)
           token == Token(element, before.count, followed)
           pushed == Push(before.tokens, before.path)
<1>1. before.tokens \in Seq(Part) /\ before.path \in Seq(STRING) /\ before.count \in Nat
  BY DEF State
<1>2. token \in KeyPart /\ token \in Part /\ token.kind = "key"
  BY <1>1, TokenType DEF Part
<1>3. pushed \in Seq(Part)
  BY <1>1, PushType
<1>4. after.path = <<>> /\ after.tokens = Append(pushed, token)
  BY DEF Parsed
<1> HIDE DEF after, token, pushed
<1>5. tokens = after.tokens
  BY <1>4 DEF Push
<1> HIDE DEF tokens
<1>6. tokens \in Seq(Part)
  BY <1>2, <1>3, <1>4, <1>5
<1>7. Last(tokens) = token /\ Front(tokens) = pushed /\ tokens # <<>>
  BY <1>2, <1>3, <1>4, <1>5, AppendEnds
<1> QED
  BY <1>2, <1>3, <1>4, <1>5, <1>6, <1>7 DEF after, tokens, token, pushed

\* The expression of a mask: which of the three forms it has.
Body(mask, options) ==
  IF "STRICT" \notin options /\ mask # <<>> /\ Last(mask) = Character("/") THEN Len(mask) - 1 ELSE Len(mask)

\* With TAKE_REST and a parameter at the end, with STRICT, and the others, where a
\* slash at the end of the mask is left out.
LEMMA RouteIs ==
  ASSUME NEW mask \in Seq(Element), NEW state, AreTurns(mask, state), NEW options,
         Tokens(mask) = Push(state[Len(mask)].tokens, state[Len(mask)].path)
  PROVE  LET n == Len(mask)
             route == Route(Tokens(mask), options)
             body == Body(mask, options)
             before == state[n - 1]
             end == state[n]
             token == Token(mask[n], before.count, FALSE)
         IN  /\ IsRest(mask, n, options) =>
                  /\ n \in 1..Len(mask) /\ mask[n].kind = "parameter" /\ body = n
                  /\ token \in KeyPart
                  /\ Push(before.tokens, before.path) \in Seq(Part)
                  /\ route = Append(Push(before.tokens, before.path), Rest(token))
             /\ ~IsRest(mask, n, options) /\ "STRICT" \in options =>
                  body = n /\ route = Push(end.tokens, end.path)
             /\ ~IsRest(mask, n, options) /\ "STRICT" \notin options =>
                  \/ /\ body = n - 1 /\ n # 0 /\ mask[n] = Character("/")
                     /\ route = Append(Extended(before), Slash) /\ end.tokens = before.tokens
                  \/ body = n /\ route = Append(Push(end.tokens, end.path), Slash)
<1> DEFINE n == Len(mask)
           tokens == Tokens(mask)
           before == state[n - 1]
           end == state[n]
           element == mask[n]
           followed == n < Len(mask)
           token == Token(element, before.count, FALSE)
           R == "TAKE_REST" \in options
<1>0. n \in Nat /\ tokens = Push(end.tokens, end.path)
  OBVIOUS
<1>1. CASE n = 0
  <2>1. end = Begun
    BY <1>1, TurnsType
  <2>2. tokens = <<>>
    BY <1>0, <2>1 DEF Push, Begun
  <2>3. ~TakesRest(tokens, options) /\ ~EndsWithSlash(tokens)
    BY <2>2 DEF TakesRest, EndsWithSlash
  <2>4. mask = <<>> /\ ~IsRest(mask, n, options)
    BY <1>1 DEF IsRest
  <2>5. Body(mask, options) = n
    BY <2>4 DEF Body
  <2> HIDE DEF tokens, end
  <2> QED
    BY <1>0, <2>3, <2>4, <2>5 DEF Route, tokens, end
<1>2. CASE n # 0
  <2>1. n \in 1..Len(mask) /\ n - 1 \in 0..Len(mask) /\ followed = FALSE /\ mask # <<>> /\ n \in DOMAIN mask
    BY <1>0, <1>2
  <2>2. before \in State /\ element \in Element /\ end = Parsed(before, element, FALSE)
    BY <2>1, TurnsType
  <2>3. IsRest(mask, n, options) <=> R /\ element.kind = "parameter"
    BY <2>1 DEF IsRest
  <2>4. Body(mask, options) = IF "STRICT" \notin options /\ element = Character("/") THEN n - 1 ELSE n
    BY <2>1 DEF Body, Last
  <2> HIDE DEF tokens, before, end, element, followed, n, token
  <2>5. CASE element.kind = "character"
    <3>1. /\ end.tokens = before.tokens /\ end.path = Append(before.path, element.is)
          /\ tokens # <<>> /\ tokens = Append(before.tokens, Text(end.path))
          /\ Last(tokens) = Text(end.path) /\ Last(end.path) = element.is
          /\ Front(tokens) = before.tokens /\ Front(end.path) = before.path
      BY <1>0, <2>2, <2>5, LastCharacter
    <3>2. Text(end.path).kind = "text" /\ Text(end.path).text = end.path
      BY DEF Text
    <3>3. ~TakesRest(tokens, options) /\ (EndsWithSlash(tokens) <=> element.is = "/")
      BY <3>1, <3>2 DEF TakesRest, EndsWithSlash, IsText
    <3>4. element = Character("/") <=> element.is = "/"
      <4>1. element \in [kind : {"character"}, is : STRING]
        BY <2>2, <2>5 DEF Element
      <4> QED
        BY <4>1 DEF Character
    <3>5. WithoutSlash(tokens) = Extended(before)
      <4>1. [Text(end.path) EXCEPT !.text = Front(@)] = Text(Front(end.path))
        BY DEF Text
      <4> QED
        BY <3>1, <4>1 DEF WithoutSlash, Extended
    <3>6. ~IsRest(mask, n, options)
      BY <2>3, <2>5
    <3> QED
      BY <1>0, <2>4, <3>1, <3>3, <3>4, <3>5, <3>6, <1>2
         DEF Route, tokens, before, end, element, n
  <2>6. CASE element.kind # "character"
    <3>1. /\ end.path = <<>> /\ end.tokens = Append(Push(before.tokens, before.path), token)
          /\ token \in KeyPart /\ token.kind = "key"
          /\ tokens = end.tokens /\ tokens # <<>>
          /\ Last(tokens) = token /\ Front(tokens) = Push(before.tokens, before.path)
          /\ Push(before.tokens, before.path) \in Seq(Part)
      BY <1>0, <2>2, <2>6, LastParameter DEF token
    <3>2. element.kind = "parameter" /\ element # Character("/")
      <4>1. Character("/").kind = "character"
        BY DEF Character
      <4>2. element.kind = "parameter"
        BY <2>2, <2>6, ElementIs
      <4> QED
        BY <2>6, <4>1, <4>2
    <3>3. (TakesRest(tokens, options) <=> R) /\ ~EndsWithSlash(tokens)
      BY <3>1 DEF TakesRest, EndsWithSlash, IsText
    <3>4. Body(mask, options) = n
      BY <2>4, <3>2
    <3>5. IsRest(mask, n, options) <=> R
      BY <2>3, <3>2
    <3> QED
      BY <1>0, <2>1, <3>1, <3>2, <3>3, <3>4, <3>5
         DEF Route, tokens, before, end, element, n, token
  <2> QED
    BY <2>5, <2>6
<1> QED
  BY <1>1, <1>2

\* The ends of the pieces for the first elements.
Cut(mask, options, path, reached, k) ==
  IF k = 0 THEN {0}
  ELSE {q \in 0..Len(path) :
          \E p \in reached[k - 1] : p <= q /\ StandsFor(mask, k, options, SubSeq(path, p + 1, q))}
AreCuts(mask, options, path, reached) ==
  \A k \in 0..Body(mask, options) : reached[k] = Cut(mask, options, path, reached, k)

CutsTo(mask, options, path, n, f) == f = [k \in 0..n |-> Cut(mask, options, path, f, k)]

\* The recursion of Fits has a solution,
LEMMA CutsExist ==
  ASSUME NEW mask, NEW options, NEW path, NEW n \in Nat
  PROVE  \E f : CutsTo(mask, options, path, n, f)
<1> DEFINE F(f, k) == Cut(mask, options, path, f, k)
           T == {m \in Nat : \E f : f = [k \in 0..m |-> F(f, k)]}
<1>a. ASSUME NEW f, NEW g, NEW k, k # 0 => f[k - 1] = g[k - 1] PROVE F(f, k) = F(g, k)
  BY <1>a DEF Cut
<1> HIDE DEF F
<1>1. 0 \in T
  <2> DEFINE g == [k \in 0..0 |-> F(<<>>, 0)]
  <2>1. \A k \in 0..0 : g[k] = F(<<>>, k) /\ F(<<>>, k) = F(g, k)
    BY <1>a
  <2>2. g = [k \in 0..0 |-> F(g, k)]
    BY <2>1
  <2> HIDE DEF g
  <2> QED
    BY <2>2
<1>2. ASSUME NEW m \in T PROVE m + 1 \in T
  <2>1. PICK f : f = [k \in 0..m |-> F(f, k)]
    OBVIOUS
  <2> DEFINE g == [k \in 0..(m + 1) |-> IF k = m + 1 THEN F(f, k) ELSE f[k]]
  <2>2. ASSUME NEW k \in 0..(m + 1) PROVE g[k] = F(g, k)
    <3>1. k # 0 => k - 1 \in 0..m /\ g[k - 1] = f[k - 1]
      OBVIOUS
    <3>2. F(g, k) = F(f, k)
      BY <3>1, <1>a
    <3>3. k # m + 1 => k \in 0..m /\ f[k] = F(f, k)
      BY <2>1
    <3> QED
      BY <3>2, <3>3
  <2>3. g = [k \in 0..(m + 1) |-> F(g, k)]
    BY <2>2
  <2> HIDE DEF g
  <2>4. \E h : h = [k \in 0..(m + 1) |-> F(h, k)]
    BY <2>3
  <2> QED
    BY <2>4
<1>3. T = Nat
  <2> HIDE DEF T
  <2>1. T \in SUBSET Nat
    BY DEF T
  <2> QED
    BY <1>1, <1>2, <2>1, NumberInduction
<1> QED
  BY <1>3 DEF F, CutsTo

\* The length that counts.
LEMMA BodyType ==
  ASSUME NEW mask \in Seq(Element), NEW options
  PROVE  Body(mask, options) \in 0..Len(mask) /\ Len(mask) \in Nat
<1>1. Len(mask) \in Nat /\ (mask # <<>> => Len(mask) - 1 \in 0..Len(mask))
  OBVIOUS
<1> QED
  BY <1>1 DEF Body

\* and Fits reads its last entry.
LEMMA FitsBy ==
  ASSUME NEW mask \in Seq(Element), NEW options, NEW path
  PROVE  \E reached :
           /\ AreCuts(mask, options, path, reached)
           /\ Fits(mask, options, path) <=>
                \/ Len(path) \in reached[Body(mask, options)]
                \/ /\ "STRICT" \notin options /\ ~IsRest(mask, Len(mask), options)
                   /\ path # <<>> /\ Last(path) = "/" /\ Len(path) - 1 \in reached[Body(mask, options)]
<1> DEFINE body == Body(mask, options)
           reached == CHOOSE f : f = [k \in 0..body |-> Cut(mask, options, path, f, k)]
<1>1. body \in Nat
  BY BodyType
<1>2. reached = [k \in 0..body |-> Cut(mask, options, path, reached, k)]
  <2>1. \E f : CutsTo(mask, options, path, body, f)
    <3> HIDE DEF body
    <3> QED
      BY <1>1, CutsExist
  <2> HIDE DEF body
  <2> QED
    BY <2>1 DEF CutsTo
<1>3. Fits(mask, options, path) <=>
        \/ Len(path) \in reached[body]
        \/ /\ "STRICT" \notin options /\ ~IsRest(mask, Len(mask), options)
           /\ path # <<>> /\ Last(path) = "/" /\ Len(path) - 1 \in reached[body]
  BY DEF Fits, Cut, Body
<1> HIDE DEF reached
<1>4. AreCuts(mask, options, path, reached)
  BY <1>2 DEF AreCuts
<1> QED
  BY <1>3, <1>4

\* Where the rounds of the loop have come to in the path.
Ends(state, path, options) == {e \in Places(path) : \E c : Reaches(Extended(state), path, options, e, c)}

\* Where a parameter ends, without the captures.
LEMMA KeyEndsIs ==
  ASSUME NEW key, NEW path, NEW options, NEW m, NEW e, NEW b
  PROVE  (\E c : KeyTakes(key, path, options, m, e, b, c)) <=> KeyEnds(key, path, options, m, e)
BY DEF KeyTakes, KeyEnds

\* Places and captures once more.
LEMMA ReachesPlaces ==
  ASSUME NEW parts, NEW path \in Seq(STRING), NEW options, NEW e, NEW c, Reaches(parts, path, options, e, c)
  PROVE  e \in Places(path) /\ c \in Seq(Seq(STRING))
BY ReachesType

\* A round goes from the end of a piece to the end of the next one.
LEMMA ParsedEnds ==
  ASSUME NEW mask \in Seq(Element), NEW k \in 1..Len(mask), NEW before \in State, NEW options,
         ~IsRest(mask, k, options), NEW path \in Seq(STRING), NEW e \in Places(path)
  PROVE  e \in Ends(Parsed(before, mask[k], k < Len(mask)), path, options) <=>
           \E m \in Ends(before, path, options) : m <= e /\ StandsFor(mask, k, options, Piece(path, m, e))
<1> DEFINE element == mask[k]
           followed == k < Len(mask)
           after == Parsed(before, element, followed)
           Taken(m, b, c) == ElementTakes(element, before.count, followed, path, options, m, e, b, c)
           Fit(m) == m <= e /\ StandsFor(mask, k, options, Piece(path, m, e))
<1>1. element \in Element /\ followed \in BOOLEAN /\ before.count \in Nat
  BY DEF State
<1>2. ASSUME NEW m \in Places(path), NEW b
      PROVE  (\E c : Taken(m, b, c)) <=> Fit(m)
  <2>1. CASE element.kind = "character"
    <3>1. \A c : Taken(m, b, c) <=> m <= Len(path) /\ Same(path[m], element.is, options) /\ e = m + 1 /\ c = b
      BY <2>1 DEF ElementTakes
    <3>2. Fit(m) <=> m <= Len(path) /\ Same(path[m], element.is, options) /\ e = m + 1
      BY <2>1, CharacterStands
    <3> HIDE DEF Taken, Fit
    <3> QED
      BY <3>1, <3>2
  <2>2. CASE element.kind # "character"
    <3> DEFINE token == Token(element, before.count, followed)
    <3>1. \A c : Taken(m, b, c) <=> KeyTakes(token, path, options, m, e, b, c)
      BY <2>2 DEF ElementTakes
    <3>2. Fit(m) <=> KeyEnds(token, path, options, m, e)
      BY <1>1, <2>2, ParameterStands
    <3>3. (\E c : KeyTakes(token, path, options, m, e, b, c)) <=> KeyEnds(token, path, options, m, e)
      BY KeyEndsIs
    <3> HIDE DEF Taken, Fit, token
    <3> QED
      BY <3>1, <3>2, <3>3
  <2> QED
    BY <2>1, <2>2
<1> HIDE DEF element, followed, Taken, Fit
<1>3. \A c : Reaches(Extended(after), path, options, e, c) <=>
         \E m \in Places(path), b \in Seq(Seq(STRING)) :
            Reaches(Extended(before), path, options, m, b) /\ Taken(m, b, c)
  BY <1>1, ParsedReaches DEF Taken
<1>4. \A m, b : Reaches(Extended(before), path, options, m, b) => m \in Places(path) /\ b \in Seq(Seq(STRING))
  BY ReachesType
<1> HIDE DEF after
<1>5. e \in Ends(after, path, options) <=> \E c : Reaches(Extended(after), path, options, e, c)
  BY DEF Ends
<1>6. \A m : m \in Ends(before, path, options) <=>
         m \in Places(path) /\ \E b : Reaches(Extended(before), path, options, m, b)
  BY DEF Ends
<1>7. e \in Ends(after, path, options) <=> \E m \in Ends(before, path, options) : Fit(m)
  BY <1>2, <1>3, <1>4, <1>5, <1>6
<1> QED
  BY <1>7 DEF after, element, followed, Fit

\* Before the first round, that is the beginning of the path.
LEMMA BeginEnds ==
  ASSUME NEW path \in Seq(STRING), NEW options
  PROVE  Ends(Begun, path, options) = {1}
<1> DEFINE none == <<>>
<1>1. Extended(Begun) = Append(none, Text(<<>>))
  BY DEF Extended, Begun
<1>2. none \in Seq(Part)
  OBVIOUS
<1>3. \A e, c : Reaches(none, path, options, e, c) <=> e = 1 /\ c = <<>>
  BY ReachesNone
<1> HIDE DEF none
<1>4. \A e, c : Reaches(Append(none, Text(<<>>)), path, options, e, c) <=> Reaches(none, path, options, e, c)
  BY <1>2, ReachesNoText
<1>5. 1 \in Places(path)
  BY DEF Places
<1>6. \A e, c : Reaches(Extended(Begun), path, options, e, c) <=> e = 1 /\ c = <<>>
  BY <1>1, <1>3, <1>4
<1> QED
  BY <1>5, <1>6 DEF Ends

\* The loop and the cuts come to the same places.
LEMMA CutsAreEnds ==
  ASSUME NEW mask \in Seq(Element), NEW options, NEW path \in Seq(STRING),
         NEW state, AreTurns(mask, state), NEW reached, AreCuts(mask, options, path, reached),
         NEW k \in 0..Body(mask, options), k = Len(mask) => ~IsRest(mask, k, options)
  PROVE  \A q : q \in reached[k] <=> q + 1 \in Ends(state[k], path, options) /\ q \in Nat
<1> DEFINE n == Len(mask)
           body == Body(mask, options)
           Good(i) == \A q : q \in reached[i] <=> q + 1 \in Ends(state[i], path, options) /\ q \in Nat
           T == {i \in Nat : i <= k => Good(i)}
<1>0. n \in Nat /\ body \in 0..n /\ k \in 0..body
  BY BodyType
<1>s. Len(path) \in Nat
  OBVIOUS
<1>1. 0 \in T
  <2>1. state[0] = Begun
    BY TurnsType
  <2>2. reached[0] = {0}
    <3>1. 0 \in 0..body
      BY <1>0
    <3>2. reached[0] = Cut(mask, options, path, reached, 0)
      BY <3>1 DEF AreCuts
    <3> QED
      BY <3>2 DEF Cut
  <2>3. Good(0)
    BY <2>1, <2>2, BeginEnds
  <2> QED
    BY <2>3
<1>2. ASSUME NEW i \in T PROVE i + 1 \in T
  <2> SUFFICES ASSUME i + 1 <= k PROVE Good(i + 1)
    BY <1>2
  <2>1. i \in Nat /\ i <= k /\ i + 1 \in 1..n /\ i + 1 \in 0..body /\ (i + 1) - 1 = i /\ i + 1 # 0
        /\ i \in 0..n
    BY <1>0
  <2>2. Good(i)
    BY <1>2, <2>1
  <2>3. state[i] \in State /\ state[i + 1] = Parsed(state[i], mask[i + 1], i + 1 < Len(mask))
    BY <2>1, TurnsType
  <2>4. ~IsRest(mask, i + 1, options)
    <3>1. i + 1 = n => i + 1 = k
      BY <1>0, <2>1
    <3> QED
      BY <3>1 DEF IsRest
  <2>5. reached[i + 1] = {q \in 0..Len(path) :
          \E p \in reached[i] : p <= q /\ StandsFor(mask, i + 1, options, SubSeq(path, p + 1, q))}
    BY <2>1 DEF AreCuts, Cut
  <2> DEFINE Fit(p, q) == p <= q /\ StandsFor(mask, i + 1, options, SubSeq(path, p + 1, q))
             Now(m, e) == m <= e /\ StandsFor(mask, i + 1, options, Piece(path, m, e))
  <2>6. \A e \in Places(path) : e \in Ends(state[i + 1], path, options) <=>
           \E m \in Ends(state[i], path, options) : Now(m, e)
    BY <2>1, <2>3, <2>4, ParsedEnds
  <2>7. \A p, q \in Nat : Fit(p, q) <=> Now(p + 1, q + 1)
    <3>1. \A p, q \in Nat : (p <= q <=> p + 1 <= q + 1) /\ (q + 1) - 1 = q
      OBVIOUS
    <3> QED
      BY <3>1 DEF Piece
  <2>8. \A q : q \in reached[i + 1] <=> q \in 0..Len(path) /\ \E p \in reached[i] : Fit(p, q)
    BY <2>5
  <2> HIDE DEF Fit, Now
  <2>9. \A m \in Ends(state[i], path, options) : m - 1 \in Nat /\ (m - 1) + 1 = m /\ m - 1 \in reached[i]
    <3>1. \A m \in Ends(state[i], path, options) : m - 1 \in Nat /\ (m - 1) + 1 = m
      BY DEF Ends, Places
    <3> QED
      BY <2>2, <3>1
  <2>10. \A q : q \in 0..Len(path) <=> q \in Nat /\ q + 1 \in Places(path)
    <3>1. \A q \in Nat : q <= Len(path) <=> q + 1 <= Len(path) + 1
      BY <1>s
    <3> QED
      BY <1>s, <3>1 DEF Places
  <2>11. \A q : q + 1 \in Ends(state[i + 1], path, options) => q + 1 \in Places(path)
    BY DEF Ends
  <2>12. ASSUME NEW q \in Nat, q + 1 \in Places(path)
         PROVE  (\E p \in reached[i] : Fit(p, q)) <=> \E m \in Ends(state[i], path, options) : Now(m, q + 1)
    <3>1. ASSUME NEW p \in reached[i], Fit(p, q) PROVE \E m \in Ends(state[i], path, options) : Now(m, q + 1)
      BY <2>2, <2>7, <3>1
    <3>2. ASSUME NEW m \in Ends(state[i], path, options), Now(m, q + 1) PROVE \E p \in reached[i] : Fit(p, q)
      <4>1. m - 1 \in Nat /\ (m - 1) + 1 = m /\ m - 1 \in reached[i]
        BY <2>9
      <4>2. Fit(m - 1, q) <=> Now((m - 1) + 1, q + 1)
        BY <2>7, <4>1
      <4> QED
        BY <3>2, <4>1, <4>2
    <3> QED
      BY <3>1, <3>2
  <2> QED
    BY <2>6, <2>8, <2>10, <2>11, <2>12
<1>3. T = Nat
  <2> HIDE DEF Good
  <2> QED
    BY <1>1, <1>2, NumberInduction
<1>4. k \in T /\ k <= k
  BY <1>0, <1>3
<1> QED
  BY <1>4

\* What the expression of a mask makes of the end of a path, in terms of the rounds
\* of the loop over the mask.
LEMMA RouteReaches ==
  ASSUME NEW mask \in Seq(Element), NEW state, AreTurns(mask, state), NEW options,
         Tokens(mask) = Push(state[Len(mask)].tokens, state[Len(mask)].path),
         NEW path \in Seq(STRING), NEW c
  PROVE  LET n == Len(mask)
             N == Len(path) + 1
             route == Route(Tokens(mask), options)
             body == Body(mask, options)
             before == state[n - 1]
             token == Token(mask[n], before.count, FALSE)
         IN  /\ route \in Seq(Part)
             /\ IsRest(mask, n, options) =>
                  /\ n \in 1..Len(mask) /\ mask[n].kind = "parameter" /\ body = n
                  /\ token \in KeyPart
                  /\ Reaches(route, path, options, N, c) <=>
                       \E m \in Places(path), b \in Seq(Seq(STRING)) :
                         /\ Reaches(Extended(before), path, options, m, b)
                         /\ KeyTakes(Rest(token), path, options, m, N, b, c)
             /\ ~IsRest(mask, n, options) /\ "STRICT" \in options =>
                  body = n /\ (Reaches(route, path, options, N, c) <=>
                                 Reaches(Extended(state[body]), path, options, N, c))
             /\ ~IsRest(mask, n, options) /\ "STRICT" \notin options =>
                  (Reaches(route, path, options, N, c) <=>
                     \/ Reaches(Extended(state[body]), path, options, N, c)
                     \/ /\ path # <<>> /\ path[Len(path)] = "/"
                        /\ Reaches(Extended(state[body]), path, options, Len(path), c))
<1> DEFINE n == Len(mask)
           N == Len(path) + 1
           route == Route(Tokens(mask), options)
           body == Body(mask, options)
           before == state[n - 1]
           end == state[n]
           token == Token(mask[n], before.count, FALSE)
<1>0. n \in Nat /\ body \in 0..n
  BY BodyType
<1>1. /\ IsRest(mask, n, options) =>
           /\ n \in 1..Len(mask) /\ mask[n].kind = "parameter" /\ body = n
           /\ token \in KeyPart
           /\ Push(before.tokens, before.path) \in Seq(Part)
           /\ route = Append(Push(before.tokens, before.path), Rest(token))
      /\ ~IsRest(mask, n, options) /\ "STRICT" \in options =>
           body = n /\ route = Push(end.tokens, end.path)
      /\ ~IsRest(mask, n, options) /\ "STRICT" \notin options =>
           \/ /\ body = n - 1 /\ n # 0 /\ mask[n] = Character("/")
              /\ route = Append(Extended(before), Slash) /\ end.tokens = before.tokens
           \/ body = n /\ route = Append(Push(end.tokens, end.path), Slash)
  BY RouteIs
<1>2. \A k \in 0..n : state[k] \in State
  BY TurnsType
<1>3. ASSUME NEW s \in State
      PROVE  /\ Extended(s) \in Seq(Part) /\ Push(s.tokens, s.path) \in Seq(Part)
             /\ \A e : Reaches(Push(s.tokens, s.path), path, options, e, c) <=> Reaches(Extended(s), path, options, e, c)
             /\ \A e, b : Reaches(Push(s.tokens, s.path), path, options, e, b) <=>
                            Reaches(Extended(s), path, options, e, b)
  <2>1. s.tokens \in Seq(Part) /\ s.path \in Seq(STRING)
    BY DEF State
  <2>2. Text(s.path) \in Part
    BY <2>1 DEF Part
  <2> QED
    <3>1. Extended(s) \in Seq(Part) /\ Push(s.tokens, s.path) \in Seq(Part)
      <4>1. Push(s.tokens, s.path) \in Seq(Part)
        BY <2>1, PushType
      <4> QED
        BY <2>1, <2>2, <4>1 DEF Extended
    <3>2. \A e, b : Reaches(Push(s.tokens, s.path), path, options, e, b) <=>
                       Reaches(Append(s.tokens, Text(s.path)), path, options, e, b)
      BY <2>1, ReachesPush
    <3> QED
      BY <3>1, <3>2 DEF Extended
<1>4. Slash \in Part
  BY DEF Part
<1> HIDE DEF route, body, end
<1>5. ASSUME NEW parts \in Seq(Part)
      PROVE  Reaches(Append(parts, Slash), path, options, N, c) <=>
               \/ Reaches(parts, path, options, N, c)
               \/ /\ path # <<>> /\ path[Len(path)] = "/"
                  /\ Reaches(parts, path, options, Len(path), c)
  BY ReachesSlash
<1>6. CASE IsRest(mask, n, options)
  <2>1. before \in State
    BY <1>0, <1>1, <1>2, <1>6
  <2> DEFINE rest == Rest(token)
             pushed == Push(before.tokens, before.path)
  <2>2. rest \in KeyPart /\ rest \in Part
    <3>1. token \in KeyPart
      BY <1>1, <1>6
    <3> HIDE DEF token
    <3>2. rest \in KeyPart
      BY <3>1, RestType
    <3> QED
      BY <3>2 DEF Part
  <2>3. pushed \in Seq(Part) /\ \A e, b : Reaches(pushed, path, options, e, b) <=>
                            Reaches(Extended(before), path, options, e, b)
    BY <1>3, <2>1
  <2>4. route = Append(pushed, rest)
    BY <1>1, <1>6
  <2> HIDE DEF rest, pushed, before
  <2>5. route \in Seq(Part)
    BY <2>2, <2>3, <2>4
  <2>6. Reaches(route, path, options, N, c) <=>
          \E m \in Places(path), b \in Seq(Seq(STRING)) :
             Reaches(pushed, path, options, m, b) /\ KeyTakes(rest, path, options, m, N, b, c)
    BY <2>2, <2>3, <2>4, ReachesKey
  <2> QED
    BY <1>1, <1>6, <2>3, <2>5, <2>6 DEF route, body, rest, before
<1>7. CASE ~IsRest(mask, n, options) /\ "STRICT" \in options
  <2>1. end \in State
    BY <1>0, <1>2 DEF end
  <2>2. body = n /\ route = Push(end.tokens, end.path)
    BY <1>1, <1>7
  <2>3. route \in Seq(Part) /\ (Reaches(route, path, options, N, c) <=> Reaches(Extended(end), path, options, N, c))
    BY <1>3, <2>1, <2>2
  <2> QED
    BY <1>7, <2>2, <2>3 DEF route, body, end
<1>8. CASE ~IsRest(mask, n, options) /\ "STRICT" \notin options
  <2>1. CASE body = n - 1 /\ n # 0 /\ route = Append(Extended(before), Slash)
    <3>1. before \in State
      BY <1>0, <1>2, <2>1
    <3>2. Extended(before) \in Seq(Part) /\ route \in Seq(Part)
      BY <1>3, <1>4, <2>1, <3>1
    <3>3. Reaches(route, path, options, N, c) <=>
               \/ Reaches(Extended(before), path, options, N, c)
               \/ /\ path # <<>> /\ path[Len(path)] = "/"
                  /\ Reaches(Extended(before), path, options, Len(path), c)
      BY <1>5, <2>1, <3>2
    <3>4. state[body] = before
      BY <2>1
    <3> QED
      BY <1>8, <3>2, <3>3, <3>4 DEF route, body
  <2>2. CASE body = n /\ route = Append(Push(end.tokens, end.path), Slash)
    <3>1. end \in State
      BY <1>0, <1>2 DEF end
    <3> DEFINE pushed == Push(end.tokens, end.path)
    <3>2. pushed \in Seq(Part) /\ \A e : Reaches(pushed, path, options, e, c) <=> Reaches(Extended(end), path, options, e, c)
      BY <1>3, <3>1
    <3>3. route = Append(pushed, Slash)
      BY <2>2
    <3> HIDE DEF pushed
    <3>4. route \in Seq(Part)
      BY <1>4, <3>2, <3>3
    <3>5. Reaches(route, path, options, N, c) <=>
               \/ Reaches(pushed, path, options, N, c)
               \/ /\ path # <<>> /\ path[Len(path)] = "/"
                  /\ Reaches(pushed, path, options, Len(path), c)
      BY <1>5, <3>2, <3>3
    <3>6. state[body] = end
      BY <2>2 DEF end
    <3> QED
      BY <1>8, <3>2, <3>4, <3>5, <3>6 DEF route, body
  <2> QED
    BY <1>1, <1>8, <2>1, <2>2
<1> QED
  BY <1>6, <1>7, <1>8 DEF route, body

\* matcher::matches takes the paths that fit the mask, for all masks, options and paths.
THEOREM MatchesIsFits ==
  ASSUME NEW mask \in Seq(Element), NEW options, NEW path \in Seq(STRING)
  PROVE  Matches(Description(mask, options), path, options) <=> Fits(mask, options, path)
<1> DEFINE n == Len(mask)
           N == Len(path) + 1
           route == Route(Tokens(mask), options)
           body == Body(mask, options)
<1>0. n \in Nat /\ body \in 0..n /\ Len(path) \in Nat /\ N \in Places(path) /\ N - 1 = Len(path)
      /\ (path # <<>> => Len(path) \in Places(path) /\ Len(path) - 1 \in Nat /\ (Len(path) - 1) + 1 = Len(path))
  BY BodyType DEF Places
<1>1. PICK state : AreTurns(mask, state) /\ Tokens(mask) = Push(state[n].tokens, state[n].path)
  BY <1>0, TokensBy
<1>2. PICK reached :
        /\ AreCuts(mask, options, path, reached)
        /\ Fits(mask, options, path) <=>
             \/ Len(path) \in reached[body]
             \/ /\ "STRICT" \notin options /\ ~IsRest(mask, n, options)
                /\ path # <<>> /\ Last(path) = "/" /\ Len(path) - 1 \in reached[body]
  BY FitsBy
<1> DEFINE before == state[n - 1]
           token == Token(mask[n], before.count, FALSE)
           Whole == \E c : Reaches(route, path, options, N, c)
<1>3. Matches(Description(mask, options), path, options) <=> Whole
  <2>1. route \in Seq(Part)
    BY <1>1, RouteReaches
  <2>2. Captured(route, path, options) # <<>> <=> Whole
    BY <2>1, CapturedIs
  <2> QED
    BY <2>2 DEF Matches, Description
<1>4. CASE IsRest(mask, n, options)
  <2>1. /\ n \in 1..n /\ mask[n].kind = "parameter" /\ body = n /\ token \in KeyPart
        /\ \A c : Reaches(route, path, options, N, c) <=>
             \E m \in Places(path), b \in Seq(Seq(STRING)) :
               /\ Reaches(Extended(before), path, options, m, b)
               /\ KeyTakes(Rest(token), path, options, m, N, b, c)
    BY <1>1, <1>4, RouteReaches
  <2>2. before \in State /\ before.count \in Nat /\ (n < Len(mask)) = FALSE /\ n - 1 \in 0..body /\ n - 1 # Len(mask)
        /\ n \in 0..body /\ n # 0
    BY <1>0, <1>1, <2>1, TurnsType DEF State
  <2>3. \A q : q \in reached[n - 1] <=> q + 1 \in Ends(before, path, options) /\ q \in Nat
    BY <1>1, <1>2, <2>2, CutsAreEnds
  <2>4. \A m \in Places(path) : N >= m
    BY DEF Places
  <2> DEFINE Now(m) == m <= N /\ StandsFor(mask, n, options, Piece(path, m, N))
             rest == Rest(token)
  <2>5. \A m \in Places(path) : Now(m) <=> KeyEnds(rest, path, options, m, N)
    <3>1. n \in 1..Len(mask) /\ mask[n].kind # "character"
      BY <2>1
    <3>2. \A m \in Places(path) : Now(m) <=> KeyEnds(Rest(Token(mask[n], before.count, n < Len(mask))), path, options, m, N)
      BY <1>0, <1>4, <2>2, <3>1, RestStands
    <3> QED
      BY <2>2, <3>2
  <2> HIDE DEF before, token, rest, route, body
  <2>6. Whole <=> \E m \in Ends(before, path, options) : KeyEnds(rest, path, options, m, N)
    <3>1. \A m, b : Reaches(Extended(before), path, options, m, b) => m \in Places(path) /\ b \in Seq(Seq(STRING))
      BY ReachesType
    <3>2. \A m, b : (\E c : KeyTakes(rest, path, options, m, N, b, c)) <=> KeyEnds(rest, path, options, m, N)
      BY KeyEndsIs
    <3>3. \A m : m \in Ends(before, path, options) <=> \E b : Reaches(Extended(before), path, options, m, b)
      BY <3>1 DEF Ends
    <3> QED
      BY <2>1, <3>1, <3>2, <3>3 DEF rest
  <2>7. reached[n] = {q \in 0..Len(path) :
          \E p \in reached[n - 1] : p <= q /\ StandsFor(mask, n, options, SubSeq(path, p + 1, q))}
    BY <1>2, <2>2 DEF AreCuts, Cut, body
  <2>8. Len(path) \in reached[n] <=> \E p \in reached[n - 1] : Now(p + 1)
    <3>1. \A p \in reached[n - 1] : p \in Nat /\ (p <= Len(path) <=> p + 1 <= N)
      BY <1>0, <2>3
    <3>2. \A p \in reached[n - 1] : Now(p + 1) <=> p <= Len(path) /\ StandsFor(mask, n, options, SubSeq(path, p + 1, Len(path)))
      BY <1>0, <3>1 DEF Piece
    <3>3. Len(path) \in 0..Len(path)
      BY <1>0
    <3> HIDE DEF Now
    <3> QED
      BY <2>7, <3>2, <3>3
  <2> HIDE DEF Now
  <2>9. (\E p \in reached[n - 1] : Now(p + 1)) <=> \E m \in Ends(before, path, options) : Now(m)
    <3>1. \A m \in Ends(before, path, options) : m - 1 \in Nat /\ (m - 1) + 1 = m
      BY DEF Ends, Places
    <3>2. ASSUME NEW m \in Ends(before, path, options), Now(m) PROVE \E p \in reached[n - 1] : Now(p + 1)
      <4>1. m - 1 \in reached[n - 1] /\ Now((m - 1) + 1)
        BY <2>3, <3>1, <3>2
      <4> QED
        BY <4>1
    <3> QED
      BY <2>3, <3>2
  <2>10. \A m \in Ends(before, path, options) : m \in Places(path)
    BY DEF Ends
  <2> QED
    BY <1>2, <1>3, <1>4, <2>1, <2>5, <2>6, <2>8, <2>9, <2>10 DEF body
<1>5. CASE ~IsRest(mask, n, options)
  <2>1. body \in 0..Body(mask, options) /\ (body = Len(mask) => ~IsRest(mask, body, options))
    BY <1>0, <1>5
  <2>2. \A q : q \in reached[body] <=> q + 1 \in Ends(state[body], path, options) /\ q \in Nat
    BY <1>1, <1>2, <2>1, CutsAreEnds
  <2>3. Len(path) \in reached[body] <=> \E c : Reaches(Extended(state[body]), path, options, N, c)
    <3>1. Len(path) \in reached[body] <=> N \in Ends(state[body], path, options)
      BY <1>0, <2>2
    <3> HIDE DEF N, body
    <3> QED
      BY <1>0, <3>1 DEF Ends
  <2>4. path # <<>> => (Len(path) - 1 \in reached[body] <=>
                          \E c : Reaches(Extended(state[body]), path, options, Len(path), c))
    <3>1. path # <<>> => (Len(path) - 1 \in reached[body] <=> Len(path) \in Ends(state[body], path, options))
      BY <1>0, <2>2
    <3> HIDE DEF body
    <3> QED
      BY <1>0, <3>1 DEF Ends
  <2>5. CASE "STRICT" \in options
    <3>1. \A c : Reaches(route, path, options, N, c) <=> Reaches(Extended(state[body]), path, options, N, c)
      BY <1>1, <1>5, <2>5, RouteReaches
    <3> HIDE DEF route, body
    <3> QED
      BY <1>2, <1>3, <2>3, <2>5, <3>1
  <2>6. CASE "STRICT" \notin options
    <3>1. \A c : Reaches(route, path, options, N, c) <=>
                     \/ Reaches(Extended(state[body]), path, options, N, c)
                     \/ /\ path # <<>> /\ path[Len(path)] = "/"
                        /\ Reaches(Extended(state[body]), path, options, Len(path), c)
      BY <1>1, <1>5, <2>6, RouteReaches
    <3> HIDE DEF route, body
    <3> QED
      BY <1>2, <1>3, <1>5, <2>3, <2>4, <2>6, <3>1 DEF Last
  <2> QED
    BY <2>5, <2>6
<1> QED
  BY <1>4, <1>5

--------------------------------------------------------------------------------
(* The keys of a route: one for each parameter, in their order.            *)

\* The keys of the captures.
KeyOnly(part) == IF part.kind = "key" THEN <<part>> ELSE <<>>

\* The key of a part, if it is one.
LEMMA KeyOnlyType ==
  ASSUME NEW part \in Part
  PROVE  KeyOnly(part) \in Seq(KeyPart)
<1>1. part.kind = "key" => part \in KeyPart
  BY DEF Part, Text, Slash
<1> HIDE DEF KeyPart
<1> QED
  BY <1>1 DEF KeyOnly

\* The keys of parts are keys,
LEMMA KeysAre ==
  ASSUME NEW parts \in Seq(Part)
  PROVE  /\ [k \in DOMAIN parts |-> KeyOnly(parts[k])] \in Seq(Seq(KeyPart))
         /\ Keys(parts) = FlattenSeq([k \in DOMAIN parts |-> KeyOnly(parts[k])])
         /\ Keys(parts) \in Seq(KeyPart)
<1> DEFINE only == [k \in DOMAIN parts |-> KeyOnly(parts[k])]
<1>1. Len(parts) \in Nat /\ DOMAIN parts = 1..Len(parts) /\ \A k \in DOMAIN parts : parts[k] \in Part
  OBVIOUS
<1>2. \A k \in DOMAIN parts : KeyOnly(parts[k]) \in Seq(KeyPart)
  BY <1>1, KeyOnlyType
<1> HIDE DEF KeyPart
<1>3. only \in Seq(Seq(KeyPart))
  <2> DEFINE R == Seq(KeyPart)
  <2>1. \A k \in 1..Len(parts) : only[k] \in R
    BY <1>1, <1>2
  <2>2. only = [k \in 1..Len(parts) |-> only[k]]
    BY <1>1
  <2> HIDE DEF R, only
  <2>3. only \in Seq(R)
    BY <1>1, <2>1, <2>2
  <2> QED
    BY <2>3 DEF R
<1>4. Keys(parts) = FlattenSeq(only)
  BY DEF Keys, KeyOnly
<1> QED
  BY <1>3, <1>4, FlattenType

\* one more for a part that is a key,
LEMMA KeysAppend ==
  ASSUME NEW parts \in Seq(Part), NEW part \in Part
  PROVE  Keys(Append(parts, part)) = Keys(parts) \o KeyOnly(part)
<1> DEFINE more == Append(parts, part)
           n == Len(parts)
           ss == [k \in DOMAIN parts |-> KeyOnly(parts[k])]
           tt == [k \in DOMAIN more |-> KeyOnly(more[k])]
<1>1. /\ more \in Seq(Part) /\ n \in Nat /\ DOMAIN parts = 1..n /\ Len(more) = n + 1 /\ DOMAIN more = 1..(n + 1)
      /\ \A k \in DOMAIN parts : more[k] = parts[k]
      /\ more[n + 1] = part
  BY AppendAt
<1> HIDE DEF more, n
<1>2. ss \in Seq(Seq(KeyPart)) /\ Keys(parts) = FlattenSeq(ss)
  BY KeysAre
<1>3. tt \in Seq(Seq(KeyPart)) /\ Keys(more) = FlattenSeq(tt)
  BY <1>1, KeysAre
<1>4. DOMAIN ss = 1..n /\ DOMAIN tt = 1..(n + 1) /\ \A k \in 1..n : tt[k] = ss[k]
  <2>1. \A k \in 1..n : k \in 1..(n + 1)
    BY <1>1
  <2> QED
    BY <1>1, <2>1
<1>5. tt[n + 1] = KeyOnly(part)
  <2>1. n + 1 \in 1..(n + 1)
    BY <1>1
  <2> QED
    BY <1>1, <2>1
<1> HIDE DEF ss, tt, KeyPart
<1>6. Len(ss) = n /\ Len(tt) = n + 1
  <2> DEFINE R == Seq(KeyPart)
  <2>1. ss \in Seq(R) /\ tt \in Seq(R)
    BY <1>2, <1>3
  <2> HIDE DEF R
  <2> QED
    BY <1>1, <1>4, <2>1
<1>7. FlattenSeq(tt) = FlattenSeq(ss) \o tt[n + 1]
  BY <1>1, <1>2, <1>3, <1>4, <1>6, FlattenOneMore
<1> QED
  BY <1>2, <1>3, <1>5, <1>7 DEF more

\* and none for a text,
LEMMA KeysOfText ==
  ASSUME NEW tokens \in Seq(Part), NEW text \in Seq(STRING)
  PROVE  Keys(Append(tokens, Text(text))) = Keys(tokens) /\ Keys(Push(tokens, text)) = Keys(tokens)
<1>1. Text(text) \in Part /\ KeyOnly(Text(text)) = <<>>
  BY DEF Part, KeyOnly, Text
<1>2. Keys(tokens) \in Seq(KeyPart)
  BY KeysAre
<1>3. Keys(tokens) \o <<>> = Keys(tokens)
  BY <1>2
<1>4. Keys(Append(tokens, Text(text))) = Keys(tokens)
  BY <1>1, <1>3, KeysAppend
<1>5. Push(tokens, text) = tokens \/ Push(tokens, text) = Append(tokens, Text(text))
  BY DEF Push, Text
<1> QED
  BY <1>4, <1>5

\* for the slash,
LEMMA KeysOfSlash ==
  ASSUME NEW parts \in Seq(Part)
  PROVE  Keys(Append(parts, Slash)) = Keys(parts)
<1>1. Slash \in Part /\ KeyOnly(Slash) = <<>>
  BY DEF Part, KeyOnly, Slash
<1>2. Keys(parts) \in Seq(KeyPart)
  BY KeysAre
<1>3. Keys(parts) \o <<>> = Keys(parts)
  BY <1>2
<1> DEFINE part == Slash
<1>4. part \in Part /\ KeyOnly(part) = <<>>
  BY <1>1
<1> HIDE DEF part
<1>5. Keys(Append(parts, part)) = Keys(parts)
  BY <1>3, <1>4, KeysAppend
<1> QED
  BY <1>5 DEF part

\* but for a key itself.
LEMMA KeysOfKey ==
  ASSUME NEW parts \in Seq(Part), NEW key \in KeyPart
  PROVE  Keys(Append(parts, key)) = Append(Keys(parts), key)
<1>1. key \in Part /\ KeyOnly(key) = <<key>>
  BY KeyFields DEF Part, KeyOnly
<1>2. Keys(parts) \in Seq(KeyPart)
  BY KeysAre
<1>3. Keys(Append(parts, key)) = Keys(parts) \o <<key>>
  BY <1>1, KeysAppend
<1> HIDE DEF KeyPart
<1>4. Keys(parts) \o <<key>> = Append(Keys(parts), key)
  BY <1>2, ConcatOne
<1> QED
  BY <1>3, <1>4

\* Parameters, and those without a name among the first elements.
IsParameter(mask, k) == mask[k].kind = "parameter"
Unnamed(mask, k) == {j \in 1..k : mask[j].kind = "parameter" /\ mask[j].name = ""}

\* An element is a character or a parameter.
LEMMA KindIs ==
  ASSUME NEW mask \in Seq(Element), NEW k \in 1..Len(mask)
  PROVE  mask[k] \in Element /\ (mask[k].kind = "character" <=> ~IsParameter(mask, k))
<1>1. mask[k] \in Element
  OBVIOUS
<1> QED
  BY <1>1, ElementIs DEF IsParameter

\* The loop counts the parameters without a name,
LEMMA CountIs ==
  ASSUME NEW mask \in Seq(Element), NEW state, AreTurns(mask, state), NEW k \in 0..Len(mask)
  PROVE  state[k].count = Cardinality(Unnamed(mask, k))
<1> DEFINE Good(i) == state[i].count = Cardinality(Unnamed(mask, i)) /\ IsFiniteSet(Unnamed(mask, i))
           T == {i \in Nat : i <= Len(mask) => Good(i)}
<1>0. Len(mask) \in Nat
  OBVIOUS
<1>1. 0 \in T
  <2>1. Unnamed(mask, 0) = {}
    <3>1. \A j : j \notin 1..0
      OBVIOUS
    <3> QED
      BY <3>1 DEF Unnamed
  <2>2. state[0] = Begun
    BY TurnsType
  <2>3. state[0].count = 0
    BY <2>2 DEF Begun
  <2>4. Good(0)
    BY <2>1, <2>3, FS_EmptySet
  <2> QED
    BY <2>4
<1>2. ASSUME NEW i \in T PROVE i + 1 \in T
  <2> SUFFICES ASSUME i + 1 <= Len(mask) PROVE Good(i + 1)
    BY <1>2
  <2>1. i \in Nat /\ i <= Len(mask) /\ i + 1 \in 1..Len(mask) /\ (i + 1) - 1 = i /\ i \in 0..Len(mask)
    BY <1>0
  <2>2. Good(i)
    BY <1>2, <2>1
  <2> DEFINE element == mask[i + 1]
             followed == i + 1 < Len(mask)
  <2>3. state[i] \in State /\ state[i + 1] = Parsed(state[i], element, followed)
    BY <2>1, TurnsType
  <2>4. element.kind = "character" <=> ~IsParameter(mask, i + 1)
    BY <2>1, KindIs
  <2>5. \A j : j \in 1..(i + 1) <=> j \in 1..i \/ j = i + 1
    BY <2>1
  <2>6. i + 1 \notin Unnamed(mask, i)
    <3>1. ~(i + 1 \in 1..i)
      BY <2>1
    <3> QED
      BY <3>1 DEF Unnamed
  <2>7. CASE IsParameter(mask, i + 1) /\ element.name = ""
    <3>1. Unnamed(mask, i + 1) = Unnamed(mask, i) \cup {i + 1}
      BY <2>5, <2>7 DEF Unnamed, IsParameter
    <3> DEFINE tokens == Append(Push(state[i].tokens, state[i].path), Token(element, state[i].count, followed))
    <3>3. state[i + 1] = [path |-> <<>>, tokens |-> tokens, count |-> state[i].count + 1]
      BY <2>3, <2>4, <2>7 DEF Parsed
    <3> HIDE DEF tokens
    <3>2. state[i + 1].count = state[i].count + 1
      BY <3>3
    <3> QED
      BY <2>2, <2>6, <3>1, <3>2, FS_AddElement
  <2>8. CASE ~(IsParameter(mask, i + 1) /\ element.name = "")
    <3>1. Unnamed(mask, i + 1) = Unnamed(mask, i)
      BY <2>5, <2>8 DEF Unnamed, IsParameter
    <3>2. state[i + 1].count = state[i].count
      <4>1. CASE element.kind = "character"
        <5>1. state[i + 1] = [state[i] EXCEPT !.path = Append(@, element.is)]
          BY <2>3, <4>1 DEF Parsed
        <5> QED
          BY <2>3, <5>1 DEF State
      <4>2. CASE element.kind # "character"
        <5> DEFINE tokens == Append(Push(state[i].tokens, state[i].path), Token(element, state[i].count, followed))
        <5>1. state[i + 1] = [path |-> <<>>, tokens |-> tokens, count |-> state[i].count]
          BY <2>3, <2>4, <2>8, <4>2 DEF Parsed
        <5> HIDE DEF tokens
        <5> QED
          BY <5>1
      <4> QED
        BY <4>1, <4>2
    <3> QED
      BY <2>2, <3>1, <3>2
  <2> QED
    BY <2>7, <2>8
<1>3. T = Nat
  <2> HIDE DEF Good
  <2> QED
    BY <1>1, <1>2, NumberInduction
<1>4. k \in T /\ k <= Len(mask)
  BY <1>0, <1>3
<1> QED
  BY <1>4

\* and so a token has the value that KeyOf says.
LEMMA ParameterKey ==
  ASSUME NEW mask \in Seq(Element), NEW state, AreTurns(mask, state), NEW k \in 1..Len(mask),
         IsParameter(mask, k), NEW followed
  PROVE  Token(mask[k], state[k - 1].count, followed).value = KeyOf(mask, k)
<1>1. k - 1 \in 0..Len(mask)
  OBVIOUS
<1>2. state[k - 1].count = Cardinality(Unnamed(mask, k - 1))
  BY <1>1, CountIs
<1>3. Token(mask[k], state[k - 1].count, followed).value =
        IF mask[k].name = "" THEN Key("", state[k - 1].count) ELSE Key(mask[k].name, 0)
  BY DEF Token
<1> QED
  BY <1>2, <1>3 DEF KeyOf, Unnamed

\* The keys that the first elements of a mask have got.
Distinct(mask) ==
  \A j, k \in {i \in DOMAIN mask : mask[i].kind = "parameter"} : j # k => KeyOf(mask, j) # KeyOf(mask, k)

Numbered(mask, k, keys) ==
  /\ \A i \in 1..Len(keys) : \E j \in 1..k : IsParameter(mask, j) /\ keys[i].value = KeyOf(mask, j)
  /\ \A j \in 1..k : IsParameter(mask, j) => \E i \in 1..Len(keys) : keys[i].value = KeyOf(mask, j)
  /\ Distinct(mask) => \A i, l \in 1..Len(keys) : i # l => keys[i].value # keys[l].value

\* A parameter more has its key,
LEMMA NumberedMore ==
  ASSUME NEW mask \in Seq(Element), NEW k \in 1..Len(mask), IsParameter(mask, k),
         NEW keys \in Seq(KeyPart), Numbered(mask, k - 1, keys),
         NEW key \in KeyPart, key.value = KeyOf(mask, k)
  PROVE  Numbered(mask, k, Append(keys, key))
<1> DEFINE more == Append(keys, key)
           n == Len(keys)
<1>1. /\ n \in Nat /\ DOMAIN keys = 1..n /\ Len(more) = n + 1
      /\ more[n + 1] = key
  BY AppendAt
<1>2. \A i \in 1..n : more[i] = keys[i]
  BY <1>1, AppendAt
<1> HIDE DEF more, n, KeyPart
<1>3. k \in Nat /\ DOMAIN mask = 1..Len(mask) /\ Len(mask) \in Nat
  OBVIOUS
<1>4. \A j : j \in 1..k <=> j \in 1..(k - 1) \/ j = k
  BY <1>3
<1>5. \A i : i \in 1..(n + 1) <=> i \in 1..n \/ i = n + 1
  BY <1>1
<1>6. ~(k \in 1..(k - 1)) /\ ~(n + 1 \in 1..n) /\ n + 1 \in 1..(n + 1)
  BY <1>1, <1>3
<1>7. /\ \A i \in 1..n : \E j \in 1..(k - 1) : IsParameter(mask, j) /\ keys[i].value = KeyOf(mask, j)
      /\ \A j \in 1..(k - 1) : IsParameter(mask, j) => \E i \in 1..n : keys[i].value = KeyOf(mask, j)
      /\ Distinct(mask) => \A i, l \in 1..n : i # l => keys[i].value # keys[l].value
  BY DEF Numbered, n
<1>8. ASSUME NEW i \in 1..(n + 1)
      PROVE  \E j \in 1..k : IsParameter(mask, j) /\ more[i].value = KeyOf(mask, j)
  <2>1. CASE i \in 1..n
    <3>1. PICK j \in 1..(k - 1) : IsParameter(mask, j) /\ keys[i].value = KeyOf(mask, j)
      BY <1>7, <2>1
    <3> QED
      BY <1>2, <1>4, <2>1, <3>1
  <2>2. CASE i = n + 1
    BY <1>1, <2>2
  <2> QED
    BY <1>5, <2>1, <2>2
<1>9. ASSUME NEW j \in 1..k, IsParameter(mask, j)
      PROVE  \E i \in 1..(n + 1) : more[i].value = KeyOf(mask, j)
  <2>1. CASE j \in 1..(k - 1)
    <3>1. PICK i \in 1..n : keys[i].value = KeyOf(mask, j)
      BY <1>7, <1>9, <2>1
    <3> QED
      BY <1>2, <1>5, <3>1
  <2>2. CASE j = k
    BY <1>1, <1>6, <2>2
  <2> QED
    BY <1>4, <2>1, <2>2
<1>10. ASSUME Distinct(mask), NEW i \in 1..n PROVE more[i].value # more[n + 1].value
  <2>1. PICK j \in 1..(k - 1) : IsParameter(mask, j) /\ keys[i].value = KeyOf(mask, j)
    BY <1>7
  <2>2. j # k /\ j \in DOMAIN mask /\ k \in DOMAIN mask
    BY <1>3
  <2>3. KeyOf(mask, j) # KeyOf(mask, k)
    BY <1>10, <2>1, <2>2 DEF Distinct, IsParameter
  <2> QED
    BY <1>1, <1>2, <2>1, <2>3
<1>11. ASSUME Distinct(mask), NEW i \in 1..(n + 1), NEW l \in 1..(n + 1), i # l
       PROVE  more[i].value # more[l].value
  BY <1>2, <1>5, <1>7, <1>10, <1>11
<1> QED
  BY <1>1, <1>8, <1>9, <1>11 DEF Numbered, more

\* a character has none.
LEMMA NumberedSame ==
  ASSUME NEW mask \in Seq(Element), NEW k \in 1..Len(mask), ~IsParameter(mask, k),
         NEW keys, Numbered(mask, k - 1, keys)
  PROVE  Numbered(mask, k, keys)
<1>1. \A j : j \in 1..k <=> j \in 1..(k - 1) \/ j = k
  OBVIOUS
<1> QED
  BY <1>1 DEF Numbered

\* What a round of the loop does to the keys.
LEMMA KeysOfTurn ==
  ASSUME NEW mask \in Seq(Element), NEW state, AreTurns(mask, state), NEW k \in 1..Len(mask)
  PROVE  /\ Keys(state[k].tokens) \in Seq(KeyPart) /\ Keys(state[k - 1].tokens) \in Seq(KeyPart)
         /\ ~IsParameter(mask, k) => Keys(state[k].tokens) = Keys(state[k - 1].tokens)
         /\ IsParameter(mask, k) =>
              /\ Token(mask[k], state[k - 1].count, k < Len(mask)) \in KeyPart
              /\ Keys(state[k].tokens) =
                   Append(Keys(state[k - 1].tokens), Token(mask[k], state[k - 1].count, k < Len(mask)))
<1> DEFINE before == state[k - 1]
           after == state[k]
           followed == k < Len(mask)
           token == Token(mask[k], before.count, followed)
<1>1. k - 1 \in 0..Len(mask) /\ k \in 0..Len(mask) /\ followed \in BOOLEAN
  OBVIOUS
<1>2. before \in State /\ after \in State /\ mask[k] \in Element /\ after = Parsed(before, mask[k], followed)
  BY <1>1, TurnsType
<1>3. before.tokens \in Seq(Part) /\ before.path \in Seq(STRING) /\ after.tokens \in Seq(Part)
  BY <1>2 DEF State
<1>4. mask[k].kind = "character" <=> ~IsParameter(mask, k)
  BY KindIs
<1> HIDE DEF before, after, followed, token
<1>5. Keys(after.tokens) \in Seq(KeyPart) /\ Keys(before.tokens) \in Seq(KeyPart)
  BY <1>3, KeysAre
<1>6. CASE ~IsParameter(mask, k)
  <2>1. after.tokens = before.tokens
    BY <1>1, <1>2, <1>4, <1>6, LastCharacter
  <2> QED
    BY <1>5, <1>6, <2>1 DEF before, after
<1>7. CASE IsParameter(mask, k)
  <2> DEFINE pushed == Push(before.tokens, before.path)
  <2>1. after.tokens = Append(pushed, token) /\ token \in KeyPart /\ pushed \in Seq(Part)
    BY <1>1, <1>2, <1>4, <1>7, LastParameter DEF token
  <2>2. Keys(pushed) = Keys(before.tokens)
    BY <1>3, KeysOfText
  <2> HIDE DEF pushed
  <2>3. Keys(after.tokens) = Append(Keys(pushed), token)
    BY <2>1, KeysOfKey
  <2> QED
    BY <1>5, <1>7, <2>1, <2>2, <2>3 DEF before, after, followed, token
<1> QED
  BY <1>6, <1>7

\* After each round, the keys are those of the parameters up to there.
LEMMA TurnsNumbered ==
  ASSUME NEW mask \in Seq(Element), NEW state, AreTurns(mask, state), NEW k \in 0..Len(mask)
  PROVE  Numbered(mask, k, Keys(state[k].tokens))
<1> DEFINE T == {i \in Nat : i <= Len(mask) => Numbered(mask, i, Keys(state[i].tokens))}
<1>0. Len(mask) \in Nat
  OBVIOUS
<1>1. 0 \in T
  <2>1. state[0] = Begun
    BY TurnsType
  <2>2. Keys(state[0].tokens) = <<>>
    BY <2>1 DEF Begun, Keys, FlattenSeq
  <2>3. Numbered(mask, 0, <<>>)
    BY DEF Numbered
  <2> QED
    BY <2>2, <2>3
<1>2. ASSUME NEW i \in T PROVE i + 1 \in T
  <2> SUFFICES ASSUME i + 1 <= Len(mask) PROVE Numbered(mask, i + 1, Keys(state[i + 1].tokens))
    BY <1>2
  <2>1. i \in Nat /\ i <= Len(mask) /\ i + 1 \in 1..Len(mask) /\ (i + 1) - 1 = i
    BY <1>0
  <2> DEFINE keys == Keys(state[i].tokens)
             now == i + 1
             key == Token(mask[now], state[i].count, now < Len(mask))
  <2>2. Numbered(mask, now - 1, keys)
    BY <1>2, <2>1
  <2>3. /\ keys \in Seq(KeyPart)
        /\ ~IsParameter(mask, now) => Keys(state[now].tokens) = keys
        /\ IsParameter(mask, now) => key \in KeyPart /\ Keys(state[now].tokens) = Append(keys, key)
    BY <2>1, KeysOfTurn
  <2>4. IsParameter(mask, now) => key.value = KeyOf(mask, now)
    BY <2>1, ParameterKey
  <2> HIDE DEF keys, key
  <2> QED
    BY <2>1, <2>2, <2>3, <2>4, NumberedMore, NumberedSame
<1>3. T = Nat
  BY <1>1, <1>2, NumberInduction
<1>4. k \in T /\ k <= Len(mask)
  BY <1>0, <1>3
<1> QED
  BY <1>4

--------------------------------------------------------------------------------
(* A parameter that is filled in again gives the piece that stood for it.  *)

\* What texts are made of, the separators too.
Chars == STRING \cup {"/", "."}

\* Paths are such texts,
LEMMA Widened ==
  ASSUME NEW s \in Seq(STRING)
  PROVE  s \in Seq(Chars)
<1>1. \A k \in DOMAIN s : s[k] \in Chars
  BY DEF Chars
<1> QED
  BY <1>1, EachIn

\* and so are prefixes.
LEMMA SeparatorType ==
  ASSUME NEW prefix \in Separators
  PROVE  prefix \in Seq(Chars) /\ Len(prefix) \in Nat /\ (prefix = <<>> <=> Len(prefix) = 0)
<1>1. "/" \in Chars /\ "." \in Chars
  BY DEF Chars
<1>2. <<>> \in Seq(Chars) /\ <<"/">> \in Seq(Chars) /\ <<".">> \in Seq(Chars)
  <2> HIDE DEF Chars
  <2> QED
    BY <1>1
<1>3. Len(<<>>) = 0 /\ Len(<<"/">>) = 1 /\ Len(<<".">>) = 1
  OBVIOUS
<1>4. CASE prefix = <<>>
  BY <1>2, <1>3, <1>4
<1>5. CASE prefix = <<"/">>
  BY <1>2, <1>3, <1>5
<1>6. CASE prefix = <<".">>
  BY <1>2, <1>3, <1>6
<1> QED
  BY <1>4, <1>5, <1>6 DEF Separators

\* A text is like itself;
LEMMA AlikeSelf ==
  ASSUME NEW s, NEW options
  PROVE  Alike(s, s, options)
BY DEF Alike, Same

\* what is put together from texts that are alike is alike;
LEMMA AlikeConcat ==
  ASSUME NEW S, NEW s \in Seq(S), NEW t \in Seq(S), NEW u \in Seq(S), NEW v \in Seq(S), NEW options,
         Alike(s, t, options), Alike(u, v, options)
  PROVE  Alike(s \o u, t \o v, options) /\ s \o u \in Seq(S) /\ t \o v \in Seq(S)
<1> DEFINE a == s \o u
           b == t \o v
<1>1. /\ a \in Seq(S) /\ Len(a) = Len(s) + Len(u) /\ Len(s) \in Nat /\ Len(u) \in Nat
      /\ DOMAIN s = 1..Len(s) /\ DOMAIN u = 1..Len(u) /\ DOMAIN a = 1..Len(a)
      /\ \A i \in DOMAIN s : a[i] = s[i]
      /\ \A i \in DOMAIN u : a[Len(s) + i] = u[i]
  BY ConcatAt
<1>2. /\ b \in Seq(S) /\ Len(b) = Len(t) + Len(v) /\ DOMAIN t = 1..Len(t) /\ DOMAIN v = 1..Len(v)
      /\ \A i \in DOMAIN t : b[i] = t[i]
      /\ \A i \in DOMAIN v : b[Len(t) + i] = v[i]
  BY ConcatAt
<1> HIDE DEF a, b
<1>3. /\ Len(t) = Len(s) /\ Len(v) = Len(u)
      /\ \A k \in DOMAIN s : Same(s[k], t[k], options)
      /\ \A k \in DOMAIN u : Same(u[k], v[k], options)
  BY DEF Alike
<1>4. ASSUME NEW k \in DOMAIN a PROVE Same(a[k], b[k], options)
  <2>1. k \in 1..Len(s) \/ (k - Len(s) \in 1..Len(u) /\ Len(s) + (k - Len(s)) = k)
    BY <1>1
  <2>2. CASE k \in 1..Len(s)
    BY <1>1, <1>2, <1>3, <2>2
  <2>3. CASE k - Len(s) \in 1..Len(u) /\ Len(s) + (k - Len(s)) = k
    <3> DEFINE i == k - Len(s)
    <3>1. i \in DOMAIN u /\ i \in DOMAIN v /\ Len(s) + i = k
      BY <1>1, <1>2, <1>3, <2>3
    <3> HIDE DEF i
    <3>2. a[Len(s) + i] = u[i] /\ b[Len(t) + i] = v[i] /\ Same(u[i], v[i], options)
      BY <1>1, <1>2, <1>3, <3>1
    <3> QED
      BY <1>3, <3>1, <3>2
  <2> QED
    BY <2>1, <2>2, <2>3
<1>5. Len(a) = Len(b)
  BY <1>1, <1>2, <1>3
<1>6. Alike(a, b, options)
  BY <1>4, <1>5 DEF Alike
<1> QED
  BY <1>1, <1>2, <1>6 DEF a, b

\* so are texts of one character.
LEMMA AlikeOne ==
  ASSUME NEW c, NEW d, NEW options, Same(c, d, options)
  PROVE  Alike(<<d>>, <<c>>, options)
<1>1. Same(d, c, options)
  BY DEF Same
<1> QED
  BY <1>1 DEF Alike

\* Pieces of a path.
LEMMA PieceSplit ==
  ASSUME NEW path \in Seq(STRING), NEW l \in Places(path), NEW m \in Places(path), NEW e \in Places(path),
         l <= m, m <= e
  PROVE  Piece(path, l, e) = Piece(path, l, m) \o Piece(path, m, e)
<1> DEFINE whole == Piece(path, l, e)
           a == Piece(path, l, m)
           b == Piece(path, m, e)
<1>0. l \in Nat /\ m \in Nat /\ e \in Nat /\ l <= e
  BY DEF Places
<1>1. /\ whole \in Seq(STRING) /\ Len(whole) = e - l
      /\ \A j \in 1..(e - l) : whole[j] = path[(l + j) - 1]
  BY <1>0, PieceAt
<1>2. /\ a \in Seq(STRING) /\ Len(a) = m - l
      /\ \A j \in 1..(m - l) : a[j] = path[(l + j) - 1]
  BY PieceAt
<1>3. /\ b \in Seq(STRING) /\ Len(b) = e - m
      /\ \A j \in 1..(e - m) : b[j] = path[(m + j) - 1]
  BY PieceAt
<1> HIDE DEF whole, a, b
<1>4. /\ a \o b \in Seq(STRING) /\ Len(a \o b) = Len(a) + Len(b)
      /\ DOMAIN a = 1..Len(a) /\ DOMAIN b = 1..Len(b)
      /\ \A i \in DOMAIN a : (a \o b)[i] = a[i]
      /\ \A i \in DOMAIN b : (a \o b)[Len(a) + i] = b[i]
  <2> DEFINE S == STRING
  <2>1. a \in Seq(S) /\ b \in Seq(S)
    BY <1>2, <1>3
  <2> HIDE DEF S
  <2>2. a \o b \in Seq(S)
    BY <2>1, ConcatAt
  <2> QED
    BY <2>1, <2>2, ConcatAt DEF S
<1>5. ASSUME NEW j \in 1..(e - l) PROVE (a \o b)[j] = whole[j]
  <2>1. j \in 1..(m - l) \/ j - (m - l) \in 1..(e - m)
    BY <1>0
  <2>2. CASE j \in 1..(m - l)
    BY <1>1, <1>2, <1>4, <2>2
  <2>3. CASE j - (m - l) \in 1..(e - m)
    <3> DEFINE i == j - (m - l)
    <3>1. i \in 1..(e - m) /\ (m - l) + i = j /\ (m + i) - 1 = (l + j) - 1
      BY <1>0, <2>3
    <3> HIDE DEF i
    <3>2. (a \o b)[Len(a) + i] = b[i] /\ b[i] = path[(m + i) - 1]
      BY <1>3, <1>4, <3>1
    <3> QED
      BY <1>1, <1>2, <3>1, <3>2
  <2> QED
    BY <2>1, <2>2, <2>3
<1>6. Len(a \o b) = Len(whole) /\ Len(whole) = e - l
  BY <1>0, <1>1, <1>2, <1>3, <1>4
<1>7. a \o b = whole
  <2> DEFINE c == a \o b
  <2>1. c \in Seq(STRING) /\ Len(c) = Len(whole) /\ \A j \in 1..Len(whole) : c[j] = whole[j]
    BY <1>4, <1>5, <1>6
  <2> HIDE DEF c
  <2>2. c = whole
    BY <1>1, <2>1, SeqEqual
  <2> QED
    BY <2>2 DEF c
<1> QED
  BY <1>7 DEF whole, a, b

\* A prefix is like the piece where it stands.
LEMMA StandsAlike ==
  ASSUME NEW prefix \in Separators, NEW path \in Seq(STRING), NEW m \in Places(path), NEW options,
         Stands(prefix, path, m, options)
  PROVE  /\ m + Len(prefix) \in Places(path) /\ m <= m + Len(prefix)
         /\ Alike(prefix, Piece(path, m, m + Len(prefix)), options)
<1> DEFINE n == Len(prefix)
           e == m + n
           piece == Piece(path, m, e)
<1>1. n \in Nat /\ prefix \in Seq(Chars)
  BY SeparatorType
<1>2. m + n <= Len(path) + 1 /\ \A k \in DOMAIN prefix : Same(path[(m + k) - 1], prefix[k], options)
  <2>1. \A k \in DOMAIN prefix : m + k - 1 = (m + k) - 1
    BY <1>1 DEF Places
  <2> QED
    BY <2>1 DEF Stands
<1>3. DOMAIN prefix = 1..n
  BY <1>1
<1> HIDE DEF n
<1>4. m \in Nat /\ Len(path) \in Nat /\ e \in Places(path) /\ m <= e /\ e - m = n
  BY <1>1, <1>2 DEF Places
<1>5. Len(piece) = e - m /\ \A j \in 1..(e - m) : piece[j] = path[(m + j) - 1]
  BY <1>4, PieceAt
<1>6. \A k \in DOMAIN prefix : Same(prefix[k], piece[k], options)
  <2>1. \A k \in DOMAIN prefix : Same(piece[k], prefix[k], options)
    BY <1>2, <1>3, <1>4, <1>5
  <2> QED
    BY <2>1 DEF Same
<1>7. Alike(prefix, piece, options)
  BY <1>4, <1>5, <1>6 DEF Alike, n
<1> QED
  BY <1>4, <1>7 DEF n

\* What the element is filled with.
FillOf(mask, options, params, k) ==
  CASE mask[k].kind = "character" -> <<mask[k].is>>
    [] mask[k].kind = "parameter" /\ MayBeAbsent(mask, k, options)
         /\ params[KeyOf(mask, k)] = <<>> -> Absent(mask, k)
    [] OTHER -> mask[k].prefix \o params[KeyOf(mask, k)]

\* What the first elements are filled with, together.
Filling(mask, options, params, k) == [j \in 1..k |-> FillOf(mask, options, params, j)]
FilledTo(mask, options, params, k) == FlattenSeq(Filling(mask, options, params, k))

\* Filled fills all of them,
LEMMA FilledIs ==
  ASSUME NEW mask \in Seq(Element), NEW options, NEW params
  PROVE  Filled(mask, options, params) = FilledTo(mask, options, params, Len(mask))
<1>1. DOMAIN mask = 1..Len(mask)
  OBVIOUS
<1> QED
  BY <1>1 DEF Filled, FilledTo, Filling, FillOf

\* an element after the other,
LEMMA FilledMore ==
  ASSUME NEW mask, NEW options, NEW params, NEW k \in Nat,
         \A j \in 1..(k + 1) : FillOf(mask, options, params, j) \in Seq(Chars)
  PROVE  /\ FilledTo(mask, options, params, k + 1) =
              FilledTo(mask, options, params, k) \o FillOf(mask, options, params, k + 1)
         /\ FilledTo(mask, options, params, k) \in Seq(Chars)
         /\ FilledTo(mask, options, params, k + 1) \in Seq(Chars)
<1> DEFINE R == Seq(Chars)
           ss == Filling(mask, options, params, k)
           tt == Filling(mask, options, params, k + 1)
<1>1. \A j \in 1..k : j \in 1..(k + 1)
  OBVIOUS
<1>2. /\ ss \in [1..k -> R] /\ tt \in [1..(k + 1) -> R]
      /\ \A j \in 1..k : tt[j] = ss[j]
      /\ tt[k + 1] = FillOf(mask, options, params, k + 1)
  <2> HIDE DEF R
  <2>1. \A j \in 1..(k + 1) : FillOf(mask, options, params, j) \in R
    BY DEF R
  <2>2. k + 1 \in 1..(k + 1)
    OBVIOUS
  <2> QED
    BY <1>1, <2>1, <2>2 DEF Filling
<1> HIDE DEF ss, tt, R
<1>3. ss \in Seq(R) /\ tt \in Seq(R) /\ Len(ss) = k /\ Len(tt) = k + 1
  BY <1>2
<1> HIDE DEF Chars
<1>4. FlattenSeq(tt) = FlattenSeq(ss) \o tt[k + 1] /\ FlattenSeq(ss) \in Seq(Chars)
  BY <1>2, <1>3, FlattenOneMore DEF R
<1>5. FlattenSeq(tt) \in Seq(Chars)
  BY <1>3, FlattenType DEF R
<1> QED
  BY <1>2, <1>4, <1>5 DEF FilledTo, ss, tt

\* from nothing on.
LEMMA FilledNone ==
  ASSUME NEW mask, NEW options, NEW params
  PROVE  FilledTo(mask, options, params, 0) = <<>>
<1>1. Filling(mask, options, params, 0) = <<>>
  BY DEF Filling
<1> QED
  BY <1>1 DEF FilledTo, FlattenSeq

\* A prefix and what follows it.
LEMMA GivenAlike ==
  ASSUME NEW prefix \in Separators, NEW path \in Seq(STRING), NEW m \in Places(path), NEW e \in Places(path),
         NEW options, Stands(prefix, path, m, options), m + Len(prefix) <= e
  PROVE  /\ m <= e /\ Piece(path, m + Len(prefix), e) \in Seq(STRING)
         /\ prefix \o Piece(path, m + Len(prefix), e) \in Seq(Chars)
         /\ Alike(prefix \o Piece(path, m + Len(prefix), e), Piece(path, m, e), options)
<1> DEFINE l == m + Len(prefix)
           a == Piece(path, m, l)
           b == Piece(path, l, e)
<1>1. l \in Places(path) /\ m <= l /\ Alike(prefix, a, options) /\ l <= e
  BY StandsAlike
<1> HIDE DEF l
<1>2. m \in Nat /\ l \in Nat /\ e \in Nat /\ m <= e
  BY <1>1 DEF Places
<1>3. a \in Seq(STRING) /\ b \in Seq(STRING)
  BY <1>1, PieceAt
<1>4. Piece(path, m, e) = a \o b
  BY <1>1, PieceSplit
<1> HIDE DEF a, b
<1>5. a \in Seq(Chars) /\ b \in Seq(Chars) /\ prefix \in Seq(Chars)
  BY <1>3, Widened, SeparatorType
<1>6. Alike(b, b, options)
  BY AlikeSelf
<1> HIDE DEF Chars
<1>7. Alike(prefix \o b, a \o b, options) /\ prefix \o b \in Seq(Chars)
  BY <1>1, <1>5, <1>6, AlikeConcat
<1> QED
  BY <1>2, <1>3, <1>4, <1>7 DEF b, l

\* Where a capture begins and ends.
LEMMA CaptureAfter ==
  ASSUME NEW key \in KeyPart, NEW path \in Seq(STRING), NEW at \in Nat \ {0}, NEW e \in CaptureEnds(key, path, at)
  PROVE  /\ e \in Places(path) /\ at <= e
         /\ key.pattern # "any" => at < e
<1>1. CASE key.repeat
  BY <1>1 DEF CaptureEnds, Row, Places
<1>2. CASE ~key.repeat
  BY <1>2 DEF CaptureEnds, OnceEnds, Places
<1> QED
  BY <1>1, <1>2

\* An empty piece.
LEMMA EmptyPieces ==
  ASSUME NEW path \in Seq(STRING), NEW m \in Places(path)
  PROVE  Piece(path, m, m) = <<>>
<1>1. m <= m
  BY DEF Places
<1> QED
  BY <1>1, EmptyPiece

\* A character gives the piece that stood for it,
LEMMA CharacterFills ==
  ASSUME NEW mask \in Seq(Element), NEW k \in 1..Len(mask), mask[k].kind = "character", NEW options, NEW params,
         NEW path \in Seq(STRING), NEW m \in Places(path), m <= Len(path), Same(path[m], mask[k].is, options)
  PROVE  LET fill == FillOf(mask, options, params, k)
         IN  /\ m + 1 \in Places(path) /\ m <= m + 1
             /\ fill \in Seq(Chars) /\ fill = <<mask[k].is>>
             /\ Alike(fill, Piece(path, m, m + 1), options)
<1> DEFINE is == mask[k].is
           fill == FillOf(mask, options, params, k)
<1>1. is \in STRING
  <2>1. mask[k] \in Element
    OBVIOUS
  <2> QED
    BY <2>1, ElementIs
<1>2. fill = <<is>>
  BY DEF FillOf
<1>3. m + 1 \in Places(path) /\ m <= m + 1 /\ m \in Nat /\ m \in 1..Len(path) /\ (m + 1) - 1 = m /\ path[m] \in STRING
  BY DEF Places
<1>4. Piece(path, m, m + 1) = <<path[m]>>
  <2>1. Piece(path, m, m + 1) = SubSeq(path, m, m)
    BY <1>3 DEF Piece
  <2>2. SubSeq(path, m, m) = <<path[m]>>
    <3> DEFINE s == SubSeq(path, m, m)
               x == path[m]
               S == STRING
    <3>0. path \in Seq(S) /\ m \in 1..(Len(path) + 1) /\ m \in (m - 1)..Len(path) /\ (m - m) + 1 = 1 /\ (m + 1) - 1 = m
      BY <1>3
    <3> HIDE DEF S
    <3>1. s \in Seq(S) /\ Len(s) = 1 /\ s[1] = x
      BY <1>3, <3>0, SubSeqAt
    <3> HIDE DEF s, x
    <3>2. s = <<s[1]>>
      BY <3>1, OneEntry
    <3> QED
      BY <3>1, <3>2 DEF s, x
  <2> QED
    BY <2>1, <2>2
<1>5. Alike(<<is>>, <<path[m]>>, options)
  BY AlikeOne
<1>6. <<is>> \in Seq(Chars)
  <2>1. is \in Chars
    BY <1>1 DEF Chars
  <2> HIDE DEF is, Chars
  <2> QED
    BY <2>1
<1> QED
  BY <1>2, <1>3, <1>4, <1>5, <1>6

\* A parameter that is given what follows its prefix.
LEMMA TakenFills ==
  ASSUME NEW mask \in Seq(Element), NEW k \in 1..Len(mask), IsParameter(mask, k), NEW options, NEW params,
         NEW key \in KeyPart, key.prefix = mask[k].prefix,
         MayBeAbsent(mask, k, options) => key.pattern # "any",
         NEW path \in Seq(STRING), NEW m \in Places(path), NEW e,
         Stands(key.prefix, path, m, options), e \in CaptureEnds(key, path, m + Len(key.prefix)),
         params[KeyOf(mask, k)] = SubSeq(path, m + Len(key.prefix), e - 1)
  PROVE  LET fill == FillOf(mask, options, params, k)
         IN  /\ e \in Places(path) /\ m <= e /\ fill \in Seq(Chars)
             /\ params[KeyOf(mask, k)] \in Seq(STRING)
             /\ Alike(fill, Piece(path, m, e), options)
<1> DEFINE prefix == key.prefix
           l == m + Len(prefix)
           given == params[KeyOf(mask, k)]
<1>1. prefix \in Separators
  BY KeyFields
<1> HIDE DEF prefix
<1>2. l \in Places(path) /\ l \in Nat \ {0}
  BY <1>1, StandsAlike DEF Places, prefix
<1>3. e \in CaptureEnds(key, path, l) /\ given = Piece(path, l, e)
  BY DEF Piece, prefix
<1> HIDE DEF given
<1>4. e \in Places(path) /\ l <= e /\ (key.pattern # "any" => l < e)
  BY <1>2, <1>3, CaptureAfter
<1>5. /\ m <= e /\ given \in Seq(STRING) /\ prefix \o given \in Seq(Chars)
      /\ Alike(prefix \o given, Piece(path, m, e), options)
  BY <1>1, <1>3, <1>4, GivenAlike DEF prefix
<1>6. ~(MayBeAbsent(mask, k, options) /\ given = <<>>)
  <2>1. given = <<>> <=> l = e
    BY <1>2, <1>3, <1>4, EmptyPiece
  <2>2. l < e => l # e
    BY <1>2, <1>4 DEF Places
  <2> QED
    BY <1>4, <2>1, <2>2
<1>7. FillOf(mask, options, params, k) = prefix \o given
  <2>1. mask[k].kind = "parameter" /\ mask[k].kind # "character"
    BY DEF IsParameter
  <2> QED
    BY <1>6, <2>1 DEF FillOf, given, prefix
<1> QED
  BY <1>4, <1>5, <1>7 DEF given

\* A parameter that is left out.
LEMMA LeftFills ==
  ASSUME NEW mask \in Seq(Element), NEW k \in 1..Len(mask), IsParameter(mask, k), NEW options, NEW params,
         MayBeAbsent(mask, k, options), params[KeyOf(mask, k)] = <<>>, mask[k].prefix \in Separators,
         NEW path \in Seq(STRING), NEW m \in Places(path), NEW e,
         IF mask[k].prefix # <<>> /\ k < Len(mask)
           THEN Stands(mask[k].prefix, path, m, options) /\ e = m + Len(mask[k].prefix) ELSE e = m
  PROVE  LET fill == FillOf(mask, options, params, k)
         IN  /\ e \in Places(path) /\ m <= e /\ fill \in Seq(Chars)
             /\ Alike(fill, Piece(path, m, e), options)
<1> DEFINE prefix == mask[k].prefix
           none == <<>>
<1>1. FillOf(mask, options, params, k) = Absent(mask, k)
  <2>1. mask[k].kind = "parameter" /\ mask[k].kind # "character"
    BY DEF IsParameter
  <2> QED
    BY <2>1 DEF FillOf
<1>2. none \in Seq(Chars) /\ prefix \in Seq(Chars)
  BY SeparatorType
<1>3. CASE prefix # <<>> /\ k < Len(mask)
  <2>1. Absent(mask, k) = prefix
    BY <1>3 DEF Absent
  <2>2. Stands(prefix, path, m, options) /\ e = m + Len(prefix)
    BY <1>3
  <2> HIDE DEF prefix
  <2>3. prefix \in Separators
    BY DEF prefix
  <2> QED
    BY <1>1, <1>2, <2>1, <2>2, <2>3, StandsAlike
<1>4. CASE ~(prefix # <<>> /\ k < Len(mask))
  <2>1. Absent(mask, k) = none /\ e = m
    BY <1>4 DEF Absent
  <2>2. Piece(path, m, m) = none /\ m <= m
    BY EmptyPieces DEF Places
  <2>3. Alike(none, none, options)
    BY AlikeSelf
  <2> HIDE DEF none, Chars
  <2> QED
    BY <1>1, <1>2, <2>1, <2>2, <2>3
<1> QED
  BY <1>3, <1>4

--------------------------------------------------------------------------------
(* The elements of a mask, filled in one after the other, give the path again. *)

\* The parameters of which the keys are given the captures.
Gives(keys, c, params) == \A i \in 1..Len(keys) : params[keys[i].value] = c[i]

\* A path up to e, and the first elements filled with what they have captured.
FillsTo(mask, options, path, k, params, e) ==
  /\ \A j \in 1..k : FillOf(mask, options, params, j) \in Seq(Chars)
  /\ FilledTo(mask, options, params, k) \in Seq(Chars)
  /\ Alike(FilledTo(mask, options, params, k), Piece(path, 1, e), options)

\* Nothing has been filled in for the beginning of the path.
LEMMA FillsNone ==
  ASSUME NEW mask, NEW options, NEW path \in Seq(STRING), NEW params
  PROVE  FillsTo(mask, options, path, 0, params, 1)
<1> DEFINE none == <<>>
<1>1. FilledTo(mask, options, params, 0) = none
  BY FilledNone
<1>2. 1 \in Places(path)
  BY DEF Places
<1>3. Piece(path, 1, 1) = none
  BY <1>2, EmptyPieces
<1>4. none \in Seq(Chars) /\ \A j : j \notin 1..0
  OBVIOUS
<1>5. Alike(none, none, options)
  BY AlikeSelf
<1> HIDE DEF none, Chars
<1> QED
  BY <1>1, <1>3, <1>4, <1>5 DEF FillsTo

\* An element that gives its piece goes on with what is filled in.
LEMMA FillsMore ==
  ASSUME NEW mask, NEW options, NEW path \in Seq(STRING), NEW params, NEW k \in Nat,
         NEW m \in Places(path), FillsTo(mask, options, path, k, params, m),
         NEW e \in Places(path), m <= e,
         FillOf(mask, options, params, k + 1) \in Seq(Chars),
         Alike(FillOf(mask, options, params, k + 1), Piece(path, m, e), options)
  PROVE  FillsTo(mask, options, path, k + 1, params, e)
<1> DEFINE fill == FillOf(mask, options, params, k + 1)
           before == FilledTo(mask, options, params, k)
           after == FilledTo(mask, options, params, k + 1)
           a == Piece(path, 1, m)
           b == Piece(path, m, e)
<1>1. \A j \in 1..(k + 1) : FillOf(mask, options, params, j) \in Seq(Chars)
  <2>1. \A j \in 1..(k + 1) : j \in 1..k \/ j = k + 1
    OBVIOUS
  <2> QED
    BY <2>1 DEF FillsTo
<1>2. after = before \o fill /\ before \in Seq(Chars) /\ after \in Seq(Chars)
  BY <1>1, FilledMore
<1>3. 1 \in Places(path) /\ 1 <= m
  BY DEF Places
<1>4. a \in Seq(STRING) /\ b \in Seq(STRING) /\ Piece(path, 1, e) = a \o b
  BY <1>3, PieceAt, PieceSplit
<1>5. Alike(before, a, options) /\ Alike(fill, b, options)
  BY DEF FillsTo
<1> HIDE DEF a, b, before, fill, after
<1>6. a \in Seq(Chars) /\ b \in Seq(Chars)
  BY <1>4, Widened
<1>7. fill \in Seq(Chars)
  BY DEF fill
<1> HIDE DEF Chars
<1>8. Alike(before \o fill, a \o b, options)
  BY <1>2, <1>5, <1>6, <1>7, AlikeConcat
<1> QED
  BY <1>1, <1>2, <1>4, <1>8 DEF FillsTo, after

\* What a round of the loop adds.
Extends(c, b) == Len(c) = Len(b) + 1 /\ \A i \in 1..Len(b) : c[i] = b[i]
FillsPiece(mask, options, params, k, path, m, e, b, c) ==
  params[KeyOf(mask, k)] = c[Len(b) + 1] =>
    /\ e \in Places(path) /\ m <= e /\ FillOf(mask, options, params, k) \in Seq(Chars)
    /\ Alike(FillOf(mask, options, params, k), Piece(path, m, e), options)

\* A parameter gives its piece when it is given what it has captured.
LEMMA ParameterFills ==
  ASSUME NEW mask \in Seq(Element), NEW k \in 1..Len(mask), IsParameter(mask, k), NEW options,
         ~IsRest(mask, k, options), NEW count \in Nat, NEW params,
         NEW path \in Seq(STRING), NEW m \in Places(path), NEW e, NEW b \in Seq(Seq(STRING)), NEW c,
         NEW followed \in BOOLEAN, followed = (k < Len(mask)),
         KeyTakes(Token(mask[k], count, followed), path, options, m, e, b, c)
  PROVE  Extends(c, b) /\ FillsPiece(mask, options, params, k, path, m, e, b, c)
<1> DEFINE key == Token(mask[k], count, followed)
           none == <<>>
           given == SubSeq(path, m + Len(key.prefix), e - 1)
           R == Seq(STRING)
<1>1. mask[k] \in Element /\ followed \in BOOLEAN /\ mask[k].kind # "character"
  BY KindIs
<1>2. /\ key \in KeyPart /\ key.prefix = mask[k].prefix /\ key.pattern = mask[k].pattern
      /\ key.repeat = (mask[k].modifier \in {"+", "*"})
      /\ key.optional = (mask[k].modifier \in {"?", "*"})
      /\ key.partial = (mask[k].prefix # <<>> /\ followed)
  <2> QED
    BY <1>1, TokenType
<1>3. mask[k].prefix \in Separators /\ (mask[k].pattern = "any" => mask[k].modifier = "")
  BY <1>1, ElementIs
<1>4. MayBeAbsent(mask, k, options) <=> key.optional
  BY <1>2 DEF MayBeAbsent
<1>5. KeyTakes(key, path, options, m, e, b, c)
  OBVIOUS
<1>6. MayBeAbsent(mask, k, options) => key.pattern # "any"
  BY <1>2, <1>3 DEF MayBeAbsent
<1> HIDE DEF key, given, none
<1>7. CASE /\ Stands(key.prefix, path, m, options)
           /\ e \in CaptureEnds(key, path, m + Len(key.prefix))
           /\ c = Append(b, given)
  <2>1. given \in R
    <3>1. key.prefix \in Separators
      BY <1>2, <1>3
    <3> DEFINE l == m + Len(key.prefix)
    <3>2. l \in Places(path) /\ l \in Nat \ {0}
      BY <1>7, <3>1, StandsAlike DEF Places
    <3> HIDE DEF l
    <3>3. e \in Places(path) /\ l <= e
      BY <1>2, <1>7, <3>2, CaptureAfter DEF l
    <3> QED
      BY <3>2, <3>3, PieceAt DEF Piece, given, l
  <2> HIDE DEF R
  <2>2. b \in Seq(R)
    BY DEF R
  <2>3. Len(c) = Len(b) + 1 /\ (\A i \in 1..Len(b) : c[i] = b[i]) /\ c[Len(b) + 1] = given
    BY <1>7, <2>1, <2>2
  <2>4. ASSUME params[KeyOf(mask, k)] = given
        PROVE  /\ e \in Places(path) /\ m <= e /\ FillOf(mask, options, params, k) \in Seq(Chars)
               /\ Alike(FillOf(mask, options, params, k), Piece(path, m, e), options)
    BY <1>2, <1>6, <1>7, <2>4, TakenFills DEF given
  <2> QED
    BY <2>3, <2>4 DEF Extends, FillsPiece
<1>8. CASE /\ key.optional /\ c = Append(b, none)
           /\ IF mask[k].prefix # <<>> /\ followed
                THEN Stands(mask[k].prefix, path, m, options) /\ e = m + Len(mask[k].prefix) ELSE e = m
  <2>1. none \in R
    BY DEF none
  <2>2. params[KeyOf(mask, k)] = none =>
              /\ e \in Places(path) /\ m <= e /\ FillOf(mask, options, params, k) \in Seq(Chars)
              /\ Alike(FillOf(mask, options, params, k), Piece(path, m, e), options)
    BY <1>3, <1>4, <1>8, LeftFills DEF none
  <2> HIDE DEF R
  <2>3. b \in Seq(R)
    BY DEF R
  <2>4. Len(c) = Len(b) + 1 /\ (\A i \in 1..Len(b) : c[i] = b[i]) /\ c[Len(b) + 1] = none
    BY <1>8, <2>1, <2>3
  <2> QED
    BY <2>2, <2>4 DEF Extends, FillsPiece
<1>9. \/ /\ Stands(key.prefix, path, m, options)
         /\ e \in CaptureEnds(key, path, m + Len(key.prefix))
         /\ c = Append(b, given)
      \/ /\ key.optional /\ ~key.partial /\ e = m
         /\ c = Append(b, none)
      \/ /\ key.optional /\ key.partial /\ Stands(key.prefix, path, m, options)
         /\ e = m + Len(key.prefix)
         /\ c = Append(b, none)
  BY <1>5 DEF KeyTakes, given, none
<1> QED
  BY <1>2, <1>7, <1>8, <1>9

\* For every run over the tokens of the first elements: those elements, filled with
\* its captures, give the path up to where it ends.
Rebuilt(mask, options, path, k, state) ==
  \A e, c : Reaches(Extended(state[k]), path, options, e, c) =>
    /\ Len(c) = Len(Keys(state[k].tokens))
    /\ \A params : Gives(Keys(state[k].tokens), c, params) => FillsTo(mask, options, path, k, params, e)

\* Before the first round,
LEMMA BegunReaches ==
  ASSUME NEW path \in Seq(STRING), NEW options, NEW e, NEW c, Reaches(Extended(Begun), path, options, e, c)
  PROVE  e = 1 /\ c = <<>>
<1> DEFINE none == <<>>
<1>1. Extended(Begun) = Append(none, Text(none)) /\ none \in Seq(Part) /\ none \in Seq(STRING)
  BY DEF Extended, Begun
<1> HIDE DEF none
<1>2. PICK m \in Places(path) : Reaches(none, path, options, m, c) /\ e = m + Len(none)
  BY <1>1, ReachesText
<1>3. Len(none) = 0 /\ none = <<>>
  BY DEF none
<1>4. m = 1 /\ c = <<>>
  BY <1>2, <1>3, ReachesNone
<1> QED
  BY <1>2, <1>3, <1>4

\* nothing is to be filled in;
LEMMA RebuiltNone ==
  ASSUME NEW mask \in Seq(Element), NEW state, AreTurns(mask, state), NEW options, NEW path \in Seq(STRING)
  PROVE  Rebuilt(mask, options, path, 0, state)
<1>1. state[0] = Begun
  BY TurnsType
<1>2. Keys(state[0].tokens) = <<>>
  BY <1>1 DEF Begun, Keys, FlattenSeq
<1> SUFFICES ASSUME NEW e, NEW c, Reaches(Extended(state[0]), path, options, e, c)
             PROVE  Len(c) = 0 /\ \A params : FillsTo(mask, options, path, 0, params, e)
  BY <1>2 DEF Rebuilt
<1>3. e = 1 /\ c = <<>>
  BY <1>1, BegunReaches
<1> QED
  BY <1>3, FillsNone

\* each round keeps that up,
LEMMA RebuiltMore ==
  ASSUME NEW mask \in Seq(Element), NEW state, AreTurns(mask, state), NEW options, NEW path \in Seq(STRING),
         NEW k \in Nat, k + 1 \in 1..Len(mask), ~IsRest(mask, k + 1, options),
         Rebuilt(mask, options, path, k, state)
  PROVE  Rebuilt(mask, options, path, k + 1, state)
<1> DEFINE now == k + 1
           before == state[k]
           after == state[k + 1]
           followed == k + 1 < Len(mask)
           token == Token(mask[k + 1], before.count, followed)
           keys == Keys(before.tokens)
<1>1. now \in 1..Len(mask) /\ now - 1 = k /\ k \in 0..Len(mask) /\ followed \in BOOLEAN
  OBVIOUS
<1>2. /\ before \in State /\ before.count \in Nat /\ mask[now] \in Element
      /\ after = Parsed(before, mask[now], followed)
  <2>1. before \in State /\ mask[now] \in Element /\ after = Parsed(before, mask[now], followed)
    BY <1>1, TurnsType
  <2> QED
    BY <2>1 DEF State
<1>3. /\ keys \in Seq(KeyPart)
      /\ ~IsParameter(mask, now) => Keys(after.tokens) = keys
      /\ IsParameter(mask, now) => token \in KeyPart /\ Keys(after.tokens) = Append(keys, token)
  BY <1>1, KeysOfTurn
<1>4. IsParameter(mask, now) => token.value = KeyOf(mask, now)
  BY <1>1, ParameterKey
<1>5. mask[now].kind = "character" <=> ~IsParameter(mask, now)
  BY <1>1, KindIs
<1> HIDE DEF before, after, followed, keys, token
<1> SUFFICES ASSUME NEW e, NEW c, Reaches(Extended(after), path, options, e, c)
             PROVE  /\ Len(c) = Len(Keys(after.tokens))
                    /\ \A params : Gives(Keys(after.tokens), c, params) => FillsTo(mask, options, path, now, params, e)
  BY DEF Rebuilt, after
<1>6. PICK m \in Places(path), b \in Seq(Seq(STRING)) :
        /\ Reaches(Extended(before), path, options, m, b)
        /\ ElementTakes(mask[now], before.count, followed, path, options, m, e, b, c)
  BY <1>1, <1>2, ParsedReaches
<1>7. /\ Len(b) = Len(keys)
      /\ \A params : Gives(keys, b, params) => FillsTo(mask, options, path, k, params, m)
  BY <1>6 DEF Rebuilt, before, keys
<1> HIDE DEF now
<1>8. CASE ~IsParameter(mask, now)
  <2>1. m <= Len(path) /\ Same(path[m], mask[now].is, options) /\ e = m + 1 /\ c = b
    BY <1>5, <1>6, <1>8 DEF ElementTakes
  <2>2. ASSUME NEW params, Gives(keys, c, params) PROVE FillsTo(mask, options, path, now, params, e)
    <3>1. FillsTo(mask, options, path, k, params, m)
      BY <1>7, <2>1, <2>2
    <3>2. /\ e \in Places(path) /\ m <= e /\ FillOf(mask, options, params, now) \in Seq(Chars)
          /\ Alike(FillOf(mask, options, params, now), Piece(path, m, e), options)
      BY <1>1, <1>5, <1>8, <2>1, CharacterFills
    <3> QED
      BY <3>1, <3>2, FillsMore DEF now
  <2> QED
    BY <1>3, <1>7, <1>8, <2>1, <2>2
<1>9. CASE IsParameter(mask, now)
  <2>1. KeyTakes(token, path, options, m, e, b, c)
    BY <1>5, <1>6, <1>9 DEF ElementTakes, token, now
  <2>2. KeyTakes(Token(mask[now], before.count, followed), path, options, m, e, b, c)
    BY <2>1 DEF token, now
  <2>3. ~IsRest(mask, now, options)
    BY DEF now
  <2> DEFINE count == before.count
  <2>7. /\ now \in 1..Len(mask) /\ count \in Nat /\ followed \in BOOLEAN /\ followed = (now < Len(mask))
        /\ KeyTakes(Token(mask[now], count, followed), path, options, m, e, b, c)
    BY <1>1, <1>2, <2>2 DEF followed, now
  <2> HIDE DEF count
  <2>8. \A params : Extends(c, b) /\ FillsPiece(mask, options, params, now, path, m, e, b, c)
    BY <1>6, <1>9, <2>3, <2>7, ParameterFills
  <2>4. Len(c) = Len(b) + 1 /\ \A i \in 1..Len(b) : c[i] = b[i]
    BY <2>8 DEF Extends
  <2>5. /\ Len(keys) \in Nat /\ DOMAIN keys = 1..Len(keys) /\ Len(Append(keys, token)) = Len(keys) + 1
        /\ \A i \in DOMAIN keys : Append(keys, token)[i] = keys[i]
        /\ Append(keys, token)[Len(keys) + 1] = token
    BY <1>3, <1>9, AppendAt
  <2>6. ASSUME NEW params, Gives(Append(keys, token), c, params) PROVE FillsTo(mask, options, path, now, params, e)
    <3>1. /\ \A i \in 1..Len(keys) : i \in 1..(Len(keys) + 1)
          /\ Len(keys) + 1 \in 1..(Len(keys) + 1)
      BY <2>5
    <3>2. Gives(keys, b, params) /\ params[token.value] = c[Len(keys) + 1]
      BY <1>7, <2>4, <2>5, <2>6, <3>1 DEF Gives
    <3>3. FillsTo(mask, options, path, k, params, m)
      BY <1>7, <3>2
    <3>4. params[KeyOf(mask, now)] = c[Len(b) + 1]
      BY <1>4, <1>7, <1>9, <3>2
    <3>5. /\ e \in Places(path) /\ m <= e /\ FillOf(mask, options, params, now) \in Seq(Chars)
          /\ Alike(FillOf(mask, options, params, now), Piece(path, m, e), options)
      BY <2>8, <3>4 DEF FillsPiece
    <3> QED
      BY <3>3, <3>5, FillsMore DEF now
  <2> QED
    BY <1>3, <1>7, <1>9, <2>4, <2>5, <2>6
<1> QED
  BY <1>8, <1>9

\* to the last.
LEMMA RebuiltTo ==
  ASSUME NEW mask \in Seq(Element), NEW state, AreTurns(mask, state), NEW options, NEW path \in Seq(STRING),
         NEW k \in 0..Len(mask), k = Len(mask) => ~IsRest(mask, k, options)
  PROVE  Rebuilt(mask, options, path, k, state)
<1> DEFINE T == {i \in Nat : i <= k => Rebuilt(mask, options, path, i, state)}
<1>0. Len(mask) \in Nat /\ k \in Nat /\ k <= Len(mask)
  OBVIOUS
<1>1. 0 \in T
  BY RebuiltNone
<1>2. ASSUME NEW i \in T PROVE i + 1 \in T
  <2> SUFFICES ASSUME i + 1 <= k PROVE Rebuilt(mask, options, path, i + 1, state)
    BY <1>2
  <2>1. i \in Nat /\ i <= k /\ i + 1 \in 1..Len(mask)
    BY <1>0
  <2>2. Rebuilt(mask, options, path, i, state)
    BY <1>2, <2>1
  <2>3. ~IsRest(mask, i + 1, options)
    <3>1. i + 1 # Len(mask) \/ i + 1 = k
      BY <1>0, <2>1
    <3> QED
      BY <3>1 DEF IsRest
  <2> QED
    BY <2>1, <2>2, <2>3, RebuiltMore
<1>3. T = Nat
  BY <1>1, <1>2, NumberInduction
<1>4. k \in T
  BY <1>0, <1>3
<1> QED
  BY <1>0, <1>4

\* With keys of distinct values, each is given its own capture.
LEMMA ParamsGive ==
  ASSUME NEW description, NEW path, NEW options, description.keys \in Seq(KeyPart),
         \A i, l \in 1..Len(description.keys) : i # l => description.keys[i].value # description.keys[l].value
  PROVE  Gives(description.keys, Captured(description.route, path, options)[1], Params(description, path, options))
<1> DEFINE keys == description.keys
           captured == Captured(description.route, path, options)[1]
           values == {keys[k].value : k \in DOMAIN keys}
           Latest(v) == CHOOSE k \in DOMAIN keys :
                          /\ keys[k].value = v
                          /\ \A j \in DOMAIN keys : keys[j].value = v => j <= k
           params == [v \in values |-> captured[Latest(v)]]
<1>1. DOMAIN keys = 1..Len(keys) /\ Len(keys) \in Nat
  <2> HIDE DEF KeyPart
  <2> QED
    OBVIOUS
<1>2. Params(description, path, options) = params
  BY DEF Params
<1>3. \A i, l \in 1..Len(keys) : i # l => keys[i].value # keys[l].value
  OBVIOUS
<1> HIDE DEF keys, captured
<1>4. ASSUME NEW i \in 1..Len(keys) PROVE params[keys[i].value] = captured[i]
  <2> DEFINE v == keys[i].value
  <2>1. v \in values
    BY <1>1
  <2>2. \A j \in DOMAIN keys : keys[j].value = v => j = i
    BY <1>1, <1>3
  <2>3. i \in DOMAIN keys /\ i <= i
    BY <1>1
  <2>4. \E k \in DOMAIN keys : /\ keys[k].value = v
                               /\ \A j \in DOMAIN keys : keys[j].value = v => j <= k
    BY <2>2, <2>3
  <2>5. Latest(v) \in DOMAIN keys /\ keys[Latest(v)].value = v
    BY <2>4
  <2>6. Latest(v) = i
    BY <2>2, <2>5
  <2> HIDE DEF Latest
  <2> QED
    BY <2>1, <2>6
<1> HIDE DEF params
<1>5. Gives(keys, captured, params)
  BY <1>4 DEF Gives
<1> QED
  BY <1>2, <1>5 DEF keys, captured

\* The parameter that takes the rest gives its piece as well.
LEMMA RestFills ==
  ASSUME NEW mask \in Seq(Element), NEW k \in 1..Len(mask), IsParameter(mask, k), NEW options,
         IsRest(mask, k, options), NEW key \in KeyPart, key.prefix = mask[k].prefix, ~key.optional,
         NEW path \in Seq(STRING), NEW m \in Places(path), NEW e, NEW b \in Seq(Seq(STRING)), NEW c,
         KeyTakes(key, path, options, m, e, b, c)
  PROVE  Extends(c, b) /\ \A params : FillsPiece(mask, options, params, k, path, m, e, b, c)
<1> DEFINE given == SubSeq(path, m + Len(key.prefix), e - 1)
           R == Seq(STRING)
<1>1. /\ Stands(key.prefix, path, m, options)
      /\ e \in CaptureEnds(key, path, m + Len(key.prefix))
      /\ c = Append(b, given)
  BY DEF KeyTakes
<1> HIDE DEF given
<1>2. given \in R
  <2>1. key.prefix \in Separators
    BY KeyFields
  <2> DEFINE l == m + Len(key.prefix)
  <2>2. l \in Places(path) /\ l \in Nat \ {0}
    BY <1>1, <2>1, StandsAlike DEF Places
  <2> HIDE DEF l
  <2>3. e \in Places(path) /\ l <= e
    BY <1>1, <2>2, CaptureAfter DEF l
  <2> QED
    BY <2>2, <2>3, PieceAt DEF Piece, given, l
<1>3. ~MayBeAbsent(mask, k, options)
  BY DEF MayBeAbsent
<1>4. ASSUME NEW params, params[KeyOf(mask, k)] = given
      PROVE  /\ e \in Places(path) /\ m <= e /\ FillOf(mask, options, params, k) \in Seq(Chars)
             /\ Alike(FillOf(mask, options, params, k), Piece(path, m, e), options)
  BY <1>1, <1>3, <1>4, TakenFills DEF given
<1> HIDE DEF R
<1>5. b \in Seq(R)
  BY DEF R
<1>6. Len(c) = Len(b) + 1 /\ (\A i \in 1..Len(b) : c[i] = b[i]) /\ c[Len(b) + 1] = given
  BY <1>1, <1>2, <1>5
<1> QED
  BY <1>4, <1>6 DEF Extends, FillsPiece

\* The keys of the expression are those of the parameters of the mask.
LEMMA RouteKeys ==
  ASSUME NEW mask \in Seq(Element), NEW state, AreTurns(mask, state), NEW options,
         Tokens(mask) = Push(state[Len(mask)].tokens, state[Len(mask)].path)
  PROVE  LET n == Len(mask)
             keys == Keys(Route(Tokens(mask), options))
             key == Rest(Token(mask[n], state[n - 1].count, FALSE))
         IN  /\ keys \in Seq(KeyPart) /\ Numbered(mask, n, keys)
             /\ ~IsRest(mask, n, options) => keys = Keys(state[Body(mask, options)].tokens)
             /\ IsRest(mask, n, options) =>
                  /\ key \in KeyPart /\ key.prefix = mask[n].prefix /\ ~key.optional /\ key.value = KeyOf(mask, n)
                  /\ Keys(state[n - 1].tokens) \in Seq(KeyPart)
                  /\ keys = Append(Keys(state[n - 1].tokens), key)
<1> DEFINE n == Len(mask)
           route == Route(Tokens(mask), options)
           body == Body(mask, options)
           before == state[n - 1]
           end == state[n]
           followed == FALSE
           token == Token(mask[n], before.count, followed)
           key == Rest(token)
<1>1. /\ IsRest(mask, n, options) =>
           /\ n \in 1..Len(mask) /\ mask[n].kind = "parameter" /\ body = n
           /\ token \in KeyPart
           /\ Push(before.tokens, before.path) \in Seq(Part)
           /\ route = Append(Push(before.tokens, before.path), key)
      /\ ~IsRest(mask, n, options) /\ "STRICT" \in options =>
           body = n /\ route = Push(end.tokens, end.path)
      /\ ~IsRest(mask, n, options) /\ "STRICT" \notin options =>
           \/ /\ body = n - 1 /\ n # 0 /\ mask[n] = Character("/")
              /\ route = Append(Extended(before), Slash) /\ end.tokens = before.tokens
           \/ body = n /\ route = Append(Push(end.tokens, end.path), Slash)
  BY RouteIs
<1>2. n \in 0..Len(mask) /\ n \in Nat /\ (n # 0 => n - 1 \in 0..Len(mask) /\ n \in 1..Len(mask))
  OBVIOUS
<1> HIDE DEF n
<1>3. end \in State /\ (n # 0 => before \in State)
  BY <1>2, TurnsType DEF n
<1>4. end.tokens \in Seq(Part) /\ end.path \in Seq(STRING)
  BY <1>3 DEF State
<1>5. n # 0 => before.tokens \in Seq(Part) /\ before.path \in Seq(STRING)
  BY <1>3 DEF State
<1>6. Numbered(mask, n, Keys(end.tokens)) /\ (n # 0 => Numbered(mask, n - 1, Keys(before.tokens)))
  BY <1>2, TurnsNumbered DEF n
<1>7. Keys(end.tokens) \in Seq(KeyPart) /\ (n # 0 => Keys(before.tokens) \in Seq(KeyPart))
  BY <1>4, <1>5, KeysAre
<1> HIDE DEF end, before, route, body, token, key
<1>8. CASE IsRest(mask, n, options)
  <2>1. n # 0 /\ IsParameter(mask, n) /\ n \in 1..Len(mask)
    BY <1>1, <1>2, <1>8 DEF IsParameter, n
  <2>2. mask[n] \in Element /\ mask[n].kind # "character" /\ before.count \in Nat /\ followed \in BOOLEAN
    BY <1>3, <2>1, KindIs DEF State
  <2>3. token.prefix = mask[n].prefix
    BY <2>2, TokenType DEF token
  <2>4. token.value = KeyOf(mask, n)
    <3>1. AreTurns(mask, state) /\ state[n - 1].count = before.count
      BY DEF before
    <3> QED
      BY <2>1, ParameterKey DEF token, before
  <2>5. key \in KeyPart /\ key.prefix = token.prefix /\ ~key.optional /\ key.value = token.value
    BY <1>1, <1>8, RestType DEF key
  <2> DEFINE pushed == Push(before.tokens, before.path)
             keys == Keys(before.tokens)
  <2>6. Keys(pushed) = keys
    BY <1>5, <2>1, KeysOfText
  <2>7. pushed \in Seq(Part) /\ route = Append(pushed, key)
    BY <1>1, <1>8
  <2> HIDE DEF pushed, keys
  <2>8. Keys(route) = Append(keys, key)
    BY <2>5, <2>6, <2>7, KeysOfKey
  <2>9. keys \in Seq(KeyPart) /\ Numbered(mask, n - 1, keys)
    BY <1>6, <1>7, <2>1 DEF keys
  <2>10. Append(keys, key) \in Seq(KeyPart)
    <3> HIDE DEF KeyPart
    <3> QED
      BY <2>5, <2>9
  <2>11. Numbered(mask, n, Append(keys, key))
    BY <2>1, <2>3, <2>4, <2>5, <2>9, NumberedMore
  <2> QED
    BY <1>8, <2>3, <2>4, <2>5, <2>8, <2>9, <2>10, <2>11 DEF keys, key, token, before, route, n
<1>9. CASE ~IsRest(mask, n, options) /\ "STRICT" \in options
  <2>1. Keys(route) = Keys(end.tokens)
    BY <1>1, <1>4, <1>9, KeysOfText
  <2>2. body = n
    BY <1>1, <1>9
  <2> QED
    BY <1>6, <1>7, <1>9, <2>1, <2>2 DEF route, body, end, n
<1>10. CASE ~IsRest(mask, n, options) /\ "STRICT" \notin options
  <2>1. CASE /\ body = n - 1 /\ n # 0
             /\ route = Append(Extended(before), Slash) /\ end.tokens = before.tokens
    <3> DEFINE extended == Extended(before)
    <3>1. extended \in Seq(Part) /\ Keys(extended) = Keys(before.tokens)
      <4>1. Text(before.path) \in Part
        BY <1>5, <2>1 DEF Part
      <4> HIDE DEF Part
      <4> QED
        BY <1>5, <2>1, <4>1, KeysOfText DEF Extended
    <3> HIDE DEF extended
    <3>2. Keys(route) = Keys(before.tokens)
      BY <2>1, <3>1, KeysOfSlash DEF extended
    <3> QED
      BY <1>6, <1>7, <1>10, <2>1, <3>2 DEF route, body, end, before, n
  <2>2. CASE body = n /\ route = Append(Push(end.tokens, end.path), Slash)
    <3> DEFINE pushed == Push(end.tokens, end.path)
    <3>1. pushed \in Seq(Part) /\ Keys(pushed) = Keys(end.tokens)
      BY <1>4, PushType, KeysOfText
    <3> HIDE DEF pushed
    <3>2. Keys(route) = Keys(end.tokens)
      BY <2>2, <3>1, KeysOfSlash DEF pushed
    <3> QED
      BY <1>6, <1>7, <1>10, <2>2, <3>2 DEF route, body, end, n
  <2> QED
    BY <1>1, <1>10, <2>1, <2>2
<1> QED
  BY <1>8, <1>9, <1>10

\* The path again, but for a slash at an end.
Again(filled, path, options) ==
  \/ Alike(filled, path, options)
  \/ /\ "STRICT" \notin options
     /\ \/ Alike(Append(filled, "/"), path, options)
        \/ Alike(filled, Append(path, "/"), options)

\* All of a path is a piece of it, so is all but its last character.
LEMMA WholePiece ==
  ASSUME NEW path \in Seq(STRING)
  PROVE  /\ Len(path) + 1 \in Places(path) /\ Piece(path, 1, Len(path) + 1) = path
         /\ path # <<>> => Len(path) \in Places(path) /\ Append(Piece(path, 1, Len(path)), path[Len(path)]) = path
                           /\ Piece(path, 1, Len(path)) \in Seq(STRING) /\ path[Len(path)] \in STRING
<1> DEFINE n == Len(path)
           S == STRING
<1>1. n \in Nat /\ (n + 1) - 1 = n /\ 1 <= n + 1 /\ DOMAIN path = 1..n
  OBVIOUS
<1>2. n + 1 \in Places(path) /\ 1 \in Places(path) /\ (path # <<>> => n \in Places(path) /\ 1 <= n /\ n \in DOMAIN path)
  BY DEF Places
<1>3. /\ Piece(path, 1, n + 1) \in Seq(STRING) /\ Len(Piece(path, 1, n + 1)) = (n + 1) - 1
      /\ \A j \in 1..((n + 1) - 1) : Piece(path, 1, n + 1)[j] = path[(1 + j) - 1]
  BY <1>1, <1>2, PieceAt
<1>4. Piece(path, 1, n + 1) = path
  <2> DEFINE whole == Piece(path, 1, n + 1)
  <2>1. whole \in Seq(S) /\ Len(whole) = Len(path)
    BY <1>1, <1>3
  <2>2. \A j \in 1..Len(whole) : whole[j] = path[j]
    <3>1. \A j \in 1..n : (1 + j) - 1 = j
      BY <1>1
    <3> QED
      BY <1>1, <1>3, <2>1, <3>1
  <2>3. path \in Seq(S)
    OBVIOUS
  <2> HIDE DEF whole, S
  <2>4. whole = path
    BY <2>1, <2>2, <2>3, SeqEqual
  <2> QED
    BY <2>4 DEF whole
<1>5. ASSUME path # <<>>
      PROVE  Append(Piece(path, 1, n), path[n]) = path /\ Piece(path, 1, n) \in Seq(STRING)
  <2> DEFINE short == Piece(path, 1, n)
             last == path[n]
             more == Append(short, last)
  <2>1. /\ short \in Seq(S) /\ Len(short) = n - 1
        /\ \A j \in 1..(n - 1) : short[j] = path[(1 + j) - 1]
    BY <1>2, <1>5, PieceAt
  <2>2. last \in S /\ path \in Seq(S)
    BY <1>2, <1>5
  <2> HIDE DEF short, last, S
  <2>3. /\ more \in Seq(S) /\ Len(short) \in Nat /\ DOMAIN short = 1..Len(short) /\ Len(more) = Len(short) + 1
        /\ \A k \in DOMAIN short : more[k] = short[k]
        /\ more[Len(short) + 1] = last
    BY <2>1, <2>2, AppendAt
  <2> HIDE DEF more, n
  <2>4. Len(more) = n
    BY <1>1, <2>1, <2>3
  <2>5. ASSUME NEW j \in 1..n PROVE more[j] = path[j]
    <3>1. (j \in 1..(n - 1) \/ j = n) /\ (1 + j) - 1 = j /\ (n - 1) + 1 = n
      BY <1>1
    <3>2. CASE j \in 1..(n - 1)
      BY <2>1, <2>3, <3>1, <3>2
    <3>3. CASE j = n
      BY <2>1, <2>3, <3>1, <3>3 DEF last
    <3> QED
      BY <3>1, <3>2, <3>3
  <2>6. more = path
    BY <2>2, <2>3, <2>4, <2>5, SeqEqual DEF n
  <2> QED
    BY <2>1, <2>6 DEF more, short, last, n, S
<1> QED
  BY <1>2, <1>4, <1>5

\* Texts that are alike stay so with the same character behind them.
LEMMA AppendAlike ==
  ASSUME NEW s \in Seq(Chars), NEW t \in Seq(Chars), NEW options, Alike(s, t, options), NEW x \in Chars
  PROVE  Alike(Append(s, x), Append(t, x), options)
<1> DEFINE one == <<x>>
<1> HIDE DEF Chars
<1>1. one \in Seq(Chars)
  OBVIOUS
<1>2. Append(s, x) = s \o one /\ Append(t, x) = t \o one
  BY ConcatOne
<1>3. Alike(one, one, options)
  BY AlikeSelf
<1> HIDE DEF one
<1>4. Alike(s \o one, t \o one, options)
  BY <1>1, <1>3, AlikeConcat
<1> QED
  BY <1>2, <1>4

\* The mask without the slash at its end, filled, is the path, or all of it but a slash.
LEMMA LooseAgain ==
  ASSUME NEW path \in Seq(STRING), NEW options, "STRICT" \notin options,
         NEW before \in Seq(Chars), NEW filled, NEW slashed \in BOOLEAN,
         filled = IF slashed THEN Append(before, "/") ELSE before,
         \/ Alike(before, Piece(path, 1, Len(path) + 1), options)
         \/ path # <<>> /\ path[Len(path)] = "/" /\ Alike(before, Piece(path, 1, Len(path)), options)
  PROVE  Again(filled, path, options)
<1> DEFINE slash == "/"
           short == Piece(path, 1, Len(path))
<1>1. slash \in Chars
  BY DEF Chars
<1>2. path \in Seq(Chars)
  BY Widened
<1>3. filled = IF slashed THEN Append(before, slash) ELSE before
  OBVIOUS
<1>4. Again(filled, path, options) <=>
        \/ Alike(filled, path, options)
        \/ Alike(Append(filled, slash), path, options)
        \/ Alike(filled, Append(path, slash), options)
  BY DEF Again
<1>5. path # <<>> /\ path[Len(path)] = slash => short \in Seq(Chars) /\ Append(short, slash) = path
  <2>1. path # <<>> => short \in Seq(STRING) /\ Append(short, path[Len(path)]) = path
    BY WholePiece
  <2> HIDE DEF slash, short
  <2> QED
    BY <2>1, Widened
<1>6. \/ Alike(before, path, options)
      \/ path # <<>> /\ path[Len(path)] = slash /\ Alike(before, short, options)
  BY WholePiece
<1> HIDE DEF slash, short, Chars
<1>7. CASE Alike(before, path, options)
  <2>1. Alike(Append(before, slash), Append(path, slash), options)
    BY <1>1, <1>2, <1>7, AppendAlike
  <2> QED
    BY <1>3, <1>4, <1>7, <2>1
<1>8. CASE path # <<>> /\ path[Len(path)] = slash /\ Alike(before, short, options)
  <2>1. Alike(Append(before, slash), Append(short, slash), options)
    BY <1>1, <1>5, <1>8, AppendAlike
  <2>2. Alike(Append(before, slash), path, options)
    BY <1>5, <1>8, <2>1
  <2> QED
    BY <1>3, <1>4, <2>2
<1> QED
  BY <1>6, <1>7, <1>8

\* The three ends: the whole mask has given the path,
LEMMA FillsWhole ==
  ASSUME NEW mask \in Seq(Element), NEW options, NEW path \in Seq(STRING), NEW params,
         FillsTo(mask, options, path, Len(mask), params, Len(path) + 1)
  PROVE  Again(Filled(mask, options, params), path, options)
<1>1. Alike(FilledTo(mask, options, params, Len(mask)), Piece(path, 1, Len(path) + 1), options)
  BY DEF FillsTo
<1>2. Alike(Filled(mask, options, params), path, options)
  BY <1>1, FilledIs, WholePiece
<1> QED
  BY <1>2 DEF Again

\* the mask or all but its slash have given all of it but a slash,
LEMMA FillsLoose ==
  ASSUME NEW mask \in Seq(Element), NEW options, "STRICT" \notin options, NEW path \in Seq(STRING), NEW params,
         NEW e, FillsTo(mask, options, path, Body(mask, options), params, e),
         e = Len(path) + 1 \/ (e = Len(path) /\ path # <<>> /\ path[Len(path)] = "/")
  PROVE  Again(Filled(mask, options, params), path, options)
<1> DEFINE n == Len(mask)
           body == Body(mask, options)
           before == FilledTo(mask, options, params, body)
           filled == FilledTo(mask, options, params, n)
           slash == "/"
<1>1. before \in Seq(Chars) /\ Alike(before, Piece(path, 1, e), options)
  BY DEF FillsTo
<1>2. filled = before \/ filled = Append(before, slash)
  <2>1. CASE body = n
    BY <2>1
  <2>2. CASE body # n
    <3>1. body = n - 1 /\ n # 0 /\ Last(mask) = Character("/")
      BY <2>2 DEF Body
    <3>2. body \in Nat /\ body + 1 = n /\ n \in Nat
      BY <3>1
    <3>3. mask[n] = Character(slash)
      BY <3>1 DEF Last
    <3>4. mask[n].kind = "character" /\ mask[n].is = slash
      BY <3>3 DEF Character
    <3> HIDE DEF slash
    <3>5. FillOf(mask, options, params, n) = <<slash>>
      BY <3>4 DEF FillOf
    <3>6. slash \in Chars
      BY DEF slash, Chars
    <3>7. \A j \in 1..body : FillOf(mask, options, params, j) \in Seq(Chars)
      BY DEF FillsTo
    <3> HIDE DEF body, n, Chars
    <3>8. <<slash>> \in Seq(Chars)
      BY <3>6
    <3>9. \A j \in 1..(body + 1) : FillOf(mask, options, params, j) \in Seq(Chars)
      <4>1. \A j \in 1..(body + 1) : j \in 1..body \/ j = n
        BY <3>2
      <4> QED
        BY <3>5, <3>7, <3>8, <4>1
    <3>10. FilledTo(mask, options, params, body + 1) = before \o FillOf(mask, options, params, body + 1)
      BY <3>2, <3>9, FilledMore
    <3>11. before \o <<slash>> = Append(before, slash)
      <4> HIDE DEF before
      <4> QED
        BY <1>1, <3>6, ConcatOne
    <3> QED
      BY <3>2, <3>5, <3>10, <3>11
  <2> QED
    BY <2>1, <2>2
<1> HIDE DEF before, filled, Chars
<1>3. \/ Alike(before, Piece(path, 1, Len(path) + 1), options)
      \/ path # <<>> /\ path[Len(path)] = "/" /\ Alike(before, Piece(path, 1, Len(path)), options)
  BY <1>1
<1>4. Again(filled, path, options)
  <2>1. CASE filled = before
    <3>1. filled = IF FALSE THEN Append(before, "/") ELSE before
      BY <2>1
    <3> DEFINE slashed == FALSE
    <3>2. slashed \in BOOLEAN /\ filled = IF slashed THEN Append(before, "/") ELSE before
      BY <3>1
    <3> HIDE DEF slashed
    <3> QED
      BY <1>1, <1>3, <3>2, LooseAgain
  <2>2. CASE filled = Append(before, slash)
    <3> DEFINE slashed == TRUE
    <3>2. slashed \in BOOLEAN /\ filled = IF slashed THEN Append(before, "/") ELSE before
      BY <2>2
    <3> HIDE DEF slashed
    <3> QED
      BY <1>1, <1>3, <3>2, LooseAgain
  <2> QED
    BY <1>2, <2>1, <2>2
<1> QED
  BY <1>4, FilledIs DEF filled, n

\* or the last parameter has taken the rest.
LEMMA RestRebuilt ==
  ASSUME NEW mask \in Seq(Element), NEW state, AreTurns(mask, state), NEW options, NEW path \in Seq(STRING),
         NEW n \in 1..Len(mask), n = Len(mask), IsRest(mask, n, options), NEW key \in KeyPart,
         key.prefix = mask[n].prefix, ~key.optional, key.value = KeyOf(mask, n),
         Keys(state[n - 1].tokens) \in Seq(KeyPart),
         NEW e, NEW c, NEW m \in Places(path), NEW b \in Seq(Seq(STRING)),
         Reaches(Extended(state[n - 1]), path, options, m, b), KeyTakes(key, path, options, m, e, b, c),
         NEW params, Gives(Append(Keys(state[n - 1].tokens), key), c, params)
  PROVE  FillsTo(mask, options, path, n, params, e)
<1> DEFINE k == n - 1
           keys == Keys(state[k].tokens)
<1>1. k \in Nat /\ k + 1 = n /\ k \in 0..Len(mask) /\ k # Len(mask)
  OBVIOUS
<1>2. Rebuilt(mask, options, path, k, state)
  BY <1>1, RebuiltTo
<1>3. Len(b) = Len(keys) /\ (Gives(keys, b, params) => FillsTo(mask, options, path, k, params, m))
  BY <1>2 DEF Rebuilt
<1>4. IsParameter(mask, n)
  BY DEF IsRest, IsParameter
<1>5. Extends(c, b) /\ FillsPiece(mask, options, params, n, path, m, e, b, c)
  BY <1>4, RestFills
<1> DEFINE more == Append(keys, key)
<1>6. /\ Len(keys) \in Nat /\ DOMAIN keys = 1..Len(keys) /\ Len(more) = Len(keys) + 1
      /\ \A i \in DOMAIN keys : more[i] = keys[i]
      /\ more[Len(keys) + 1] = key
  BY AppendAt
<1>7. Gives(more, c, params) /\ key.value = KeyOf(mask, n)
  OBVIOUS
<1> HIDE DEF keys, k, more
<1>8. /\ \A i \in 1..Len(keys) : i \in 1..(Len(keys) + 1)
      /\ Len(keys) + 1 \in 1..(Len(keys) + 1)
  BY <1>6
<1>9. Gives(keys, b, params) /\ params[key.value] = c[Len(keys) + 1]
  BY <1>3, <1>5, <1>6, <1>7, <1>8 DEF Gives, Extends
<1>10. FillsTo(mask, options, path, k, params, m)
  BY <1>3, <1>9
<1>11. /\ e \in Places(path) /\ m <= e /\ FillOf(mask, options, params, n) \in Seq(Chars)
       /\ Alike(FillOf(mask, options, params, n), Piece(path, m, e), options)
  BY <1>3, <1>5, <1>7, <1>9 DEF FillsPiece
<1> QED
  BY <1>1, <1>10, <1>11, FillsMore

\* A path that matches is what the parameters, filled in, give again.
LEMMA Rebuilds ==
  ASSUME NEW mask \in Seq(Element), NEW options, NEW path \in Seq(STRING), Distinct(mask),
         Matches(Description(mask, options), path, options)
  PROVE  Again(Filled(mask, options, Params(Description(mask, options), path, options)), path, options)
<1> DEFINE n == Len(mask)
           N == Len(path) + 1
           route == Route(Tokens(mask), options)
           keys == Keys(route)
           description == Description(mask, options)
           params == Params(description, path, options)
           c == Captured(route, path, options)[1]
           body == Body(mask, options)
<1>1. n \in Nat
  OBVIOUS
<1>2. PICK state : AreTurns(mask, state) /\ Tokens(mask) = Push(state[n].tokens, state[n].path)
  BY <1>1, TokensBy
<1> DEFINE before == state[n - 1]
           key == Rest(Token(mask[n], before.count, FALSE))
<1>3. description.route = route /\ description.keys = keys
  BY DEF Description
<1>4. /\ keys \in Seq(KeyPart) /\ Numbered(mask, n, keys)
      /\ ~IsRest(mask, n, options) => keys = Keys(state[body].tokens)
      /\ IsRest(mask, n, options) =>
           /\ key \in KeyPart /\ key.prefix = mask[n].prefix /\ ~key.optional /\ key.value = KeyOf(mask, n)
           /\ Keys(before.tokens) \in Seq(KeyPart)
           /\ keys = Append(Keys(before.tokens), key)
  BY <1>2, RouteKeys
<1>5. Gives(keys, c, params)
  <2>1. \A i, l \in 1..Len(keys) : i # l => keys[i].value # keys[l].value
    BY <1>4 DEF Numbered
  <2> HIDE DEF keys, description, route
  <2> QED
    BY <1>3, <1>4, <2>1, ParamsGive
<1>6. /\ route \in Seq(Part)
      /\ IsRest(mask, n, options) =>
           /\ n \in 1..Len(mask) /\ mask[n].kind = "parameter" /\ body = n
           /\ Reaches(route, path, options, N, c) <=>
                \E m \in Places(path), b \in Seq(Seq(STRING)) :
                  /\ Reaches(Extended(before), path, options, m, b)
                  /\ KeyTakes(key, path, options, m, N, b, c)
      /\ ~IsRest(mask, n, options) /\ "STRICT" \in options =>
           body = n /\ (Reaches(route, path, options, N, c) <=> Reaches(Extended(state[body]), path, options, N, c))
      /\ ~IsRest(mask, n, options) /\ "STRICT" \notin options =>
           (Reaches(route, path, options, N, c) <=>
              \/ Reaches(Extended(state[body]), path, options, N, c)
              \/ /\ path # <<>> /\ path[Len(path)] = "/"
                 /\ Reaches(Extended(state[body]), path, options, Len(path), c))
  <2> HIDE DEF c
  <2> QED
    BY <1>2, RouteReaches
<1>7. Reaches(route, path, options, N, c)
  <2>1. Captured(route, path, options) # <<>>
    BY <1>3 DEF Matches
  <2> HIDE DEF route
  <2> QED
    BY <1>6, <2>1, CapturedIs
<1> HIDE DEF route, keys, description, params, c, key, before, body
<1>8. CASE IsRest(mask, n, options)
  <2>1. PICK m \in Places(path), b \in Seq(Seq(STRING)) :
          /\ Reaches(Extended(before), path, options, m, b)
          /\ KeyTakes(key, path, options, m, N, b, c)
    BY <1>6, <1>7, <1>8
  <2>2. Gives(Append(Keys(before.tokens), key), c, params)
    BY <1>4, <1>5, <1>8
  <2>3. FillsTo(mask, options, path, n, params, N)
    BY <1>2, <1>4, <1>6, <1>8, <2>1, <2>2, RestRebuilt DEF before
  <2> QED
    BY <2>3, FillsWhole DEF description, params
<1>9. ASSUME ~IsRest(mask, n, options), NEW e, Reaches(Extended(state[body]), path, options, e, c)
      PROVE  FillsTo(mask, options, path, body, params, e)
  <2>1. body \in 0..Len(mask) /\ (body = Len(mask) => ~IsRest(mask, body, options))
    BY <1>9, BodyType DEF body
  <2>2. Rebuilt(mask, options, path, body, state)
    BY <1>2, <2>1, RebuiltTo
  <2>3. Gives(Keys(state[body].tokens), c, params)
    BY <1>4, <1>5, <1>9
  <2> QED
    BY <1>9, <2>2, <2>3 DEF Rebuilt
<1>10. CASE ~IsRest(mask, n, options) /\ "STRICT" \in options
  <2>1. FillsTo(mask, options, path, n, params, N)
    BY <1>6, <1>7, <1>9, <1>10
  <2> QED
    BY <2>1, FillsWhole DEF description, params
<1>11. CASE ~IsRest(mask, n, options) /\ "STRICT" \notin options
  <2>1. PICK e : /\ e = N \/ (e = Len(path) /\ path # <<>> /\ path[Len(path)] = "/")
                 /\ Reaches(Extended(state[body]), path, options, e, c)
    BY <1>6, <1>7, <1>11
  <2>2. FillsTo(mask, options, path, body, params, e)
    BY <1>9, <1>11, <2>1
  <2> QED
    BY <1>11, <2>1, <2>2, FillsLoose DEF description, params, body
<1> QED
  BY <1>8, <1>10, <1>11

--------------------------------------------------------------------------------
(* Theorems.                                                               *)

\* handle_request keeps IInv.
THEOREM Invariant == Spec => []IInv
BY InitIInv, StepIInv, PTL DEF Spec

\* The variables stay in their types.
THEOREM TypeCorrect == Spec => []TypeOK
<1>1. IInv => TypeOK
  BY DEF IInv
<1> QED
  BY <1>1, Invariant, PTL

\* A request is answered exactly once, or its handling throws.
THEOREM OneAnswer == Spec => []AnsweredOnce
<1>1. IInv => AnsweredOnce
  BY DEF IInv
<1> QED
  BY <1>1, Invariant, PTL

\* Filters and handlers see no resource with a segment "..".
THEOREM NothingAbove == Spec => []NoWayUp
<1>1. IInv => NoWayUp
  <2> SUFFICES ASSUME IInv, pc \in {"filters", "handler"},
                      NEW k \in DOMAIN resource,
                      k + 1 <= Len(resource), resource[k] = ".", resource[k + 1] = ".",
                      k = 1 \/ resource[k - 1] = "/",
                      k + 1 = Len(resource) \/ resource[k + 2] = "/"
               PROVE  FALSE
    BY DEF NoWayUp
  <2>1. resource \in Seq(STRING) /\ resource # <<>> /\ resource[1] = "/" /\ ~HasUpDir(resource)
    BY TypesOfAll DEF IInv, LegalInside, Legal, Typed
  <2>2. k \in 1..Len(resource) /\ k # 1
    BY <2>1
  <2>3. k - 1 \in DOMAIN resource
    BY <2>1, <2>2
  <2>4. resource[k - 1] = "/" /\ (k - 1) + 1 = k /\ (k - 1) + 2 = k + 1 /\ (k - 1) + 3 = k + 2
    BY <2>1, <2>2
  <2>5. HasUpDir(resource)
    BY <2>1, <2>2, <2>3, <2>4 DEF HasUpDir
  <2> QED
    BY <2>1, <2>5
<1> QED
  BY <1>1, Invariant, PTL

\* Every answer passes the sending filters of its resource, in their order.
THEOREM HooksComplete == Spec => []SentThroughHooks
<1>1. IInv => SentThroughHooks
  <2> SUFFICES ASSUME IInv, pc = "done", Absolute, Normalised
               PROVE  /\ \A i, j \in DOMAIN hooked : i < j => hooked[i] < hooked[j]
                      /\ \A k \in DOMAIN filters :
                           (\E i \in DOMAIN hooked : hooked[i] = k) <=>
                             filters[k].send /\ Within(filters[k].prefix, resource)
    BY DEF SentThroughHooks, Absolute, Normalised
  <2>1. HookedSoFar /\ next = Len(filters) + 1
    BY DEF IInv, HooksInOrder, AllHooked
  <2>2. Typed
    BY TypesOfAll DEF IInv
  <2>3. \A k \in DOMAIN filters : k < next
    BY <2>1, <2>2 DEF Typed
  <2> QED
    BY <2>1, <2>3 DEF HookedSoFar
<1> QED
  BY <1>1, Invariant, PTL

\* Only the first route that matches is called, and none is missing where nothing
\* is found.
THEOREM Search == Spec => []Found
BY InitFound, StepFound, PTL DEF Spec

\* The routes of a request, one by one.
LEMMA RouteTypes ==
  ASSUME TypeOK, NEW k \in DOMAIN routes[verb]
  PROVE  /\ routes[verb][k].mask \in Seq(Element) /\ routes[verb][k].options \in Options
         /\ resource \in Seq(STRING)
         /\ DOMAIN routes[verb] = 1..Len(routes[verb]) /\ Len(routes[verb]) \in Nat
<1>1. routes[verb] \in Seq(RouteEntry) /\ resource \in Seq(STRING)
  BY DEF TypeOK
<1> HIDE DEF RouteEntry
<1>2. routes[verb][k] \in RouteEntry /\ DOMAIN routes[verb] = 1..Len(routes[verb]) /\ Len(routes[verb]) \in Nat
  BY <1>1
<1> QED
  BY <1>1, <1>2 DEF RouteEntry

\* A route is a candidate if the resource fits its mask.
LEMMA CandidatesFit ==
  ASSUME TypeOK, NEW k \in DOMAIN routes[verb]
  PROVE  k \in Candidates <=> Fits(routes[verb][k].mask, routes[verb][k].options, resource)
<1> DEFINE mask == routes[verb][k].mask
           options == routes[verb][k].options
<1>1. mask \in Seq(Element) /\ resource \in Seq(STRING)
  BY RouteTypes
<1>2. k \in Candidates <=> Matches(Description(mask, options), resource, options)
  BY DEF Candidates
<1> HIDE DEF mask, options
<1>3. Matches(Description(mask, options), resource, options) <=> Fits(mask, options, resource)
  BY <1>1, MatchesIsFits
<1> QED
  BY <1>2, <1>3 DEF mask, options

\* The first route whose mask the resource fits is called, and nothing is not found
\* that one fits: for all routers and all resources.
THEOREM FirstFit == Spec => []FirstRouteCalled
<1>1. TypeOK /\ Found => FirstRouteCalled
  <2> SUFFICES ASSUME TypeOK, Found PROVE FirstRouteCalled
    OBVIOUS
  <2> DEFINE FitsRoute(k) == Fits(routes[verb][k].mask, routes[verb][k].options, resource)
             list == routes[verb]
  <2>1. \A k \in DOMAIN list : k \in Candidates <=> FitsRoute(k)
    BY CandidatesFit
  <2>2. Candidates \subseteq DOMAIN list
    BY DEF Candidates
  <2>3. DOMAIN list = 1..Len(list) /\ Len(list) \in Nat
    <3>1. list \in Seq(RouteEntry)
      BY DEF TypeOK
    <3> HIDE DEF RouteEntry, list
    <3> QED
      BY <3>1
  <2> HIDE DEF FitsRoute, list
  <2>4. ASSUME called # 0 PROVE FitsRoute(called) /\ \A k \in 1..(called - 1) : ~FitsRoute(k)
    <3>1. called \in Candidates /\ called \in DOMAIN list /\ \A j \in Candidates : called <= j
      BY <2>2, <2>4 DEF Found
    <3>2. \A k \in 1..(called - 1) : k \in DOMAIN list /\ ~(called <= k)
      BY <2>3, <3>1
    <3> QED
      BY <2>1, <3>1, <3>2
  <2>5. ASSUME reply = "not found" PROVE \A k \in DOMAIN list : ~FitsRoute(k)
    BY <2>1, <2>5 DEF Found
  <2> QED
    BY <2>4, <2>5 DEF FirstRouteCalled, FitsRoute, list
<1> QED
  BY <1>1, TypeCorrect, Search, PTL

\* What a callback is given as parameters are the pieces of the resource that stand
\* for them: for all routers and all resources.
THEOREM PiecesGiven == Spec => []ParamsRebuild
<1>1. TypeOK /\ Found => ParamsRebuild
  <2> SUFFICES ASSUME TypeOK, Found, called # 0, Distinct(routes[verb][called].mask)
               PROVE  LET route == routes[verb][called]
                      IN  Again(Filled(route.mask, route.options, Given(route)), resource, route.options)
    BY DEF ParamsRebuild, Distinct, Again
  <2> DEFINE mask == routes[verb][called].mask
             options == routes[verb][called].options
             params == Params(Description(mask, options), resource, options)
  <2>1. called \in Candidates /\ called \in DOMAIN routes[verb]
    BY DEF Found, Candidates
  <2>2. mask \in Seq(Element) /\ resource \in Seq(STRING)
    BY <2>1, RouteTypes
  <2>3. Matches(Description(mask, options), resource, options) /\ Distinct(mask)
    BY <2>1 DEF Candidates
  <2> HIDE DEF mask, options
  <2>4. Again(Filled(mask, options, params), resource, options)
    BY <2>2, <2>3, Rebuilds
  <2> QED
    BY <2>4 DEF mask, options, params, Given
<1> QED
  BY <1>1, TypeCorrect, Search, PTL
================================================================================
