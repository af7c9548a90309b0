--------------------------- MODULE RouterConfigProofs ---------------------------
(***************************************************************************)
(* Proofs of the properties of RouterConfig, for any set of builders.      *)
(***************************************************************************)
EXTENDS RouterConfig, SequenceLemmas

\* What a builder may hold: what was registered with it, as it was registered.
Own(c) == {e \in Entry : e.id \in DOMAIN entered /\ entered[e.id] = [builder |-> c, path |-> e.path]}

OwnEntries == \A c \in Builders, kind \in Kinds : lists[c][kind] \in Seq(Own(c))

\* The builders given away are those with a mount, and each router below a
\* builder is a different one of them.
Mounts ==
  /\ mounted \in [Builders \ held -> [parent : Builders, mask : MountPaths]]
  /\ \A b \in Builders : \A k, l \in DOMAIN routers[b] :
       /\ routers[b][k].next \in DOMAIN mounted
       /\ routers[b][k].next = routers[b][l].next => k = l

\* No builder is below itself: there are heights that grow from the mounted to
\* what it is mounted in.
Heights(n) == {h \in [Builders -> 0..n] : \A c \in DOMAIN mounted : h[c] < h[mounted[c].parent]}

Tree == \E n \in Nat : Heights(n) # {}

Built == TypeOK /\ OwnEntries /\ Mounts /\ Tree

--------------------------------------------------------------------------------
(* Types, and that builders are nested as trees are.                       *)

LEMMA InitBuilt == Init => Built
<1> SUFFICES ASSUME Init PROVE Built
  OBVIOUS
<1>1. TypeOK
  BY BoundsAssumption DEF Init, TypeOK, NoLists
<1>2. OwnEntries
  BY DEF Init, OwnEntries, NoLists
<1>3. Mounts
  BY DEF Init, Mounts
<1>4. Tree
  <2>1. [b \in Builders |-> 0] \in Heights(0)
    BY DEF Init, Heights
  <2> QED
    BY <2>1 DEF Tree
<1> QED
  BY <1>1, <1>2, <1>3, <1>4 DEF Built

\* The lists of handlers and filters that one call adds an entry to.
KindLists == {<<verb>> : verb \in Verbs} \cup {<<"GET", "HEAD">>, <<"filters">>}

LEMMA KindListIs ==
  ASSUME NEW kinds \in KindLists
  PROVE  /\ kinds \in Seq(Kinds) /\ Len(kinds) \in Nat /\ DOMAIN kinds = 1..Len(kinds)
         /\ \A k, l \in DOMAIN kinds : kinds[k] = kinds[l] => k = l
<1>1. kinds \in Seq(Kinds) /\ \A k, l \in DOMAIN kinds : kinds[k] = kinds[l] => k = l
  <2>1. /\ "GET" \in Kinds /\ "HEAD" \in Kinds /\ "filters" \in Kinds
        /\ Verbs = {"GET", "HEAD"}
    BY DEF Kinds, Verbs
  <2>2. CASE \E kind \in Kinds : kinds = <<kind>>
    BY <2>2
  <2>3. CASE kinds = <<"GET", "HEAD">>
    BY <2>1, <2>3
  <2>4. kinds = <<"GET", "HEAD">> \/ \E kind \in Kinds : kinds = <<kind>>
    BY <2>1 DEF KindLists
  <2> QED
    BY <2>2, <2>3, <2>4
<1> QED
  BY <1>1

\* What Register notes of an entry.
LEMMA RegisteredEntries ==
  ASSUME TypeOK, NEW b \in Builders, NEW kinds \in KindLists, NEW path \in Seq(STRING),
         Register(b, kinds, path)
  PROVE  /\ Len(entered) \in Nat /\ Len(entered') = Len(entered) + Len(kinds)
         /\ DOMAIN entered = 1..Len(entered) /\ DOMAIN entered' = 1..Len(entered')
         /\ Len(entered') <= MaxEntries
         /\ \A id \in DOMAIN entered : entered'[id] = entered[id]
         /\ \A k \in DOMAIN kinds : entered'[Len(entered) + k] = [builder |-> b, path |-> path]
         /\ entered' \in Seq([builder : Builders, path : Seq(STRING)])
<1> DEFINE more == [k \in DOMAIN kinds |-> [builder |-> b, path |-> path]]
<1>3. /\ Len(kinds) \in Nat /\ DOMAIN kinds = 1..Len(kinds)
      /\ more \in Seq([builder : Builders, path : Seq(STRING)]) /\ Len(more) = Len(kinds)
      /\ DOMAIN more = DOMAIN kinds
      /\ entered \in Seq([builder : Builders, path : Seq(STRING)])
      /\ Len(entered) \in Nat /\ DOMAIN entered = 1..Len(entered)
  <2>1. entered \in Seq([builder : Builders, path : Seq(STRING)])
    BY DEF TypeOK
  <2>2. Len(kinds) \in Nat /\ DOMAIN kinds = 1..Len(kinds)
    BY KindListIs
  <2>3. [builder |-> b, path |-> path] \in [builder : Builders, path : Seq(STRING)]
    OBVIOUS
  <2> QED
    BY <2>1, <2>2, <2>3
<1>4. entered' = entered \o more /\ Len(entered) + Len(kinds) <= MaxEntries
  BY DEF Register
<1>5. /\ Len(entered') = Len(entered) + Len(kinds) /\ DOMAIN entered' = 1..Len(entered')
      /\ entered' \in Seq([builder : Builders, path : Seq(STRING)])
      /\ \A id \in DOMAIN entered : entered'[id] = entered[id]
      /\ \A k \in DOMAIN kinds : entered'[Len(entered) + k] = more[k]
  <2> DEFINE S == [builder : Builders, path : Seq(STRING)]
  <2> HIDE DEF more, S
  <2>1. entered \in Seq(S) /\ more \in Seq(S)
    BY <1>3 DEF S
  <2>2. /\ entered' \in Seq(S) /\ Len(entered') = Len(entered) + Len(more)
        /\ DOMAIN entered' = 1..Len(entered')
        /\ \A i \in DOMAIN entered : entered'[i] = entered[i]
        /\ \A i \in DOMAIN more : entered'[Len(entered) + i] = more[i]
    BY <1>4, <2>1, ConcatAt
  <2> QED
    BY <1>3, <2>2 DEF S
<1> QED
  BY <1>3, <1>4, <1>5

\* The entry that Register adds to the list of kinds[k].
Fresh(path, k) == [path |-> path, id |-> Len(entered) + k]

LEMMA RegisteredLists ==
  ASSUME TypeOK, NEW b \in Builders, NEW kinds \in KindLists, NEW path \in Seq(STRING),
         Register(b, kinds, path)
  PROVE  /\ \A c \in Builders \ {b} : lists'[c] = lists[c]
         /\ \A k \in DOMAIN kinds : lists'[b][kinds[k]] = Append(lists[b][kinds[k]], Fresh(path, k))
         /\ \A kind \in Kinds : (\A k \in DOMAIN kinds : kinds[k] # kind) => lists'[b][kind] = lists[b][kind]
         /\ lists' = [c \in Builders |-> [kind \in Kinds |-> lists'[c][kind]]]
<1> DEFINE g == [kind \in Kinds |->
             IF \E k \in DOMAIN kinds : kinds[k] = kind
             THEN Append(lists[b][kind], Fresh(path, CHOOSE k \in DOMAIN kinds : kinds[k] = kind))
             ELSE lists[b][kind]]
<1>6. lists \in [Builders -> [Kinds -> Seq(Entry)]] /\ lists' = [lists EXCEPT ![b] = g]
  BY DEF Register, TypeOK, Fresh
<1>7. ASSUME NEW k \in DOMAIN kinds
      PROVE  g[kinds[k]] = Append(lists[b][kinds[k]], Fresh(path, k))
  <2>1. k = CHOOSE l \in DOMAIN kinds : kinds[l] = kinds[k]
    BY KindListIs
  <2>2. kinds[k] \in Kinds
    BY KindListIs
  <2> QED
    BY <2>1, <2>2
<1>8. \A kind \in Kinds : (\A k \in DOMAIN kinds : kinds[k] # kind) => g[kind] = lists[b][kind]
  OBVIOUS
<1>10. g = [kind \in Kinds |-> g[kind]]
  OBVIOUS
<1>9. /\ \A c \in Builders \ {b} : lists'[c] = lists[c]
      /\ lists'[b] = g
      /\ lists' = [c \in Builders |-> [kind \in Kinds |-> lists'[c][kind]]]
  <2> HIDE DEF g
  <2>1. /\ \A c \in Builders \ {b} : lists'[c] = lists[c] /\ lists[c] = [kind \in Kinds |-> lists[c][kind]]
        /\ lists'[b] = g
        /\ lists' = [c \in Builders |-> lists'[c]]
    BY <1>6
  <2>2. \A c \in Builders : lists'[c] = [kind \in Kinds |-> lists'[c][kind]]
    BY <1>10, <2>1
  <2> QED
    BY <2>1, <2>2
<1> HIDE DEF g
<1> QED
  BY <1>7, <1>8, <1>9

LEMMA RegisterStep ==
  ASSUME BoundsAssumption, Built, NEW b \in Builders, NEW kinds \in KindLists, NEW path \in Seq(STRING),
         Register(b, kinds, path)
  PROVE  Built'
<1>1. TypeOK /\ OwnEntries /\ Mounts /\ Tree
  BY DEF Built
<1>2. /\ Len(kinds) \in Nat /\ DOMAIN kinds = 1..Len(kinds)
      /\ Len(entered) \in Nat /\ Len(entered') = Len(entered) + Len(kinds)
      /\ DOMAIN entered = 1..Len(entered) /\ DOMAIN entered' = 1..Len(entered')
      /\ Len(entered') <= MaxEntries
      /\ \A id \in DOMAIN entered : entered'[id] = entered[id]
      /\ \A k \in DOMAIN kinds : entered'[Len(entered) + k] = [builder |-> b, path |-> path]
      /\ entered' \in Seq([builder : Builders, path : Seq(STRING)])
  <2>1. Len(kinds) \in Nat /\ DOMAIN kinds = 1..Len(kinds)
    BY KindListIs
  <2> QED
    BY <1>1, <2>1, RegisteredEntries
<1>3. /\ \A c \in Builders \ {b} : lists'[c] = lists[c]
      /\ \A k \in DOMAIN kinds : lists'[b][kinds[k]] = Append(lists[b][kinds[k]], Fresh(path, k))
      /\ \A kind \in Kinds : (\A k \in DOMAIN kinds : kinds[k] # kind) => lists'[b][kind] = lists[b][kind]
      /\ lists' = [c \in Builders |-> [kind \in Kinds |-> lists'[c][kind]]]
  BY <1>1, RegisteredLists
<1>4. UNCHANGED <<routers, held, compiled, mounted>>
  BY DEF Register
<1>5. \A c \in Builders : Own(c) \subseteq Own(c)'
  BY <1>2 DEF Own
<1>a. ASSUME NEW k \in DOMAIN kinds PROVE Fresh(path, k) \in Own(b)'
  <2>1. Len(entered) + k \in DOMAIN entered' /\ Len(entered) + k \in 1..MaxEntries
    BY <1>2, BoundsAssumption
  <2> QED
    BY <1>2, <2>1 DEF Own, Entry, Fresh
<1>6. ASSUME NEW c \in Builders, NEW kind \in Kinds PROVE lists'[c][kind] \in Seq(Own(c)')
  <2>1. lists[c][kind] \in Seq(Own(c)')
    BY <1>1, <1>5 DEF OwnEntries
  <2>2. CASE c # b \/ \A k \in DOMAIN kinds : kinds[k] # kind
    BY <1>3, <2>1, <2>2
  <2>3. ASSUME c = b, NEW k \in DOMAIN kinds, kinds[k] = kind PROVE lists'[c][kind] \in Seq(Own(c)')
    <3>1. lists'[b][kind] = Append(lists[b][kind], Fresh(path, k))
      BY <1>3, <2>3
    <3>2. Fresh(path, k) \in Own(b)'
      BY <1>a
    <3> QED
      BY <2>1, <2>3, <3>1, <3>2
  <2> QED
    BY <2>2, <2>3
<1>7. OwnEntries'
  BY <1>6 DEF OwnEntries
<1>8. lists' \in [Builders -> [Kinds -> Seq(Entry)]]
  <2>1. \A c \in Builders : Own(c)' \subseteq Entry
    BY DEF Own, Entry
  <2>2. \A c \in Builders, kind \in Kinds : lists'[c][kind] \in Seq(Entry)
    BY <1>6, <2>1
  <2> QED
    BY <1>3, <2>2
<1>9. TypeOK'
  BY <1>1, <1>2, <1>4, <1>8 DEF TypeOK, Entry, Sub
<1>10. Mounts' /\ Tree'
  BY <1>1, <1>4 DEF Mounts, Tree, Heights
<1> QED
  BY <1>7, <1>9, <1>10 DEF Built

\* sub has no router above it when b takes it over, and b has none either: b is
\* raised above them all.
LEMMA AppendRouterStep ==
  ASSUME Built, NEW b \in held, AppendRouter(b)
  PROVE  Built'
<1>0. TypeOK /\ OwnEntries /\ Mounts /\ Tree /\ held \subseteq Builders
  BY DEF Built, TypeOK
<1>1. PICK sub \in held \ {b}, path \in MountPaths :
        /\ routers' = [routers EXCEPT ![b] = Append(@, [mask |-> path, next |-> sub])]
        /\ held' = held \ {sub}
        /\ mounted' = [c \in DOMAIN mounted \cup {sub} |->
                         IF c = sub THEN [parent |-> b, mask |-> path] ELSE mounted[c]]
        /\ UNCHANGED <<lists, compiled, entered>>
  BY DEF AppendRouter
<1>2. b \in Builders /\ sub \in Builders /\ sub # b /\ sub \notin DOMAIN mounted /\ b \notin DOMAIN mounted
  BY <1>0 DEF Mounts
<1> DEFINE place == [mask |-> path, next |-> sub]
<1>3. /\ DOMAIN mounted = Builders \ held /\ DOMAIN mounted' = Builders \ held'
      /\ mounted'[sub] = [parent |-> b, mask |-> path]
      /\ \A c \in DOMAIN mounted : mounted'[c] = mounted[c]
      /\ \A c \in DOMAIN mounted' : c = sub \/ c \in DOMAIN mounted
  BY <1>0, <1>1, <1>2 DEF Mounts
<1>4. mounted' \in [Builders \ held' -> [parent : Builders, mask : MountPaths]]
  BY <1>0, <1>1, <1>2, <1>3 DEF Mounts
<1>5. /\ routers \in [Builders -> Seq(Sub)] /\ place \in Sub
      /\ routers' \in [Builders -> Seq(Sub)]
      /\ routers'[b] = Append(routers[b], place)
      /\ \A c \in Builders \ {b} : routers'[c] = routers[c]
  <2>1. routers \in [Builders -> Seq(Sub)] /\ place \in Sub
    BY <1>0, <1>1, <1>2 DEF TypeOK, Sub
  <2>2. routers' = [routers EXCEPT ![b] = Append(routers[b], place)]
    BY <1>1
  <2> HIDE DEF place
  <2>3. Append(routers[b], place) \in Seq(Sub)
    BY <1>2, <2>1
  <2> QED
    BY <1>2, <2>1, <2>2, <2>3
<1>6. ASSUME NEW c \in Builders, NEW k \in DOMAIN routers'[c]
      PROVE  \/ k \in DOMAIN routers[c] /\ routers'[c][k] = routers[c][k]
             \/ c = b /\ k = Len(routers[b]) + 1 /\ routers'[c][k] = place
  <2>1. CASE c = b
    <3>1. routers[b] \in Seq(Sub) /\ place \in Sub
      BY <1>2, <1>5
    <3> HIDE DEF place
    <3>2. k \in 1..(Len(routers[b]) + 1) /\ Len(routers[b]) \in Nat /\ DOMAIN routers[b] = 1..Len(routers[b])
      BY <1>5, <2>1, <3>1
    <3> QED
      BY <1>5, <2>1, <3>1, <3>2
  <2>2. CASE c # b
    BY <1>5, <2>2
  <2> QED
    BY <2>1, <2>2
<1>7. \A c \in Builders : \A k \in DOMAIN routers[c] :
        /\ routers[c][k].next \in DOMAIN mounted /\ routers[c][k].next # sub
        /\ mounted[routers[c][k].next] = [parent |-> c, mask |-> routers[c][k].mask]
  BY <1>0, <1>2 DEF Mounts, TypeOK
<1>8. TypeOK'
  <2>1. \A c \in Builders : \A k \in DOMAIN routers'[c] :
          mounted'[routers'[c][k].next] = [parent |-> c, mask |-> routers'[c][k].mask]
    BY <1>3, <1>6, <1>7
  <2>2. \A c \in DOMAIN mounted' : c \in Builders \ held' /\ mounted'[c] \in [parent : Builders, mask : MountPaths]
    BY <1>3, <1>4
  <2>3. /\ lists' \in [Builders -> [Kinds -> Seq(Entry)]]
        /\ compiled' \in Seq([Kinds -> Seq(Entry)]) /\ Len(compiled') <= MaxRouters
        /\ entered' \in Seq([builder : Builders, path : Seq(STRING)]) /\ Len(entered') <= MaxEntries
        /\ held' \subseteq Builders
    BY <1>0, <1>1 DEF TypeOK
  <2>4. routers' \in [Builders -> Seq(Sub)]
    BY <1>5
  <2> QED
    BY <2>1, <2>2, <2>3, <2>4 DEF TypeOK, Entry, Sub
<1>9. Mounts'
  <2>1. \A c \in Builders : \A k, l \in DOMAIN routers'[c] :
          /\ routers'[c][k].next \in DOMAIN mounted'
          /\ routers'[c][k].next = routers'[c][l].next => k = l
    <3> SUFFICES ASSUME NEW c \in Builders, NEW k \in DOMAIN routers'[c], NEW l \in DOMAIN routers'[c]
                 PROVE  /\ routers'[c][k].next \in DOMAIN mounted'
                        /\ routers'[c][k].next = routers'[c][l].next => k = l
      OBVIOUS
    <3>0. sub \in DOMAIN mounted' /\ DOMAIN mounted \subseteq DOMAIN mounted' /\ place.next = sub
      <4>1. held' = held \ {sub}
        BY <1>1
      <4> QED
        BY <1>2, <1>3, <4>1
    <3> HIDE DEF place
    <3>1. routers'[c][k].next \in DOMAIN mounted'
      BY <1>6, <1>7, <3>0
    <3>2. k \in DOMAIN routers[c] /\ l \in DOMAIN routers[c] /\ routers[c][k].next = routers[c][l].next => k = l
      BY <1>0 DEF Mounts
    <3>3. routers'[c][k].next = routers'[c][l].next => k = l
      <4> SUFFICES ASSUME routers'[c][k].next = routers'[c][l].next PROVE k = l
        OBVIOUS
      <4>1. ASSUME NEW i \in DOMAIN routers'[c]
            PROVE  IF routers'[c][i].next = sub THEN i = Len(routers[b]) + 1
                   ELSE i \in DOMAIN routers[c] /\ routers'[c][i] = routers[c][i]
        <5>1. CASE i \in DOMAIN routers[c] /\ routers'[c][i] = routers[c][i]
          <6>1. routers[c][i].next # sub
            BY <1>7, <5>1
          <6> QED
            BY <5>1, <6>1
        <5>2. CASE c = b /\ i = Len(routers[b]) + 1 /\ routers'[c][i] = place
          BY <3>0, <5>2
        <5> QED
          BY <1>6, <5>1, <5>2
      <4>2. CASE routers'[c][k].next = sub
        BY <4>1, <4>2
      <4>3. CASE routers'[c][k].next # sub
        <5>1. k \in DOMAIN routers[c] /\ routers'[c][k] = routers[c][k]
          BY <4>1, <4>3
        <5>2. l \in DOMAIN routers[c] /\ routers'[c][l] = routers[c][l]
          BY <4>1, <4>3
        <5> QED
          BY <3>2, <5>1, <5>2
      <4> QED
        BY <4>2, <4>3
    <3> QED
      BY <3>1, <3>3
  <2> QED
    BY <1>4, <2>1 DEF Mounts
<1>10. Tree'
  <2>1. PICK n \in Nat : Heights(n) # {}
    BY <1>0 DEF Tree
  <2>2. PICK h \in [Builders -> 0..n] : \A c \in DOMAIN mounted : h[c] < h[mounted[c].parent]
    BY <2>1 DEF Heights
  <2> DEFINE raised == [h EXCEPT ![b] = n + 1]
  <2>3. raised \in [Builders -> 0..(n + 1)]
    <3>1. n + 1 \in 0..(n + 1) /\ 0..n \subseteq 0..(n + 1)
      BY <2>1
    <3>2. h \in [Builders -> 0..(n + 1)]
      BY <2>2, <3>1
    <3> QED
      BY <3>1, <3>2
  <2>4. ASSUME NEW c \in DOMAIN mounted' PROVE raised[c] < raised[mounted'[c].parent]
    <3>1. CASE c = sub
      <4>1. raised[sub] = h[sub] /\ h[sub] \in 0..n /\ raised[b] = n + 1
        BY <1>2, <2>2
      <4> QED
        BY <1>3, <3>1, <4>1, <2>1
    <3>2. CASE c \in DOMAIN mounted
      <4>1. c \in Builders /\ c # b /\ mounted[c].parent \in Builders
        BY <1>0, <1>2, <3>2 DEF Mounts
      <4>2. raised[c] = h[c] /\ h[c] < h[mounted[c].parent] /\ h[c] \in 0..n /\ h[mounted[c].parent] \in 0..n
        BY <2>2, <3>2, <4>1
      <4>3. raised[mounted[c].parent] = IF mounted[c].parent = b THEN n + 1 ELSE h[mounted[c].parent]
        BY <2>2, <4>1
      <4> QED
        BY <1>3, <2>1, <3>2, <4>2, <4>3
    <3> QED
      BY <1>3, <3>1, <3>2
  <2> HIDE DEF raised
  <2>5. n + 1 \in Nat /\ raised \in Heights(n + 1)'
    BY <2>1, <2>3, <2>4 DEF Heights
  <2> QED
    BY <2>5 DEF Tree
<1>11. OwnEntries'
  BY <1>0, <1>1 DEF OwnEntries, Own
<1> QED
  BY <1>8, <1>9, <1>10, <1>11 DEF Built

--------------------------------------------------------------------------------
(* What a builder surrenders, and to what it goes back.                    *)

LEMMA MountOf ==
  ASSUME Built, NEW c \in Builders, NEW k \in DOMAIN routers[c]
  PROVE  /\ routers[c][k] \in Sub /\ routers[c][k].next \in Builders
         /\ mounted[routers[c][k].next] = [parent |-> c, mask |-> routers[c][k].mask]
         /\ routers[c][k].next \in DOMAIN mounted
         /\ mounted[routers[c][k].next].parent = c
<1>1. routers[c][k].next \in DOMAIN mounted
  BY DEF Built, Mounts
<1>2. mounted[routers[c][k].next] = [parent |-> c, mask |-> routers[c][k].mask]
  BY DEF Built, TypeOK
<1>3. routers[c][k] \in Sub /\ routers[c][k].next \in Builders
  <2>1. routers[c] \in Seq(Sub)
    BY DEF Built, TypeOK
  <2>2. routers[c][k] \in Sub
    BY <2>1
  <2> QED
    BY <2>2 DEF Sub
<1>4. mounted[routers[c][k].next].parent = c
  BY <1>2
<1> QED
  BY <1>1, <1>2, <1>3, <1>4

LEMMA HeightBelow ==
  ASSUME Built, NEW n \in Nat, NEW h \in [Builders -> 0..n],
         \A c \in DOMAIN mounted : h[c] < h[mounted[c].parent],
         NEW c \in Builders, NEW k \in DOMAIN routers[c]
  PROVE  /\ routers[c][k] \in Sub /\ routers[c][k].next \in Builders
         /\ h[routers[c][k].next] < h[c]
<1> DEFINE d == routers[c][k].next
<1>1. routers[c][k] \in Sub /\ d \in Builders /\ d \in DOMAIN mounted /\ mounted[d].parent = c
  <2>1. /\ routers[c][k] \in Sub /\ d \in Builders /\ d \in DOMAIN mounted
        /\ mounted[d] = [parent |-> c, mask |-> routers[c][k].mask]
    BY MountOf
  <2> HIDE DEF d
  <2> QED
    BY <2>1
<1>2. h[d] < h[c]
  <2> HIDE DEF d
  <2> QED
    BY <1>1
<1> QED
  BY <1>1, <1>2

\* A statement about a builder holds when it holds for those mounted in it: a
\* set that has a builder once it has those has every builder.
LEMMA FromBelow ==
  ASSUME Built, NEW T \in SUBSET Builders,
         \A c \in Builders : (\A k \in DOMAIN routers[c] : routers[c][k].next \in T) => c \in T
  PROVE  T = Builders
<1>1. PICK n \in Nat : Heights(n) # {}
  BY DEF Built, Tree
<1>2. PICK h \in [Builders -> 0..n] : \A c \in DOMAIN mounted : h[c] < h[mounted[c].parent]
  BY <1>1 DEF Heights
<1>3. ASSUME NEW c \in Builders, NEW k \in DOMAIN routers[c]
      PROVE  routers[c][k].next \in Builders /\ h[routers[c][k].next] < h[c]
  BY <1>2, HeightBelow
<1> DEFINE N == {m \in Nat : \A c \in Builders : h[c] < m => c \in T}
<1>4. 0 \in N
  BY <1>2
<1>5. ASSUME NEW m \in N PROVE m + 1 \in N
  <2> SUFFICES ASSUME NEW c \in Builders, h[c] < m + 1 PROVE c \in T
    BY <1>5
  <2>1. \A k \in DOMAIN routers[c] : routers[c][k].next \in T
    <3> SUFFICES ASSUME NEW k \in DOMAIN routers[c] PROVE routers[c][k].next \in T
      OBVIOUS
    <3>1. routers[c][k].next \in Builders /\ h[routers[c][k].next] < h[c]
      BY <1>3
    <3>2. h[routers[c][k].next] < m
      BY <1>2, <1>5, <3>1
    <3> QED
      BY <1>5, <3>1, <3>2
  <2> QED
    BY <2>1
<1>6. N = Nat
  <2> HIDE DEF N
  <2>1. N \in SUBSET Nat
    BY DEF N
  <2> QED
    BY <1>4, <1>5, <2>1, NumberInduction
<1>7. n + 1 \in N
  <2> HIDE DEF N
  <2> QED
    BY <1>1, <1>6
<1> QED
  BY <1>2, <1>7

\* What the builder of sub adds to a list, when f says what those below it add.
Part(f, kind, sub) ==
  Prefixed(sub.mask, lists[sub.next][kind])
    \o FlattenSeq([k \in DOMAIN routers[sub.next] |-> f[routers[sub.next][k]]])

\* Surrendered is the function its definition describes: there is one, built
\* from the builders that nothing is mounted in upwards.
LEMMA SurrenderedExists ==
  ASSUME Built, NEW kind \in Kinds
  PROVE  \E f : f = [sub \in Sub |-> Part(f, kind, sub)]
<1>1. PICK n \in Nat : Heights(n) # {}
  BY DEF Built, Tree
<1>2. PICK h \in [Builders -> 0..n] : \A c \in DOMAIN mounted : h[c] < h[mounted[c].parent]
  BY <1>1 DEF Heights
<1>3. ASSUME NEW c \in Builders, NEW k \in DOMAIN routers[c]
      PROVE  routers[c][k] \in Sub /\ h[routers[c][k].next] < h[c]
  BY <1>2, HeightBelow
<1> DEFINE Low(f, m, sub) == IF h[sub.next] < m THEN Part(f, kind, sub) ELSE <<>>
           N == {m \in Nat : \E f : f = [sub \in Sub |-> Low(f, m, sub)]}
<1>4. 0 \in N
  <2>1. \A sub \in Sub : ~(h[sub.next] < 0)
    BY <1>2 DEF Sub
  <2>2. [sub \in Sub |-> <<>>] = [sub \in Sub |-> Low([s \in Sub |-> <<>>], 0, sub)]
    BY <2>1
  <2> HIDE DEF Low
  <2>3. \E f : f = [sub \in Sub |-> Low(f, 0, sub)]
    BY <2>2
  <2> QED
    BY <2>3
<1>5. ASSUME NEW m \in N PROVE m + 1 \in N
  <2>1. PICK f : f = [sub \in Sub |-> Low(f, m, sub)]
    BY <1>5
  <2> DEFINE g == [sub \in Sub |-> Low(f, m + 1, sub)]
  <2>2. ASSUME NEW sub \in Sub, h[sub.next] < m PROVE g[sub] = f[sub]
    <3>1. h[sub.next] < m + 1
      BY <1>2, <1>5, <2>2 DEF Sub
    <3> HIDE DEF N
    <3> QED
      BY <2>1, <2>2, <3>1
  <2>3. ASSUME NEW sub \in Sub, h[sub.next] < m + 1 PROVE Part(g, kind, sub) = Part(f, kind, sub)
    <3>1. ASSUME NEW k \in DOMAIN routers[sub.next] PROVE g[routers[sub.next][k]] = f[routers[sub.next][k]]
      <4>1. sub.next \in Builders
        BY DEF Sub
      <4>2. routers[sub.next][k] \in Sub /\ h[routers[sub.next][k].next] < h[sub.next]
        BY <1>3, <4>1
      <4>3. h[routers[sub.next][k].next] < m
        BY <1>2, <1>5, <2>3, <4>1, <4>2 DEF Sub
      <4> HIDE DEF g
      <4> QED
        BY <2>2, <4>2, <4>3
    <3> HIDE DEF g
    <3>2. [k \in DOMAIN routers[sub.next] |-> g[routers[sub.next][k]]]
            = [k \in DOMAIN routers[sub.next] |-> f[routers[sub.next][k]]]
      BY <3>1
    <3> QED
      BY <3>2 DEF Part
  <2>4. g = [sub \in Sub |-> Low(g, m + 1, sub)]
    <3>1. \A sub \in Sub : Low(g, m + 1, sub) = Low(f, m + 1, sub)
      <4> HIDE DEF g
      <4> QED
        BY <2>3
    <3> HIDE DEF Low
    <3> QED
      BY <3>1
  <2> HIDE DEF g, Low
  <2>5. \E s : s = [sub \in Sub |-> Low(s, m + 1, sub)]
    BY <2>4
  <2> QED
    BY <1>5, <2>5
<1>6. N = Nat
  <2> HIDE DEF N
  <2>1. N \in SUBSET Nat
    BY DEF N
  <2> QED
    BY <1>4, <1>5, <2>1, NumberInduction
<1>7. n + 1 \in N
  <2> HIDE DEF N
  <2> QED
    BY <1>1, <1>6
<1>8. PICK f : f = [sub \in Sub |-> Low(f, n + 1, sub)]
  <2> HIDE DEF Low
  <2> QED
    BY <1>7
<1>9. \A sub \in Sub : Low(f, n + 1, sub) = Part(f, kind, sub)
  BY <1>1, <1>2 DEF Sub
<1> HIDE DEF Low
<1>10. f = [sub \in Sub |-> Part(f, kind, sub)]
  BY <1>8, <1>9
<1> QED
  BY <1>10

LEMMA SurrenderedIs ==
  ASSUME Built, NEW kind \in Kinds, NEW sub \in Sub
  PROVE  Surrendered(kind)[sub] = Part(Surrendered(kind), kind, sub)
<1>1. Surrendered(kind) = CHOOSE f : f = [s \in Sub |-> Part(f, kind, s)]
  BY DEF Surrendered, Part
<1>2. Surrendered(kind) = [s \in Sub |-> Part(Surrendered(kind), kind, s)]
  BY <1>1, SurrenderedExists
<1> QED
  BY <1>2

\* A builder's family, when f gives those of the builders below it.
Joined(f, c) == {c} \cup UNION {f[routers[c][k].next] : k \in DOMAIN routers[c]}

LEMMA FamilyExists ==
  ASSUME Built
  PROVE  \E f : f = [c \in Builders |-> Joined(f, c)]
<1>1. PICK n \in Nat : Heights(n) # {}
  BY DEF Built, Tree
<1>2. PICK h \in [Builders -> 0..n] : \A c \in DOMAIN mounted : h[c] < h[mounted[c].parent]
  BY <1>1 DEF Heights
<1>3. ASSUME NEW c \in Builders, NEW k \in DOMAIN routers[c]
      PROVE  routers[c][k].next \in Builders /\ h[routers[c][k].next] < h[c]
  BY <1>2, HeightBelow
<1> DEFINE Low(f, m, c) == IF h[c] < m THEN Joined(f, c) ELSE {}
           N == {m \in Nat : \E f : f = [c \in Builders |-> Low(f, m, c)]}
<1>4. 0 \in N
  <2>1. \A c \in Builders : ~(h[c] < 0)
    BY <1>2
  <2>2. [c \in Builders |-> {}] = [c \in Builders |-> Low([d \in Builders |-> {}], 0, c)]
    BY <2>1
  <2> HIDE DEF Low
  <2>3. \E f : f = [c \in Builders |-> Low(f, 0, c)]
    BY <2>2
  <2> QED
    BY <2>3
<1>5. ASSUME NEW m \in N PROVE m + 1 \in N
  <2>1. PICK f : f = [c \in Builders |-> Low(f, m, c)]
    BY <1>5
  <2> DEFINE g == [c \in Builders |-> Low(f, m + 1, c)]
  <2>2. ASSUME NEW c \in Builders, h[c] < m PROVE g[c] = f[c]
    <3>1. h[c] < m + 1
      BY <1>2, <1>5, <2>2
    <3> HIDE DEF N
    <3> QED
      BY <2>1, <2>2, <3>1
  <2>3. ASSUME NEW c \in Builders, h[c] < m + 1 PROVE Joined(g, c) = Joined(f, c)
    <3>1. ASSUME NEW k \in DOMAIN routers[c] PROVE g[routers[c][k].next] = f[routers[c][k].next]
      <4>1. routers[c][k].next \in Builders /\ h[routers[c][k].next] < h[c]
        BY <1>3
      <4>2. h[routers[c][k].next] < m
        BY <1>2, <1>5, <2>3, <4>1
      <4> HIDE DEF g
      <4> QED
        BY <2>2, <4>1, <4>2
    <3> HIDE DEF g
    <3>2. {g[routers[c][k].next] : k \in DOMAIN routers[c]} = {f[routers[c][k].next] : k \in DOMAIN routers[c]}
      BY <3>1
    <3> QED
      BY <3>2 DEF Joined
  <2>4. g = [c \in Builders |-> Low(g, m + 1, c)]
    <3>1. \A c \in Builders : Low(g, m + 1, c) = Low(f, m + 1, c)
      <4> HIDE DEF g
      <4> QED
        BY <2>3
    <3> HIDE DEF Low
    <3> QED
      BY <3>1
  <2> HIDE DEF g, Low
  <2>5. \E s : s = [c \in Builders |-> Low(s, m + 1, c)]
    BY <2>4
  <2> QED
    BY <1>5, <2>5
<1>6. N = Nat
  <2> HIDE DEF N
  <2>1. N \in SUBSET Nat
    BY DEF N
  <2> QED
    BY <1>4, <1>5, <2>1, NumberInduction
<1>7. n + 1 \in N
  <2> HIDE DEF N
  <2> QED
    BY <1>1, <1>6
<1>8. PICK f : f = [c \in Builders |-> Low(f, n + 1, c)]
  <2> HIDE DEF Low
  <2> QED
    BY <1>7
<1>9. \A c \in Builders : Low(f, n + 1, c) = Joined(f, c)
  BY <1>1, <1>2
<1> HIDE DEF Low
<1>10. f = [c \in Builders |-> Joined(f, c)]
  BY <1>8, <1>9
<1> QED
  BY <1>10

LEMMA FamilyIs ==
  ASSUME Built, NEW b \in Builders
  PROVE  Family(b) = {b} \cup UNION {Family(routers[b][k].next) : k \in DOMAIN routers[b]}
<1> DEFINE below == CHOOSE f : f = [c \in Builders |-> Joined(f, c)]
<1>1. below = [c \in Builders |-> Joined(below, c)]
  BY FamilyExists
<1>2. \A c : Family(c) = below[c]
  BY DEF Family, Joined
<1> HIDE DEF below
<1>3. below[b] = Joined(below, b)
  BY <1>1
<1>4. {Family(routers[b][k].next) : k \in DOMAIN routers[b]} = {below[routers[b][k].next] : k \in DOMAIN routers[b]}
  BY <1>2
<1> QED
  BY <1>2, <1>3, <1>4 DEF Joined

LEMMA EntryPlaced ==
  ASSUME NEW e \in Entry, NEW mask \in Seq(STRING)
  PROVE  /\ [e EXCEPT !.path = mask \o @] = [path |-> mask \o e.path, id |-> e.id]
         /\ [path |-> mask \o e.path, id |-> e.id] \in Entry
<1>1. e = [path |-> e.path, id |-> e.id] /\ e.path \in Seq(STRING) /\ e.id \in 1..MaxEntries
  BY DEF Entry
<1>2. mask \o e.path \in Seq(STRING)
  BY <1>1
<1>3. [path |-> mask \o e.path, id |-> e.id] \in Entry
  BY <1>1, <1>2 DEF Entry
<1>4. [e EXCEPT !.path = mask \o @] = [path |-> mask \o e.path, id |-> e.id]
  <2>1. \A p, i, x : e = [path |-> p, id |-> i] => [e EXCEPT !.path = x] = [path |-> x, id |-> i]
    OBVIOUS
  <2> QED
    BY <1>1, <2>1
<1> QED
  BY <1>3, <1>4

LEMMA PrefixedIs ==
  ASSUME NEW mask \in Seq(STRING), NEW list \in Seq(Entry)
  PROVE  /\ Prefixed(mask, list) \in Seq(Entry) /\ DOMAIN Prefixed(mask, list) = DOMAIN list
         /\ \A k \in DOMAIN list : /\ Prefixed(mask, list)[k].id = list[k].id
                                   /\ Prefixed(mask, list)[k].path = mask \o list[k].path
<1>1. Len(list) \in Nat /\ DOMAIN list = 1..Len(list)
  OBVIOUS
<1> DEFINE placed(k) == [path |-> mask \o list[k].path, id |-> list[k].id]
<1>2. ASSUME NEW k \in DOMAIN list
      PROVE  [list[k] EXCEPT !.path = mask \o @] = placed(k) /\ placed(k) \in Entry
  <2>1. list[k] \in Entry
    OBVIOUS
  <2> QED
    BY <2>1, EntryPlaced
<1> HIDE DEF placed
<1>3. Prefixed(mask, list) = [k \in 1..Len(list) |-> placed(k)]
  BY <1>1, <1>2 DEF Prefixed
<1>4. \A k \in 1..Len(list) : placed(k) \in Entry
  BY <1>1, <1>2
<1>5. Prefixed(mask, list) \in Seq(Entry)
  BY <1>1, <1>3, <1>4
<1>6. \A k \in DOMAIN list : Prefixed(mask, list)[k] = placed(k)
  BY <1>1, <1>3
<1>7. DOMAIN Prefixed(mask, list) = DOMAIN list
  BY <1>1, <1>3
<1> QED
  BY <1>5, <1>6, <1>7 DEF placed

\* An entry of a kind that the builder c surrenders, or one of its family does:
\* the mask of its own builder is before the path it was registered under.
Moved(c, kind) ==
  {e \in Entry :
     /\ e.id \in DOMAIN entered
     /\ LET d == entered[e.id].builder
        IN  /\ d \in Family(c) /\ d \in DOMAIN mounted
            /\ \E k \in DOMAIN lists[d][kind] : lists[d][kind][k].id = e.id
            /\ e.path = mounted[d].mask \o entered[e.id].path}

LEMMA SurrenderedMoved ==
  ASSUME Built, NEW kind \in Kinds
  PROVE  \A c \in Builders, sub \in Sub :
           sub.next = c /\ c \in DOMAIN mounted /\ mounted[c].mask = sub.mask
             => Surrendered(kind)[sub] \in Seq(Moved(c, kind))
<1> DEFINE from == Surrendered(kind)
           T == {c \in Builders : \A sub \in Sub :
                   sub.next = c /\ c \in DOMAIN mounted /\ mounted[c].mask = sub.mask
                     => from[sub] \in Seq(Moved(c, kind))}
<1>1. ASSUME NEW c \in Builders, \A k \in DOMAIN routers[c] : routers[c][k].next \in T
      PROVE  c \in T
  <2> SUFFICES ASSUME NEW sub \in Sub, sub.next = c, c \in DOMAIN mounted, mounted[c].mask = sub.mask
               PROVE  from[sub] \in Seq(Moved(c, kind))
    OBVIOUS
  <2>1. /\ sub.mask \in Seq(STRING) /\ lists[c][kind] \in Seq(Own(c)) /\ lists[c][kind] \in Seq(Entry)
    BY PathsAssumption DEF Sub, Built, TypeOK, OwnEntries
  <2>2. Prefixed(sub.mask, lists[c][kind]) \in Seq(Moved(c, kind))
    <3> DEFINE list == Prefixed(sub.mask, lists[c][kind])
    <3>1. /\ list \in Seq(Entry) /\ DOMAIN list = DOMAIN lists[c][kind]
          /\ \A k \in DOMAIN lists[c][kind] : /\ list[k].id = lists[c][kind][k].id
                                              /\ list[k].path = sub.mask \o lists[c][kind][k].path
      BY <2>1, PrefixedIs
    <3>2. c \in Family(c)
      BY FamilyIs
    <3> HIDE DEF list
    <3>3. ASSUME NEW k \in DOMAIN list PROVE list[k] \in Moved(c, kind)
      <4>1. lists[c][kind][k] \in Own(c) /\ list[k] \in Entry
        BY <2>1, <3>1
      <4>2. /\ list[k].id \in DOMAIN entered
            /\ entered[list[k].id] = [builder |-> c, path |-> lists[c][kind][k].path]
        BY <3>1, <4>1 DEF Own
      <4> HIDE DEF from, T
      <4>3. list[k].path = mounted[c].mask \o entered[list[k].id].path
        <5>1. list[k].path = sub.mask \o lists[c][kind][k].path
          BY <3>1
        <5>2. entered[list[k].id].path = lists[c][kind][k].path
          BY <4>2
        <5> QED
          BY <5>1, <5>2
      <4>4. k \in DOMAIN lists[c][kind] /\ lists[c][kind][k].id = list[k].id
        BY <3>1
      <4>5. entered[list[k].id].builder = c
        BY <4>2
      <4>6. \E l \in DOMAIN lists[c][kind] : lists[c][kind][l].id = list[k].id
        BY <4>4
      <4> QED
        BY <3>2, <4>1, <4>2, <4>3, <4>5, <4>6 DEF Moved
    <3> HIDE DEF from, T
    <3>4. list \in Seq(Moved(c, kind))
      BY <3>1, <3>3, EachIn
    <3> QED
      BY <3>4 DEF list
  <2> DEFINE parts == [k \in DOMAIN routers[c] |-> from[routers[c][k]]]
  <2>3. parts \in Seq(Seq(Moved(c, kind)))
    <3>1. DOMAIN routers[c] = 1..Len(routers[c]) /\ Len(routers[c]) \in Nat
      BY DEF Built, TypeOK
    <3>2. ASSUME NEW k \in DOMAIN routers[c] PROVE from[routers[c][k]] \in Seq(Moved(c, kind))
      <4> DEFINE d == routers[c][k].next
      <4>1. /\ routers[c][k] \in Sub /\ d \in DOMAIN mounted
            /\ mounted[d] = [parent |-> c, mask |-> routers[c][k].mask]
        BY MountOf
      <4>2. from[routers[c][k]] \in Seq(Moved(d, kind))
        BY <1>1, <4>1
      <4>3. Family(d) \subseteq Family(c)
        BY FamilyIs
      <4>4. Moved(d, kind) \subseteq Moved(c, kind)
        BY <4>3 DEF Moved
      <4> HIDE DEF from, d
      <4> QED
        BY <4>2, <4>4
    <3> HIDE DEF from
    <3> QED
      BY <3>1, <3>2
  <2>4. FlattenSeq(parts) \in Seq(Moved(c, kind))
    <3> HIDE DEF parts
    <3> QED
      BY <2>3, FlattenType
  <2>5. from[sub] = Prefixed(sub.mask, lists[c][kind]) \o FlattenSeq(parts)
    BY SurrenderedIs DEF Part
  <2> HIDE DEF from, parts
  <2> QED
    BY <2>2, <2>4, <2>5, ConcatAt
<1>2. T = Builders
  <2> HIDE DEF T
  <2>1. T \in SUBSET Builders
    BY DEF T
  <2> QED
    BY <1>1, <2>1, FromBelow
<1> QED
  BY <1>2

\* What compiled() puts in a list of the new router.
Gathered(b, kind) ==
  lists[b][kind] \o FlattenSeq([k \in DOMAIN routers[b] |-> Surrendered(kind)[routers[b][k]]])

LEMMA PartsMoved ==
  ASSUME Built, NEW b \in Builders, NEW kind \in Kinds
  PROVE  /\ Len(routers[b]) \in Nat /\ DOMAIN routers[b] = 1..Len(routers[b])
         /\ \A k \in DOMAIN routers[b] : Surrendered(kind)[routers[b][k]] \in Seq(Moved(routers[b][k].next, kind))
         /\ \A k \in DOMAIN routers[b] : Moved(routers[b][k].next, kind) \subseteq Moved(b, kind)
         /\ [k \in DOMAIN routers[b] |-> Surrendered(kind)[routers[b][k]]] \in Seq(Seq(Moved(b, kind)))
<1> DEFINE from == Surrendered(kind)
<1>1. Len(routers[b]) \in Nat /\ DOMAIN routers[b] = 1..Len(routers[b])
  BY DEF Built, TypeOK
<1>2. ASSUME NEW k \in DOMAIN routers[b]
      PROVE  /\ from[routers[b][k]] \in Seq(Moved(routers[b][k].next, kind))
             /\ Moved(routers[b][k].next, kind) \subseteq Moved(b, kind)
  <2> DEFINE d == routers[b][k].next
  <2>1. /\ routers[b][k] \in Sub /\ d \in DOMAIN mounted /\ d \in Builders
        /\ mounted[d] = [parent |-> b, mask |-> routers[b][k].mask]
    BY MountOf
  <2>2. from[routers[b][k]] \in Seq(Moved(d, kind))
    BY <2>1, SurrenderedMoved
  <2>3. Family(d) \subseteq Family(b)
    BY FamilyIs
  <2> QED
    BY <2>2, <2>3 DEF Moved
<1> HIDE DEF from
<1>3. ASSUME NEW k \in DOMAIN routers[b] PROVE from[routers[b][k]] \in Seq(Moved(b, kind))
  BY <1>2
<1>4. [k \in DOMAIN routers[b] |-> from[routers[b][k]]] \in Seq(Seq(Moved(b, kind)))
  BY <1>1, <1>3
<1> QED
  BY <1>1, <1>2, <1>4 DEF from

LEMMA GatheredIs ==
  ASSUME Built, NEW b \in Builders, NEW kind \in Kinds
  PROVE  /\ lists[b][kind] \in Seq(Own(b))
         /\ FlattenSeq([k \in DOMAIN routers[b] |-> Surrendered(kind)[routers[b][k]]]) \in Seq(Moved(b, kind))
         /\ Gathered(b, kind) \in Seq(Own(b) \cup Moved(b, kind))
         /\ Gathered(b, kind) \in Seq(Entry)
<1> DEFINE parts == [k \in DOMAIN routers[b] |-> Surrendered(kind)[routers[b][k]]]
<1>1. lists[b][kind] \in Seq(Own(b))
  BY DEF Built, OwnEntries
<1>2. FlattenSeq(parts) \in Seq(Moved(b, kind))
  <2>1. parts \in Seq(Seq(Moved(b, kind)))
    BY PartsMoved
  <2> HIDE DEF parts
  <2> QED
    BY <2>1, FlattenType
<1>3. Gathered(b, kind) = lists[b][kind] \o FlattenSeq(parts)
  BY DEF Gathered
<1> HIDE DEF parts
<1>4. lists[b][kind] \in Seq(Own(b) \cup Moved(b, kind)) /\ FlattenSeq(parts) \in Seq(Own(b) \cup Moved(b, kind))
  BY <1>1, <1>2
<1>5. Gathered(b, kind) \in Seq(Own(b) \cup Moved(b, kind))
  BY <1>3, <1>4
<1>6. Own(b) \cup Moved(b, kind) \subseteq Entry
  BY DEF Own, Moved
<1>7. Gathered(b, kind) \in Seq(Entry)
  BY <1>5, <1>6
<1> QED
  BY <1>1, <1>2, <1>5, <1>7 DEF parts

\* What compiled() leaves.
LEMMA CompiledIs ==
  ASSUME BoundsAssumption, Built, NEW b \in Builders, Compiled(b)
  PROVE  /\ Len(compiled) \in Nat /\ Len(compiled') = Len(compiled) + 1 /\ Len(compiled') <= MaxRouters
         /\ DOMAIN compiled = 1..Len(compiled) /\ DOMAIN compiled' = 1..Len(compiled')
         /\ compiled' \in Seq([Kinds -> Seq(Entry)])
         /\ \A r \in DOMAIN compiled : compiled'[r] = compiled[r]
         /\ \A kind \in Kinds : compiled'[Len(compiled')][kind] = Gathered(b, kind)
         /\ \A c \in Builders : lists'[c] = IF c \in Family(b) THEN NoLists ELSE lists[c]
         /\ \A c \in Builders : routers'[c] = IF c \in Family(b) THEN <<>> ELSE routers[c]
         /\ lists' \in [Builders -> [Kinds -> Seq(Entry)]] /\ routers' \in [Builders -> Seq(Sub)]
         /\ UNCHANGED <<held, entered, mounted>>
<1> DEFINE all == [kind \in Kinds |-> Gathered(b, kind)]
<1>1. compiled' = Append(compiled, all) /\ Len(compiled) < MaxRouters
  BY DEF Compiled, Gathered
<1>2. all \in [Kinds -> Seq(Entry)] /\ \A kind \in Kinds : all[kind] = Gathered(b, kind)
  BY GatheredIs
<1>3. compiled \in Seq([Kinds -> Seq(Entry)])
  BY DEF Built, TypeOK
<1> HIDE DEF all
<1>4. /\ Len(compiled) \in Nat /\ Len(compiled') = Len(compiled) + 1 /\ Len(compiled') <= MaxRouters
      /\ DOMAIN compiled = 1..Len(compiled) /\ DOMAIN compiled' = 1..Len(compiled')
      /\ compiled' \in Seq([Kinds -> Seq(Entry)])
      /\ \A r \in DOMAIN compiled : compiled'[r] = compiled[r]
      /\ compiled'[Len(compiled')] = all
  BY <1>1, <1>2, <1>3, BoundsAssumption
<1>5. /\ lists' = [c \in Builders |-> IF c \in Family(b) THEN NoLists ELSE lists[c]]
      /\ routers' = [c \in Builders |-> IF c \in Family(b) THEN <<>> ELSE routers[c]]
      /\ UNCHANGED <<held, entered, mounted>>
  BY DEF Compiled, Emptied
<1>6. lists' \in [Builders -> [Kinds -> Seq(Entry)]]
  <2>1. NoLists \in [Kinds -> Seq(Entry)]
    BY DEF NoLists
  <2>2. \A c \in Builders : lists[c] \in [Kinds -> Seq(Entry)]
    BY DEF Built, TypeOK
  <2> QED
    BY <1>5, <2>1, <2>2
<1>7. routers' \in [Builders -> Seq(Sub)]
  BY <1>5 DEF Built, TypeOK
<1> QED
  BY <1>2, <1>4, <1>5, <1>6, <1>7

LEMMA CompiledStep ==
  ASSUME BoundsAssumption, Built, NEW b \in Builders, Compiled(b)
  PROVE  Built'
<1>0. TypeOK /\ OwnEntries /\ Mounts /\ Tree
  BY DEF Built
<1>1. /\ Len(compiled') <= MaxRouters
      /\ compiled' \in Seq([Kinds -> Seq(Entry)])
      /\ \A c \in Builders : lists'[c] = IF c \in Family(b) THEN NoLists ELSE lists[c]
      /\ \A c \in Builders : routers'[c] = IF c \in Family(b) THEN <<>> ELSE routers[c]
      /\ lists' \in [Builders -> [Kinds -> Seq(Entry)]] /\ routers' \in [Builders -> Seq(Sub)]
      /\ UNCHANGED <<held, entered, mounted>>
  BY CompiledIs
<1>2. \A c \in Builders : \A k \in DOMAIN routers'[c] : k \in DOMAIN routers[c] /\ routers'[c] = routers[c]
  BY <1>1
<1>3. TypeOK'
  <2>1. \A c \in Builders : \A k \in DOMAIN routers'[c] :
          mounted'[routers'[c][k].next] = [parent |-> c, mask |-> routers'[c][k].mask]
    BY <1>0, <1>1, <1>2 DEF TypeOK
  <2> QED
    BY <1>0, <1>1, <2>1 DEF TypeOK, Entry, Sub
<1>4. OwnEntries'
  <2>1. \A c \in Builders : Own(c)' = Own(c)
    BY <1>1 DEF Own
  <2>2. ASSUME NEW c \in Builders, NEW kind \in Kinds PROVE lists'[c][kind] \in Seq(Own(c))
    <3>1. lists[c][kind] \in Seq(Own(c)) /\ NoLists[kind] = <<>>
      BY <1>0 DEF OwnEntries, NoLists
    <3> QED
      BY <1>1, <3>1
  <2> QED
    BY <2>1, <2>2 DEF OwnEntries
<1>5. Mounts'
  <2>1. \A c \in Builders : \A k, l \in DOMAIN routers'[c] :
          /\ routers'[c][k].next \in DOMAIN mounted
          /\ routers'[c][k].next = routers'[c][l].next => k = l
    BY <1>0, <1>2 DEF Mounts
  <2>2. mounted' \in [Builders \ held' -> [parent : Builders, mask : MountPaths]] /\ mounted' = mounted
    BY <1>0, <1>1 DEF Mounts
  <2> QED
    BY <2>1, <2>2 DEF Mounts
<1>6. Tree'
  BY <1>0, <1>1 DEF Tree, Heights
<1> QED
  BY <1>3, <1>4, <1>5, <1>6 DEF Built

LEMMA Registers ==
  ASSUME NEW b \in held, Add(b) \/ Getish(b) \/ Use(b)
  PROVE  \E kinds \in KindLists, path \in Seq(STRING) : Register(b, kinds, path)
<1>1. CASE Add(b)
  BY <1>1, PathsAssumption DEF Add, KindLists
<1>2. CASE Getish(b)
  BY <1>2, PathsAssumption DEF Getish, KindLists
<1>3. CASE Use(b)
  <2>1. PICK path \in FilterPaths : Register(b, <<"filters">>, WithoutLastSlash(path))
    BY <1>3 DEF Use
  <2>2. path \in Seq(STRING)
    BY PathsAssumption
  <2>3. WithoutLastSlash(path) \in Seq(STRING)
    <3>1. path # <<>> => Len(path) \in Nat /\ Len(path) - 1 \in Nat /\ Len(path) - 1 <= Len(path)
      BY <2>2
    <3>2. path # <<>> => Front(path) \in Seq(STRING)
      BY <2>2, <3>1 DEF Front
    <3> QED
      BY <2>2, <3>2 DEF WithoutLastSlash
  <2>4. <<"filters">> \in KindLists
    BY DEF KindLists
  <2> QED
    BY <2>1, <2>3, <2>4
<1> QED
  BY <1>1, <1>2, <1>3

LEMMA NextBuilt == Built /\ [Next]_vars => Built'
<1> SUFFICES ASSUME Built, [Next]_vars PROVE Built'
  OBVIOUS
<1>0. held \subseteq Builders
  BY DEF Built, TypeOK
<1>1. ASSUME NEW b \in held, Add(b) \/ Getish(b) \/ Use(b) PROVE Built'
  BY <1>0, <1>1, Registers, RegisterStep, BoundsAssumption
<1>2. ASSUME NEW b \in held, AppendRouter(b) PROVE Built'
  BY <1>2, AppendRouterStep
<1>3. ASSUME NEW b \in held, Compiled(b) PROVE Built'
  BY <1>0, <1>3, CompiledStep, BoundsAssumption
<1>4. CASE UNCHANGED vars
  <2>0. TypeOK /\ OwnEntries /\ Mounts /\ Tree
    BY DEF Built
  <2>1. TypeOK'
    BY <1>4, <2>0 DEF vars, TypeOK, Entry, Sub
  <2>2. OwnEntries'
    BY <1>4, <2>0 DEF vars, OwnEntries, Own
  <2>3. Mounts' /\ Tree'
    BY <1>4, <2>0 DEF vars, Mounts, Tree, Heights
  <2> QED
    BY <2>1, <2>2, <2>3 DEF Built
<1> QED
  BY <1>1, <1>2, <1>3, <1>4 DEF Next

THEOREM AlwaysBuilt == Spec => []Built
BY InitBuilt, NextBuilt, PTL DEF Spec

\* Builders keep the lists that the code's types say they have, and what a
\* builder owns is owned by no other.
THEOREM TypeCorrect == Spec => []TypeOK
<1>1. Built => TypeOK
  BY DEF Built
<1> QED
  BY AlwaysBuilt, <1>1, PTL

--------------------------------------------------------------------------------
(* Where a path goes.                                                      *)

\* However deep builders are nested, compiled() puts one mask before a path, the
\* one that the builder it was registered with is mounted at, and none if the
\* builder is not mounted.
THEOREM PathsMoved == Spec => BelowItsMount
<1> DEFINE Mask(c) == IF c \in held THEN <<>> ELSE mounted[c].mask
           Placed == \A e \in NewEntries : e.path = Mask(entered[e.id].builder) \o entered[e.id].path
<1>1. ASSUME Built, [Next]_vars PROVE [Placed]_vars
  <2>0. held \subseteq Builders /\ DOMAIN mounted = Builders \ held
    BY <1>1 DEF Built, TypeOK, Mounts
  <2>1. CASE compiled' = compiled
    BY <2>1 DEF NewEntries
  <2>2. ASSUME NEW b \in held, Compiled(b) PROVE Placed
    <3> SUFFICES ASSUME NEW kind \in Kinds, NEW e \in Range(Last(compiled')[kind])
                 PROVE  e.path = Mask(entered[e.id].builder) \o entered[e.id].path
      BY DEF NewEntries
    <3>1. Last(compiled')[kind] = Gathered(b, kind)
      BY <1>1, <2>0, <2>2, CompiledIs, BoundsAssumption DEF Last
    <3>2. e \in Own(b) \cup Moved(b, kind)
      <4>1. Gathered(b, kind) \in Seq(Own(b) \cup Moved(b, kind))
        BY <1>1, <2>0, GatheredIs
      <4> QED
        BY <3>1, <4>1 DEF Range
    <3>3. CASE e \in Own(b)
      <4>1. entered[e.id] = [builder |-> b, path |-> e.path] /\ e.path \in Seq(STRING)
        BY <3>3 DEF Own, Entry
      <4>2. <<>> \o e.path = e.path
        BY <4>1
      <4> QED
        BY <2>2, <4>1, <4>2
    <3>4. CASE e \in Moved(b, kind)
      BY <2>0, <3>4 DEF Moved
    <3> QED
      BY <3>2, <3>3, <3>4
  <2>3. compiled' = compiled \/ \E b \in held : Compiled(b)
    BY <1>1 DEF Next, vars, Add, Getish, Use, Register, AppendRouter
  <2> QED
    BY <2>1, <2>2, <2>3
<1> HIDE DEF Placed
<1>2. Spec => [][Placed]_vars
  BY <1>1, AlwaysBuilt, PTL DEF Spec
<1> QED
  BY <1>2 DEF BelowItsMount, Placed

--------------------------------------------------------------------------------
(* Which builder is above which, for any mounts m that nest them.          *)

Nested(m) ==
  /\ \A c \in DOMAIN m : c \in Builders /\ m[c].parent \in Builders
  /\ \E n \in Nat : \E h \in [Builders -> 0..n] : \A c \in DOMAIN m : h[c] < h[m[c].parent]

\* c is mounted in b, or in one that f says is below b.
Inside(f, m, b, c) == c \in DOMAIN m /\ (m[c].parent = b \/ f[m[c].parent])

AboveIn(m, b, c) ==
  LET above[d \in Builders] == d \in DOMAIN m /\ (m[d].parent = b \/ above[m[d].parent])
  IN  above[c]

LEMMA BuiltNested == Built => Nested(mounted)
<1> SUFFICES ASSUME Built PROVE Nested(mounted)
  OBVIOUS
<1>1. \A c \in DOMAIN mounted : c \in Builders /\ mounted[c].parent \in Builders
  BY DEF Built, Mounts
<1>2. \E n \in Nat : \E h \in [Builders -> 0..n] : \A c \in DOMAIN mounted : h[c] < h[mounted[c].parent]
  BY DEF Built, Tree, Heights
<1> QED
  BY <1>1, <1>2 DEF Nested

\* How far below the highest builder each one is.
LEMMA Depths ==
  ASSUME NEW m, Nested(m)
  PROVE  \E n \in Nat : \E g \in [Builders -> 0..n] : \A c \in DOMAIN m : g[m[c].parent] < g[c]
<1>0. PICK n \in Nat : \E h \in [Builders -> 0..n] : \A c \in DOMAIN m : h[c] < h[m[c].parent]
  BY DEF Nested
<1>1. PICK h \in [Builders -> 0..n] : \A c \in DOMAIN m : h[c] < h[m[c].parent]
  BY <1>0
<1> DEFINE g == [c \in Builders |-> n - h[c]]
<1>2. \A c \in Builders : h[c] \in 0..n /\ n - h[c] \in 0..n
  BY <1>1
<1>3. g \in [Builders -> 0..n]
  BY <1>2
<1>4. \A c \in DOMAIN m : g[m[c].parent] < g[c]
  BY <1>1, <1>2 DEF Nested
<1> QED
  BY <1>3, <1>4

\* A set that has a builder once it has the one above it has every builder.
LEMMA FromAbove ==
  ASSUME NEW m, Nested(m), NEW T \in SUBSET Builders,
         \A c \in Builders : (c \in DOMAIN m => m[c].parent \in T) => c \in T
  PROVE  T = Builders
<1>0. PICK n \in Nat : \E g \in [Builders -> 0..n] : \A c \in DOMAIN m : g[m[c].parent] < g[c]
  BY Depths
<1>1. PICK g \in [Builders -> 0..n] : \A c \in DOMAIN m : g[m[c].parent] < g[c]
  BY <1>0
<1> DEFINE N == {i \in Nat : \A c \in Builders : g[c] < i => c \in T}
<1>2. 0 \in N
  BY <1>1
<1>3. ASSUME NEW i \in N PROVE i + 1 \in N
  <2> SUFFICES ASSUME NEW c \in Builders, g[c] < i + 1 PROVE c \in T
    BY <1>3
  <2>1. ASSUME c \in DOMAIN m PROVE m[c].parent \in T
    <3>1. m[c].parent \in Builders /\ g[m[c].parent] < g[c]
      BY <1>1, <2>1 DEF Nested
    <3>2. g[m[c].parent] < i
      BY <1>1, <1>3, <3>1
    <3> QED
      BY <1>3, <3>1, <3>2
  <2> QED
    BY <2>1
<1>4. N = Nat
  <2> HIDE DEF N
  <2>1. N \in SUBSET Nat
    BY DEF N
  <2> QED
    BY <1>2, <1>3, <2>1, NumberInduction
<1>5. n + 1 \in N
  <2> HIDE DEF N
  <2> QED
    BY <1>1, <1>4
<1> QED
  BY <1>1, <1>5

LEMMA AboveExists ==
  ASSUME NEW m, Nested(m), NEW b
  PROVE  \E f : f = [c \in Builders |-> Inside(f, m, b, c)]
<1>0. PICK n \in Nat : \E g \in [Builders -> 0..n] : \A c \in DOMAIN m : g[m[c].parent] < g[c]
  BY Depths
<1>1. PICK g \in [Builders -> 0..n] : \A c \in DOMAIN m : g[m[c].parent] < g[c]
  BY <1>0
<1> DEFINE High(f, i, c) == IF g[c] < i THEN Inside(f, m, b, c) ELSE FALSE
           N == {i \in Nat : \E f : f = [c \in Builders |-> High(f, i, c)]}
<1>2. 0 \in N
  <2>1. \A c \in Builders : ~(g[c] < 0)
    BY <1>1
  <2>2. [c \in Builders |-> FALSE] = [c \in Builders |-> High([d \in Builders |-> FALSE], 0, c)]
    BY <2>1
  <2> HIDE DEF High
  <2>3. \E f : f = [c \in Builders |-> High(f, 0, c)]
    BY <2>2
  <2> QED
    BY <2>3
<1>3. ASSUME NEW i \in N PROVE i + 1 \in N
  <2>1. PICK f : f = [c \in Builders |-> High(f, i, c)]
    BY <1>3
  <2> DEFINE e == [c \in Builders |-> High(f, i + 1, c)]
  <2>2. ASSUME NEW c \in Builders, g[c] < i PROVE e[c] = f[c]
    <3>1. g[c] < i + 1
      BY <1>1, <1>3, <2>2
    <3> HIDE DEF N
    <3> QED
      BY <2>1, <2>2, <3>1
  <2>3. ASSUME NEW c \in Builders, g[c] < i + 1 PROVE Inside(e, m, b, c) = Inside(f, m, b, c)
    <3>1. ASSUME c \in DOMAIN m PROVE e[m[c].parent] = f[m[c].parent]
      <4>1. m[c].parent \in Builders /\ g[m[c].parent] < g[c]
        BY <1>1, <3>1 DEF Nested
      <4>2. g[m[c].parent] < i
        BY <1>1, <1>3, <2>3, <4>1
      <4> HIDE DEF e
      <4> QED
        BY <2>2, <4>1, <4>2
    <3> HIDE DEF e
    <3> QED
      BY <3>1 DEF Inside
  <2>4. e = [c \in Builders |-> High(e, i + 1, c)]
    <3>1. \A c \in Builders : High(e, i + 1, c) = High(f, i + 1, c)
      <4> HIDE DEF e
      <4> QED
        BY <2>3
    <3> HIDE DEF High
    <3> QED
      BY <3>1
  <2> HIDE DEF e, High
  <2>5. \E s : s = [c \in Builders |-> High(s, i + 1, c)]
    BY <2>4
  <2> QED
    BY <1>3, <2>5
<1>4. N = Nat
  <2> HIDE DEF N
  <2>1. N \in SUBSET Nat
    BY DEF N
  <2> QED
    BY <1>2, <1>3, <2>1, NumberInduction
<1>5. n + 1 \in N
  <2> HIDE DEF N
  <2> QED
    BY <1>1, <1>4
<1>6. PICK f : f = [c \in Builders |-> High(f, n + 1, c)]
  <2> HIDE DEF High
  <2> QED
    BY <1>5
<1>7. ASSUME NEW c \in Builders PROVE High(f, n + 1, c) = Inside(f, m, b, c)
  <2>1. g[c] < n + 1
    BY <1>1
  <2> QED
    BY <2>1, Zenon DEF Inside
<1> HIDE DEF High
<1>8. f = [c \in Builders |-> Inside(f, m, b, c)]
  BY <1>6, <1>7
<1> QED
  BY <1>8

LEMMA AboveIs ==
  ASSUME NEW m, Nested(m), NEW b, NEW c \in Builders
  PROVE  AboveIn(m, b, c) <=> c \in DOMAIN m /\ (m[c].parent = b \/ AboveIn(m, b, m[c].parent))
<1> DEFINE above == CHOOSE f : f = [d \in Builders |-> Inside(f, m, b, d)]
<1>1. above = [d \in Builders |-> Inside(above, m, b, d)]
  BY AboveExists
<1>2. \A d : AboveIn(m, b, d) = above[d]
  BY DEF AboveIn, Inside
<1> HIDE DEF above
<1>3. above[c] = Inside(above, m, b, c)
  BY <1>1
<1>4. AboveIn(m, b, c) = (c \in DOMAIN m /\ (m[c].parent = b \/ above[m[c].parent]))
  BY <1>2, <1>3 DEF Inside
<1>5. AboveIn(m, b, m[c].parent) = above[m[c].parent]
  BY <1>2
<1>6. AboveIn(m, b, c) <=> c \in DOMAIN m /\ (m[c].parent = b \/ above[m[c].parent])
  BY <1>4
<1> QED
  BY <1>5, <1>6

\* What is above is higher, and what is above that is above, too.
LEMMA AboveHigher ==
  ASSUME NEW m, Nested(m), NEW n \in Nat, NEW h \in [Builders -> 0..n],
         \A c \in DOMAIN m : h[c] < h[m[c].parent], NEW b \in Builders
  PROVE  \A c \in Builders : AboveIn(m, b, c) => h[c] < h[b]
<1> DEFINE T == {c \in Builders : AboveIn(m, b, c) => h[c] < h[b]}
<1>1. ASSUME NEW c \in Builders, c \in DOMAIN m => m[c].parent \in T PROVE c \in T
  <2> SUFFICES ASSUME AboveIn(m, b, c) PROVE h[c] < h[b]
    OBVIOUS
  <2>1. c \in DOMAIN m /\ (m[c].parent = b \/ AboveIn(m, b, m[c].parent))
    BY AboveIs
  <2>2. m[c].parent \in Builders /\ h[c] < h[m[c].parent]
    BY <2>1 DEF Nested
  <2>3. m[c].parent = b \/ h[m[c].parent] < h[b]
    BY <1>1, <2>1
  <2>4. h[c] \in Int /\ h[b] \in Int /\ h[m[c].parent] \in Int
    BY <2>2
  <2> QED
    BY <2>2, <2>3, <2>4
<1>2. T = Builders
  <2> HIDE DEF T
  <2>1. T \in SUBSET Builders
    BY DEF T
  <2> QED
    BY <1>1, <2>1, FromAbove
<1> QED
  BY <1>2

LEMMA AboveTransitive ==
  ASSUME NEW m, Nested(m), NEW a \in Builders, NEW b \in Builders, AboveIn(m, a, b)
  PROVE  \A c \in Builders : AboveIn(m, b, c) => AboveIn(m, a, c)
<1> DEFINE T == {c \in Builders : AboveIn(m, b, c) => AboveIn(m, a, c)}
<1>1. ASSUME NEW c \in Builders, c \in DOMAIN m => m[c].parent \in T PROVE c \in T
  <2> SUFFICES ASSUME AboveIn(m, b, c) PROVE AboveIn(m, a, c)
    OBVIOUS
  <2>1. c \in DOMAIN m /\ (m[c].parent = b \/ AboveIn(m, b, m[c].parent))
    BY AboveIs
  <2>2. AboveIn(m, a, m[c].parent)
    BY <1>1, <2>1
  <2> QED
    BY <2>1, <2>2, AboveIs
<1>2. T = Builders
  <2> HIDE DEF T
  <2>1. T \in SUBSET Builders
    BY DEF T
  <2> QED
    BY <1>1, <2>1, FromAbove
<1> QED
  BY <1>2

LEMMA NotAboveItself ==
  ASSUME NEW m, Nested(m), NEW b \in Builders
  PROVE  ~AboveIn(m, b, b)
<1>0. PICK n \in Nat : \E h \in [Builders -> 0..n] : \A c \in DOMAIN m : h[c] < h[m[c].parent]
  BY DEF Nested
<1>1. PICK h \in [Builders -> 0..n] : \A c \in DOMAIN m : h[c] < h[m[c].parent]
  BY <1>0
<1>2. AboveIn(m, b, b) => h[b] < h[b]
  BY <1>1, AboveHigher
<1>3. h[b] \in Int
  BY <1>1
<1> QED
  BY <1>2, <1>3

Under(m, b, c) == c = b \/ AboveIn(m, b, c)

\* Nothing is below two that are mounted in the same builder.
LEMMA SiblingsApart ==
  ASSUME NEW m, Nested(m), NEW d \in DOMAIN m, NEW e \in DOMAIN m, d # e, m[d].parent = m[e].parent
  PROVE  \A c \in Builders : ~(Under(m, d, c) /\ Under(m, e, c))
<1>0. d \in Builders /\ e \in Builders /\ m[d].parent \in Builders
  BY DEF Nested
<1> DEFINE T == {c \in Builders : ~(Under(m, d, c) /\ Under(m, e, c))}
<1>1. ASSUME NEW x \in DOMAIN m, NEW y \in DOMAIN m, x # y, m[x].parent = m[y].parent
      PROVE  ~AboveIn(m, x, y)
  <2> SUFFICES ASSUME AboveIn(m, x, y) PROVE FALSE
    OBVIOUS
  <2>0. x \in Builders /\ y \in Builders /\ m[x].parent \in Builders
    BY DEF Nested
  <2>1. m[y].parent = x \/ AboveIn(m, x, m[y].parent)
    BY <2>0, AboveIs
  <2>2. AboveIn(m, m[x].parent, x)
    BY <2>0, AboveIs
  <2>3. AboveIn(m, x, x) \/ AboveIn(m, m[x].parent, m[x].parent)
    BY <1>1, <2>0, <2>1, <2>2, AboveTransitive
  <2> QED
    BY <2>0, <2>3, NotAboveItself
<1>2. ASSUME NEW c \in Builders, c \in DOMAIN m => m[c].parent \in T PROVE c \in T
  <2> SUFFICES ASSUME Under(m, d, c), Under(m, e, c) PROVE FALSE
    OBVIOUS
  <2>1. CASE c = d
    BY <1>1, <2>1 DEF Under
  <2>2. CASE c = e
    BY <1>1, <2>2 DEF Under
  <2>3. CASE c # d /\ c # e
    <3>1. /\ c \in DOMAIN m
          /\ m[c].parent = d \/ AboveIn(m, d, m[c].parent)
          /\ m[c].parent = e \/ AboveIn(m, e, m[c].parent)
      BY <2>3, AboveIs DEF Under
    <3> QED
      BY <1>2, <3>1 DEF Under
  <2> QED
    BY <2>1, <2>2, <2>3
<1>3. T = Builders
  <2> HIDE DEF T
  <2>1. T \in SUBSET Builders
    BY DEF T
  <2> QED
    BY <1>2, <2>1, FromAbove
<1> QED
  BY <1>3

\* A family is below its head.
LEMMA FamilyUnder ==
  ASSUME Built
  PROVE  \A b \in Builders : \A c \in Family(b) : c \in Builders /\ Under(mounted, b, c)
<1> DEFINE T == {b \in Builders : \A c \in Family(b) : c \in Builders /\ Under(mounted, b, c)}
<1>0. Nested(mounted)
  BY BuiltNested
<1>1. ASSUME NEW b \in Builders, \A k \in DOMAIN routers[b] : routers[b][k].next \in T PROVE b \in T
  <2> SUFFICES ASSUME NEW c \in Family(b) PROVE c \in Builders /\ Under(mounted, b, c)
    OBVIOUS
  <2>1. CASE c = b
    BY <2>1 DEF Under
  <2>2. ASSUME NEW k \in DOMAIN routers[b], c \in Family(routers[b][k].next)
        PROVE  c \in Builders /\ Under(mounted, b, c)
    <3> DEFINE d == routers[b][k].next
    <3>1. /\ d \in Builders /\ d \in DOMAIN mounted
          /\ mounted[d] = [parent |-> b, mask |-> routers[b][k].mask]
      BY MountOf
    <3>2. c \in Builders /\ Under(mounted, d, c)
      BY <1>1, <2>2
    <3> HIDE DEF d, T
    <3>3. AboveIn(mounted, b, d)
      BY <1>0, <3>1, AboveIs
    <3>4. AboveIn(mounted, b, c)
      BY <1>0, <3>1, <3>2, <3>3, AboveTransitive DEF Under
    <3> QED
      BY <3>2, <3>4 DEF Under
  <2> QED
    BY <2>1, <2>2, FamilyIs
<1>2. T = Builders
  <2> HIDE DEF T
  <2>1. T \in SUBSET Builders
    BY DEF T
  <2> QED
    BY <1>1, <2>1, FromBelow
<1> QED
  BY <1>2

--------------------------------------------------------------------------------
(* In which order entries are surrendered.                                 *)

Increasing ==
  \A c \in Builders, kind \in Kinds : \A i, j \in DOMAIN lists[c][kind] :
    i < j => lists[c][kind][i].id < lists[c][kind][j].id

\* The first of a pair of entries may go before the second in a list of a router.
InOrder ==
  {pair \in Entry \X Entry :
     LET x == pair[1]
         y == pair[2]
         b == entered[x.id].builder
         c == entered[y.id].builder
     IN  x.id # y.id /\ (b = c => x.id < y.id) /\ ~AboveIn(mounted, c, b)}

\* The list has all that the family of c has of a kind.
Covers(list, c, kind) ==
  \A d \in Family(c) : \A j \in DOMAIN lists[d][kind] :
    \E e \in Range(list) : e.id = lists[d][kind][j].id

Parts(c, kind) == [k \in DOMAIN routers[c] |-> Surrendered(kind)[routers[c][k]]]

\* A builder's own entries and then those of the ones below it are in order, if
\* each of these surrenders its entries in order.
LEMMA OrderKept ==
  ASSUME Built, Increasing, NEW c \in Builders, NEW kind \in Kinds,
         NEW own \in Seq(Entry), DOMAIN own = DOMAIN lists[c][kind],
         \A k \in DOMAIN own : own[k].id = lists[c][kind][k].id,
         \A k \in DOMAIN routers[c] : Pairwise(Surrendered(kind)[routers[c][k]], InOrder)
  PROVE  Pairwise(own \o FlattenSeq(Parts(c, kind)), InOrder)
<1> DEFINE parts == Parts(c, kind)
           Child(k) == routers[c][k].next
<1>0. Nested(mounted)
  BY BuiltNested
<1>1. /\ DOMAIN parts = DOMAIN routers[c] /\ parts \in Seq(Seq(Moved(c, kind)))
      /\ DOMAIN routers[c] = 1..Len(routers[c]) /\ Len(routers[c]) \in Nat
      /\ \A k \in DOMAIN parts : parts[k] \in Seq(Moved(Child(k), kind))
      /\ \A k \in DOMAIN parts : Pairwise(parts[k], InOrder)
  BY PartsMoved DEF Parts
<1>2. \A k \in DOMAIN parts : /\ Child(k) \in Builders /\ Child(k) \in DOMAIN mounted
                              /\ mounted[Child(k)].parent = c
  BY <1>1, MountOf
<1> HIDE DEF Child, parts
<1>3. \A k \in DOMAIN parts : AboveIn(mounted, c, Child(k))
  BY <1>0, <1>2, AboveIs
<1>4. ASSUME NEW k \in DOMAIN parts, NEW x \in Range(parts[k])
      PROVE  /\ x \in Entry /\ x.id \in DOMAIN entered
             /\ entered[x.id].builder \in Builders /\ Under(mounted, Child(k), entered[x.id].builder)
  <2>1. x \in Moved(Child(k), kind)
    <3>1. parts[k] \in Seq(Moved(Child(k), kind))
      BY <1>1
    <3> QED
      BY <3>1 DEF Range
  <2>2. x \in Entry /\ x.id \in DOMAIN entered /\ entered[x.id].builder \in Family(Child(k))
    BY <2>1 DEF Moved
  <2>3. \A d \in Family(Child(k)) : d \in Builders /\ Under(mounted, Child(k), d)
    BY <1>2, FamilyUnder
  <2> QED
    BY <2>2, <2>3
<1>5. \A k \in DOMAIN own : /\ own[k] \in Entry /\ own[k].id \in DOMAIN entered
                            /\ entered[own[k].id].builder = c
  <2> SUFFICES ASSUME NEW k \in DOMAIN own
               PROVE  /\ own[k] \in Entry /\ own[k].id \in DOMAIN entered
                      /\ entered[own[k].id].builder = c
    OBVIOUS
  <2>1. lists[c][kind][k] \in Own(c)
    BY DEF Built, OwnEntries
  <2> QED
    BY <2>1 DEF Own
<1>6. Pairwise(own, InOrder)
  <2> SUFFICES ASSUME NEW i \in DOMAIN own, NEW j \in DOMAIN own, i < j
               PROVE  <<own[i], own[j]>> \in InOrder
    BY DEF Pairwise
  <2>1. own[i].id < own[j].id /\ own[i].id \in Nat /\ own[j].id \in Nat
    <3>1. own[i].id < own[j].id
      BY DEF Increasing
    <3>2. own[i] \in Entry /\ own[j] \in Entry
      BY <1>5
    <3> QED
      BY <3>1, <3>2 DEF Entry
  <2>2. ~AboveIn(mounted, c, c)
    BY <1>0, NotAboveItself
  <2>3. own[i].id # own[j].id
    BY <2>1
  <2> QED
    BY <1>5, <2>1, <2>2, <2>3 DEF InOrder
<1>7. \A k, l \in DOMAIN parts : k < l =>
        \A x \in Range(parts[k]), y \in Range(parts[l]) : <<x, y>> \in InOrder
  <2> SUFFICES ASSUME NEW k \in DOMAIN parts, NEW l \in DOMAIN parts, k < l,
                      NEW x \in Range(parts[k]), NEW y \in Range(parts[l])
               PROVE  <<x, y>> \in InOrder
    OBVIOUS
  <2> DEFINE bx == entered[x.id].builder
             by == entered[y.id].builder
  <2>1. /\ x \in Entry /\ y \in Entry /\ bx \in Builders /\ by \in Builders
        /\ Under(mounted, Child(k), bx) /\ Under(mounted, Child(l), by)
    BY <1>4
  <2>2. Child(k) # Child(l)
    <3>1. k # l /\ k \in DOMAIN routers[c] /\ l \in DOMAIN routers[c]
      BY <1>1
    <3> QED
      BY <3>1 DEF Built, Mounts, Child
  <2>3. \A d \in Builders : ~(Under(mounted, Child(k), d) /\ Under(mounted, Child(l), d))
    BY <1>0, <1>2, <1>3, <2>2, SiblingsApart
  <2>4. bx # by
    BY <2>1, <2>3
  <2>5. ~AboveIn(mounted, by, bx)
    <3> SUFFICES ASSUME AboveIn(mounted, by, bx) PROVE FALSE
      OBVIOUS
    <3> HIDE DEF bx, by
    <3>1. Under(mounted, Child(l), bx)
      BY <1>0, <1>2, <2>1, AboveTransitive DEF Under
    <3> QED
      BY <2>1, <2>3, <3>1
  <2> QED
    BY <2>1, <2>4, <2>5 DEF InOrder
<1>8. Pairwise(FlattenSeq(parts), InOrder) /\ FlattenSeq(parts) \in Seq(Moved(c, kind))
      /\ Range(FlattenSeq(parts)) = UNION {Range(parts[k]) : k \in DOMAIN parts}
  BY <1>1, <1>7, FlattenPairwise, FlattenType, FlattenRange
<1>9. \A x \in Range(own), y \in Range(FlattenSeq(parts)) : <<x, y>> \in InOrder
  <2> SUFFICES ASSUME NEW i \in DOMAIN own, NEW k \in DOMAIN parts, NEW y \in Range(parts[k])
               PROVE  <<own[i], y>> \in InOrder
    BY <1>8 DEF Range
  <2> DEFINE by == entered[y.id].builder
  <2>1. y \in Entry /\ by \in Builders /\ Under(mounted, Child(k), by)
    BY <1>4
  <2> HIDE DEF by
  <2>2. AboveIn(mounted, c, by)
    BY <1>0, <1>2, <1>3, <2>1, AboveTransitive DEF Under
  <2>3. by # c /\ ~AboveIn(mounted, by, c)
    <3>1. ~AboveIn(mounted, c, c)
      BY <1>0, NotAboveItself
    <3>2. AboveIn(mounted, by, c) => AboveIn(mounted, c, c)
      BY <1>0, <2>1, <2>2, AboveTransitive
    <3> QED
      BY <2>2, <3>1, <3>2
  <2> QED
    BY <1>5, <2>1, <2>3 DEF InOrder, by
<1>10. own \in Seq(Entry) /\ FlattenSeq(parts) \in Seq(Entry)
  <2>1. Moved(c, kind) \subseteq Entry
    BY DEF Moved
  <2> QED
    BY <1>8, <2>1
<1>11. Pairwise(own \o FlattenSeq(parts), InOrder)
  BY <1>6, <1>8, <1>9, <1>10, ConcatPairwise
<1> QED
  BY <1>11 DEF parts

\* They are all there, if each of these surrenders all it has.
LEMMA CoverKept ==
  ASSUME Built, NEW c \in Builders, NEW kind \in Kinds,
         NEW own \in Seq(Entry), DOMAIN own = DOMAIN lists[c][kind],
         \A k \in DOMAIN own : own[k].id = lists[c][kind][k].id,
         \A k \in DOMAIN routers[c] : Covers(Surrendered(kind)[routers[c][k]], routers[c][k].next, kind)
  PROVE  Covers(own \o FlattenSeq(Parts(c, kind)), c, kind)
<1> DEFINE parts == Parts(c, kind)
<1>1. /\ DOMAIN parts = DOMAIN routers[c] /\ parts \in Seq(Seq(Moved(c, kind)))
      /\ \A k \in DOMAIN parts : Covers(parts[k], routers[c][k].next, kind)
  BY PartsMoved DEF Parts
<1> HIDE DEF parts
<1>2. Moved(c, kind) \subseteq Entry
  BY DEF Moved
<1>3. FlattenSeq(parts) \in Seq(Entry) /\ Range(FlattenSeq(parts)) = UNION {Range(parts[k]) : k \in DOMAIN parts}
  <2>1. FlattenSeq(parts) \in Seq(Moved(c, kind))
    BY <1>1, FlattenType
  <2> QED
    BY <1>1, <1>2, <2>1, FlattenRange
<1>4. Range(own \o FlattenSeq(parts)) = Range(own) \cup UNION {Range(parts[k]) : k \in DOMAIN parts}
  BY <1>3, ConcatRange
<1>5. ASSUME NEW d \in Family(c), NEW j \in DOMAIN lists[d][kind]
      PROVE  \E e \in Range(own \o FlattenSeq(parts)) : e.id = lists[d][kind][j].id
  <2>1. CASE d = c
    <3>1. own[j] \in Range(own) /\ own[j].id = lists[d][kind][j].id
      BY <2>1 DEF Range
    <3> QED
      BY <1>4, <3>1
  <2>2. ASSUME NEW k \in DOMAIN routers[c], d \in Family(routers[c][k].next)
        PROVE  \E e \in Range(own \o FlattenSeq(parts)) : e.id = lists[d][kind][j].id
    <3>1. PICK e \in Range(parts[k]) : e.id = lists[d][kind][j].id
      BY <1>1, <2>2 DEF Covers
    <3> QED
      BY <1>1, <1>4, <3>1
  <2> QED
    BY <2>1, <2>2, FamilyIs
<1>6. Covers(own \o FlattenSeq(parts), c, kind)
  BY <1>5 DEF Covers
<1> QED
  BY <1>6 DEF parts

LEMMA SurrenderedWhole ==
  ASSUME Built, Increasing, NEW kind \in Kinds
  PROVE  \A c \in Builders, sub \in Sub :
           sub.next = c => /\ Pairwise(Surrendered(kind)[sub], InOrder)
                           /\ Covers(Surrendered(kind)[sub], c, kind)
<1> DEFINE T == {c \in Builders : \A sub \in Sub :
                   sub.next = c => /\ Pairwise(Surrendered(kind)[sub], InOrder)
                                   /\ Covers(Surrendered(kind)[sub], c, kind)}
<1>1. ASSUME NEW c \in Builders, \A k \in DOMAIN routers[c] : routers[c][k].next \in T
      PROVE  c \in T
  <2> SUFFICES ASSUME NEW sub \in Sub, sub.next = c
               PROVE  /\ Pairwise(Surrendered(kind)[sub], InOrder)
                      /\ Covers(Surrendered(kind)[sub], c, kind)
    OBVIOUS
  <2> DEFINE own == Prefixed(sub.mask, lists[c][kind])
  <2>1. /\ sub.mask \in Seq(STRING) /\ lists[c][kind] \in Seq(Entry)
    BY PathsAssumption DEF Sub, Built, TypeOK
  <2>2. /\ own \in Seq(Entry) /\ DOMAIN own = DOMAIN lists[c][kind]
        /\ \A k \in DOMAIN lists[c][kind] : own[k].id = lists[c][kind][k].id
    BY <2>1, PrefixedIs
  <2>3. Surrendered(kind)[sub] = own \o FlattenSeq(Parts(c, kind))
    BY SurrenderedIs DEF Part, Parts
  <2> HIDE DEF own
  <2>4. ASSUME NEW k \in DOMAIN routers[c]
        PROVE  /\ Pairwise(Surrendered(kind)[routers[c][k]], InOrder)
               /\ Covers(Surrendered(kind)[routers[c][k]], routers[c][k].next, kind)
    BY <1>1, MountOf
  <2> HIDE DEF T
  <2>5. Pairwise(own \o FlattenSeq(Parts(c, kind)), InOrder)
    BY <2>2, <2>4, OrderKept
  <2>6. Covers(own \o FlattenSeq(Parts(c, kind)), c, kind)
    BY <2>2, <2>4, CoverKept
  <2> QED
    BY <2>3, <2>5, <2>6
<1>2. T = Builders
  <2> HIDE DEF T
  <2>1. T \in SUBSET Builders
    BY DEF T
  <2> QED
    BY <1>1, <2>1, FromBelow
<1> QED
  BY <1>2

\* compiled() gathers all that the family has, in order.
LEMMA GatheredWhole ==
  ASSUME Built, Increasing, NEW b \in Builders, NEW kind \in Kinds
  PROVE  Pairwise(Gathered(b, kind), InOrder) /\ Covers(Gathered(b, kind), b, kind)
<1>1. lists[b][kind] \in Seq(Entry)
  BY DEF Built, TypeOK
<1>2. ASSUME NEW k \in DOMAIN routers[b]
      PROVE  /\ Pairwise(Surrendered(kind)[routers[b][k]], InOrder)
             /\ Covers(Surrendered(kind)[routers[b][k]], routers[b][k].next, kind)
  BY MountOf, SurrenderedWhole
<1>3. Gathered(b, kind) = lists[b][kind] \o FlattenSeq(Parts(b, kind))
  BY DEF Gathered, Parts
<1>4. Pairwise(lists[b][kind] \o FlattenSeq(Parts(b, kind)), InOrder)
  BY <1>1, <1>2, OrderKept
<1>5. Covers(lists[b][kind] \o FlattenSeq(Parts(b, kind)), b, kind)
  BY <1>1, <1>2, CoverKept
<1> QED
  BY <1>3, <1>4, <1>5

--------------------------------------------------------------------------------
(* Every entry is kept, in one place.                                      *)

KnownEntries == {e \in Entry : e.id \in DOMAIN entered}

Known == \A home \in Homes : ListAt(home) \in Seq(KnownEntries)

Found ==
  \A id \in DOMAIN entered : \E home \in Homes : \E k \in DOMAIN ListAt(home) : ListAt(home)[k].id = id

Once ==
  \A home, other \in Homes : \A k \in DOMAIN ListAt(home), l \in DOMAIN ListAt(other) :
    ListAt(home)[k].id = ListAt(other)[l].id => home = other /\ k = l

Kept == Increasing /\ Known /\ Found /\ Once

LEMMA HomesAre ==
  ASSUME NEW home \in Homes
  PROVE  \/ \E c \in Builders, kind \in Kinds : home = <<"builder", c, kind>> /\ ListAt(home) = lists[c][kind]
         \/ \E r \in DOMAIN compiled, kind \in Kinds :
              home = <<"router", r, kind>> /\ ListAt(home) = compiled[r][kind]
BY DEF Homes, ListAt

LEMMA BuilderHome ==
  ASSUME NEW c \in Builders, NEW kind \in Kinds
  PROVE  <<"builder", c, kind>> \in Homes /\ ListAt(<<"builder", c, kind>>) = lists[c][kind]
BY DEF Homes, ListAt

\* What Register does, seen from the lists.
LEMMA RegisteredAt ==
  ASSUME BoundsAssumption, Built, NEW b \in Builders, NEW kinds \in KindLists, NEW path \in Seq(STRING),
         Register(b, kinds, path)
  PROVE  /\ Homes' = Homes
         /\ \A home \in Homes :
              \/ ListAt(home)' = ListAt(home)
              \/ \E k \in DOMAIN kinds, e \in Entry :
                   /\ home = <<"builder", b, kinds[k]>> /\ e.id = Len(entered) + k
                   /\ ListAt(home)' = Append(ListAt(home), e)
         /\ \A k \in DOMAIN kinds : \E home \in Homes, e \in Entry :
              /\ home = <<"builder", b, kinds[k]>> /\ e.id = Len(entered) + k
              /\ ListAt(home)' = Append(ListAt(home), e)
<1>0. TypeOK
  BY DEF Built
<1>1. /\ \A c \in Builders \ {b} : lists'[c] = lists[c]
      /\ \A k \in DOMAIN kinds : lists'[b][kinds[k]] = Append(lists[b][kinds[k]], Fresh(path, k))
      /\ \A kind \in Kinds : (\A k \in DOMAIN kinds : kinds[k] # kind) => lists'[b][kind] = lists[b][kind]
  BY <1>0, RegisteredLists
<1>2. compiled' = compiled
  BY DEF Register
<1>3. Homes' = Homes
  BY <1>2 DEF Homes
<1>4. ASSUME NEW k \in DOMAIN kinds PROVE Fresh(path, k) \in Entry /\ Fresh(path, k).id = Len(entered) + k /\ kinds[k] \in Kinds
  <2>1. /\ Len(entered) \in Nat /\ Len(entered') = Len(entered) + Len(kinds) /\ Len(entered') <= MaxEntries
    BY <1>0, RegisteredEntries
  <2>2. /\ Len(kinds) \in Nat /\ DOMAIN kinds = 1..Len(kinds) /\ kinds \in Seq(Kinds)
    BY KindListIs
  <2>3. Len(entered) + k \in 1..MaxEntries
    BY <2>1, <2>2, BoundsAssumption
  <2> QED
    BY <2>2, <2>3 DEF Entry, Fresh
<1>5. \A c \in Builders, kind \in Kinds : ListAt(<<"builder", c, kind>>)' = lists'[c][kind]
  BY DEF ListAt
<1>6. \A r \in DOMAIN compiled, kind \in Kinds : ListAt(<<"router", r, kind>>)' = compiled[r][kind]
  BY <1>2 DEF ListAt
<1>7. ASSUME NEW k \in DOMAIN kinds
      PROVE  \E home \in Homes, e \in Entry :
               /\ home = <<"builder", b, kinds[k]>> /\ e.id = Len(entered) + k
               /\ ListAt(home)' = Append(ListAt(home), e)
  <2>1. PICK home : home = <<"builder", b, kinds[k]>>
    OBVIOUS
  <2>2. home \in Homes /\ ListAt(home) = lists[b][kinds[k]] /\ ListAt(home)' = lists'[b][kinds[k]]
    BY <1>4, <2>1 DEF ListAt, Homes
  <2>3. ListAt(home)' = Append(ListAt(home), Fresh(path, k))
    BY <1>1, <2>2
  <2> QED
    BY <1>4, <2>1, <2>2, <2>3
<1>8. ASSUME NEW home \in Homes
      PROVE  \/ ListAt(home)' = ListAt(home)
             \/ \E k \in DOMAIN kinds, e \in Entry :
                   /\ home = <<"builder", b, kinds[k]>> /\ e.id = Len(entered) + k
                   /\ ListAt(home)' = Append(ListAt(home), e)
  <2>1. ASSUME NEW r \in DOMAIN compiled, NEW kind \in Kinds, home = <<"router", r, kind>>
        PROVE  ListAt(home)' = ListAt(home)
    BY <1>6, <2>1 DEF ListAt
  <2>2. ASSUME NEW c \in Builders, NEW kind \in Kinds, home = <<"builder", c, kind>>,
               c # b \/ \A k \in DOMAIN kinds : kinds[k] # kind
        PROVE  ListAt(home)' = ListAt(home)
    BY <1>1, <1>5, <2>2, BuilderHome
  <2>3. ASSUME NEW k \in DOMAIN kinds, home = <<"builder", b, kinds[k]>>
        PROVE  \E e \in Entry : e.id = Len(entered) + k /\ ListAt(home)' = Append(ListAt(home), e)
    BY <1>7, <2>3
  <2> QED
    BY <2>1, <2>2, <2>3, HomesAre
<1> QED
  BY <1>3, <1>7, <1>8

\* The new ids are greater than those before.
LEMMA RegisterKept ==
  ASSUME BoundsAssumption, Built, Kept, NEW b \in Builders, NEW kinds \in KindLists, NEW path \in Seq(STRING),
         Register(b, kinds, path)
  PROVE  Kept'
<1>0. TypeOK /\ Increasing /\ Known /\ Found /\ Once
  BY DEF Built, Kept
<1>1. /\ Len(kinds) \in Nat /\ DOMAIN kinds = 1..Len(kinds)
      /\ Len(entered) \in Nat /\ Len(entered') = Len(entered) + Len(kinds)
      /\ DOMAIN entered = 1..Len(entered) /\ DOMAIN entered' = 1..Len(entered')
  BY <1>0, KindListIs, RegisteredEntries
<1>2. /\ Homes' = Homes
      /\ \A home \in Homes :
           \/ ListAt(home)' = ListAt(home)
           \/ \E k \in DOMAIN kinds, e \in Entry :
                /\ home = <<"builder", b, kinds[k]>> /\ e.id = Len(entered) + k
                /\ ListAt(home)' = Append(ListAt(home), e)
      /\ \A k \in DOMAIN kinds : \E home \in Homes, e \in Entry :
           /\ home = <<"builder", b, kinds[k]>> /\ e.id = Len(entered) + k
           /\ ListAt(home)' = Append(ListAt(home), e)
  BY RegisteredAt
<1> DEFINE Old(home, k) == /\ k \in DOMAIN ListAt(home) /\ ListAt(home)'[k] = ListAt(home)[k]
                           /\ ListAt(home)[k].id \in 1..Len(entered)
           New(home, k, i) == /\ i \in DOMAIN kinds /\ home = <<"builder", b, kinds[i]>>
                              /\ k = Len(ListAt(home)) + 1 /\ ListAt(home)'[k].id = Len(entered) + i
<1>3. ASSUME NEW home \in Homes
      PROVE  /\ Len(ListAt(home)) \in Nat /\ DOMAIN ListAt(home) = 1..Len(ListAt(home))
             /\ ListAt(home)' \in Seq(KnownEntries)'
             /\ DOMAIN ListAt(home) \subseteq DOMAIN ListAt(home)'
             /\ \A k \in DOMAIN ListAt(home) : Old(home, k)
             /\ \A k \in DOMAIN ListAt(home)' : Old(home, k) \/ \E i \in DOMAIN kinds : New(home, k, i)
  <2> DEFINE list == ListAt(home)
             more == ListAt(home)'
  <2>0. list \in Seq(KnownEntries) /\ KnownEntries \subseteq KnownEntries'
    BY <1>0, <1>1 DEF Known, KnownEntries
  <2>1. \A e \in KnownEntries : e.id \in 1..Len(entered)
    BY <1>1 DEF KnownEntries
  <2>2. CASE more = list
    <3> HIDE DEF list, more
    <3>1. /\ Len(list) \in Nat /\ DOMAIN list = 1..Len(list) /\ more \in Seq(KnownEntries')
          /\ \A k \in DOMAIN list : more[k] = list[k] /\ list[k].id \in 1..Len(entered)
          /\ DOMAIN list \subseteq DOMAIN more
      BY <2>0, <2>1, <2>2
    <3> QED
      BY <2>2, <3>1 DEF list, more
  <2>3. ASSUME NEW i \in DOMAIN kinds, NEW e \in Entry, home = <<"builder", b, kinds[i]>>,
               e.id = Len(entered) + i, more = Append(list, e)
        PROVE  /\ Len(list) \in Nat /\ DOMAIN list = 1..Len(list)
               /\ more \in Seq(KnownEntries)'
               /\ DOMAIN list \subseteq DOMAIN more
               /\ \A k \in DOMAIN list : Old(home, k)
               /\ \A k \in DOMAIN more : Old(home, k) \/ \E j \in DOMAIN kinds : New(home, k, j)
    <3>1. e \in KnownEntries'
      BY <1>1, <2>3 DEF KnownEntries
    <3> HIDE DEF list, more
    <3>2. /\ Len(list) \in Nat /\ DOMAIN list = 1..Len(list) /\ more \in Seq(KnownEntries')
          /\ \A k \in DOMAIN list : more[k] = list[k] /\ list[k].id \in 1..Len(entered)
          /\ DOMAIN list \subseteq DOMAIN more
          /\ \A k \in DOMAIN more : k \in DOMAIN list \/ (k = Len(list) + 1 /\ more[k] = e)
      <4>0. list \in Seq(KnownEntries')
        BY <2>0
      <4>1. /\ more \in Seq(KnownEntries') /\ Len(list) \in Nat /\ DOMAIN list = 1..Len(list)
            /\ DOMAIN more = 1..(Len(list) + 1)
            /\ \A k \in DOMAIN list : more[k] = list[k]
            /\ more[Len(list) + 1] = e
        <5> HIDE DEF New, Old
        <5>1. more = Append(list, e) /\ e \in KnownEntries'
          BY <2>3, <3>1
        <5> QED
          BY <4>0, <5>1, AppendAt
      <4>2. \A k \in DOMAIN list : list[k].id \in 1..Len(entered)
        BY <2>0, <2>1
      <4>3. \A k \in DOMAIN more : k \in DOMAIN list \/ k = Len(list) + 1
        BY <4>1
      <4>4. DOMAIN list \subseteq DOMAIN more
        BY <4>1
      <4> QED
        BY <4>1, <4>2, <4>3, <4>4
    <3>3. \A k \in DOMAIN list : Old(home, k)
      BY <3>2 DEF list, more
    <3>4. \A k \in DOMAIN more : Old(home, k) \/ New(home, k, i)
      BY <2>3, <3>2, <3>3 DEF list, more
    <3> HIDE DEF Old, New
    <3> QED
      BY <3>2, <3>3, <3>4
  <2> QED
    BY <1>2, <2>2, <2>3
<1>4. Known'
  BY <1>2, <1>3 DEF Known
<1>5. Found'
  <2> SUFFICES ASSUME NEW id \in DOMAIN entered'
               PROVE  \E home \in Homes : \E k \in DOMAIN ListAt(home)' : ListAt(home)'[k].id = id
    BY <1>2 DEF Found
  <2>1. CASE id \in DOMAIN entered
    <3>1. PICK home \in Homes : \E k \in DOMAIN ListAt(home) : ListAt(home)[k].id = id
      BY <1>0, <2>1 DEF Found
    <3>2. PICK k \in DOMAIN ListAt(home) : ListAt(home)[k].id = id
      BY <3>1
    <3> QED
      BY <1>3, <3>2
  <2>2. CASE id \notin DOMAIN entered
    <3>1. PICK i \in DOMAIN kinds : Len(entered) + i = id
      <4>1. id - Len(entered) \in DOMAIN kinds /\ Len(entered) + (id - Len(entered)) = id
        BY <1>1, <2>2
      <4> QED
        BY <4>1
    <3>2. PICK home \in Homes, e \in Entry : /\ home = <<"builder", b, kinds[i]>> /\ e.id = Len(entered) + i
                                            /\ ListAt(home)' = Append(ListAt(home), e)
      BY <1>2
    <3>3. ListAt(home) \in Seq(Entry)
      <4>1. ListAt(home) \in Seq(KnownEntries) /\ KnownEntries \subseteq Entry
        BY <1>0 DEF Known, KnownEntries
      <4> QED
        BY <4>1
    <3>4. Len(ListAt(home)) + 1 \in DOMAIN ListAt(home)' /\ ListAt(home)'[Len(ListAt(home)) + 1] = e
      BY <3>2, <3>3
    <3>5. e.id = id
      BY <3>1, <3>2
    <3> QED
      BY <3>4, <3>5
  <2> QED
    BY <2>1, <2>2
<1>6. Once'
  <2> SUFFICES ASSUME NEW home \in Homes, NEW other \in Homes,
                      NEW k \in DOMAIN ListAt(home)', NEW l \in DOMAIN ListAt(other)',
                      ListAt(home)'[k].id = ListAt(other)'[l].id
               PROVE  home = other /\ k = l
    BY <1>2 DEF Once
  <2>1. CASE Old(home, k) /\ Old(other, l)
    BY <1>0, <2>1 DEF Once
  <2>2. ASSUME NEW i \in DOMAIN kinds, NEW j \in DOMAIN kinds, New(home, k, i), New(other, l, j)
        PROVE  home = other /\ k = l
    <3>1. i = j
      BY <1>1, <2>2
    <3> QED
      BY <2>2, <3>1
  <2>3. ASSUME NEW i \in DOMAIN kinds, Old(home, k), New(other, l, i) PROVE FALSE
    BY <1>1, <2>3
  <2>4. ASSUME NEW i \in DOMAIN kinds, New(home, k, i), Old(other, l) PROVE FALSE
    BY <1>1, <2>4
  <2> HIDE DEF Old, New
  <2> QED
    BY <1>3, <2>1, <2>2, <2>3, <2>4
<1>7. Increasing'
  <2> SUFFICES ASSUME NEW c \in Builders, NEW kind \in Kinds,
                      NEW i \in DOMAIN lists'[c][kind], NEW j \in DOMAIN lists'[c][kind], i < j
               PROVE  lists'[c][kind][i].id < lists'[c][kind][j].id
    BY DEF Increasing
  <2> DEFINE home == <<"builder", c, kind>>
  <2>1. home \in Homes /\ ListAt(home) = lists[c][kind] /\ ListAt(home)' = lists'[c][kind]
    BY BuilderHome DEF ListAt
  <2> HIDE DEF home
  <2>2. /\ Len(ListAt(home)) \in Nat /\ DOMAIN ListAt(home) = 1..Len(ListAt(home))
        /\ Old(home, i) \/ \E k \in DOMAIN kinds : New(home, i, k)
        /\ Old(home, j) \/ \E k \in DOMAIN kinds : New(home, j, k)
    BY <1>3, <2>1
  <2>3. CASE Old(home, i) /\ Old(home, j)
    BY <1>0, <2>1, <2>3 DEF Increasing
  <2>4. ASSUME NEW k \in DOMAIN kinds, Old(home, i), New(home, j, k) PROVE lists'[c][kind][i].id < lists'[c][kind][j].id
    BY <1>1, <2>1, <2>4
  <2>5. ASSUME NEW k \in DOMAIN kinds, New(home, i, k) PROVE FALSE
    <3>1. i = Len(ListAt(home)) + 1
      BY <2>5
    <3>2. j \in 1..(Len(ListAt(home)) + 1)
      BY <2>2
    <3> QED
      BY <2>2, <3>1, <3>2
  <2> HIDE DEF Old, New
  <2> QED
    BY <2>2, <2>3, <2>4, <2>5
<1> QED
  BY <1>4, <1>5, <1>6, <1>7 DEF Kept

\* Where an entry that compiled() gathers was.
LEMMA GatheredFrom ==
  ASSUME Built, NEW b \in Builders, NEW kind \in Kinds, NEW e \in Range(Gathered(b, kind))
  PROVE  /\ e \in KnownEntries
         /\ \E d \in Builders : d \in Family(b) /\ \E j \in DOMAIN lists[d][kind] : lists[d][kind][j].id = e.id
<1>1. e \in Own(b) \cup Moved(b, kind)
  <2>1. Gathered(b, kind) \in Seq(Own(b) \cup Moved(b, kind))
    BY GatheredIs
  <2> QED
    BY <2>1 DEF Range
<1>2. e \in KnownEntries
  BY <1>1 DEF Own, Moved, KnownEntries
<1>3. CASE e \in Moved(b, kind)
  <2>1. /\ entered[e.id].builder \in Family(b)
        /\ \E j \in DOMAIN lists[entered[e.id].builder][kind] : lists[entered[e.id].builder][kind][j].id = e.id
    BY <1>3 DEF Moved
  <2>2. entered[e.id].builder \in Builders
    BY <2>1, FamilyUnder
  <2> QED
    BY <1>2, <2>1, <2>2
<1>4. CASE \E j \in DOMAIN lists[b][kind] : e = lists[b][kind][j]
  <2>1. b \in Family(b)
    BY FamilyIs
  <2> QED
    BY <1>2, <1>4, <2>1
<1>5. e \in Moved(b, kind) \/ \E j \in DOMAIN lists[b][kind] : e = lists[b][kind][j]
  <2> DEFINE below == FlattenSeq([k \in DOMAIN routers[b] |-> Surrendered(kind)[routers[b][k]]])
  <2>1. lists[b][kind] \in Seq(Entry) /\ below \in Seq(Entry)
    <3>1. Own(b) \subseteq Entry /\ Moved(b, kind) \subseteq Entry
      BY DEF Own, Moved
    <3>2. lists[b][kind] \in Seq(Own(b)) /\ below \in Seq(Moved(b, kind))
      BY GatheredIs
    <3> HIDE DEF below
    <3> QED
      BY <3>1, <3>2
  <2>2. Range(below) \subseteq Moved(b, kind)
    <3>1. below \in Seq(Moved(b, kind))
      BY GatheredIs
    <3> HIDE DEF below
    <3> QED
      BY <3>1 DEF Range
  <2>3. Gathered(b, kind) = lists[b][kind] \o below
    BY DEF Gathered
  <2> HIDE DEF below
  <2>4. e \in Range(lists[b][kind]) \cup Range(below)
    BY <2>1, <2>3, ConcatRange
  <2> QED
    BY <2>2, <2>4 DEF Range
<1> QED
  BY <1>3, <1>4, <1>5

\* What Compiled does, seen from the lists: r is the new router.
LEMMA CompiledAt ==
  ASSUME BoundsAssumption, Built, NEW b \in Builders, Compiled(b)
  PROVE  \E r \in Nat :
         /\ \A kind \in Kinds : ListAt(<<"router", r, kind>>)' = Gathered(b, kind)
         /\ Homes' = Homes \cup {<<"router", r, kind>> : kind \in Kinds}
         /\ \A home \in Homes :
              \/ ListAt(home)' = ListAt(home) /\ \A c \in Family(b), kind \in Kinds : home # <<"builder", c, kind>>
              \/ \E c \in Family(b), kind \in Kinds : home = <<"builder", c, kind>> /\ ListAt(home)' = <<>>
<1>1. /\ Len(compiled) \in Nat /\ Len(compiled') = Len(compiled) + 1
      /\ DOMAIN compiled = 1..Len(compiled) /\ DOMAIN compiled' = 1..Len(compiled')
      /\ \A r \in DOMAIN compiled : compiled'[r] = compiled[r]
      /\ \A kind \in Kinds : compiled'[Len(compiled')][kind] = Gathered(b, kind)
      /\ \A c \in Builders : lists'[c] = IF c \in Family(b) THEN NoLists ELSE lists[c]
  BY CompiledIs
<1>2. PICK r \in Nat : r = Len(compiled')
  BY <1>1
<1>3. ASSUME NEW kind \in Kinds PROVE ListAt(<<"router", r, kind>>)' = Gathered(b, kind)
  <2>1. ListAt(<<"router", r, kind>>)' = compiled'[r][kind]
    BY DEF ListAt
  <2> QED
    BY <1>1, <1>2, <2>1
<1>4. Homes' = Homes \cup {<<"router", r, kind>> : kind \in Kinds}
  <2>1. DOMAIN compiled' = DOMAIN compiled \cup {r}
    BY <1>1, <1>2
  <2>2. {"router"} \X (DOMAIN compiled \cup {r}) \X Kinds
          = ({"router"} \X (DOMAIN compiled) \X Kinds) \cup {<<"router", r, kind>> : kind \in Kinds}
    OBVIOUS
  <2> QED
    BY <2>1, <2>2 DEF Homes
<1>5. ASSUME NEW home \in Homes
      PROVE  \/ ListAt(home)' = ListAt(home) /\ \A c \in Family(b), kind \in Kinds : home # <<"builder", c, kind>>
             \/ \E c \in Family(b), kind \in Kinds : home = <<"builder", c, kind>> /\ ListAt(home)' = <<>>
  <2>1. ASSUME NEW q \in DOMAIN compiled, NEW kind \in Kinds, home = <<"router", q, kind>>
        PROVE  ListAt(home)' = ListAt(home) /\ \A c \in Family(b), k \in Kinds : home # <<"builder", c, k>>
    BY <1>1, <2>1 DEF ListAt
  <2>2. ASSUME NEW c \in Builders, NEW kind \in Kinds, home = <<"builder", c, kind>>, c \notin Family(b)
        PROVE  ListAt(home)' = ListAt(home) /\ \A d \in Family(b), k \in Kinds : home # <<"builder", d, k>>
    BY <1>1, <2>2 DEF ListAt
  <2>3. ASSUME NEW c \in Builders, NEW kind \in Kinds, home = <<"builder", c, kind>>, c \in Family(b)
        PROVE  ListAt(home)' = <<>>
    BY <1>1, <2>3 DEF ListAt, NoLists
  <2> QED
    BY <2>1, <2>2, <2>3, HomesAre
<1> QED
  BY <1>3, <1>4, <1>5

LEMMA CompiledKept ==
  ASSUME BoundsAssumption, Built, Kept, NEW b \in Builders, Compiled(b)
  PROVE  Kept'
<1>a. PICK r \in Nat :
        /\ \A kind \in Kinds : ListAt(<<"router", r, kind>>)' = Gathered(b, kind)
        /\ Homes' = Homes \cup {<<"router", r, kind>> : kind \in Kinds}
        /\ \A home \in Homes :
              \/ ListAt(home)' = ListAt(home) /\ \A c \in Family(b), kind \in Kinds : home # <<"builder", c, kind>>
              \/ \E c \in Family(b), kind \in Kinds : home = <<"builder", c, kind>> /\ ListAt(home)' = <<>>
  BY CompiledAt
<1> DEFINE NewHome(kind) == <<"router", r, kind>>
           Stays(home) == /\ ListAt(home)' = ListAt(home)
                          /\ \A c \in Family(b), kind \in Kinds : home # <<"builder", c, kind>>
<1>0. Increasing /\ Known /\ Found /\ Once
  BY DEF Kept
<1>1. entered' = entered /\ \A c \in Builders : lists'[c] = IF c \in Family(b) THEN NoLists ELSE lists[c]
  BY CompiledIs
<1>2. /\ \A kind \in Kinds : ListAt(NewHome(kind))' = Gathered(b, kind)
      /\ Homes' = Homes \cup {NewHome(kind) : kind \in Kinds}
  BY <1>a
<1>3. ASSUME NEW home \in Homes
      PROVE  Stays(home) \/ (ListAt(home)' = <<>> /\ \E c \in Family(b), kind \in Kinds : home = <<"builder", c, kind>>)
  BY <1>a
<1>4. \A home \in Homes' : home \in Homes \/ \E kind \in Kinds : home = NewHome(kind)
  BY <1>2
<1> HIDE DEF NewHome
<1>5. \A kind \in Kinds : NewHome(kind) \in Homes'
  BY <1>2
<1>6. KnownEntries' = KnownEntries
  BY <1>1 DEF KnownEntries
<1>7. \A kind \in Kinds : Gathered(b, kind) \in Seq(KnownEntries)
  <2> SUFFICES ASSUME NEW kind \in Kinds PROVE Gathered(b, kind) \in Seq(KnownEntries)
    OBVIOUS
  <2>1. Gathered(b, kind) \in Seq(Entry)
    BY GatheredIs
  <2>2. \A k \in DOMAIN Gathered(b, kind) : Gathered(b, kind)[k] \in KnownEntries
    BY GatheredFrom DEF Range
  <2> QED
    BY <2>1, <2>2, EachIn
<1>8. Known'
  <2> SUFFICES ASSUME NEW home \in Homes' PROVE ListAt(home)' \in Seq(KnownEntries)
    BY <1>6 DEF Known
  <2>1. CASE home \in Homes
    <3>1. ListAt(home) \in Seq(KnownEntries) /\ <<>> \in Seq(KnownEntries)
      BY <1>0, <2>1 DEF Known
    <3> QED
      BY <1>3, <2>1, <3>1
  <2>2. ASSUME NEW kind \in Kinds, home = NewHome(kind) PROVE ListAt(home)' \in Seq(KnownEntries)
    BY <1>2, <1>7, <2>2
  <2> QED
    BY <1>4, <2>1, <2>2
<1>9. Found'
  <2> SUFFICES ASSUME NEW id \in DOMAIN entered
               PROVE  \E home \in Homes' : \E k \in DOMAIN ListAt(home)' : ListAt(home)'[k].id = id
    BY <1>1 DEF Found
  <2>1. PICK home \in Homes : \E k \in DOMAIN ListAt(home) : ListAt(home)[k].id = id
    BY <1>0 DEF Found
  <2>2. CASE Stays(home)
    BY <1>2, <2>1, <2>2
  <2>3. ASSUME NEW c \in Family(b), NEW kind \in Kinds, home = <<"builder", c, kind>>
        PROVE  \E new \in Homes' : \E k \in DOMAIN ListAt(new)' : ListAt(new)'[k].id = id
    <3>1. c \in Builders
      BY FamilyUnder
    <3>2. PICK j \in DOMAIN lists[c][kind] : lists[c][kind][j].id = id
      BY <2>1, <2>3, <3>1, BuilderHome
    <3>3. \E e \in Range(Gathered(b, kind)) : e.id = id
      BY <1>0, <3>2, GatheredWhole DEF Covers
    <3>4. PICK k \in DOMAIN Gathered(b, kind) : Gathered(b, kind)[k].id = id
      BY <3>3 DEF Range
    <3> QED
      BY <1>2, <1>5, <3>4
  <2> HIDE DEF Stays
  <2> QED
    BY <1>3, <2>2, <2>3
<1>10. ASSUME NEW kind \in Kinds, NEW k \in DOMAIN Gathered(b, kind), NEW home \in Homes,
              NEW l \in DOMAIN ListAt(home), Gathered(b, kind)[k].id = ListAt(home)[l].id
       PROVE  \E c \in Family(b) : home = <<"builder", c, kind>>
  <2>1. PICK d \in Builders : d \in Family(b) /\ \E j \in DOMAIN lists[d][kind] : lists[d][kind][j].id = ListAt(home)[l].id
    BY <1>10, GatheredFrom DEF Range
  <2>2. <<"builder", d, kind>> \in Homes /\ ListAt(<<"builder", d, kind>>) = lists[d][kind]
    BY BuilderHome
  <2>3. home = <<"builder", d, kind>>
    BY <1>0, <2>1, <2>2 DEF Once
  <2> QED
    BY <2>1, <2>3
<1>11. ASSUME NEW one \in Kinds, NEW two \in Kinds, NEW k \in DOMAIN Gathered(b, one), NEW l \in DOMAIN Gathered(b, two),
              Gathered(b, one)[k].id = Gathered(b, two)[l].id
       PROVE  one = two /\ k = l
  <2>1. PICK d \in Builders : \E j \in DOMAIN lists[d][two] : lists[d][two][j].id = Gathered(b, one)[k].id
    BY <1>11, GatheredFrom DEF Range
  <2>2. \E c \in Family(b) : <<"builder", d, two>> = <<"builder", c, one>>
    <3>1. <<"builder", d, two>> \in Homes /\ ListAt(<<"builder", d, two>>) = lists[d][two]
      BY BuilderHome
    <3> HIDE DEF Stays
    <3> QED
      BY <1>10, <2>1, <3>1
  <2>3. one = two
    BY <2>2
  <2>4. \A i, j \in DOMAIN Gathered(b, one) : i < j => Gathered(b, one)[i].id # Gathered(b, one)[j].id
    <3>1. Pairwise(Gathered(b, one), InOrder)
      BY <1>0, GatheredWhole
    <3>2. \A x, y : <<x, y>> \in InOrder => x.id # y.id
      BY DEF InOrder
    <3> QED
      BY <3>1, <3>2 DEF Pairwise
  <2>5. k \in Nat /\ l \in Nat
    <3>1. Gathered(b, one) \in Seq(Entry) /\ Gathered(b, two) \in Seq(Entry)
      BY GatheredIs
    <3> QED
      BY <3>1
  <2>6. k = l
    BY <1>11, <2>3, <2>4, <2>5
  <2> QED
    BY <2>3, <2>6
<1>12. Once'
  <2> SUFFICES ASSUME NEW home \in Homes', NEW other \in Homes',
                      NEW k \in DOMAIN ListAt(home)', NEW l \in DOMAIN ListAt(other)',
                      ListAt(home)'[k].id = ListAt(other)'[l].id
               PROVE  home = other /\ k = l
    BY DEF Once
  <2>1. \A old \in Homes : DOMAIN ListAt(old)' # {} => Stays(old)
    BY <1>3
  <2>2. CASE home \in Homes /\ other \in Homes
    BY <1>0, <2>1, <2>2 DEF Once
  <2>3. ASSUME NEW kind \in Kinds, home = NewHome(kind), other \in Homes PROVE FALSE
    BY <1>2, <1>10, <2>1, <2>3
  <2>4. ASSUME NEW kind \in Kinds, other = NewHome(kind), home \in Homes PROVE FALSE
    BY <1>2, <1>10, <2>1, <2>4
  <2>5. ASSUME NEW one \in Kinds, NEW two \in Kinds, home = NewHome(one), other = NewHome(two)
        PROVE  home = other /\ k = l
    BY <1>2, <1>11, <2>5
  <2> HIDE DEF Stays
  <2> QED
    BY <1>4, <2>2, <2>3, <2>4, <2>5
<1>13. Increasing'
  <2> SUFFICES ASSUME NEW c \in Builders, NEW kind \in Kinds,
                      NEW i \in DOMAIN lists'[c][kind], NEW j \in DOMAIN lists'[c][kind], i < j
               PROVE  lists'[c][kind][i].id < lists'[c][kind][j].id
    BY DEF Increasing
  <2>1. c \notin Family(b)
    BY <1>1 DEF NoLists
  <2> QED
    BY <1>0, <1>1, <2>1 DEF Increasing
<1> QED
  BY <1>8, <1>9, <1>12, <1>13 DEF Kept

LEMMA SameKept ==
  ASSUME Kept, UNCHANGED <<lists, compiled, entered>>
  PROVE  Kept'
<1>1. Homes' = Homes /\ KnownEntries' = KnownEntries /\ \A home : ListAt(home)' = ListAt(home)
  BY DEF Homes, KnownEntries, ListAt
<1>2. Known' /\ Found' /\ Once'
  BY <1>1 DEF Kept, Known, Found, Once
<1>3. Increasing'
  BY DEF Kept, Increasing
<1> QED
  BY <1>2, <1>3 DEF Kept

LEMMA InitKept == Init => Kept
<1> SUFFICES ASSUME Init PROVE Kept
  OBVIOUS
<1>1. \A home \in Homes : ListAt(home) = <<>>
  BY DEF Init, Homes, ListAt, NoLists
<1>2. Known /\ Found /\ Once
  <2>1. DOMAIN entered = {} /\ \A S : <<>> \in Seq(S)
    BY DEF Init
  <2>2. \A home \in Homes : DOMAIN ListAt(home) = {}
    BY <1>1
  <2>3. Known
    BY <1>1, <2>1 DEF Known
  <2>4. Found /\ Once
    BY <2>1, <2>2 DEF Found, Once
  <2> QED
    BY <2>3, <2>4
<1>3. Increasing
  BY DEF Init, Increasing, NoLists
<1> QED
  BY <1>2, <1>3 DEF Kept

LEMMA NextKept == Built /\ Kept /\ [Next]_vars => Kept'
<1> SUFFICES ASSUME Built, Kept, [Next]_vars PROVE Kept'
  OBVIOUS
<1>0. held \subseteq Builders
  BY DEF Built, TypeOK
<1>1. ASSUME NEW b \in held, Add(b) \/ Getish(b) \/ Use(b) PROVE Kept'
  <2>1. PICK kinds \in KindLists, path \in Seq(STRING) : Register(b, kinds, path)
    BY <1>1, Registers
  <2> QED
    BY <1>0, <2>1, RegisterKept, BoundsAssumption
<1>2. ASSUME NEW b \in held, AppendRouter(b) PROVE Kept'
  BY <1>2, SameKept DEF AppendRouter
<1>3. ASSUME NEW b \in held, Compiled(b) PROVE Kept'
  BY <1>0, <1>3, CompiledKept, BoundsAssumption
<1>4. CASE UNCHANGED vars
  BY <1>4, SameKept DEF vars
<1> QED
  BY <1>1, <1>2, <1>3, <1>4 DEF Next

THEOREM AlwaysKept == Spec => []Kept
BY InitKept, NextKept, AlwaysBuilt, PTL DEF Spec

\* An entry that was registered is in one list, of a builder or of a router, and
\* at one place there: none is lost or copied when builders are taken over, when
\* they are compiled and when they are used again.
THEOREM OneHomeEach == Spec => []OneHome
<1>1. ASSUME Kept PROVE OneHome
  <2> SUFFICES ASSUME NEW id \in DOMAIN entered PROVE \E p \in Places(id) : Places(id) = {p}
    BY DEF OneHome
  <2>1. \A p : p \in Places(id) <=> \E home \in Homes : \E k \in DOMAIN ListAt(home) :
                                      p = <<home, k>> /\ ListAt(home)[k].id = id
    BY DEF Places
  <2>2. PICK home \in Homes : \E k \in DOMAIN ListAt(home) : ListAt(home)[k].id = id
    BY <1>1 DEF Kept, Found
  <2>3. PICK k \in DOMAIN ListAt(home) : ListAt(home)[k].id = id
    BY <2>2
  <2>4. <<home, k>> \in Places(id)
    BY <2>1, <2>3
  <2>5. \A p \in Places(id) : p = <<home, k>>
    <3> SUFFICES ASSUME NEW other \in Homes, NEW l \in DOMAIN ListAt(other), ListAt(other)[l].id = id
                 PROVE  other = home /\ l = k
      BY <2>1
    <3> QED
      BY <1>1, <2>3 DEF Kept, Once
  <2> QED
    BY <2>4, <2>5
<1> QED
  BY AlwaysKept, <1>1, PTL

--------------------------------------------------------------------------------
(* The order in which a router's lists are searched.                       *)

\* A router's entries are in order, and come from below one builder.
Sorted ==
  \A r \in DOMAIN compiled : \E root \in Builders : \A kind \in Kinds :
    /\ Pairwise(compiled[r][kind], InOrder)
    /\ \A e \in Range(compiled[r][kind]) :
         /\ entered[e.id].builder \in Builders
         /\ Under(mounted, root, entered[e.id].builder)

LEMMA RouterKnown ==
  ASSUME Known, NEW r \in DOMAIN compiled, NEW kind \in Kinds
  PROVE  /\ compiled[r][kind] \in Seq(KnownEntries)
         /\ \A e \in Range(compiled[r][kind]) : e \in KnownEntries
<1>1. <<"router", r, kind>> \in Homes /\ ListAt(<<"router", r, kind>>) = compiled[r][kind]
  BY DEF Homes, ListAt
<1>2. compiled[r][kind] \in Seq(KnownEntries)
  BY <1>1 DEF Known
<1> QED
  BY <1>2 DEF Range

\* A step that keeps the routers keeps them sorted, if it keeps the order of
\* entries that come from below one builder.
LEMMA SortedStays ==
  ASSUME Known, Sorted, compiled' = compiled,
         \A e \in KnownEntries : entered'[e.id] = entered[e.id],
         \A root, c \in Builders : Under(mounted, root, c) => Under(mounted', root, c),
         \A root, b, c \in Builders : Under(mounted, root, b) /\ Under(mounted, root, c) /\ AboveIn(mounted', b, c)
                                        => AboveIn(mounted, b, c)
  PROVE  Sorted'
<1> SUFFICES ASSUME NEW r \in DOMAIN compiled
             PROVE  \E root \in Builders : \A kind \in Kinds :
                      /\ Pairwise(compiled[r][kind], InOrder')
                      /\ \A e \in Range(compiled[r][kind]) :
                           /\ entered'[e.id].builder \in Builders
                           /\ Under(mounted', root, entered'[e.id].builder)
  BY DEF Sorted, Pairwise
<1>1. PICK root \in Builders : \A kind \in Kinds :
        /\ Pairwise(compiled[r][kind], InOrder)
        /\ \A e \in Range(compiled[r][kind]) :
             /\ entered[e.id].builder \in Builders
             /\ Under(mounted, root, entered[e.id].builder)
  BY DEF Sorted
<1>2. ASSUME NEW kind \in Kinds, NEW e \in Range(compiled[r][kind])
      PROVE  /\ entered'[e.id] = entered[e.id] /\ e \in Entry
             /\ entered[e.id].builder \in Builders
             /\ Under(mounted, root, entered[e.id].builder)
  BY <1>1, RouterKnown DEF KnownEntries
<1>3. ASSUME NEW kind \in Kinds PROVE Pairwise(compiled[r][kind], InOrder')
  <2> SUFFICES ASSUME NEW i \in DOMAIN compiled[r][kind], NEW j \in DOMAIN compiled[r][kind], i < j
               PROVE  <<compiled[r][kind][i], compiled[r][kind][j]>> \in InOrder'
    BY DEF Pairwise
  <2>1. PICK x, y : x = compiled[r][kind][i] /\ y = compiled[r][kind][j]
    OBVIOUS
  <2>2. x \in Range(compiled[r][kind]) /\ y \in Range(compiled[r][kind])
    BY <2>1 DEF Range
  <2>3. <<x, y>> \in InOrder
    BY <1>1, <2>1 DEF Pairwise
  <2>4. /\ entered'[x.id] = entered[x.id] /\ x \in Entry /\ entered[x.id].builder \in Builders
        /\ entered'[y.id] = entered[y.id] /\ y \in Entry /\ entered[y.id].builder \in Builders
        /\ Under(mounted, root, entered[x.id].builder) /\ Under(mounted, root, entered[y.id].builder)
    BY <1>2, <2>2
  <2>5. ~AboveIn(mounted', entered[y.id].builder, entered[x.id].builder)
    BY <2>3, <2>4 DEF InOrder
  <2>6. <<x, y>> \in InOrder'
    BY <2>3, <2>4, <2>5 DEF InOrder
  <2> QED
    BY <2>1, <2>6
<1>4. ASSUME NEW kind \in Kinds, NEW e \in Range(compiled[r][kind])
      PROVE  entered'[e.id].builder \in Builders /\ Under(mounted', root, entered'[e.id].builder)
  BY <1>2
<1> QED
  BY <1>3, <1>4

\* m2 adds a mount to m: of s in a, which is not mounted itself.
LEMMA AboveSame ==
  ASSUME NEW m, NEW m2, Nested(m), Nested(m2), NEW a \in Builders, NEW s \in Builders,
         a \notin DOMAIN m, s \notin DOMAIN m,
         DOMAIN m2 = DOMAIN m \cup {s}, m2[s].parent = a, \A c \in DOMAIN m : m2[c] = m[c]
  PROVE  /\ \A root, c \in Builders : Under(m, root, c) => Under(m2, root, c)
         /\ \A root, b, c \in Builders : Under(m, root, b) /\ Under(m, root, c) /\ AboveIn(m2, b, c)
                                          => AboveIn(m, b, c)
<1>1. ASSUME NEW root \in Builders
      PROVE  \A c \in Builders : AboveIn(m, root, c) => AboveIn(m2, root, c)
  <2> DEFINE T == {c \in Builders : AboveIn(m, root, c) => AboveIn(m2, root, c)}
  <2>1. ASSUME NEW c \in Builders, c \in DOMAIN m => m[c].parent \in T PROVE c \in T
    <3> SUFFICES ASSUME AboveIn(m, root, c) PROVE AboveIn(m2, root, c)
      OBVIOUS
    <3>1. c \in DOMAIN m /\ (m[c].parent = root \/ AboveIn(m, root, m[c].parent))
      BY AboveIs
    <3>2. c \in DOMAIN m2 /\ m2[c] = m[c]
      BY <3>1
    <3>3. m[c].parent = root \/ AboveIn(m2, root, m[c].parent)
      BY <2>1, <3>1
    <3> QED
      BY <3>2, <3>3, AboveIs
  <2>2. T = Builders
    <3> HIDE DEF T
    <3>1. T \in SUBSET Builders
      BY DEF T
    <3> QED
      BY <2>1, <3>1, FromAbove
  <2> QED
    BY <2>2
<1>2. \A root, c \in Builders : Under(m, root, c) => Under(m2, root, c)
  BY <1>1 DEF Under
<1>3. ASSUME NEW root \in Builders, NEW b \in Builders, Under(m, root, b)
      PROVE  \A c \in Builders : Under(m, root, c) /\ AboveIn(m2, b, c) => AboveIn(m, b, c)
  <2> DEFINE T == {c \in Builders : Under(m, root, c) /\ AboveIn(m2, b, c) => AboveIn(m, b, c)}
  <2>1. ASSUME NEW c \in Builders, c \in DOMAIN m => m[c].parent \in T PROVE c \in T
    <3> SUFFICES ASSUME Under(m, root, c), AboveIn(m2, b, c) PROVE AboveIn(m, b, c)
      OBVIOUS
    <3>1. CASE c = root
      <4>1. b = c \/ AboveIn(m2, c, b)
        BY <1>2, <1>3, <3>1 DEF Under
      <4>2. AboveIn(m2, c, c)
        BY <4>1, AboveTransitive
      <4> QED
        BY <4>2, NotAboveItself
    <3>2. CASE c # root
      <4>1. c \in DOMAIN m /\ (m[c].parent = root \/ AboveIn(m, root, m[c].parent))
        BY <3>2, AboveIs DEF Under
      <4>2. m[c].parent \in T /\ Under(m, root, m[c].parent)
        BY <2>1, <4>1 DEF Under
      <4>3. m2[c].parent = b \/ AboveIn(m2, b, m2[c].parent)
        BY AboveIs
      <4>4. m[c].parent = b \/ AboveIn(m, b, m[c].parent)
        BY <4>1, <4>2, <4>3
      <4> QED
        BY <4>1, <4>4, AboveIs
    <3> QED
      BY <3>1, <3>2
  <2>2. T = Builders
    <3> HIDE DEF T
    <3>1. T \in SUBSET Builders
      BY DEF T
    <3> QED
      BY <2>1, <3>1, FromAbove
  <2> QED
    BY <2>2
<1> QED
  BY <1>2, <1>3

LEMMA BuiltNestedNext ==
  ASSUME Built'
  PROVE  Nested(mounted')
<1>1. \A c \in DOMAIN mounted' : c \in Builders /\ mounted'[c].parent \in Builders
  BY DEF Built, Mounts
<1>2. \E n \in Nat : \E h \in [Builders -> 0..n] : \A c \in DOMAIN mounted' : h[c] < h[mounted'[c].parent]
  BY DEF Built, Tree, Heights
<1> QED
  BY <1>1, <1>2 DEF Nested

LEMMA AppendRouterSorted ==
  ASSUME Built, Built', Known, Sorted, NEW b \in held, AppendRouter(b)
  PROVE  Sorted'
<1>1. PICK sub \in held \ {b}, path \in MountPaths :
        mounted' = [c \in DOMAIN mounted \cup {sub} |->
                     IF c = sub THEN [parent |-> b, mask |-> path] ELSE mounted[c]]
  BY DEF AppendRouter
<1>2. b \in Builders /\ sub \in Builders /\ sub \notin DOMAIN mounted /\ b \notin DOMAIN mounted
  BY DEF Built, TypeOK, Mounts
<1>3. /\ DOMAIN mounted' = DOMAIN mounted \cup {sub} /\ mounted'[sub].parent = b
      /\ \A c \in DOMAIN mounted : mounted'[c] = mounted[c]
  BY <1>1, <1>2
<1>4. Nested(mounted) /\ Nested(mounted')
  BY BuiltNested, BuiltNestedNext
<1>5. /\ \A root, c \in Builders : Under(mounted, root, c) => Under(mounted', root, c)
      /\ \A root, d, c \in Builders : Under(mounted, root, d) /\ Under(mounted, root, c) /\ AboveIn(mounted', d, c)
                                        => AboveIn(mounted, d, c)
  BY <1>2, <1>3, <1>4, AboveSame
<1>6. compiled' = compiled /\ entered' = entered
  BY DEF AppendRouter
<1> QED
  BY <1>5, <1>6, SortedStays

LEMMA CompiledSorted ==
  ASSUME BoundsAssumption, Built, Kept, Sorted, NEW b \in Builders, Compiled(b)
  PROVE  Sorted'
<1>1. /\ Len(compiled) \in Nat /\ Len(compiled') = Len(compiled) + 1
      /\ DOMAIN compiled = 1..Len(compiled) /\ DOMAIN compiled' = 1..Len(compiled')
      /\ \A r \in DOMAIN compiled : compiled'[r] = compiled[r]
      /\ \A kind \in Kinds : compiled'[Len(compiled')][kind] = Gathered(b, kind)
      /\ UNCHANGED <<entered, mounted>>
  BY CompiledIs
<1>2. InOrder' = InOrder
  BY <1>1 DEF InOrder, AboveIn
<1>3. ASSUME NEW kind \in Kinds
      PROVE  /\ Pairwise(Gathered(b, kind), InOrder)
             /\ \A e \in Range(Gathered(b, kind)) :
                  /\ entered[e.id].builder \in Builders
                  /\ Under(mounted, b, entered[e.id].builder)
  <2>1. Pairwise(Gathered(b, kind), InOrder)
    BY GatheredWhole DEF Kept
  <2>2. ASSUME NEW e \in Range(Gathered(b, kind)) PROVE entered[e.id].builder \in Family(b)
    <3>1. e \in Own(b) \cup Moved(b, kind)
      <4>1. Gathered(b, kind) \in Seq(Own(b) \cup Moved(b, kind))
        BY GatheredIs
      <4> QED
        BY <4>1 DEF Range
    <3>2. b \in Family(b)
      BY FamilyIs
    <3>3. e \in Own(b) => entered[e.id].builder = b
      BY DEF Own
    <3>4. e \in Moved(b, kind) => entered[e.id].builder \in Family(b)
      BY DEF Moved
    <3> QED
      BY <3>1, <3>2, <3>3, <3>4
  <2> QED
    BY <2>1, <2>2, FamilyUnder
<1>4. ASSUME NEW r \in DOMAIN compiled'
      PROVE  \E root \in Builders : \A kind \in Kinds :
               /\ Pairwise(compiled'[r][kind], InOrder)
               /\ \A e \in Range(compiled'[r][kind]) :
                    /\ entered[e.id].builder \in Builders
                    /\ Under(mounted, root, entered[e.id].builder)
  <2>1. CASE r \in DOMAIN compiled
    BY <1>1, <2>1 DEF Sorted
  <2>2. CASE r = Len(compiled')
    BY <1>1, <1>3, <2>2
  <2>3. r \in DOMAIN compiled \/ r = Len(compiled')
    BY <1>1
  <2> QED
    BY <2>1, <2>2, <2>3
<1>5. entered' = entered /\ mounted' = mounted
  BY <1>1
<1>6. ASSUME NEW r \in DOMAIN compiled'
      PROVE  \E root \in Builders : \A kind \in Kinds :
               /\ Pairwise(compiled'[r][kind], InOrder')
               /\ \A e \in Range(compiled'[r][kind]) :
                    /\ entered'[e.id].builder \in Builders
                    /\ Under(mounted', root, entered'[e.id].builder)
  BY <1>2, <1>4, <1>5
<1> QED
  BY <1>6 DEF Sorted, Pairwise

LEMMA NextSorted == Built /\ Built' /\ Kept /\ Sorted /\ [Next]_vars => Sorted'
<1> SUFFICES ASSUME Built, Built', Kept, Sorted, [Next]_vars PROVE Sorted'
  OBVIOUS
<1>0. held \subseteq Builders /\ Known
  BY DEF Built, TypeOK, Kept
<1>1. ASSUME NEW b \in held, Add(b) \/ Getish(b) \/ Use(b) PROVE Sorted'
  <2>1. PICK kinds \in KindLists, path \in Seq(STRING) : Register(b, kinds, path)
    BY <1>1, Registers
  <2>2. \A id \in DOMAIN entered : entered'[id] = entered[id]
    BY <1>0, <2>1, RegisteredEntries DEF Built
  <2>3. compiled' = compiled /\ mounted' = mounted
    BY <2>1 DEF Register
  <2> QED
    BY <1>0, <2>2, <2>3, SortedStays DEF KnownEntries
<1>2. ASSUME NEW b \in held, AppendRouter(b) PROVE Sorted'
  BY <1>0, <1>2, AppendRouterSorted
<1>3. ASSUME NEW b \in held, Compiled(b) PROVE Sorted'
  BY <1>0, <1>3, CompiledSorted, BoundsAssumption
<1>4. CASE UNCHANGED vars
  <2>1. compiled' = compiled /\ mounted' = mounted /\ entered' = entered
    BY <1>4 DEF vars
  <2> QED
    BY <1>0, <2>1, SortedStays
<1> QED
  BY <1>1, <1>2, <1>3, <1>4 DEF Next

LEMMA InitSorted == Init => Sorted
BY DEF Init, Sorted

\* A router tries what one builder was given in the order it was given, and what
\* a builder was given before what was given to those mounted in it, whatever
\* builders are mounted in others later.
THEOREM SearchedInOrder == Spec => []SearchOrder
<1>1. ASSUME Built, Kept, Sorted PROVE SearchOrder
  <2> SUFFICES ASSUME NEW r \in DOMAIN compiled, NEW kind \in Kinds,
                      NEW i \in DOMAIN compiled[r][kind], NEW j \in DOMAIN compiled[r][kind]
               PROVE  LET list == compiled[r][kind]
                          b == entered[list[i].id].builder
                          c == entered[list[j].id].builder
                      IN  /\ b = c /\ list[i].id < list[j].id => i < j
                          /\ IsAbove(b, c) => i < j
    BY DEF SearchOrder, Range
  <2> DEFINE list == compiled[r][kind]
             b == entered[list[i].id].builder
             c == entered[list[j].id].builder
  <2>0. Nested(mounted)
    BY <1>1, BuiltNested
  <2>1. /\ list \in Seq(KnownEntries) /\ list[i] \in Entry /\ list[j] \in Entry
        /\ i \in Nat /\ j \in Nat
    <3>1. list \in Seq(KnownEntries)
      BY <1>1, RouterKnown DEF Kept
    <3> HIDE DEF list
    <3> QED
      BY <3>1 DEF KnownEntries, list
  <2>2. Pairwise(list, InOrder) /\ b \in Builders /\ c \in Builders
    BY <1>1 DEF Sorted, Range
  <2>3. list[i].id \in Nat /\ list[j].id \in Nat
    BY <2>1 DEF Entry
  <2>4. IsAbove(b, c) <=> AboveIn(mounted, b, c)
    BY DEF IsAbove, AboveIn
  <2>5. j < i => list[j].id # list[i].id /\ (c = b => list[j].id < list[i].id) /\ ~AboveIn(mounted, b, c)
    BY <2>2 DEF Pairwise, InOrder
  <2>6. ~AboveIn(mounted, b, b)
    BY <2>0, <2>2, NotAboveItself
  <2>7. i = j => list[i].id = list[j].id /\ b = c
    OBVIOUS
  <2> HIDE DEF list, b, c
  <2>8. b = c /\ list[i].id < list[j].id => i < j
    BY <2>1, <2>3, <2>5, <2>7
  <2>9. AboveIn(mounted, b, c) => i < j
    BY <2>1, <2>5, <2>6, <2>7
  <2> QED
    BY <2>4, <2>8, <2>9 DEF list, b, c
<1>2. Spec => []Sorted
  BY InitSorted, NextSorted, AlwaysBuilt, AlwaysKept, PTL DEF Spec
<1> QED
  BY AlwaysBuilt, AlwaysKept, <1>1, <1>2, PTL
================================================================================
