------------------------------ MODULE RouterConfig ------------------------------
(***************************************************************************)
(* The configuration of routers: class router::cfg of                      *)
(* libs/http-router/src/router.cc, called a builder here.                  *)
(*                                                                         *)
(* A builder collects handlers (a list for each method), filters and other *)
(* builders, which it takes over together with the path they are mounted   *)
(* at.  compiled() moves everything that a builder and those below it have *)
(* collected into a router.                                                *)
(*                                                                         *)
(* A path is a sequence of its pieces, each of which begins with a slash;  *)
(* the piece "/" stands for a slash at the end.  The list of a method and  *)
(* that of filters are treated alike by most of the code, so that both are *)
(* in the variable lists.  unique_ptr gives a builder one owner, and a     *)
(* program does not call a builder that it has given away.                 *)
(*                                                                         *)
(* Definitions called Faulty... are the ones below them with one likely    *)
(* mistake; no action uses them.  They show what each property excludes.   *)
(***************************************************************************)
EXTENDS Naturals, SequencesExt

CONSTANTS
  Builders,      \* the builders a program makes
  Masks,         \* the masks of handlers
  FilterPaths,   \* the paths given to use()
  MountPaths,    \* the paths given to append()
  MaxEntries,    \* bound: calls of add and use
  MaxRouters     \* bound: calls of compiled

ASSUME BoundsAssumption == MaxEntries \in Nat /\ MaxRouters \in Nat
ASSUME PathsAssumption == Masks \cup FilterPaths \cup MountPaths \subseteq Seq(STRING)

Verbs == {"GET", "HEAD"}
Kinds == Verbs \cup {"filters"}

VARIABLES
  lists,      \* handlers_ and filters_ of each builder
  routers,    \* routers_ of each builder
  held,       \* the builders that the program holds, and may call
  compiled,   \* the routers made so far: their routes and filters
  entered,    \* history: where each entry was registered, and under which path
  mounted     \* history: the builder that took over each one, and at which path

vars == <<lists, routers, held, compiled, entered, mounted>>

Entry == [path : Seq(STRING), id : 1..MaxEntries]
Sub == [mask : MountPaths, next : Builders]

NoLists == [kind \in Kinds |-> <<>>]

TypeOK ==
  /\ lists \in [Builders -> [Kinds -> Seq(Entry)]]
  /\ routers \in [Builders -> Seq(Sub)]
  /\ held \subseteq Builders
  /\ compiled \in Seq([Kinds -> Seq(Entry)]) /\ Len(compiled) <= MaxRouters
  /\ entered \in Seq([builder : Builders, path : Seq(STRING)]) /\ Len(entered) <= MaxEntries
  /\ \A b \in DOMAIN mounted : b \in Builders \ held /\ mounted[b] \in [parent : Builders, mask : MountPaths]
  /\ \A b \in Builders : \A k \in DOMAIN routers[b] :
       mounted[routers[b][k].next] = [parent |-> b, mask |-> routers[b][k].mask]

Init ==
  /\ lists = [b \in Builders |-> NoLists]
  /\ routers = [b \in Builders |-> <<>>]
  /\ held = Builders
  /\ compiled = <<>>
  /\ entered = <<>>
  /\ mounted = <<>>

--------------------------------------------------------------------------------

\* The same entry in each of the lists of kinds; every copy has its own id.
Register(b, kinds, path) ==
  /\ Len(entered) + Len(kinds) <= MaxEntries
  /\ lists' = [lists EXCEPT ![b] =
       [kind \in Kinds |->
          IF \E k \in DOMAIN kinds : kinds[k] = kind
            THEN Append(@[kind], [path |-> path, id |-> Len(entered) +
                                    CHOOSE k \in DOMAIN kinds : kinds[k] = kind])
            ELSE @[kind]]]
  /\ entered' = entered \o [k \in DOMAIN kinds |-> [builder |-> b, path |-> path]]
  /\ UNCHANGED <<routers, held, compiled, mounted>>

Add(b) == \E verb \in Verbs, mask \in Masks : Register(b, <<verb>>, mask)

Getish(b) == \E mask \in Masks : Register(b, <<"GET", "HEAD">>, mask)

WithoutLastSlash(path) ==
  IF path # <<>> /\ Last(path) = "/" THEN Front(path) ELSE path

Use(b) == \E path \in FilterPaths : Register(b, <<"filters">>, WithoutLastSlash(path))

\* Faulty: the program still calls the builder it has given away.
FaultyAppendRouter(b) ==
  \E sub \in held \ {b}, path \in MountPaths :
    /\ routers' = [routers EXCEPT ![b] = Append(@, [mask |-> path, next |-> sub])]
    /\ mounted' = [c \in DOMAIN mounted \cup {sub} |->
                     IF c = sub THEN [parent |-> b, mask |-> path] ELSE mounted[c]]
    /\ UNCHANGED <<lists, held, compiled, entered>>

AppendRouter(b) ==
  \E sub \in held \ {b}, path \in MountPaths :
    /\ routers' = [routers EXCEPT ![b] = Append(@, [mask |-> path, next |-> sub])]
    /\ held' = held \ {sub}
    /\ mounted' = [c \in DOMAIN mounted \cup {sub} |->
                     IF c = sub THEN [parent |-> b, mask |-> path] ELSE mounted[c]]
    /\ UNCHANGED <<lists, compiled, entered>>

\* Faulty: the entries keep their path.
FaultyPrefixed(prefix, list) == list

\* prefix + handler.mask, prefix + path
Prefixed(prefix, list) == [k \in DOMAIN list |-> [list[k] EXCEPT !.path = prefix \o @]]

\* Faulty: a sub-router goes before what it is a part of.
FaultySurrendered(kind) ==
  LET from[sub \in Sub] ==
        FlattenSeq([k \in DOMAIN routers[sub.next] |-> from[routers[sub.next][k]]])
          \o Prefixed(sub.mask, lists[sub.next][kind])
  IN  from

\* What surrender(prefix, ...) of a builder appends to one of the lists it is
\* given: the entries of the builder, then those of the ones below.
Surrendered(kind) ==
  LET from[sub \in Sub] ==
        Prefixed(sub.mask, lists[sub.next][kind])
          \o FlattenSeq([k \in DOMAIN routers[sub.next] |-> from[routers[sub.next][k]]])
  IN  from

\* A builder and the ones it owns, at any depth.
Family(b) ==
  LET below[c \in Builders] ==
        {c} \cup UNION {below[routers[c][k].next] : k \in DOMAIN routers[c]}
  IN  below[b]

\* Faulty: what was moved stays listed.
FaultyEmptied(bs) == lists

Emptied(bs) == [b \in Builders |-> IF b \in bs THEN NoLists ELSE lists[b]]

\* The builder is left empty; those it owned are destroyed.
Compiled(b) ==
  /\ Len(compiled) < MaxRouters
  /\ compiled' = Append(compiled,
       [kind \in Kinds |->
          lists[b][kind]
            \o FlattenSeq([k \in DOMAIN routers[b] |-> Surrendered(kind)[routers[b][k]]])])
  /\ lists' = Emptied(Family(b))
  /\ routers' = [c \in Builders |-> IF c \in Family(b) THEN <<>> ELSE routers[c]]
  /\ UNCHANGED <<held, entered, mounted>>

Next ==
  \E b \in held :
    \/ Add(b)
    \/ Getish(b)
    \/ Use(b)
    \/ AppendRouter(b)
    \/ Compiled(b)

Spec == Init /\ [][Next]_vars

--------------------------------------------------------------------------------
(* Properties.                                                             *)

IsAbove(b, c) ==
  LET above[d \in Builders] ==
        d \in DOMAIN mounted /\ (mounted[d].parent = b \/ above[mounted[d].parent])
  IN  above[c]

\* Where the lists are: in a builder or in a router.
Homes == ({"builder"} \X Builders \X Kinds) \cup ({"router"} \X (DOMAIN compiled) \X Kinds)

ListAt(home) ==
  IF home[1] = "builder" THEN lists[home[2]][home[3]] ELSE compiled[home[2]][home[3]]

Places(id) ==
  {p \in UNION {{home} \X (DOMAIN ListAt(home)) : home \in Homes} : ListAt(p[1])[p[2]].id = id}

\* Nothing that was registered is lost, or ends up in two routers, or is found
\* twice in one, however builders are nested and compiled and used again.
OneHome == \A id \in DOMAIN entered : \E p \in Places(id) : Places(id) = {p}

\* In each list of a router, which is searched from its first entry, the entries
\* of one builder are in the order of their registration, and those of a builder
\* go before those of the ones mounted in it, whichever was called first.
SearchOrder ==
  \A list \in {r[kind] : r \in Range(compiled), kind \in Kinds} :
    \A i, j \in DOMAIN list :
      LET b == entered[list[i].id].builder
          c == entered[list[j].id].builder
      IN  /\ b = c /\ list[i].id < list[j].id => i < j
          /\ IsAbove(b, c) => i < j

\* The entries of the router that a step has made.
NewEntries ==
  IF compiled' = compiled THEN {} ELSE UNION {Range(Last(compiled')[kind]) : kind \in Kinds}

\* compiled() gives an entry the path it was registered under, below the path
\* that its builder is mounted at, if it is mounted.
BelowItsMount ==
  [][\A e \in NewEntries :
       LET b == entered[e.id].builder
       IN  e.path = (IF b \in held THEN <<>> ELSE mounted[b].mask) \o entered[e.id].path]_vars

\* compiled() gives an entry the path it was registered under, below the paths of
\* all the builders it is mounted in: a router mounted at "/v1" in one that is
\* mounted at "/api" serves "/api/v1".
BelowAllMounts ==
  [][LET mount[b \in Builders] ==
           IF b \in held THEN <<>> ELSE mount[mounted[b].parent] \o mounted[b].mask
     IN  \A e \in NewEntries :
           e.path = mount[entered[e.id].builder] \o entered[e.id].path]_vars
================================================================================
