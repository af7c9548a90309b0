-------------------------------- MODULE MCRouter --------------------------------
(* Router on short paths over the characters that matter to it.            *)
EXTENDS RouterProofs

Word(S, n) == UNION {[1..k -> S] : k \in 0..n}
Plain(path) == [k \in DOMAIN path |-> Character(path[k])]
Default(mask) == [mask |-> mask, options |-> DefaultOptions]
Under(path, element) == Append(Plain(path), element)

\* Every decoded path of up to four characters, legal or not, and longer ones
\* with the segment ".." at either end.
Resources == Word({"/", ".", "a"}, 4)
               \cup {<<"/", "a", "/", ".", ".">>, <<"/", ".", ".", "/", "a">>}
MCFilterPaths == {<<>>, <<"/">>, <<"/", "a">>, <<"/", "a", "/">>}
MCVerbs == {"GET", "HEAD"}

GetRoutes(list) == [v \in MCVerbs |-> IF v = "GET" THEN list ELSE <<>>]

\* Every pair of filters, before no route and before one.
FilterCases ==
  [filters : Word(Filter, 2), verb : MCVerbs, resource : Resources,
   routes : {GetRoutes(<<>>), GetRoutes(<<Default(Plain(<<"/", "a">>))>>)}]

\* "/:x", "/a/:x?", "/:x?/a", "/:x+", "/a/:x*", "/*", "/:x*/a", "/(\d+)",
\* "/(\d+)/*", "/:x(\d+)+a", "/:x.:y?", "/a:x", "/:x/:x", "/a", "/A/", "/:x+/:y+", "/*/*",
\* "/:x?/", "/:x?/:y*", and "//:x", which is "/:x" in a builder that is mounted on "/"
X(prefix, pattern, modifier) == Parameter(prefix, "x", pattern, modifier)
Y(prefix, modifier) == Parameter(prefix, "y", "default", modifier)
Star == Parameter(<<"/">>, "", "any", "")
Number == Parameter(<<"/">>, "", "digits", "")
Masks ==
  {<<X(<<"/">>, "default", "")>>, Under(<<"/", "a">>, X(<<"/">>, "default", "?")),
   <<X(<<"/">>, "default", "?")>> \o Plain(<<"/", "a">>), <<X(<<"/">>, "default", "+")>>,
   Under(<<"/", "a">>, X(<<"/">>, "default", "*")), <<Star>>,
   <<X(<<"/">>, "default", "*")>> \o Plain(<<"/", "a">>), <<Number>>, <<Number, Star>>,
   <<X(<<"/">>, "digits", "+"), Character("a")>>,
   <<X(<<"/">>, "default", ""), Y(<<".">>, "?")>>, Under(<<"/", "a">>, X(<<>>, "default", "")),
   <<X(<<"/">>, "default", ""), X(<<"/">>, "default", "")>>,
   Plain(<<"/", "a">>), Plain(<<"/", "A", "/">>),
   <<X(<<"/">>, "default", "+"), Y(<<"/">>, "+")>>, <<Star, Star>>,
   <<X(<<"/">>, "default", "?"), Character("/")>>, <<X(<<"/">>, "default", "?"), Y(<<"/">>, "*")>>,
   Under(<<"/">>, X(<<"/">>, "default", ""))}

LongResources ==
  {p \in Word({"/", ".", "a", "1"}, 4) : p # <<>> /\ p[1] = "/"}
    \cup {<<"/", x, "/", y, "/", z>> : x, y, z \in {"a", "1"}}

\* Every mask and every pair of them in their order, and each with every option.
RouteCases ==
  [filters : {<<>>}, verb : {"GET"}, resource : LongResources,
   routes : {GetRoutes(<<Default(m)>>) : m \in Masks}
              \cup {GetRoutes(<<Default(m), Default(n)>>) : m, n \in Masks}
              \cup {GetRoutes(<<[mask |-> m, options |-> o]>>) : m \in Masks, o \in Options}]

MCCases == FilterCases \cup RouteCases
================================================================================
