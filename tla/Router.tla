--------------------------------- MODULE Router ---------------------------------
(***************************************************************************)
(* The dispatch of one request by a compiled router                        *)
(* (libs/http-router/src/router.cc: handle_request, before_send).          *)
(*                                                                         *)
(* The filters in whose scope the resource lies are asked in turn; one of  *)
(* them may answer the request, otherwise a route does.  Every answer,     *)
(* also one the router gives itself, first passes the filters that support *)
(* sending: response::send calls before_send from within preproc, from     *)
(* within the handler of a route, and from within handle_request.          *)
(*                                                                         *)
(* A compiled router is constant and the threads that share it only read   *)
(* it, so one request at a time shows everything.  Paths are sequences of  *)
(* one-character strings, after decoding.  A route is a mask and the       *)
(* options it is compiled with: PathCompiler says what it matches.         *)
(*                                                                         *)
(* Assumed of filters and handlers: preproc sends a response if and only   *)
(* if it returns finished, as get_file and cors do; the handler of a route *)
(* sends one response.  Any of them may throw.                             *)
(*                                                                         *)
(* Definitions called Faulty... are the ones below them with one likely    *)
(* mistake; no action uses them.  They show what each property excludes.   *)
(***************************************************************************)
EXTENDS PathCompiler

CONSTANTS
  FilterPaths,  \* the paths under which filters are registered
  Verbs,        \* HTTP methods
  Cases         \* routers, with a request for each

VARIABLES
  filters,   \* router::filters, in the order of registration
  routes,    \* router::routes; a method that is not in the map has no routes
  resource,  \* resp.req().decoded_path()
  verb,      \* resp.req().method()
  pc,        \* "start", "filters", "handler", "sending", "done", "threw"
  next,      \* the filter to look at next
  called,    \* the route of the method whose callback is called; 0 if none is
  reply,     \* what the response says, "" before there is one
  hooked,    \* the filters whose sending was called for this response
  sent       \* responses given to the queue of the session

vars == <<filters, routes, resource, verb, pc, next, called, reply, hooked, sent>>
config == <<filters, routes, resource, verb>>

--------------------------------------------------------------------------------
(* Paths.                                                                  *)

LastOf(s) == s[Len(s)]

StartsWith(s, p) == Len(p) <= Len(s) /\ \A k \in DOMAIN p : s[k] = p[k]

WithoutLastSlash(s) ==
  IF s # <<>> /\ LastOf(s) = "/" THEN SubSeq(s, 1, Len(s) - 1) ELSE s

\* cfg::use drops a slash from the end of the path of a filter.
UsePath(path) == WithoutLastSlash(path)

\* Faulty: what follows the prefix is not looked at.
FaultyInScope(prefix, r) == {StartsWith(r, prefix)}

\* What prefixes(prefix, r) may return.  With an empty prefix and a resource
\* that does not begin with a slash it reads prefix.back(), which is undefined:
\* either answer.
InScope(prefix, r) ==
  IF prefix = <<>> /\ r # <<>> /\ r[1] # "/"
    THEN BOOLEAN
    ELSE {/\ StartsWith(r, prefix)
          /\ \/ Len(r) = Len(prefix)
             \/ r[Len(prefix) + 1] = "/"
             \/ prefix # <<>> /\ LastOf(prefix) = "/"}

\* Faulty: a ".." at the end is overlooked.
FaultyHasUpDir(r) ==
  \E k \in DOMAIN r :
    k + 3 <= Len(r) /\ r[k] = "/" /\ r[k + 1] = "." /\ r[k + 2] = "." /\ r[k + 3] = "/"

\* has_up_dir: the resource contains "/../" or ends with "/..".
HasUpDir(r) ==
  \E k \in DOMAIN r :
    /\ k + 2 <= Len(r) /\ r[k] = "/" /\ r[k + 1] = "." /\ r[k + 2] = "."
    /\ k + 2 = Len(r) \/ r[k + 3] = "/"

\* The resources that handle_request does not refuse.
Legal(r) == r # <<>> /\ r[1] = "/" /\ ~HasUpDir(r)

--------------------------------------------------------------------------------

Filter == [prefix : {UsePath(p) : p \in FilterPaths}, pre : BOOLEAN, send : BOOLEAN]

RouteEntry == [mask : Seq(Element), options : Options]

Case ==
  [filters : Seq(Filter), routes : [Verbs -> Seq(RouteEntry)],
   resource : Seq(STRING), verb : Verbs]

ASSUME CasesAssumption == FilterPaths \subseteq Seq(STRING) /\ Cases \subseteq Case

Replies == {"", "illegal path", "of a filter", "unknown method", "not found", "of a route"}

TypeOK ==
  /\ filters \in Seq(Filter)
  /\ routes \in [Verbs -> Seq(RouteEntry)]
  /\ resource \in Seq(STRING)
  /\ verb \in Verbs
  /\ pc \in {"start", "filters", "handler", "sending", "done", "threw"}
  /\ next \in 1..(Len(filters) + 1)
  /\ called \in Nat
  /\ reply \in Replies
  /\ hooked \in Seq(1..Len(filters))
  /\ sent \in Nat

Init ==
  /\ \E c \in Cases : /\ filters = c.filters /\ routes = c.routes
                      /\ resource = c.resource /\ verb = c.verb
  /\ pc = "start"
  /\ next = 1
  /\ called = 0
  /\ reply = ""
  /\ hooked = <<>>
  /\ sent = 0

\* response::send: before_send goes through the filters from the first.
Respond(what) ==
  /\ pc' = "sending" /\ next' = 1 /\ reply' = what
  /\ UNCHANGED <<config, hooked, sent>>

\* The answer that prefixes may give for the filter that is looked at.
Covers(answer) == answer \in InScope(filters[next].prefix, resource)

\* return resp.bad_request("Illegal resource path");
RefuseResource ==
  /\ pc = "start" /\ ~Legal(resource)
  /\ Respond("illegal path")
  /\ UNCHANGED called

BeginFilters ==
  /\ pc = "start" /\ Legal(resource)
  /\ pc' = "filters"
  /\ UNCHANGED <<config, next, called, reply, hooked, sent>>

\* Not a filter for preproc, or not for this resource.
SkipFilter ==
  /\ pc = "filters" /\ next <= Len(filters)
  /\ ~filters[next].pre \/ Covers(FALSE)
  /\ next' = next + 1
  /\ UNCHANGED <<config, pc, called, reply, hooked, sent>>

\* Faulty: the loop skips the filter after one that carries on.
FaultyCarryOn ==
  /\ pc = "filters" /\ next <= Len(filters)
  /\ filters[next].pre /\ Covers(TRUE)
  /\ next' = next + 2
  /\ UNCHANGED <<config, pc, called, reply, hooked, sent>>

\* preproc returns filtering::carry_on.
CarryOn ==
  /\ pc = "filters" /\ next <= Len(filters)
  /\ filters[next].pre /\ Covers(TRUE)
  /\ next' = next + 1
  /\ UNCHANGED <<config, pc, called, reply, hooked, sent>>

\* preproc responds and returns filtering::finished.
Finish ==
  /\ pc = "filters" /\ next <= Len(filters)
  /\ filters[next].pre /\ Covers(TRUE)
  /\ Respond("of a filter")
  /\ UNCHANGED called

\* The routes of the method that match.
Candidates ==
  {k \in DOMAIN routes[verb] :
     LET route == routes[verb][k]
     IN  Matches(Description(route.mask, route.options), resource, route.options)}

\* No filter has finished: the first route that matches is called.
FindRoute ==
  /\ pc = "filters" /\ next > Len(filters)
  /\ \E k \in Candidates : (\A j \in Candidates : k <= j) /\ called' = k
  /\ pc' = "handler"
  /\ UNCHANGED <<config, next, reply, hooked, sent>>

\* Or the router answers that it knows no such method, or no such resource.
NoRoute ==
  /\ pc = "filters" /\ next > Len(filters)
  /\ Candidates = {}
  /\ Respond(IF routes[verb] = <<>> /\ \E v \in Verbs : routes[v] # <<>>
               THEN "unknown method" ELSE "not found")
  /\ UNCHANGED called

\* route::call: the callback, or the stock response of a route without one.
CallRoute ==
  /\ pc = "handler"
  /\ Respond("of a route")
  /\ UNCHANGED called

\* An exception of preproc, of a handler or of sending leaves the router.
Throws ==
  /\ \/ pc = "handler"
     \/ pc = "filters" /\ next <= Len(filters) /\ filters[next].pre /\ Covers(TRUE)
     \/ pc = "sending" /\ next <= Len(filters) /\ filters[next].send /\ Covers(TRUE)
  /\ pc' = "threw"
  /\ UNCHANGED <<config, next, called, reply, hooked, sent>>

\* before_send: one round of its loop.
SkipHook ==
  /\ pc = "sending" /\ next <= Len(filters)
  /\ ~filters[next].send \/ Covers(FALSE)
  /\ next' = next + 1
  /\ UNCHANGED <<config, pc, called, reply, hooked, sent>>

CallHook ==
  /\ pc = "sending" /\ next <= Len(filters)
  /\ filters[next].send /\ Covers(TRUE)
  /\ hooked' = Append(hooked, next)
  /\ next' = next + 1
  /\ UNCHANGED <<config, pc, called, reply, sent>>

\* Faulty: handle_request goes on after a response.
FaultyHandOver ==
  /\ pc = "sending" /\ next > Len(filters)
  /\ sent' = sent + 1
  /\ pc' = IF sent = 0 /\ Legal(resource) THEN "handler" ELSE "done"
  /\ UNCHANGED <<config, next, called, reply, hooked>>

\* The response joins the queue, and handle_request returns: whoever responded
\* has nothing left to do.
HandOver ==
  /\ pc = "sending" /\ next > Len(filters)
  /\ sent' = sent + 1
  /\ pc' = "done"
  /\ UNCHANGED <<config, next, called, reply, hooked>>

Next ==
  \/ RefuseResource \/ BeginFilters
  \/ SkipFilter \/ CarryOn \/ Finish
  \/ FindRoute \/ NoRoute \/ CallRoute
  \/ SkipHook \/ CallHook \/ HandOver
  \/ Throws

Spec == Init /\ [][Next]_vars

--------------------------------------------------------------------------------
(* Properties.                                                             *)

\* Whatever way a request takes through the router, it is answered exactly
\* once when handle_request returns and not at all when it throws: what
\* HttpSession takes for granted of the handlers it calls.
AnsweredOnce == sent = IF pc = "done" THEN 1 ELSE 0

\* No preproc and no handler sees a resource with a segment "..", wherever it
\* stands: static files cannot be asked for what is above their root.
NoWayUp ==
  pc \in {"filters", "handler"} =>
    ~\E k \in DOMAIN resource :
       /\ k + 1 <= Len(resource) /\ resource[k] = "." /\ resource[k + 1] = "."
       /\ k = 1 \/ resource[k - 1] = "/"
       /\ k + 1 = Len(resource) \/ resource[k + 2] = "/"

\* The resource is the directory itself or lies below it.
Within(directory, r) ==
  r = directory \/ StartsWith(r, Append(directory, "/"))

\* Every answer to a request for an absolute path, one that the router refuses
\* included, has passed the sending filters in whose directory the resource
\* lies, each once and in the order they were registered, and no other.  (Where
\* a path is registered with several slashes at its end, one is left: such
\* filters are not what the property is about.)
SentThroughHooks ==
  (/\ pc = "done" /\ resource # <<>> /\ resource[1] = "/"
   /\ \A k \in DOMAIN filters : filters[k].prefix = UsePath(filters[k].prefix)) =>
    /\ \A i, j \in DOMAIN hooked : i < j => hooked[i] < hooked[j]
    /\ \A k \in DOMAIN filters :
         (\E i \in DOMAIN hooked : hooked[i] = k) <=>
           filters[k].send /\ Within(filters[k].prefix, resource)

\* The first route of the method whose mask the resource fits is called, and the
\* router finds nothing only where none fits: the tokens, the expressions and the
\* order of the search come to what the masks say.
FirstRouteCalled ==
  LET FitsRoute(k) == Fits(routes[verb][k].mask, routes[verb][k].options, resource)
  IN  /\ called # 0 => FitsRoute(called) /\ \A k \in 1..(called - 1) : ~FitsRoute(k)
      /\ reply = "not found" => \A k \in DOMAIN routes[verb] : ~FitsRoute(k)

\* What the callback is given as params.
Given(route) == Params(Description(route.mask, route.options), resource, route.options)

\* The texts are the same, but for the case of letters where it does not count.
Alike(s, t, options) ==
  Len(s) = Len(t) /\ \A k \in DOMAIN s : Same(s[k], t[k], options)

\* The parameters of a callback, filled into the mask of its route, are the resource
\* again, but for a slash that one of them may have at its end if the route is not
\* strict, and letters whose case does not count: each parameter has got the piece
\* of the resource that stands for it.  (Of parameters with one name only the last
\* is there to see.)
ParamsRebuild ==
  called # 0 =>
    LET route == routes[verb][called]
        mask == route.mask
        keys == {k \in DOMAIN mask : mask[k].kind = "parameter"}
        filled == Filled(mask, route.options, Given(route))
    IN  (\A j, k \in keys : j # k => KeyOf(mask, j) # KeyOf(mask, k)) =>
          \/ Alike(filled, resource, route.options)
          \/ /\ "STRICT" \notin route.options
             /\ \/ Alike(Append(filled, "/"), resource, route.options)
                \/ Alike(filled, Append(resource, "/"), route.options)
================================================================================
