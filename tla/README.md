# A verification of http-router in TLA+

This directory holds TLA+ modules of `http-router`, a small HTTP server on
Boost.Beast with a request router, TLC configurations that check them on small
instances, and proofs checked by TLAPS. Paths below are relative to the
repository; `L/` stands for `libs/http-router/`.

## The system

| component | code | state | operations | how it meets the others |
|---|---|---|---|---|
| HTTP session | `L/src/server/http_session.{hh,cc}` | the stream, the parser, `queue::items_` | `run`, `do_read`, `on_read`, `on_write`, `do_close`, `queue::send`, `queue::on_write` | completion handlers on the connection's strand; calls the router from `on_read`; is called back by `response::send` |
| Listener | `L/src/server/server.cc` | the acceptor, the server's name | constructor, `run`, `next_accept`, `on_accept` | handlers on the acceptor's strand; creates sessions and starts their first read; sessions keep a plain pointer to its string |
| Program | `examples/simple-server.cc` | the threads, the `io_context`, the signals | `run` | threads in `ioc.run()`; a signal stops the context; main joins |
| Router | `L/src/router.cc`, `route.hh`, `filters/base.hh` | `routes`, `filters`, constant once compiled | `handle_request`, `before_send`, `after_send` (without a caller), `print` | called by sessions on any thread; calls filters and handlers, which respond |
| Router configuration | `router::cfg` in `L/src/router.cc` | `handlers_`, `filters_`, `routers_` | `add`, `get`, `getish`, `use`, `filter`, `append`, `surrender`, `compiled` | sub-configurations are moved into their parent, and everything into the router |
| Request, response | `request.hh`, `response.hh`, `response.cc` | one message | `send`, the stock responses | through `sender` to the session's queue |
| Byte ranges | `L/src/range.cc` | none | `parse_byte_ranges` | used by static files |
| Static files | `libs/static_files` | the roots | `preproc`, `get_file`, `resource_from`, `mime_type` | a filter; reads the file system |
| File body | `beast/patched/basic_file_body.hh` | file, size, fragment, position | `open`, `fragment`, the writer's `get` | written by the session's `async_write` |
| URI and query | `L/src/uri.cc` | `values_`, `keys_` of a query | `add`, `set`, `remove`, `parse`, `string`, `flat_list`, decoding | used by requests and programs |
| Shared roots | `L/src/shared_roots.cc` | `roots_` | `expand` | reads the file system |
| Path compiler | `L/src/path_compiler.cc` | the keys and the expression of a mask, constant once made | `parse_matcher`, `description::make`, `matcher::matches` | used by routes |
| Delegate | `delegate.hh` | store, stub, deleter | copying, moving, assignment, call | the callback of a route |
| CORS, headers, logger | `libs/cors`, `libs/headers`, `libs/logger` | one header value | `preproc`, `sending`, `postproc` | filters |

What is hard in it: the two loops of a session, reading and writing, that stop
and restart each other through a bounded queue; the order of completions,
handlers and what the client does (pipelining, half-closing, resetting);
sessions on several threads that only their strands separate; a listener that
nothing but its own pending accept keeps alive; failures in the middle of the
set-up; moves of nested configurations; routes whose masks, expressions and
captures have to agree; and callbacks that share an object. `PROJECT.json` lists each hazard at
its line, with the properties that cover it.

## The modules

    AsyncOps <---- HttpSession ----> ReplyStream      (implements)
       ^               ^
       |               '-- HttpSessionProofs
    Server <-- ServerProofs

    PathCompiler <-- Router <-- RouterProofs <-- MCRouter

    RouterConfig <-- RouterConfigProofs <-- MCRouterConfig

    Delegate <-- DelegateProofs <-- MCDelegate

    ByteRange <-.
                 StaticFiles <-- StaticFilesProofs <-- MCStaticFiles
    MimeType  <-'

    ParamMap <---- Query <-- Link <-- LinkProofs <-- MCLink
    (implements)              |
                             Uri <-- MCUri

The modules `*Proofs` hold the inductive invariants and the theorems;
SequenceLemmas is what RouterProofs, RouterConfigProofs and LinkProofs need of
`FlattenSeq`.
The modules `MC*` give the constants their values for TLC.
Definitions named `Faulty...` are variants of the definition below them with one
plausible mistake. No action uses them; they document what a property excludes,
and with one in the place of the original TLC finds its property violated.

**HttpSession** is one `http_session` with its `queue`. `items` is
`queue::items_`; `rd` and `wr` are the positions of the read and write loops
(whether an operation is outstanding, its result, or being inside
`handle_request`). Completing an operation (`ReadCompletes`, `WriteFlushes`,
`WriteFails`; the kernel and Beast, external) and running its handler
(`OnRead...`, `OnWrite...`; the code) are different steps, as other handlers run
in between. `handle_request` is split into its sends, since a write may complete
while the handler still runs; that the strand keeps `on_write` out of `on_read`
is the conjunct `rd # "handling"`. A request that throws unwinds `on_read`
without a new read. A request is reduced to a number and a response to its
request and whether it ends the connection, computed from the version, the
`Connection` wish and the presence of a length as `on_read` and `need_eof` do.

**ReplyStream** is what a connection promises: responses promised, at most
`Capacity` outstanding, delivered in order, each once, none after the end.
`HttpSession` implements it with the mapping *owed* = the queue without a front
item that is already written, *delivered* = the responses written, *ended* = shut
down, failed or closed (`StreamSpec`).

**AsyncOps** is the interface of a session to the `io_context`: which operations
a handler may start. `HttpSession` is checked to keep to it
(`ServerSeesTheSession`), and Server uses nothing else of a session. So the two
compose: what Server shows for sessions that behave like `AsyncOps` holds of
real ones.

**Server** is the listener with `Threads` that run the `io_context`, the first
of which, `Main`, runs `main()`. `at[t]` is where a thread is: in one of the
calls of the constructor, in a phase of `on_accept`, in a handler of a session,
idle, or out of `ioc.run()`. Each of the four set-up calls may fail, after which
the constructor returns early and `run()` goes on by the port it finds. Strands
are the guard `StrandFree`; `on_accept` runs on the acceptor's strand, so that
its call of `http_session::run` is not under the strand of the session. An
exception out of a request handler terminates the program (`Throws`), as
`ioc.run()` in the example is not in a `try` block.

**Router** is one dispatch: `handle_request` with the filters and routes of an
arbitrary router, and `before_send` for whatever response comes of it, from
whatever depth. A compiled router is constant and shared read-only, so one
request is enough. Paths are sequences of characters; a route is a mask with the
options it is compiled with, and its callback is given the parameters that
`matches` finds (`Given`). Where `prefixes` calls `back()` on an empty view both
answers are possible.

**PathCompiler** is what becomes of a mask. A mask is the sequence of what
`path_regex` finds in it, characters and parameters; `Tokens` is `parse_matcher`
with `key::make` and the flags, `Route` the expression that `description::make`
puts together under the options, with the slash that may end it, and `Captured`
what `regex_match` makes of a path: the first of the ways to match it, in the
order ECMAScript tries them, and its captures. `Params` gives each key its capture
by number, as `matches` does. The reference shares nothing of this: `Fits` cuts a
path into pieces that the elements of the mask may stand for, and `Filled` puts
parameters back into the mask. Of the patterns that a mask may bring along there is
one, `(\d+)`.

**RouterConfig** is the building of routers with `router::cfg`. The variables
`entered` and `mounted` are history, for the properties. `unique_ptr` is modelled
by `held`: a builder that was given away is not called any more. Paths are
sequences of pieces and joined without looking at slashes, as the code does.

**ByteRange** is `parse_byte_ranges`: operators on unsigned numbers, `Plus` and
`Minus` modulo `Modulus`. A header is the sequence of its pieces, and a piece what
`parse_byte_range` makes of its text: a suffix, a start, a span, or unreadable.
`Named` is the reference: the positions in a file that a piece stands for.

**MimeType** is `mime_type`: an extension is read as four bytes, folded to small
letters, and looked up in the table, `Types`, which is a parameter. Of an extension
with fewer than three characters the code reads memory behind the text; what lies
there is a choice. `TypeOf` is the reference.

**StaticFiles** is one request to the filter: `shared_roots::expand` root by root,
then `get_file`, then the writer of the file body as the session drives it. Every
call of the file system is a step of its own: `fs::status`, `open`, and
`last_write_time` look the name up anew, and `read` sees the file as it is then.
Other programs change what lies under the name (`ChangeEntry`) and the file that
is open (`ChangeHeld`); that these two are independent gives the model more
behaviours than a file system has, none fewer, and each is left out only where
nothing reads any more what it would change. `build` is which of the two bodies the
program has: that of `basic_file_body.hh`, or, on Windows, that of
`file_body_win32.hh`, whose writer knows the position in the file (`pos`) and the
end, and does not seek; `at` is where the file really is. A response is reduced to
its status, the type, the three fields that describe the body, and the kind of
body. `since` and the dates are compared as numbers: `modified_since` reads the
header with `mktime`, in the server's time zone, which is not modelled.

**Query** is the builder of query strings, `values_` with the index `keys_`; a
value is the number of the call that added it. **ParamMap** is what it promises:
a map from names to values with an order of the names.

**Uri** is percent-encoding: `urlencode_impl` as operators, `urldecode_impl` as the
loop it is, over texts of character codes, with what lies behind the text in memory,
because the loop's bound, `in_len - 2`, wraps for a text of one character. `split`
is two operators, with the hash that the code leaves at the end of a query.

**Link** joins the two. A query is built by the actions of Query, written with
`string`, and sent behind a path; the constructor of `request` splits the target and
decodes the path, and `query_parser` goes through the query, `it` being its position
in the target. Each piece is decoded by the loop of Uri (`INSTANCE`) where it lies,
so that what follows it in memory is the rest of the target. A second kind of initial
state is a target that a client made up.

**Delegate** is the type of a route's callback: its members, with what uninitialized
ones may hold, and the memory that delegates share. `Step` is what `shared_ptr`
adds: a block is freed with its last owner. Assignment puts an object into the store
there is or into a new one (`MayReuse`), and may end half-way (`AssignThrows`).

## The runs

| run | module, configuration | question | distinct states |
|---|---|---|---|
| session | HttpSessionProofs, HttpSession | queue bound, no lost and no doubled loop, order, closing, both refinements; what is owed is delivered, a session is let go of | 51,934 |
| server | ServerProofs, Server | one thread per session, one accept, the listener's lifetime; clients are accepted, a signal ends the program | 97,957 |
| server_port | Server, Server_port | *violated*: a reported port listens | |
| router_dispatch | MCRouter, Router | one answer, nothing above the root, hooks complete and in order; the first route that fits is called, with the pieces of the path that its parameters stand for | 602,937 |
| router_config | MCRouterConfig, RouterConfig | nothing lost or doubled, search order, paths below their mount | 0.6 million |
| router_nested | MCRouterConfig, RouterConfig_nested | *violated*: paths below all their mounts | |
| static_files | MCStaticFiles, StaticFiles | the body is what the header says, in both builds, ranges are those asked for, the oldest copy, the type by the extension, sending ends | 475,272 |
| static_win32 | MCStaticFiles, StaticFiles_win32 | *violated*: the Windows body reads where the range begins | |
| static_modified | MCStaticFiles, StaticFiles_modified | *violated*: 304 only for a file that was not modified | |
| link | MCLink, Link | index and list agree, the ordered map; what is built, written, sent, split, decoded and parsed is what was built; each escape once | 339,980 |
| uri_space | MCUri, Uri_space | *violated*: an escape lies in the text | |
| delegate | MCDelegate, Delegate | each delegate calls an object of its own, copies keep theirs | 97,954 |

Bounds. The queue of the code holds 8; the run has 3, and 5 requests, so that it
fills and empties at the front, in the middle and at the end, twice over; the
proofs are for every limit. Two connections and three threads are the fewest
with two sessions running, one being created, and a thread to spare; one passing
failure of the accept is enough to pass `NextAccept` on the error path, again
and again where the acceptor is broken. The resources are all sequences of up to
four of the three characters that `prefixes` and `has_up_dir` look at, and two
longer ones, with every router of up to two filters: a filter's effect on the
next one is seen with two. Routes are one or two of twenty masks, each kind of
parameter at the start, in the middle and at the end, with each modifier, next to
text and to one another, and every option, over all paths of up to four characters
and three segments: two routes are enough for the order, three segments for a
repetition with something behind it. Three builders nest one in
another in another; three entries order two in one builder and one below. Files have
up to four bytes, a buffer two, and numbers are modulo eight, so that a file needs
two reads, and suffixes and spans reach behind it and wrap; two changes
let a file shrink and grow, or be replaced before it is opened and again before
its date is read. Extensions are of zero to five characters, with entries of the
table that fill up to one another. Four calls of `add` on three names, with `set` and
`remove` between them without bound, put removed names before, between and behind
others. The texts of names and values have each character that is treated on its
own: space, plus, percent sign, separators, a byte above 127, and none. A target that
a client made up has up to five of them, enough for an escape at every place and cut
off at every length, for empty names and values, and for two separators in a row.
Three delegates are an owner, a copy and one that is assigned from; two sizes of
objects are one that fits and one that does not; four blocks leave one to allocate.
Symmetry is used for the builders, the delegates and
the blocks, where the properties are safety properties that tell none from another.
`CHECK_DEADLOCK FALSE` is set where the system ends: a session, a program, a
request and a loop over a text do, and the bounds end the building of routers.

### Disagreements found

* **Reported port** (`ReportedPortListens`, server.cc:111). If `listen` fails
  after `bind` succeeded, `run()` returns an endpoint with a port. The program
  prints that it listens, and its accept loop fails for ever without a pause.
  (`StopEnds` holds there too: it can still be stopped.)
* **Nested mounts** (`BelowAllMounts`, router.cc:174). `surrender` does not hand
  its own prefix on, so that a router two levels down loses the outer path.
* **Not modified** (`NotModified`, static_files.cc:134). `get_file` answers 304 just
  when the file *is* newer than the client's date, and sends the whole file when it
  is not; the list in `CONTRIBUTING.md` has "if modified since" as done.
* **Escapes at the end** (`EscapeInside`, uri.cc:118). The test that an escape has
  space, `i < in_len - 2`, is unsigned: in a text of one character it always holds,
  and what lies behind the text is looked at.

* **Ranges on Windows** (`ReadsAtPosition`, file_body_win32.hh:134). The writer
  starts its position where the range starts and reads the file from its start: the
  seek is in overloads of `write_some` for a plain socket, and the session has a
  `tcp_stream`. The other body seeks.

The models also keep what no document speaks about.

* A client that pipelines requests and then shuts down its sending side loses the
  responses still queued, as `on_read` closes at once.
* A suffix range longer than the file is not satisfiable, and every range of an empty
  file is (`Wraps` in ByteRange says where); on Windows the body of such a range does
  not end where its header says.
* The request for the mount of the static files itself makes `resource_from` throw.
* In masks, PARTIAL is set for every parameter that something follows, since
  `std::string{1, c}` has two characters: `/x/:a?/b` matches `/x//b` and not `/x/b`.
  The option END has no effect, because `regex_match` takes the whole path anyway.
* An extension of one or two characters may miss its type, depending on what lies
  behind it in memory.
* `flat_list` puts all values of a parameter at the place of its first; the query of
  a target with a fragment ends in the hash; `parse` does not see a parameter without
  name and value at the end.
* An object assigned into a delegate's store of another type is destroyed in the end
  with the deleter of the first; a delegate that was moved from still says that it
  can be called; one whose assignment threw keeps its stub.

## Fairness

*HttpSession.* The `io_context` runs each ready handler, and request handlers
return: weak fairness of `on_read`, of its return, and of `on_write`. The kernel
completes a read that has something to report. A write completes or fails: this
is an assumption about the client, which takes what it is sent or goes away,
because the code sets no time limit (`stream_.expires_never()`). Clients need
not send, close or reset anything.

*Server.* The set-up does not block, threads go on with the handler they are in,
and handlers return (weak fairness). The queue of an `io_context` is first in,
first out, so that a handler that is ready again and again is run at last: strong
fairness of the accept's handler and of the signal's. Clients, and the arrival of
a signal, are not fair; sessions may keep threads busy for ever.

*StaticFiles.* The calls of the filter and the writer return (weak fairness); other
programs need not do anything. *Router*, *RouterConfig*, *Link* and *Delegate* have no
liveness properties.

## What is proved

For every value of the constants that satisfies the assumptions, with machine-checked
proofs. Each invariant is `Spec => []Inv` from an inductive strengthening; action
properties and refinements follow from the same invariant, step by step.

* **HttpSessionProofs.** `IInv` says where each loop stands by the length of the
  queue (`ReadLoop`: an idle read loop that did not end means a full queue, any
  other state means room; `WriteLoop`: a write is outstanding exactly while there
  are items, until it ends), that the numbers in the queue and in what was sent
  ascend and overlap only in the front item (`Ordered`), and that a closing
  response stays in front (`Closing`). `ReadNeedsRoom` alone is not inductive: the
  write that restarts a read must know that none is outstanding, which needs
  `ReadLoop` for a full queue. Theorems: `ReadsHaveRoom`, `SessionNotDropped`,
  `AnswersInOrder`, `NothingAfterClose`, and the two refinements `Refinement`
  (ReplyStream) and `SessionFitsServer` (AsyncOps).
* **ServerProofs.** `SessionsExclusive`, `AcceptsExclusive`, `ListenerOutlives`,
  for any number of threads, connections and failures. The invariant ties each
  connection's phase and operations to the thread that is creating it, and says
  that the accept loop is in one place: pending, ready, or in one thread.
* **RouterProofs.** `OneAnswer`, `NothingAbove` and `HooksComplete`, for all
  paths, routers and bounds. `ScopeIsWithin` is the lemma about `prefixes`: for an
  absolute resource it says whether the resource lies in the directory;
  `NothingAbove` rests on `has_up_dir` finding the segment at any position. For
  these it does not matter which route is called.
* **RouterProofs, masks.** `MatchesIsFits`, `FirstFit` and `PiecesGiven`, for all
  masks of the form that PathCompiler has, all options and all paths. A *run* over
  parts of an expression is a way to match each from where the one before it ends;
  `CapturedIs` is that `regex_match` finds one to the end of the path whenever there
  is one, in whatever order it tries them. `Reaches` says where runs end and with
  which captures, without saying how (`ReachesAppend`, `ReachesKey`). Induction over
  the rounds of `parse_matcher` follows the tokens: the text that is collected and
  not yet pushed makes the difference between them and the elements of the mask
  (`Extended`), and each round adds what its element stands for (`ParsedReaches`,
  `CutsAreEnds`). What is left is what `description::make` does at the end: the
  slash, and the last parameter that takes the rest. `Rebuilds` is the same walk
  with the captures: the keys are the parameters in their order (`RouteKeys`), so
  that a capture by number is that of its own parameter, and filled in again it is
  the piece that was cut (`ParameterFills`). A route that takes its parameters twice
  under one name is left out, as in the property. `Found` is the invariant that
  carries both to Router: the route called is the first candidate.
* **RouterConfigProofs.** `OneHomeEach`, `SearchedInOrder` and `PathsMoved`, for any
  number of builders, entries and pieces of paths. The lists of a router are built by
  a recursion over the builders nested in it. That the nesting is a tree is part of
  the invariant (`Built`): each builder has a height, above those it holds, and is
  held at most once; induction over the heights then gives what `surrender` returns
  (`Kept`): every entry of a builder and of those below it once, and for each method
  or none the entries in the order in which they are to be searched.
* **LinkProofs.** Of Query, `IndexAgrees` and `Refinement`, for any names and any
  number of calls. `Indexed` is inductive with the types, and the weight lies in
  `Remove`, where both the list and the index shift (`Removal`, `RemoveStep`); the
  mapping needs only that a name's position orders it among the others.
  `BuildsQuery` carries both over to Link. Of Link, `LinkRead`, `DecodedOnce` and
  `TargetSplit`, for all texts. `Counted` is the invariant of the loop over a text
  that a client made up: the decoded length is the position less two for each escape
  passed, and the position is inside none. `Decoding` is that of a text the code has
  encoded: the position is where an encoded character ends, and what is decoded so
  far is the text up to it. `LinkCarried` says how far a request is in a link: the
  place is where a part, or its value, begins (`PartsInLink`, `PartRead`), and what
  was read is what the parts before it make (`ReadAt`). A part that names its
  parameter again adds a value to it, and only the first can find none (`TakenNew`,
  `TakenMore`): that rests on the names being different, which is `Indexed`.
* **StaticFilesProofs.** `PromiseKept`, `RangesInFile`, `RangesFound`, `OldestFound`
  and `TypesByExtension`, for every width of the numbers, every header, every table of
  types, any number of roots and every change of the files, in both builds.
  `RangesFound` compares what `parse_byte_ranges` computes in wrapping numbers with
  the positions that the header names; `OldestFound` carries through the loop over the
  roots that the chosen copy is the oldest of those that were seen (`OldestSoFar`).
  `FragmentLength` says that the length in the header and
  the fragment of the body come out the same though each wraps for itself;
  `Accounted` carries it through the writer's loop: what is written and what remains
  add up to Content-Length, and `Ordered` keeps the position of the Windows writer
  between the ends. `FoldsCase` and `SameNumber` are the lemmas about types: folding
  gives the small letter, and two texts with one number are one entry of the table,
  unless something of the memory behind a short one comes in.
* **DelegateProofs.** `OwnObjects` and `SharedObjects`, for any number of delegates,
  blocks and types. All operations come to `Step`, and `StepIInv` shows once that it
  keeps the invariant if each delegate goes with the block it owns; `CallsItsOwn`
  alone is not inductive, since what is owned must not be free (`Held`).

Assumptions, all named in the modules: the limit is positive (a `static_assert`
in the code), bounds are natural numbers, `Main` is a thread, paths are sequences
of strings. **OneReplyAssumption** is about request handlers: each calls
`response::send` at most once. The session cannot enforce it, since `queue::send`
does not look at the limit; Router shows (`AnsweredOnce`) that dispatch keeps it
if each filter and each route does.

Each of these modules proves the type invariant too (`TypeCorrect`).

How recursion is dealt with: the induction theorems of the library take an operator
as a parameter, which no installed backend instantiates. SequenceLemmas proves
induction for a *set* of numbers from the well-foundedness of the order on them
(`LeastNumber`, `NumberInduction`), shows with it that the functions exist that
`FlattenSeq` chooses, and then says where each part lies in a flattened list
(`LaysOut`). The inductions of the other modules are of this form.

Only model-checked: liveness and refinement under fairness (`StreamFairSpec`,
`EventuallyReleased`, `ClientsAccepted`, `StopEnds`, `Ends` of StaticFiles), which the
prover does not do, nor `ENABLED`. The properties of the runs that expect a violation
are false, of course.

## What is not modelled, and the plan

Not modelled on purpose: the wording and most header fields of responses, console
output, `beast.cc`, `version.cc`, and the three stateless filters, whose calls are
part of Router. The table of media types is data. The regular expressions of the
standard library are external: PathCompiler says what those of one form match, and
leaves out patterns other than `(\d+)`, and the escaping of characters. Of the file
bodies the readers and `reset` are left out, which nothing calls, and of the Windows
one the overloads around TransmitFile, which the session's stream does not choose;
of delegates those that hold an address without owning the object, and the
assignment of a method, which nothing uses.

Planned, in this order:

1. Composition: several requests of one session through Router; a request that
   throws in `resource_from` through Router and HttpSession.
2. PathCompiler: patterns that a mask brings along, with what `escape_group` makes
   of them.
