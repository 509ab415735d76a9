# Verification of the OpenAPI clients

TLA+ models of the two clients in this repository, TLC runs that check them on
small instances and TLAPS proofs of theorems that hold for every instance:

* the Rust client (`rust/client`, `rust/reqwest`, `rust/fetch`), which is the
  maintained one, and
* the TypeScript client (`typescript/src`), preserved as a legacy implementation
  (`LEGACY.md`) and by far the larger of the two.

Both parse an OpenAPI description, plan one request from it and hand that request to
a transport; neither opens files by itself. What is hard about the Rust client is
*evidence and ownership*: what a caller may conclude when cancellation, a deadline and
the server race, and what may be shared between threads. What is hard about the
TypeScript client is *sessions and conversions*: promises that settle in many orders on
one event loop, and a long pipeline of decisions whose result must still mean, to a
server that knows nothing of the pipeline, what the caller said.

## 1. Inventory

### Rust

| Component | State | Hard behaviour | What makes it correct | Module |
|---|---|---|---|---|
| Cancellation token `cancellation.rs` | flag, waiter list, a waker slot per wait | threads interleave at every lock and atomic; wakers are host code and may poll inline | no lost wake-up; no lock held in host code; `cancel` returns | Cancellation, CancelSignal |
| Descriptor cache `prepare.rs`, `document.rs` | `cache_slot`, `compiled`, `request` cells, a counter | races for a cell or the last slot; callers cancelled or stopped in the middle | cells written once, never with a cancellation; nobody waits for another's compiling | OperationCache |
| Invocation `transport.rs` | request, host declarations, token, `Outcome` | the token is read at several moments; partial, failed and over-long answers combine | dispatch evidence is the callback's entry; nothing dropped silently; a JSON success is whole | Invocation |
| Redirect step `transport/redirect.rs` | a prepared request with credential pairs | origins left and revisited, echoes of applied pairs | secrets stay home, once each; https never left; dropped content stays dropped | RedirectChain |
| Native transport `rust/reqwest` | the exchange's future | two selects with cancellation first; a deadline; a server that stalls | evidence claims no more than happened; cancelling ends the wait | NativeExchange |
| Fetch transport `rust/fetch` | promise observations, abort guard, timer | promises that settle late, never or always at once; host calls that throw | cleanup matches the body's fate; a queued cancellation is heard | FetchExchange |
| Resource graph `graph.rs` | shared Arcs, identity index, counters, seed snapshot | copy on write below published snapshots; fallible steps before a commit | snapshots are values; counters exact; an answered need stays answered | ResourceGraph, ResourceSets |
| Reference resolution, document index, schemas, request builder, preparation, styles, forms, YAML, diagnostics | per call or per document | sequential algorithms | - | not modelled |

### TypeScript

| Component | State | Hard behaviour | What makes it correct | Module |
|---|---|---|---|---|
| Invocation session `internal/invocation.ts` | two bounded queues, parked promises on every side, header, terminal | writes, emits, reads, aborts and terminals in any order | lossless, in order, exactly once; one end; nobody parked for ever | InvocationHandle, OutputStream |
| Operation run `invoke.ts`, `host-transport.ts`, `response-body.ts` | where the run stands, what it dispatched | an abort or terminal at every await; redirects; broken bodies | a refusal has touched nothing; an ended session sends nothing; outputs are evidence | OperationRun |
| Client facade `client.ts` | the observed exchange, the race, the result | two promises describe one exchange | a call settles; its result is what happened | ClientCall |
| Security `security-wire.ts`, `internal/context.ts` | stored context, challenges | refusal, answer, retry over narrowing scopes; values of the wrong form | answers are accepted; one authored alternative is sent | SecurityPlans |
| Loading `engine.ts`, `openapi32-artifact.ts` | the engine's cache, the resources a 3.2 document has retrieved | concurrent calls around a cache; references resolved when a target is asked for | a prepared operation stands on the document its request named | DocumentLoading |
| References `ref-siblings.ts`, `internal/deref.ts` | resources as they arrive, marks | the walk rewrites the tree it reads | the result depends on the document only | RefSiblings, Dereference |
| Acceptance floor `acceptance-floor.ts` | - | several defects in one document | each destroys what stands on it and nothing else | AcceptanceFloor |
| Parameters, routing `params.ts`, `openapi32-parameters.ts`, `input-routes-v2.ts` | - | delimiters, empty values, name collisions | a server reads back the value; a field has one place | ParameterStyles, InputRouting |
| Servers `servers.ts`, `target-base.ts` | - | three levels, variables, relative addresses | the base is the declared one, completed | ServerSelection |
| Media, bodies `media.ts`, `resolved-media.ts`, `openapi32-media.ts` | - | ranges, collisions, parameters that nest; null, absent and nested values | each declaration can be selected; forms read back | MediaSelection, FormBodies |
| Streams `sse.ts`, `openapi32-sequential-response.ts` | a buffer between chunks | chunks cut anywhere, connections that end anywhere | the chunks do not matter | StreamFraming, MultipartStream |
| Wire governance `response-mechanics.ts` | - | stacked and broken codings, limits, governing media | the sender's words or an error | WireGovernance |
| Swagger 2.0 `swagger20-*.ts` | answers, hops | questions answered one by one; a preflight written apart from the run | answers advance; preflight agrees with the call | Swagger20Parameters, Swagger20Call, Swagger20Preflight |
| Schema publishing `util.ts` | - | recursion and names that collide | every cut has one name and the right schema | CutPoints |
| Projection, 3.2 artifact admission, provider and runtime | - | one-pass text generation; rule lists | - | not modelled |

Interactions. *Rust:* a `Document` owns the cells of the descriptor cache and a graph
snapshot; preparation reads both and yields a `PreparedRequest`; a transport admits and
converts it and calls `invoke`, whose callback waits on the token and the backend; the
`Outcome` may go on to `follow_redirect`; a need reported by a snapshot goes to a
transaction forked from it. *TypeScript:* the facade loads a document through the engine
(floor, sibling composition, dereferencing, cache), starts a run on a session, writes
one input into it and races the observed fetch against the end of the session. The run
plans with the routing, parameter, server, security and media modules, dispatches, and
reads the response through wire governance and the framings, emitting into the session
that the facade or the application drains.

## 2. Modules

```
CancelSignal  <--implements--  Cancellation      <-- CancellationProofs
                               OperationCache    <-- OperationCacheProofs
                               Invocation        <-- InvocationProofs
                                     ^-- extended by RedirectChain  <-- TransportProofs
                                     ^-- implemented by NativeExchange <-- TransportProofs
                                     ^-- implemented by FetchExchange  <-- FetchProofs
ResourceSets  <--implements--  ResourceGraph     <-- ResourceGraphProofs

OutputStream  <--implements--  InvocationHandle <-- OperationRun <-- ClientCall
                                                        <-- OperationRunProofs
Swagger20Call   <-- Swagger20Preflight  --.
AcceptanceFloor <-- DocumentLoading     --|
SecurityPlans, MediaSelection,            |
InputRouting, WireGovernance, FormBodies, |
ServerSelection, Swagger20Parameters    --+-- PlanningProofs
StreamFraming (<-- TransportProofs),      |
RefSiblings, Dereference, CutPoints,      |
ParameterStyles, MultipartStream        --+-- MCPlanning, by topic
```

The `MC...` modules and `.cfg` files give the constants their small values. Several
components that share nothing are checked in one run: `MCRustThreads` (Cancellation,
OperationCache), `MCExchangeAndSession` (NativeExchange, InvocationHandle) and
`MCCallGraphChain` (ClientCall, ResourceGraph, RedirectChain) start every behaviour with a
*topic*; the component of the topic moves, under its own fairness, and the others keep
one initial state. `MCInvocation` does the same with the callback of an invocation, which
is any or the one of the Fetch transport, and `MCPlanning` with the planning modules.
Definitions whose comment says "Mutant" or "Slip" are the plausible bugs that each
property is shown to find; no specification uses them.

### Rust modules

**Cancellation** (`rust/client/src/cancellation.rs`). One action per atomic step:
the flag's store, each lock acquisition with its critical section, each call into a
waker, each check of the flag. The mutexes are variables with a holder where the
critical section has more than one step; a critical section of one statement is one
action guarded by the lock being free. A waker *is* the task it wakes; a wait records
the waker of its latest poll, so that waking a stale one is visible as a lost
wake-up. `Wake`/`Woken` bracket host code; an `Inline` waker returns only after the
poll it started has ended. **CancelSignal** is what the token promises: a one-way
signal, waits that finish only because of it and, once started, always because of it.

**OperationCache** (`prepare.rs` 1895-1965). Calls of `compiled` followed by
`request_declarations`; a step per `OnceLock::get` and per checkpoint. `get_or_init` and
`set` are two steps each: a call enters the initialization of an unwritten cell
(`Reserve`, which has updated the counter; `Publish`, `Settle`) and leaves it with the
cell written (`Decided`, `Published`, `Settled`). While it is inside, the calls that come to write the
same cell cannot move, and nothing says that it ever leaves. What compilation produces is reduced to *built by this call*,
*refused for a reason in the document* or *cancelled*; identity of the built value
stands for identity of the Arc.

**Invocation** (`transport.rs`). One call of `invoke_with_replay`: the token check,
the ordered checks of `HostCapabilities::admit_with_replay`, the callback's entry,
the host's answer, the bounds on headers and body, the `Outcome`. Cancellation by
another thread and the drop of the future are actions of their own and may come
between any two steps. `Decode`, `BodyJson` and `Received2xx` are the readers of the
immutable outcome. `AdapterRefuse` is a transport's `Outcome::not_dispatched`.

**RedirectChain** (`transport/redirect.rs`) EXTENDS Invocation: each hop is an
invocation, `Follow` derives the next request from the last request and outcome.
Queries are sets of pairs; `credentials` are the pairs preparation applied at the
end of the target, which the code tracks as an offset.

**NativeExchange** (`rust/reqwest/src/lib.rs`) EXTENDS Invocation with the transport's
own checks and the future that its callback runs. A poll of a biased `select!` is two
steps (a look at the token, then one at the backend), so that cancellation may come
between them. The server, reqwest's serialization and its timer are external actions
that may happen at any time or never.

**FetchExchange** (`rust/fetch/src/platform.rs`, `host.js`) EXTENDS Invocation in the same
way, for a single-threaded event loop. The code between two awaits is one or more
actions in `Runs`; a watched promise settles in a task of the host (`Deliver`, `Fire`)
or, when a chunk is already buffered, in a microtask (`Settle`). `Idle` says that no
microtask is left, which is when the loop runs a task: this is what makes a stream
that never lets the loop go idle visible. The guard's drop is `Cleanup`, part of every
action that ends the exchange. Any call into the host may throw.

**ResourceGraph** (`graph.rs` 433-1271, 1628-1704). `heap` holds what each Arc points
to; transactions and snapshots hold addresses into it, so that sharing, copy on write
and in-place mutation are explicit. `builders` maps each open transaction to its graph;
`Build` takes it out of the map, whether it publishes or refuses. The identity index and the counters are carried
as the incremental state they are in the code. `Contexts` is the breadth-first
inference of `Graph::new` as a closure, `NeedsOf` what `target` reports for the
references of a snapshot. `answered` is a history variable of the needs a line of
snapshots has answered. **ResourceSets** is the promise of GRAPH.md with every
resource set a plain value.

### TypeScript modules

**InvocationHandle** (`internal/invocation.ts`). JavaScript runs a method to its first
await, so a method is one action and every await splits it: the validation hook, a full
buffer, an empty buffer. A promise is its status, "parked" until something settles it.
`Terminate` is the common part of `closeOutput` and `fireError`: it settles everything
parked before the signal aborts. `single()` is iterated step by step, since its second
read may meet a late failure. **OutputStream** is the promise to the consumer.

**OperationRun** (`invoke.ts`, `host-transport.ts`, `response-body.ts`) is the binding
of that session: preflight's gates in the order of the code (`Gates`), the one input,
planning with its media candidates, security handlers, dispatch, redirects, response,
headers, classification and body. What is planned is a choice here and decided in the
modules below; every await is a value of `pc`, and the caller and the consumer act
between any two. The fetch lane hears the signal while a body is read, the host lane
does not (section 6).

**ClientCall** (`client.ts`) is `callResolved` and `streamResolved` over such a run: the
observing fetch, `Promise.race`, failure evidence, the collection of a unary output, a
returned stream that the application pulls, abandons or cancels.

**SecurityPlans, StreamFraming, DocumentLoading, Swagger20Call, RefSiblings** have steps
of their own: challenge, answer and retry; chunks, feeding and the end; concurrent
loads around the cache, and the references of a 3.2 target, resolved and retrieved when
it is asked for, under the options of the call that loaded the document; the rungs of a
2.0 call with its answers and redirects; resources arriving in any order. In SecurityPlans
a stored value has the form of its kind or another one (`misfit`), which
`requirementSatisfied` looks at and `scopeContext` does not. Swagger20Preflight has the
two ways in which the client's credentials and the call's are put together
(`PreflightAuth`, `CallAuth`). **AcceptanceFloor, InputRouting, ServerSelection, MediaSelection, FormBodies,
Swagger20Parameters, WireGovernance** are sequential decisions: their operators follow
the code, and their specification has one state, which is any member of a constant set
of cases (documents, declarations with values, exchanges), so that a theorem about it
speaks of every such set. **Dereference, ParameterStyles, Swagger20Preflight, CutPoints,
MultipartStream** are operators only. Each module states its main property against a
definition that does not share the algorithm: a reader of the wire, the least closed
set, a sender, a peer that decodes. Text is reduced to the characters, pieces or classes
the code tells apart; each module's header says to which.

## 3. Runs

Most properties of a run are conjunctions; their parts are named definitions with
comments of their own, given here after the colon. Each run takes from half a minute to
three minutes with two workers. The bounds in guards are `MaxHeap` and `MaxDocs`
(ResourceGraph), `MaxWrites`, `MaxEmits` and `MaxReads` (InvocationHandle); `MaxHops`
stands for the ten dispatches of the code. Everything else is finite by itself.

| Run | Instance | Properties and what they show |
|---|---|---|
| `rust_threads` | *token:* two waits, two cancelling threads, two tasks, one polled inline | `TokenIsSafe`: types, no lost wake-up, exact registrations, no lock in host code; `SignalIsKept`: refinement of CancelSignal with its liveness, and `cancel` returns |
| | *cells:* three calls of two operations, one of them broken, or of one whose declarations are refused; one slot, one prompt call | `CacheIsSafe`: types, the counter accounted, cancellations private, agreement of calls; `CacheIsPrompt`: what is published stays, and a call whose thread runs returns wherever the others have stopped, unless one of them has stopped for ever inside the initialization of the cell the call has come to write |
| `invocation` | *any callback:* all combinations of host declarations; answers around each bound and for each diagnostic | `OutcomeIsHonest`: dispatch is evidence, replay is declared, nothing is lost silently, a success is whole; `CancellationIsReported` (temporal) |
| | *the Fetch transport:* responses without a body, with a locked one, with endless streams of buffered and delayed chunks around the bound; hosts that throw, cancel or drop anywhere | `FetchIsHonest`: cleanup matches the body's fate, evidence is what was delivered; `FetchIsCancellable`: refinement of Invocation, and a queued cancellation is heard although a stream never pauses |
| `exchange_and_session` | *native transport:* bodies of up to three chunks around the bound that end, break off or stall; header lists around both bounds | `NativeIsHonest`: an upload reported as not started never starts, the body state is what happened; `NativeIsCancellable`: refinement of Invocation, and cancelling ends the call |
| | *session:* two writes, three emits, two reads, buffers of one, a validating session | `DeliveryIsSound`: types, sound buffers, lossless and in order, `single()` exact; `NobodyWaitsForEver`; `StreamEndsOnce`: refinement of OutputStream, terminals are sticky |
| `call_graph_chain` | *call:* sound operations of each kind of response and redirect policy, the host lane with two candidates and a handler, each preflight defect alone and in pairs; `call` and `stream`, with and without input and hooks | `CallIsAccounted`, `RunIsAccounted`: results and outputs are evidence, no run is orphaned; `RefusalsTouchNothing`; `NothingSentAfterTheEnd`; `CallSettles`; `TornDown` |
| | *graph:* two transactions, two snapshots, three Arcs; files that refer on, a bundle, a claimed identity, two spellings; limits that are reached | `GraphIsSound`: limits, exact admission, needs stay answered; `ImplementsResourceSets` |
| | *chain:* POST and PUT from https and http, credentials in every place, three origins, servers that echo, two redirects | `CredentialsAreConfined`: secrets stay on their origin; `ChainIsConfined`: bounded, stripped for good, applied once, never downgraded, content stays dropped |
| `planning` | sixteen topics, see below | seventeen properties, one per topic and two for Swagger calls; twelve of them are also proved |
| `malformed_redirect` | the calls of `call_graph_chain` with redirects whose Location is no URL | violates `CallSettles` (section 6) |
| `unsupported_inventory` | two request declarations, one undecidable | violates `InventoryIsAnAddition` (section 6) |
| `shadowed_credential` | the topic security | violates `AnsweredIsSettled` (section 6) |
| `cached_inspection` | the topic loading | violates `InspectionStaysLocal` (section 6) |
| `preflight_report` | the topic swagger | violates `PreflightReportsWhatIsRequired` (section 6) |
| `left_reference` | the topic dereference | violates `ReferencesAreGone` (section 6) |
| `binary_string` | the topic forms | violates `DescribedIsCarried` (section 6) |

The topics of `planning`. A behaviour is about one topic: the variables of its module
start in one of the cases that `MCPlanning` gives to the module's constant, and those of
the others rest in a state with no case, about which their properties say nothing.

| Topic | Cases | Property |
|---|---|---|
| security | up to two alternatives over six schemes; flat, named and handled contexts, values of the right form and of another; stores that answer in part | `SecurityIsSettled`: an answered challenge is not raised again, except for one whose flat answer is shadowed by a named value of the wrong form, and that one is; what is sent is one authored alternative |
| framing | streams of up to five sorts of bytes, all chunkings, cut anywhere, two limits | `ChunksDoNotMatter` |
| loading | two calls, three lanes, documents that are refused, dangling, external or of another edition, retrievals that fail anywhere | `PreparedStandsOnItsDocument`: a call works on the document its request names, what is prepared is read and not refused, the cache holds what was gated, an inspection reaches the network for an entry's 3.2 document only |
| swagger | one 2.0 call at a time over its servers, security, media or responses, with answers, hops and replies; credentials divided between client and call in every way | `SwaggerCallIsTrue`; `SwaggerPreflightAgrees`: what is reported is needed, and what is not is one of the points of `PassedOver` |
| references | an entry and a fragment of three nodes each, 3.0 and 3.1 | `PositionsDecide` |
| dereference | five nodes in two resources, dangling and unretrievable targets, strict and tolerant | `ReferencesAreResolved`: every place holds what its reference denotes, on cycles too, or a reference that is itself referred to and leads back to itself |
| floor | three schemas that refer to one another, one operation with parameters, media and responses | `DefectsAreConfined` |
| styles | every place, style and flag; one word, arrays of two, objects of two members; words with each delimiter | `ParametersReadBack` |
| routing | three parameters whose names collide and are suffixed, with body candidates | `FieldsHavePlaces` |
| servers | Server Objects of eight URLs and their variables at two levels, defaults and values that are themselves expressions, configurations by base, index and values | `ServerIsTheDeclared` |
| media | two or three declarations of seven types with nested parameters, three editions | `DeclarationsAreReachable` |
| forms | every kind of property, both encodings, three editions, values up to arrays of two | `FormsReadBack`: what is sent reads back, and what is described in its edition is carried, but for plain strings in binary parts of 3.1 and 3.2, which are refused |
| swagger parameters | one declaration with its value, or two scopes of two | `SwaggerParametersReadBack` |
| cutpoints | all graphs of three schemas with five keys; a ring with names from three documents that collide | `RecursionIsNamed` |
| multipart | up to two parts whose bodies resemble the boundary, cut into two or three chunks, ended anywhere | `PartsReadBack` |
| wire | two codings, broken and unknown ones, bodies larger than the limit, every kind of governing media | `WireKeepsTheWords` |

Why the bounds are enough. *Cancellation*: the list is taken once by each of two
threads, a wait moves between two tasks; the proofs lift the safety part to any number.
*Cache*: two calls race for one cell while a third is stopped, inside its initialization
or elsewhere, and two operations for the last slot. *Invocation*: each check and bound has inputs on both sides. *Redirects*:
two hops reach a third origin or come back. *Native*: three chunks straddle the bound in
every alignment. *Fetch*: a yield after three reads instead of 32 lets the counter wrap
within a body. *Graph*: two snapshots are what an answered need takes; three Arcs allow
a shared one to be copied and a private one to be overwritten. No run uses symmetry. *Session*: with buffers of
one, two writes and three emits fill a buffer, park one behind it and leave one for
after the end. *Call*: two emits fill and overfill the buffer, two hops reach the limit;
gates are decided in a fixed order, so pairs of defects show every precedence.
*Planning*: each case set has, for every branch of the modelled functions, a case on
either side of it; collisions need two claimants and a suffix a third.

Deadlock checking is off where the modelled calls end, which is in every run but those of
`MCPlanning`, whose cases stutter once decided.

### Fairness

* `Cancellation`: weak fairness of each thread inside `cancel`, of each wait inside a
  poll, and of polling a wait whose latest waker was woken (the executor's contract for
  `Waker`). Nobody has to call `cancel`, and an unwoken wait need not be polled.
* `OperationCache`: weak fairness of the calls in `Prompt` only. All others may stop for
  ever at any step, inside an initialization too; a prompt call that is then left in front
  of the cell for ever (`Behind`) is what `OnceLock` does, and `CacheIsPrompt` says that
  this is the only way.
* `NativeExchange`: weak fairness of the future's own steps. The server and the deadline
  have none: a client may be built without a timeout.
* `FetchExchange`: weak fairness of the Rust future with its microtasks and of the
  yield's timer; strong fairness of the queued task, since an event loop does not leave
  a task in its queue while it goes idle again and again (`rust/fetch/README.md`: "the
  embedding must continue running its event loop"). The network has none.
* `InvocationHandle`: weak fairness of a consumer that pulls, of `single()`, and of the
  validation hook. Nothing makes the binding emit or end.
* `ClientCall`: weak fairness of the facade's continuations and of the run's own steps
  (`OwnStep`: continuations of settled promises and user hooks). The peer's steps
  (`PeerStep`) and the application have none, so `CallSettles` starts from the run's
  end and `TornDown` may not wait for the server.
* The other specifications state safety only and assume none. A run of several components
  gives each the fairness above in the behaviours of its topic, and none in the others.

## 4. Proofs

Eight modules are checked by TLAPS for all values of the constants, under the
assumptions named in the specifications. (CancellationProofs, OperationCacheProofs,
InvocationProofs, TransportProofs, FetchProofs, ResourceGraphProofs, OperationRunProofs
and PlanningProofs.)

| Assumption | What it says |
|---|---|
| `ActorAssumption` | waits, threads, wakers and `None` are different things |
| `CacheAssumption` | finitely many operations, a natural number of slots, `Empty` is no result, no call and no operation |
| `InvokeAssumption` | limits are natural numbers, refusal codes are not values, hosts answer with what `ResponseInput` can hold |
| `RedirectAssumption` | limits are natural numbers; the requests one starts with are within them, not yet redirected, and have no credential pair under the name of another pair, which preparation refuses |
| `NativeAssumption`, `FetchAssumption` | replies have header lists and chunks of natural sizes, reports are answers that the invocation admits, the yield counts to at least one |
| `GraphAssumption` | limits and sizes are natural numbers, URIs have keys, sets of roots are finite, `Absent` is no number and no URI |
| `HandleAssumption`, `RunAssumption`, `ClientAssumption` | bounds are natural numbers, buffers hold something, a caller may write, operations and errors are of their types |
| `LoadingAssumption`, `FloorAssumption` | documents are of a known or another edition and finite; what is below a schema is a schema of the document; a parameter that is no object is broken |
| `SecurityAssumption`, `SwaggerAssumption` | alternatives are a sequence of sets of schemes, schemes of the families the code knows; a file is a form's |
| `MediaAssumption` | a media type has finitely many parameters; a key of type `*` is `*/*`; event streams are text |
| `RouteAssumption`, `FormAssumption`, `WireAssumption` | names and items are sequences, body properties finitely many, no parameter is declared twice at one location; a form property is one of the kinds of the code; a body is a value under its codings, a 204 has none, and without a coding a body is as large as it comes |
| `ServerAssumption` | a URL is a sequence of texts and variables, a configured base has no variables, variables are numbered |
| `SwaggerInputAssumption` | a caller supplies one value for each location and name, and texts are made of characters |
| `FramingAssumption` | a stream has one of the three framings, any bytes of the sorts a framing tells apart, and a delivery limit |

TLC evaluates each of them on the instance of every run. Beside them one theorem has a
hypothesis: `CredentialsStayConfined` speaks of servers that name in a Location only
public pairs or pairs their own request carried (`ServerForgets`); a server that was
told a secret elsewhere could echo it from anywhere, and the code cannot know.

**The token.** `NoLostWake` is not inductive: at the moment the flag is stored it needs
to know what holds of a wait that already sleeps. `IInv` adds that before the flag no
thread has taken anything (`Quiet`), a wait past its swap has its latest waker in its
slot (`Armed`), a leaving wait has seen the flag (`Sound`), mutexes are held in their
critical sections only (`LocksHeld`), and `RegistrationsExact`. Each action preserves
it; the debt to a sleeping wait is followed from the list to the taken list, to the
thread that holds its Arc, to the waker in flight. From it: `TypeCorrect`,
`WakeUpsAreKept`, `RegistrationsAreExact`, `HostCodeUnlocked`, all of
`TokenIsSafe`, and `RefinesSignal`, the safety part of the refinement.

**The cache.** `Agreement` is not inductive: two calls answer the same because both
answers came out of one cell. `IInv` follows a result from the call that built it
(`WorkIsOwn`: a call works out its own Compiled, the refusal of its operation, or its
cancellation, which it never publishes) through the operation's cell (`CellsSound`) and
the Compiled's own cell (`DeclarationsSound`) to the calls that hold it (`OpenedSound`)
and return it (`AnswersSound`); `Begun` says that a slot is decided before anything is
compiled, so that no call ends up on the other side of a later decision. Between entering
and leaving a cell only one call is inside, and the counter is already ahead of the slots
by the calls that are about to grant one (`Granted`). The steps that
touch a cell are first described by what they put there, then taken through each
conjunct. From it: `TypeCorrect`, `SlotsAreCounted` (with the library's facts on
cardinality), `CancellationIsPrivate`, `CallsAgree`, all of `CacheIsSafe`, and the action
property `CellsAreWrittenOnce`.

**The invocation.** What an outcome says is a function of the answer, so the invariant
needs only to remember where the outcome came from: `CallOK` says for every step what has
been tried, and of a finished call that its outcome is either a refusal of a request that
was never entered or the conclusion of an answer the host gave. The rest is about the
operators: what the header loop keeps of a list (`Retained`, through the running sums of
its names and values) and what `Decode` can say of a received response, check by check.
From them: `OutcomeTheorem`, and `CancellationTheorem` (an outcome never changes once
it is there, and reports a token that was set before).

**The transports.** `NativeInv` and `FetchInv` put the variables of the exchange next to
the step of the invocation around it: nothing was written before the callback is entered;
while the body runs, what was kept is what arrived; once ended, the answer is `Evidence`
of the wire. `FetchInv` also says where the guard is at every step of the host.
`NativeInvokes` and `FetchInvokes` then map each step of a transport to a step of
`Invocation` or to a stutter, which carries `OutcomeIsHonest` and
`CancellationIsReported` over to the transports (`NativeOutcomeTheorem`,
`FetchOutcomeTheorem`, ...). `NativeTheorem` and `FetchTheorem` are about what only
they have: upload and body state, release and abort.

**The chain.** `IInv` is the conjunction of five checked invariants. Lemmas say what
one derivation does to a request (`DerivedBare`, `DerivedAppliedOnce`,
`DerivedContent`); the induction over hops then needs only that everything sent so far
has the property and that the request at hand is the latest. From it:
`ChainIsBounded`, `CredentialsAreNotRestored`, `CredentialsAreAppliedOnce`,
`SecurityIsKept`, `ContentIsNotRestored` and all of `ChainIsConfined`, for chains of any
length over any origins. `CredentialsStayConfined` needs the invariant of the call inside
the hop as well: the Location that is followed is the one the server sent
(`FollowedLocation`), because a response with omitted headers is not followed and one
without omissions is received whole; `QueryInv` then keeps the prepared credentials out
of every query.

**The graph.** Each graph is judged by the list of the resources it holds, wherever they
lie (`ListOK`): identities are distinct, the index names exactly the claimed ones, bytes
and metadata are those of a recount, limits hold, and every answered need is `Settled` by
that list. Two lemmas about lists, `ReplaceOK` and `AppendOK`, say that replacing an entry
by a grown one or appending a fresh one keeps this when the counters move by the
difference. A step of a transaction is an `Edited` graph: it changes no address that
another graph holds, so that `Undisturbed` keeps the other graphs as they were; a shared
resource is copied and an unshared one changed in place (`ChangedInPlace`), and this
is where the argument about copy on write is made. `Steps` reduces the seven actions to
five kinds. From it: `GraphInvariant`, `GraphTheorem`, and `GraphSetsTheorem`, where the
same lemmas show that Arcs implement the plain sets of ResourceSets.

**The session.** `HandleInv` has four parts. `InputOK` and `OutputOK` keep every buffer
distinct and say where each accepted, parked or consumed item is, so that what a consumer
received, followed by what is queued and parked, is always the sequence of the emits in
order; `SessionOK` ties the state to what the end closes and aborts; `SingleOK` says how
far `single()` has read. Each method's effect is a lemma, with the common one of
`Terminate` below them. From it: `DeliveryTheorem` and `StreamTheorem`, the refinement of
OutputStream together with the stickiness of terminals.

**The run and the call.** These theorems speak of `ClientSpec`, the run under the facade
and an arbitrary application. `ClientRuns` first shows that every step of the composition
is a step of `RunNext` or leaves the run alone: the facade writes, closes, reads and
cancels as any caller would. `EndedRunsAreSilent` (`NothingSentAfterTheEnd`) follows from
`Signalled`: the signal has aborted exactly when the session is not open.
`RefusalsAreClean` (`RefusalsTouchNothing`) is not inductive: a refusal may come from many
steps, and each must know that nothing was sent or produced before (`Untouched`), that
the refusing run is over (`Refused`) and that no input is asked for before preflight has
passed (`Unread`). `RunInv` adds to `HandleInv` how far a run has come: its dispatches
against its place (`ProgressOK`), its emits against the items of the body (`EmitsOK`) and
what its end is (`EndOK`); from it `RunsAreAccounted`. `CallInv` adds where the facade
stands: that its one input was taken or the run was never fed (`ServedOK`), what the
observed exchange says of the run (`ExchangeOK`), and what the facade knows at each of
its continuations (`CallOK`); from it `CallsAreAccounted`.

**Loading and security.** `LoadingInv` keeps what a call works on apart from what it
concluded: an entry of the cache was gated when it was written and is what the location gave
the call that loaded it (`LoadingEntry`), so a call that hits it later may rely on a gate
and a retrieval it did not make; what a call has got is what its request names, and stays
so while others load (`LoadingNames`); a 3.2 document is prepared only when every reference
of its target is resolved, out of what is held by then (`LoadingPrepared`); and a
`prepareCached` call on the network is resolving an entry's 3.2 document by leave of the call
that loaded it (`LoadingNetwork`). `LoadingTheorem` follows. `SecurityInv` says that every
challenge that was answered stays accepted, since answers only grow the context, *unless*
one of its requirements is `Shadowed`: satisfied, for `requirementSatisfied`, by a flat value
behind a named one of the wrong form, which is all that `scopeContext` lets through. The
theorem says both halves: no other answered challenge is raised again, and a challenge with
nothing but such an alternative is, when the caller's own context has no other value for it.
What is sent is a plan, and `PlanIsDeclared` shows that a plan is of one authored
alternative.

**The 2.0 call and its preflight.** `SwaggerInv`: the point that is asked is open, the
points that were answered are closed, and credentials are in flight to the declared
origin only. Each rung has a lemma that says what it may ask for. `PreflightTheorem`
compares two functions written apart, for every way of dividing the credentials between
client and call (`Givings`). For every point the preflight reports, the call is followed
with all other points answered and shown not to pass; a scheme it reports is still to be
given, or is the client's and hidden by the call's own `auth`; where it reports nothing, the
rungs are shown one by one to ask only for what `PassedOver` names, point by point with its
reason.

**Media, routing, forms, wire.** `MediaTheorem` orders declarations by specificity and
by how their parameters nest, and shows that each declaration governs a concrete type of
its own. `RoutingTheorem` turns on the names that collisions produce: a suffix that is
neither in use nor authored is always left (`SuffixIsFree`), so the fields given up to
any point are distinct and each is its own base or a name that nobody authored
(`NextFieldIsGiven`); hence fields and places correspond one to one.
`WireTheorem` rests on `OpenedIsTheBody`: codings undone in the opposite order leave the
body they were applied to; whatever is broken, unknown or over the limit is an error.
`FormsTheorem` goes through the kinds of property and both encodings; what an edition
describes is part of it (`Describes`), and the strings a 3.1 or 3.2 part takes for Base64
are set apart by name (`TakenForBase64`).

**Servers.** `ServerTheorem`: the list that counts is the innermost that is declared, the
election never takes one of several that nobody chose, and the code's replacing of one
variable after the other yields what replacing all of them at once yields, by an
induction over the variables. It is stated for values that are not themselves
expressions: the code expands an expression inside a value if its variable comes later,
and then the property claims only that the values are allowed and that the result is
absolute, with no query and no expression left.

**The floor.** `DefectsAreConfined` defines what a schema touches as the least closed set
of positions, the code walks a stack and marks what it has seen. `FloorTheorem` shows
that no frame of the walk changes which positions are still ahead, and that every frame
takes a position away from the unseen or shortens the stack, so that the walk ends and
ends with exactly the least closed set. Documents may be of any size and their references
form any graph.

**The parameters of 2.0.** `SwaggerParametersTheorem` needs that splitting undoes joining:
after a run of characters that are no delimiter the last field has grown by that run
(`SplitRuns`), so each delimiter adds one field (`SplitGoesOn`), and by induction over the
list the fields are the texts (`JoinSplits`), the empty list apart. The rest follows the
kinds of parameter to `Faithful` and shows that identities in force are unique.

**The streams.** `ChunksDoNotMatter` compares what a reader of chunks emits with a grammar
of whole streams, and the argument has these two halves. `FramingInv` says that the reader
of chunks is always somewhere the reader of the whole stream was: there is a place `m` such
that what waits in the buffer is the stream from `m` to the last byte that arrived, and the
event or the items so far are those of the whole reader at `m` (`Waiting`). `DrainAgrees`
makes it inductive. A round completes in the buffer what is complete in the stream, except
perhaps at the buffer's last byte (`CompleteAgrees`, where a CR that may be half of a CRLF
matters), and what it leaves there begins where the whole reader has just taken a piece
(`FromIsSettled`). The second half is about the whole reader only, byte by byte: the line
it takes is the grammar's (`LineIsSaid`), the pending event is the data and the identifier
since the last blank line (`Pending`), and the dispatched ones are all there are so far and
in their order (`UnitsSaid`, `AllSaid`); for JSON the items are the values before the place
it has reached (`ValuesTo`). From both: `FramingTheorem`.

*Induction over data.* The library's induction theorems take an operator as a parameter,
which the installed provers cannot instantiate. Where a proof needs a statement for every
length of a sequence or size of a set, the statement is a set of natural numbers instead,
closed under the successor; `EveryNatural` shows from the well-foundedness of the naturals
that such a set has them all. The same lemma shows that the recursive functions of the
models exist and unfold as they are written (`TallyUnfolds`, `SumsUnfold`,
`FieldNamesUnfold`, `AtOnceUnfolds`, `DeclaredUnfolds`, `SplitUnfolds`, `JoinUnfolds`,
`DrainUnfolds`).

Only model-checked:

* all liveness and the fairness of the refinements (`SignalIsKept` beyond its safety
  part, `CacheIsPrompt` beyond `PublishedStays`, cancelling ends the call in
  `NativeIsCancellable` and `FetchIsCancellable`, `NobodyWaitsForEver`, `CallSettles`,
  `TornDown`), which are out of the prover's reach;
* `ReferencesAreResolved`, `RecursionIsNamed` and `PartsReadBack`: their modules walk
  trees, schemas and parts with `RECURSIVE` operators, of which a theorem may not speak;
* `PositionsDecide`: after every order of arrival it compares what was shown and followed
  with the positions one walk of the whole document reads, and `RefSiblings` walks trees with
  `RECURSIVE` operators; a proof would take recursive functions there and an induction over
  the walks;
* `ParametersReadBack`: a reader that splits escaped texts by every style's delimiters.

## 5. What is abstracted

Text, formatting, diagnostics' details and locations; byte contents (sizes, classes and
positions instead); paths, fragments and the order of query pairs in redirects; memory
ordering of the token's flag, since the mutexes order its accesses wherever the protocol
depends on it; node and retained-byte limits of the graph, counted exactly like original
bytes; schema roots and identities of the graph. In the TypeScript modules: JSON values
beyond their kind, `$` patterns in server texts, percent encoding beyond escaped or not, Unicode, multipart headers
beyond their presence, decoding of charsets, token acquisition, middleware contents.
Servers, reqwest, the event loop, the executor and `fetch` are external: they do anything
their interface allows.

## 6. Where the code departs from its documents

Seven departures have a run, in which TLC finds a statement of the repository violated.

* **A call that never settles** (`malformed_redirect`). With `redirect: "follow"`, a
  preserving redirect whose Location is empty or not a URL is final for
  `dispatchWithSafeRedirects` (`invoke.ts` 1233-1246) but an intermediate hop for the
  facade's observer (`client.ts` 2354-2358). The run ends with a failure that carries
  HTTP evidence; the facade's catch then awaits the exchange (`client.ts` 1156), which
  nobody settles.
* **An inventory that loses what it had** (`unsupported_inventory`). `planRequestBodies`
  with `inventoryUnsupported` plans a refused candidate again as unsupported; for an
  undecidable schema that throws too, out of the loop, and the supported candidates are
  lost (`media.ts` 540-549).
* **A challenge that is answered for ever** (`shadowed_credential`). A requirement is
  satisfied by a flat value when the named one of its key has the wrong form
  (`requirementSatisfied`, `internal/context.ts` 455-495), but only the named one is let
  through (`scopeContext`, 751-757). The comment at 631-632 says that what satisfies a
  requirement has to be let through.
* **An inspection that retrieves** (`cached_inspection`). `prepareCached` promises not to
  (`engine.ts` 376-378). A cached 3.2 document resolves the references of a target when it
  is first asked for and fetches what they name (`openapi32-artifact.ts` 1182-1185,
  1213-1218), with the `fetch`, signal and `allowExternalRefs` of the call that loaded it;
  where that fails the inspection fails.
* **A preflight that reports too much and too little** (`preflight_report`). It lets the
  call's `auth` replace the client's where the call merges them (`client.ts` 931,
  1181-1184), and so asks for a credential the call has. It is silent where only one of an
  operation's own alternatives can be used, and where no schemes are declared and there is
  no retrieval URL, though the call is refused for want of a choice
  (`swagger20-synthesis.ts` 180-183, 274-277; `swagger20-security.ts` 62-65). `client.ts`
  691-694 promises every check known before dispatch.
* **A reference that is left** (`left_reference`). `walkAsync` reserves a reference under
  itself while its target is walked (`internal/deref.ts` 566, 597). A place below that
  target that refers to the reference is given the reservation and keeps it: a component
  that is a `$ref` to a schema in which something refers to the component. Ordinary
  recursion is resolved, which `ReferencesAreResolved` shows. `util.ts` 116-119 says that
  downstream code never sees a `$ref`.
* **A string that is described and refused** (`binary_string`). A multipart property with
  `format: binary` is taken for Base64 in 3.1 and 3.2 (`partBody`,
  `openapi32-media.ts` 411-414), as in 3.0, where `media.ts` 2604 asks for the edition; by
  the comment at `media.ts` 1636-1640 it is a string declaration there.

The following were met while modelling and are modelled as the code has them, or lie
outside the modelled inputs; file names are under `typescript/src`.

*Session, run and facade.*
`write()` rejects with its validation error although another terminal fired meanwhile
(`internal/invocation.ts` 582-596, against its comment at 283-291). The host transport
stops listening to the signal once the header section arrived (`host-transport.ts`
222-227), so `TornDown` is stated for fetch. A non-2xx event stream that a hook classifies
as success and that has more events than the output buffer hangs: the facade awaits the
run's completion while nobody reads (`client.ts` 1112). A context's header hints are set
last and replace a credential's Authorization header (`invoke.ts` 632-635).

*Security and context.* Two bearer schemes share one slot in a native context, the last
wins.
`requiredContext` of preflight and prepared calls is computed without the method and the
scoped security document.

*Loading and references.* `prepareCached` with content and a location writes the engine's
cache although it is documented as free of side effects, and the cache ignores
`allowExternalRefs`. The location lane omits `tolerateUnresolvableInternalRefs`. The comment at `util.ts` 147-152 is false for referenced
parameters and request bodies. A sibling hint recorded from a node that another resource
has replaced carries the wrong base, and in 3.0 a reference to a sibling of a Reference
Object depends on the order of arrival; both are outside the legal documents of
RefSiblings.

*Parameters and servers.* `style: cookie` with an exploded object does not refuse "=" in
a member's name (`openapi32-parameters.ts` 270-288). The flat lane does not refuse
delimiters inside delimited and deepObject values (`params.ts` 980-990). `routeInput`'s
`in` sees names of `Object.prototype`. `server.index` counts the eligible list
(`servers.ts` 168-177), and `replace` interprets `$` patterns of a value (277, 287).

*Media and forms.* The media gate elects among supported plans while the run counts an
unsupported winner as none. A response that denotes a colliding identity is governed by
a range where `media.ts` 3401-3405 says it matches nothing. A property whose declaration
admits no instance is still written as JSON. In 3.1 an explicit `style` makes a
property typeless, so that Base64 is demanded. A 3.2 range with an object schema configured as
`application/jsonl` is always refused.

*Streams and wire.* SSE strips two BOMs; its line limit depends on the chunks when the
delivery unit exceeds 16 MiB. `streamMultipart` cannot read a part without a header line.
`governOpenAPIResponse` keeps Content-Encoding on a response whose codings were undone,
and its sequential pre-check refuses before a byte is read where `response-mechanics.ts`
146-163 says it may not.

*Swagger 2.0.* A non-2xx response whose body does not decode becomes an error instead of
the failure value. Preflight leaves the media of an optional payload and the form of an
empty value to the call, since they hang on the input (`PassedOver`); an empty host refuses in preflight though
a complete server URL would pass. An empty item under a joining format writes `name=`
although empty values are not allowed. Some media choices are refused that
`swagger20-context.ts` 7-11 says are asked for. `body: undefined` counts as present here
and as absent in the native input (`README.md` of `typescript`, "`body` is present
whenever the property exists").

*Schema publishing.* A `$ref` to a definition whose name has "/" or "~" is not escaped
(`util.ts` 1246-1253); `contentSchema` is treated as data; the root's own `$defs` are
overwritten; documents outside the artifact's directory keep an absolute path against
`util.ts` 909-914.

## 7. Not modelled

* Rust: reference resolution, document indexing, schema facts, the request builder,
  preparation, styles, forms, YAML and diagnostics. They are sequential algorithms over
  one document or one request. Four of their hazards are therefore without a property: a
  need computed on one snapshot and supplied to another's transaction (`graph.rs` 464, a
  returned error), a reference chain as long as the limit (`graph.rs` 1761), the payload
  consumed once by the first of several readers (`value.rs` 272, a `OnceLock`), and the
  builder's first failure (`request.rs` 107).
* TypeScript: projection to type declarations (text output), the admission rules of
  OpenAPI 3.2 artifacts (one check per keyword; a model would restate the list), provider
  and runtime plumbing, and within modelled files the inspection and typing helpers.
* Go: a separate implementation of the same contract; nothing is claimed for it.

## 8. Plan

1. The Rust request builder as a refinement of an abstract builder that collects inputs
   until its first failure.
2. `PositionsDecide` proved: the walks of `RefSiblings` as recursive functions, and an
   induction over them.
3. `ParametersReadBack`, style by style, from the lemmas on splitting and joining of the
   2.0 parameters.
