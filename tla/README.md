# TLA+ models of signalwire-go

This directory holds specifications of the stateful parts of the SDK: the RELAY
client (`pkg/relay`), which keeps a WebSocket alive, correlates JSON-RPC
requests, tracks calls, actions and messages from server events; the request
loop and paginator of the REST client (`pkg/rest`); and, of the agent side, the life
cycle of `AgentServer` and `AgentBase`, the requests an agent answers while it is being
configured, its skills and tools, the steps of a context, the spider skill and the
InfoGatherer prefab. The models are checked with TLC on small instances; the
invariants that matter most are also proved with TLAPS, for all values of
their constants.

* `RpcAbstract.tla`, `RelayRpc.tla`, ... are the specifications. `RpcAbstract` and `Completion` are abstract: they
  say what a component promises, and others are shown to implement them.
* `MC*.tla` and `*.cfg` instantiate them for TLC.
* `*Proofs.tla` hold theorems and their proofs: `RelayRpcProofs`, `RelayConnectionProofs`,
  `RelayCallsProofs`, `RelayCallProofs` and `SpiderProofs` those of one module each, `RelayObjectProofs` those of
  RelayAction and RelayMessage, `ToolProofs` of InfoGathering, AgentSkills and ContextFlow, `SdkProofs` of RestRetry,
  RestPaginator, AgentServing, AgentRun and AgentRequests, and of all parts together (SdkParts).
* `PROJECT.json` lists the components, the runs with their properties, a mutation
  of the code for every property, the source lines behind every definition, the
  hazards and the theorems.

Run one with `tlc -workers 2 -config MCRelayRpc.cfg MCRelayRpc`, prove with
`tlapm RelayRpcProofs.tla`.

## The system

### RELAY client: `pkg/relay/client.go`

State: `conn`, `protocol`, `authorizationState` and `jwt` under `c.mu`; the maps
`pending` (JSON-RPC id to one-slot channel), `calls`, `pendingDials`, `messages`;
the atomics `running` and `connected`; a context that `Stop` cancels.
Goroutines: `RunContext` itself, one `readLoop` at a time (each `reconnect()`
starts the next), the ping watchdog, the watcher that turns the caller's
context into `Stop()`, and any number of user goroutines inside `execute`.

| component | operations | interacts with | what is hard | what makes it correct |
|---|---|---|---|---|
| JSON-RPC correlation | `execute`, the response branch of `readLoop` | every request of the other parts; the connection | late and duplicate responses, the timer against the answer, `Stop`, a hook that makes a request from inside the read loop | own answers only; the read loop is never blocked; every call returns; `pending` is pruned |
| connection life cycle | `RunContext`, `connect`, `authenticate`, `readLoop`, `reconnect`, `watchdogLoop`, `pingPeer`, `Stop` | the network; all of the above goroutines | `Stop` or cancellation at any point, half-open peers, reconnects that fail | one goroutine drives the socket; `Stop` ends all of them; a lost connection is replaced; silence is detected |
| call registry, dialling | `DialContext`, `handleCallingEvent` | correlation (the `calling.dial` request), calls | several legs per dial, events in either order, duplicates, drops, the cap | a dial gets the outcome of its tag; the winner stays registered; ended calls go |
| call waiters (`call.go`) | `WaitFor`, `WaitForEnded`, `WaitForRinging/Answered/Ending`, `On`, `dispatchEvent` | registry | three lock sections with unlocked predicates and handlers between them | no waiter lost, results satisfy the wait, handlers see every event in order |
| actions (`action.go`, the verbs of `call.go`) | `Play`, `PlayAndCollect`, `Record`, `Collect`, `Detect`, `AI`, ..., `Wait`, `OnCompleted`, `resolve` | correlation; the read loop | a verb whose RPC fails while the server has started it | `done` is closed once, after the callback; the result is of the right event |
| messages (`message.go`) | `SendMessage`, `messaging.receive`, `messaging.state`, `Wait` | correlation; the read loop | reports that come before the registration | state follows the server; one completion |

### REST client: `pkg/rest`

| component | operations | what is hard | what makes it correct |
|---|---|---|---|
| request loop (`client.go`, `request_options.go`) | `doRequestContextOpts`, `doAttempt`, `StatusIsRetryable`, `sleepOrCancel` | answers lost after the server acted; cancellation from two sources at any point | no repetition of a POST because of a status; all attempts used, none too many; a cancellation from either source ends it |
| paginator (`namespaces/paginator.go`) | `Next`, `ForEach` | links in a circle, failing fetches, empty pages | no page twice but the first, so that `ForEach` comes to an end; none dropped |
| resources, generated types | wrappers that choose a method and a path | nothing: no state | not modelled |

### Agents: `pkg/server`, `pkg/agent`, `pkg/skills`, `pkg/contexts`, `pkg/prefabs`

| component | state and operations | interacts with | what is hard | what makes it correct |
|---|---|---|---|---|
| AgentServer | `agents`, `order`, `httpServer` under `s.mu`; `RunContext`, its watcher, `Shutdown`, `Register`, `Unregister` | net/http, the requests in flight | a cancellation or a `Shutdown` at every point of a run, before it listens too; a second run while the first ends | the newest run can be shut down; whoever is asked to end does |
| AgentBase, serving | `shutdownCh`, made once and kept; `RunContext`, `buildAndServe`, `SetupGracefulShutdown` | net/http, signals | several goroutines want to close one channel | closed once; a run that is asked to end does |
| AgentBase, requests | tools, prompt sections, contexts, global data under an RWMutex; `clone`, `RenderSWMLForCall`, `applySwmlModifications`, the setters | contexts (validation asks the agent for its tools) | a copy that shares maps with the original; maps used after the lock is gone; a read lock taken twice | one request's data is not seen in another's; nobody waits for ever |
| skills and tools | `loadedSkills` under the manager's lock, `tools` and `toolOrder` under the agent's; `AddSkill`, `RemoveSkill`, `DefineTool`, `RemoveFunction` | each other | an instance is loaded under one lock and registered under another; the key is asked for before `Setup` | map and order agree; an instance gets its tool |
| contexts | a list of steps next to a map of names; `AddStep`, `RemoveStep`, `MoveStep`, references, `Validate`, `ToMap` | the agent's tools | the list and the map drifting apart | what is accepted has no dangling reference of the kinds that are validated |
| spider skill | a page cache under a lock, one crawl per call | HTTP | two calls miss the same page; cycles, shortcuts and limits of a crawl | a cached page can be evicted; a crawl is exact |
| InfoGatherer | nothing: index and answers travel with each call | the platform | repeated, overlapping, reordered calls | answers in step with the questions |

### The rest of the SDK

| component | contents | status |
|---|---|---|
| `pkg/swml` | document builder, schema tables, routes and authentication of a Service | not modelled: a document belongs to one request, tables are set before serving |
| `pkg/security` | session tokens, session metadata, webhook signatures, configuration strings | not modelled: functions over text, the key and the clock, and a map with one lock |
| other skills and prefabs | request templates, answers from parameters; the parallel scrape of `web_search` | not modelled |
| `pkg/swaig`, `pkg/datamap`, `pkg/pom`, `pkg/aichat`, `pkg/lambda`, `pkg/serverless`, `pkg/util`, `pkg/logging`, `pkg/web` | builders, adapters, one-shot requests | not modelled: nothing concurrent, no protocol |
| `cmd`, `internal`, `scripts`, examples, docs, tests | not part of the library | read as statements of what it promises |

## The modules

An action is one atomic step of the code: a section under a lock, a channel
operation, an atomic access that another goroutine can come in front of, or the
return of a blocking call. `PROJECT.json` gives the lines of every definition.

### RpcAbstract and RelayRpc

`RpcAbstract` is the promise of `execute` to its caller: a request that was
issued finishes once, with an answer the server gave to it or with a local
failure. `RelayRpc` has the mechanism.

* `pc[r]` follows `execute`: `Execute` (entry in `pending`, unlocked), `WriteOk` or
  `WriteFail`, then the `select`: `Receive`, `Cancelled` (client context),
  `TimerFires` and, in a separate lock section, `Unregister`. `Cancelled` leaves
  the entry in `pending`, as the code does.
* `reader` follows `readLoop`: `ReadResponse` looks the id up under the read
  lock, `SendToChannel` sends outside of it, `DeletePending` deletes afterwards.
  The gaps between the three are where timeouts, duplicates and `Stop` get in.
* `HandleEventWithHook` runs the `OnEvent` hook on the read loop's goroutine; the
  hook's own request must return before the loop goes on.
* The server answers a request any number of times, with any body, or never; the
  socket is a queue that a drop empties; `Reconnect` opens the link before
  `StartReadLoop`.
* Bodies are abstract: what `Decode` tells apart (`noCode`, `str2xx`, `str404`,
  `str500`, `rpcErr`).

### RelayConnection

One program counter each for `RunContext` (`run`), every read-loop goroutine
(`rpc[i]`, which becomes `reconnect()` when the read fails), the watchdog (`wd`)
and the two callers of `Stop` (`stop["user"]`, `stop["watcher"]`). `connect` is three
steps (dial, store `conn`, store `connected`) and so is the body of `Stop`
(`running`, `cancel`, capture, close, `connected` and the watchdog's channel).
Sockets are numbered in the order of dialling; each is live, silent (half-open),
lost, or closed by us. `authenticate` is one blocking step without a deadline. A
request (subscribe, ping) is answered only while some read loop is reading.

### RelayCalls

`DialContext` (register the tag, request, wait, deferred delete) against
`handleCallingEvent`, split where it gives up the lock: `TakeEvent` reads the event and
looks the tag up in `pendingDials`; the `Handle*` actions do the rest, one per
branch. The server creates legs for dials it accepted, and inbound calls; states
advance and may skip; the winner of a dial is announced before or after its
"answered" state, failures may contradict, and a drop loses the events in flight.

### RelayCall

One call: `dispatchEvent` as `Dispatch` (first lock section: state, snapshots),
`EvaluatePredicate` per waiter (unlocked), `PruneWaiters` (second lock section) and
`RunHandlers` (unlocked). A waiter is a `WaitFor` (`Kind` "event"; `WaitForEnded`
is one) or a typed wait (`Kind` "state": `CheckState`, then `SynthesizeEvent`
or `RegisterAfterCheck`, each in a lock section of its own).

### Completion

What `Action` and `Message` promise to whoever waits on them: one outcome, which stays (`Settle`); the callback at most
once, with the outcome or later (`Notify`), and before `done` is closed (`Close`), once; `Wait` returns only then. Both
implement it: `ActionEnds` maps it to the result, callback and `done` of an action, `MessageEnds` to those of a message,
whose callback is started in the lock section that completes it.

### RelayAction

Actions of several kinds: the goroutine of the verb (`verb[a]`) and the read loop
(`reader`) both run `resolve`: claim under the lock, callback, close of `done`. The
terminal rules of the kinds are `Terminal`: collect has no terminal states, so any
collect event completes it; detect completes on the first event with a result.

### RelayMessage

`SendMessage` registers the Message (`SendRegisters`) after the read loop has handed
over the response (`ReadResponse`) and gone on; `ReadState` looks the id up,
`UpdateState` is the lock section of `updateState`, `FinishUpdate` the close of `done`.
`missed` records the messages one of whose reports reached no Message.

### RestRetry

One request: `CheckCancelled`, then an attempt (`FailsBeforeServer`, `Sends` and
`ServerAnswers` or `ReplyLost`), `Decide`, `Sleeps`. The caller's context and the
AbortSignal are separate; the signal reaches the derived context through
`SignalPropagates`, the goroutine of `context.AfterFunc`. `AttemptAborted` is what net/http does with an
attempt whose context is done.

### RestPaginator

`Next` (`NextExhausted`, `NextFails`, `NextFetches`) and `ForEach` (`ItemsDelivered`,
`CallbackFails`, `ForEachAgain`) over an arbitrary server: `links` and `empty` are
chosen freely in `Init`, so one run covers every link structure, cycles and
links that do not parse included.

### AgentServing

Each `RunContext` has a program counter (`run[r]`: the early return of a done context,
`RunPublishes` under the lock, `RunStartsWatcher`, the three outcomes of
`ListenAndServe`, and the deferred calls in reverse order: `RunClosesServeDone`,
`RunReturns`), a `watcher` and a context. `Shutdown` is `StopReads` (the field, under
the lock), `StopShutsDown` and the end of the drain or its deadline. `http.Server` is
external: a server that is `down` has closed its listener at once; its `Shutdown` returns when
no request is `Active`; `ListenAndServe` on a server that is already down returns at once.

### AgentRun

The same for one agent: `serve`, `observer` (the watcher of the context) and `reaper` (the
goroutine that waits for `shutdownCh` and shuts the `http.Server` down) per run, and one
goroutine per `SetupGracefulShutdown`. `CloseChannel` is the lock section both closers
run. The channel is made by the first run and never made again.

### AgentRequests

Requests (`call[c]`) against setters, over an RWMutex that keeps new readers out while a
writer waits, as Go's does (`WriterPending`, `RLock`). A request or a setter writes its own
name, so that every map and every document shows whose data it contains. With a
dynamic-config callback: `CallClones` (the maps that `clone` copies), one of the `Callback*` actions (a
copied field; a prompt section or the ContextBuilder, which the copy shares with the
agent), `RenderCopy`. Without: `RenderLocks`, `RenderContexts` (`Validate` calls `ListToolNames`, which
takes the read lock again), `RenderListed`, `RenderUnlocks`. Then in both cases, with no
lock, `CallModifies` (what `OnSwmlRequest` returns is written into the map `owner` says) and `CallAnswered`
(the document is marshalled).

### AgentSkills

`LoadDuplicate`, `LoadFails` and `LoadSucceeds` are the outcomes of `LoadSkill` under the
manager's lock; `AddRegisters` is the rest of `AddSkill`, under the agent's. `KeyOf` is
`GetInstanceKey` of an instance that has not been set up: for the skills in `LateKey` the tool
name is still empty. `RemoveSkill` takes any key, so that an instance may be unloaded before it
registers. `UserDefines` and `RemoveFunction` are the application's own.

### ContextFlow

`steps` is the list, `stepMap` the map beside it. `stepRef` is what a step refers to, and `by` says how: an
entry of `valid_steps` or the `completion_action` of its gather_info, which name a step or the following one, its `functions`, or those of
a gather question. `Validate` judges as the code does, by the map; `Dangling` says by the list,
which is what `ToMap` renders, what leads nowhere, and `MayDangle` which kinds the code lets pass: `"next"` in `valid_steps`
(accepted on the last step too) and the functions of questions (not looked at). `doubled` records that a name was given
while a step had it.

### SpiderCrawl

Calls of the tools of one spider instance: the loop of `handleCrawlSite` (`TakeItem`, `LoopEnds`, `PageIsHere`)
around `fetchURL` (`CacheHits`, `CacheMisses`, `FetchFails` or `FetchSucceeds` without the lock,
`CacheStores` with it). `LinksOf` is what `extractLinks` and the filters leave of a page; a page
without text (not in `WithText`) is visited and followed like any other, and not reported (`Noted`). `NewLinks` is the loop over the links of a page, one link at a time.
`Near` is the reference a crawl is compared with: the pages within n links of another.

### InfoGathering

`SubmitAnswer` computes from the data the call carries (`snapshot`) what the platform is to
merge (`update`); `UpdateMerged` merges it. The platform, which is external, sends a call at most
twice, with the same body, and merges answers in any order.

### SdkParts, MCSdkParts and MCRelayObjects

Parts that share no state are checked in one run, one at a time: `object` in MCRelayObjects (actions or messages) and
`part` in SdkParts (the nine parts outside RELAY) say which of them moves while the others rest in an
initial state. The behaviours of each part are those of its own specification (`PartsAreThemselves` proves that for
SdkParts), with its own fairness (`SdkFairness` and `MCFairness` have the fairness formula of each part, for steps of that
part). MCSdkParts has the constants of the nine instances.

## The runs

`CHECK_DEADLOCK FALSE` is given where the program may come to rest: every request
has returned and the client is stopped, nothing more is sent, or the server has been shut down.

| run | instance | shows |
|---|---|---|
| `rpc` | two ordinary requests, one hook request, two frames in flight | `ReaderNeverBlocks`, `OwnAnswer`, `PendingOnlyLeaksOnStop`, `ImplementsRpcAbstract`, `ExecuteReturns` |
| `connection` | three sockets, watchdog with two misses, contexts, silent peers | `SingleDriver`, `ReadsCurrentConn`, `StopEndsEveryGoroutine`, `HalfOpenDetected` |
| `connection_recover` | three sockets, backoff 1, 2, 3, no watchdog | `LostConnectionIsReplaced` |
| `connection_run_blocks` | two sockets | violation of `RunBlocksUntilStop` |
| `calls` | two dials with their own tags, a leg, an inbound call, cap 1 | `DialsSound`: a dial gets an outcome of its own tag (`DialOutcomeSound`), and one that waits is in `pendingDials` (`WaitingDialIsPending`) |
| `calls_race` | one dial, two legs, all states | `WinnerStaysRegistered`, `NoZombieCalls`, `StateNeverRegresses` |
| `call` | a typed wait, a `WaitFor`, a `WaitForEnded`, a handler, two events | `WaiterNeverLost`, `WaitResultSound`, `HandlersSeeEveryEvent`, `RegisteredWaiterReturns` |
| `relay_objects` | a prompt with partial results and a detection, two events each; a sent message and a received one, two frames in flight | `ActionsImplementCompletion`, `CallbackBeforeDone`, `ResultSound`, `CompletionReleasesWait`; `TracksServer`, `MessagesImplementCompletion`, `TrackedWaitReturns` |
| `message_race` | one sent message | violation of `SentMessageWaitReturns` |
| `sdk_parts`, retry | GET and POST, three retries, statuses 404, 429, 500, 503 | `NotRepeatedOnStatus`, `CancelledRequestEnds` |
| `sdk_parts`, walk | three pages, every link structure | `WalkIsSound` |
| `sdk_parts`, serving | two runs, a `Shutdown`, a request | `NewestRunIsReachable`, `ServingEnds` |
| `sdk_parts`, run | two runs of one agent, two signal goroutines | `ChannelClosedOnce`, `AskedRunEnds` |
| `sdk_parts`, requests | two requests and a setter, with and without callback, hook, global data and contexts | `CopiedDataIsPrivate`, `RequestsAreAnswered` |
| `sdk_parts`, skills | a skill with one instance; two instances of another and a duplicate; a tool name that both skills ask for | `SkillToolsSound` |
| `sdk_parts`, flow | two steps, two names, a tool, every kind of reference | `FlowJudgedRightly` |
| `sdk_parts`, spider | two crawls and a scrape over six pages with cycles and shortcuts, two of them without text, a cache of two | `CachedIsEvictable`, `CrawlIsExact` |
| `sdk_parts`, gather | three calls, each sent once or twice, three questions | `AnswersMatchQuestions` |
| `requests_isolated` | two requests and a setter | violation of `OriginalUnchanged` |
| `skill_instances` | two instances of a skill whose key comes too late | violation of `InstanceHasTool` |

`sdk_parts` also checks `SdkTypesOK`, the type invariants of its nine parts. Those of the RELAY modules (`TypeOK`,
`CallTypeOK`, `MessageTypeOK`) are not among the properties of the runs. All of them are proved.

### Why the bounds are enough

* `MaxInbox`, `MaxEvents`, `MaxFrames` = 2 frames in flight: two are enough for a
  duplicate behind the original, a report behind the response it depends on, and
  a response behind an event whose hook waits for it. They bound what is queued,
  not how much is sent: the server goes on as frames are consumed. (In RelayCall and
  RelayAction `MaxEvents` bounds the whole history of one call or action: an event
  and a second one, repeated or not, that meets what the first has left.)
* Three requests in RelayRpc: one whose response is delivered, one whose response could be
  mistaken for it, and the hook's.
* Two sockets are a connection and the one after a reconnect, which is where the
  read loops change hands; the third is needed so that a replacement can fail to
  authenticate, or fall silent, and be replaced before the watchdog looks. `LostConnectionIsReplaced` excuses a client that has
  used all sockets of the instance.
* Two legs race for one dial; two dials could be mistaken for one another.
* Three retries are a first, a middle and a last; three pages make a chain, a cycle
  that includes the first page and one that does not.
* Two runs of a server or an agent are the one that ends and the one that takes over; two signal
  goroutines and two contexts coincide in every combination. Two requests are the one that writes and the
  one that would show it; one setter is enough to wait between two read locks.
* Two steps and two names make a duplicate name, a swap, a last step and a dangling reference. Four `AddSkill`
  calls are a skill without instances, two instances that must not shadow each other and one that is
  a duplicate of one of them. `removed` keeps the application from defining a name more than once.
* The cache has two places and the site six pages, so that most pages of a crawl are evicted, and both calls
  can miss a page and store it twice; `MaxPages` 5 is reached by one of the crawls only,
  `MaxDepth` 2 leaves a page out and has a short and a long way to another.
* Three calls of a tool, each sent twice, are a call, one made with the same data, and one made with the
  data of the first's answer.
* Symmetry is used in `calls_race` only (the legs), which checks no liveness.

### Fairness

Go runs every goroutine that can move, timers fire, and writes return within
their deadline: weak fairness of each goroutine's own steps. Nothing is assumed of
the server, the network, the caller or contexts, with two exceptions that are
stated where they are used. A live peer answers `signalwire.connect`
(`RunAuthenticates`, `ReconnectAuthenticates`); one that does not is a silent
peer, and `StopEndsEveryGoroutine` excuses those, because `authenticate` reads without
a deadline. `LostConnectionIsReplaced` has `NetworkRecovers` as its premise: a client that dials
for ever gets through for ever again. In AgentServing handlers return
(`RequestAnswered`): the watcher drains without a deadline, so that it ends because they do. In RestRetry net/http aborts
an attempt whose context is done (`AttemptAborted`); a server need not answer and a per-attempt timeout need not exist. Nobody is assumed to cancel, to call `Shutdown`, to send a signal or to call a setter. In AgentRun a
`select` that is ready in two ways takes either, so the two outcomes of the watcher share one
fairness condition.

## What is proved

`RelayRpcProofs` proves, for every set of requests, hook requests and bodies and every
bound on the frames in flight:

* `TypeCorrect`, `ReaderIsNeverBlocked`, `AnswersAreOwn`, `PendingIsPruned`: the invariants
  of the `rpc` run;
* `Refinement`: `RelayRpc` implements `RpcAbstract`.

None of the invariants is inductive by itself. That the slot is empty when the read loop is
about to send does not follow from the slot being empty at the lookup: another
delivery could have come between. `CorrelationInv` adds what makes it so.
`SlotFree`: the channel of a registered request is empty, unless the read loop is
between its send into it and the delete of its entry; since there is one read
loop and it deletes the entry after each send, a second delivery finds no entry.
`Provenance`: a body in a channel, in the read loop's hands or on the socket is one the
server sent for that very request. `IdleClean`: nothing exists of a request before it is
issued, so that a fresh id never meets a stale response. The proof takes each action against
each conjunct it can disturb. The refinement then follows step by step: `Receive` is a `Finish` with an
answer by `Provenance`, `Cancelled` and `Unregister` are `Finish` with a local failure, and
all else is an issue, a service or a stutter.

The proof assumes `RequestsAssumption` (hook requests are requests) and `BodiesAssumption`
(bodies are of the known forms). That there is one read loop, that it has one slot
per channel, and that ids are unique are part of the model; the first of them is
`SingleDriver` of RelayConnection, which is proved next.

`RelayConnectionProofs` proves for any number of sockets, any threshold and any backoff: the types (`ConnectionTypes`),
`OneGoroutineDrives` and `ReadIsOnCurrentConn`. `SingleDriver` is not inductive: it does not say that the goroutine a
reader is about to start is not running already. `DriverInv` adds `NextReaderIsFresh`, behind the active reader
none has been started, and takes the two properties together: a read loop keeps reading the current socket because
only the one driver stores `conn`, and it does not store while it reads. One lemma per kind of goroutine
(`RunDriver`, `ReaderDriver`) rests on `DriverMovesOn`, about a reader that goes on. The types need
`WatchdogCounts`: the counter of missed pings stays below the threshold until the watchdog ends.

`StopIsAlwaysHeard` is the safety half of `StopEndsEveryGoroutine`: once `Stop()` has returned and no peer fell silent, no
goroutine of the client waits for something that need not come. `StopInv` is the argument. `StopReachesTheRead`: a read loop
that is in a read when `Stop` takes the connection reads that very socket, and none enters a read after the cancel, so
that the `Close` ends the read; it needs `SocketsAreDialled` and `ReadersStartInTurn`, which say how far the dials are ahead of the
readers. That the goroutines which can go on do come to their end is the other half, which TLC checks.

`RelayCallsProofs` proves for any number of dials, tags, legs and inbound calls, any cap and any number of events in
flight:

* `OutcomesStayInPlace` and with it `DialOutcomeSound`, whatever tags the dials have: each place an outcome passes (the
  socket, the read loop's hands, the channel) holds only what the server announced for that tag (`OutcomesInPlace`).
* `DialsAreSound`: with tags that are distinct also `WaitingDialIsPending`, by `EntriesOwned` (a dial has its entry from the
  registration to its own cleanup).
* `StatesDoNotRegress`, an action property, from `LineOrdered`: the events about one call are on the socket in the order
  of its states (only the two "answered" may repeat one), and what is in flight lies between the registry's state and
  the server's. A drop empties the socket and keeps this.
* `WinnersStayRegistered`, from `WinnersInPlace`: a leg that was offered to a dial is registered, or the server has ended it.
* `NoCallOutlivesItsEnd`: with distinct tags `NoZombieCalls`. `LegsInPlace` says whence legs and events come; `EndsFollowed` is
  the argument: once the end of a call was handled nothing about it is in flight, and a leg that came after its dial had
  given up (`Unclaimed`) finds no dial under its tag any more, so that no later event registers it.

`DistinctTags` is a hypothesis of two theorems, not of the module: `DialContext` makes a uuid for each dial, unless the caller
repeats a tag with `WithDialTag`. With a repeated tag the second dial takes the entry of the first over, and the cleanup of
the first removes that of the second: `WaitingDialIsPending` does not hold, and a late event of the first one's leg
is taken for one of the second.

`RelayCallProofs` proves for any number of waiters, handlers and events `NoWaiterIsLost`, `WaitResultsAreSound` and
`HandlersMissNothing`. `WaiterNeverLost` speaks of the time between dispatches; `WaitInv` says what holds during one: the
event under dispatch is the last of the log (`DispatchInPlace`), the waiters the three sections work on are registered and came before it
(`WaitersInPlace`), and a goroutine with an empty channel is in the list and has missed nothing but the event that is about to be offered
to it (`WaiterKept`). `ResultsInPlace` adds that the state does not go back between the look of a typed wait and the event it
synthesizes; `HandlersInPlace` that a handler has every event since its registration except the one it is owed. `SubSeq` is reasoned about through
three lemmas on appending to a log.

`RelayObjectProofs` proves of RelayAction for any number of actions of any kinds: `DoneIsClosedOnce`,
`CallbackIsBeforeDone`, `ResultIsSound` and `ResultIsStable` (a completed action keeps its result). The run checks the first
and the last of them as parts of `ActionsImplementCompletion`. `ClosedOnce` is not inductive: the close is two steps after the lock
section that decides on it. `ActionInv` adds `OneResolver` (of the verb's goroutine and the read loop at
most one is past that section, and then `done` is still open), `OpenIsUntouched` (nothing has happened to an action that
is not completed), `StartedFirst` (no event reaches an action before its verb has registered it), `CallbackInPlace`
and `ReaderEventSound`. Assumption: `ActionsAssumption`, the kinds of the actions. `ActionsComplete` is the refinement of `Completion`:
`ResolveCompletes` maps the three steps of `resolve`, whoever takes them, to `Settle`, `Notify` (or nothing, without a callback) and
`Close`, and all else is a `Wait`, its return or a stutter. `CompletedIsAlwaysReleased` is the safety half of
`CompletionReleasesWait`: of a completed action `done` is closed, or one of the two is on its way to close it.

Of RelayMessage it proves for any number of messages and frames in flight: the types (`MessageTypes`), `MessagesCompleteOnce` and
`MessagesTrackTheServer`. `CompletionInPlace` ties a completion without a closed `done` to the read loop being between the lock section
and the close. For the second, `NewsInPlace` follows the news: of a message that missed no event the last frame in flight says what the
server says, and with none in flight it is what the client has heard, in the Message, in the read loop's hands, or, before the
Message is there, in the response. `ResponseFirst` and `SendingInPlace` are the order of the protocol this needs. `MessagesComplete` is the refinement of `Completion`, from
`CompletionInPlace`: the first terminal report is a `Settle`, the end of its event the `Close`, a repeated one a stutter. `TrackedIsAlwaysReleased`, the safety half of `TrackedWaitReturns`, joins the
two invariants: a message that missed nothing shows the server's terminal state, and then it is completed and closed.

`SdkProofs` proves of RestRetry for any number of retries, any `retry_on_status` set and any
statuses: the counters are in order (`TypeCorrect`), `StatusNeverRepeats`, `NoRetryWasted`. The invariant `RetryInv` adds `CountersAgree`, how the counters relate to the place in
the loop, and `OnlyUnseenSoFar`: while a request that is not idempotent may still be sent, the
server has carried out only attempts whose answer was lost. That is what makes
the rule of `StatusIsRetryable` sufficient. Assumptions: `RetriesAssumption` (an integer; a negative one
means a single attempt) and `SignalsAssumption`.

Of RestPaginator it proves for any finite set of pages and any links between them, cycles included, the types (`WalkTypes`) and
`WalksAreSound`: no page but the first is handed over twice, the first at most twice, and none is dropped. `AskedOnce` counts: a page has been handed over or is due once for each time its cursor was new, the first page once more,
for it is fetched without a cursor. `NothingDropped`: whatever was linked to is handed over or still due.

Of AgentServing it proves `NewestIsReachable`, for any number of runs, calls of `Shutdown` and
requests. The invariant `ReachInv` adds the types of the three variables: with them the one lemma `MovingOn`
covers every step of a run that leaves the field alone, and what remains is the publishing (the run
is then both the newest and in the field) and the deferred cleanup (which compares before it clears, and
runs after the newest has left the states in which it must be found). Assumption: `ServingAssumption`. `AskedServersHear` is the
safety half of `ServingEnds`: a run that was asked to end does not go on listening unless its server is shut down or about to
be, and a watcher that outlives its run is dismissed. `WatchersInPlace` is what makes it so: a run has its watcher before it listens, and
the watcher leaves only for the shutdown or for the end of the run.

Of AgentRun it proves `ChannelIsClosedOnce` for any number of runs and signal goroutines. `closes <= 1` is not
inductive; `ClosesCounted` ties the count to the state of the channel. `AskedRunsHear` is the safety half of
`AskedRunEnds`: for a run that was asked to end the channel is closed, or its watcher or a signal goroutine closes it next, and its
reaper waits for that or has shut the server down (`RunsInPlace`).

Of AgentRequests it proves `CopiesArePrivate` for any number of requests and setters. `PrivateInv` adds
`StaysOnThePath` (with a callback no request reaches the steps of the static path, and no document keeps a
map of the agent), and `MarksStay`, which is the property for the copies and for the maps made for a document as well
as for the answers: an answer is private because the map it was made from was.

`LocksAreBalanced` counts the holds on the agent's RWMutex: how often each call holds it for reading is what its place says, and
a setter holds it alone. From it follows `OnlyReentryBlocks`, the safety half of `RequestsAreAnswered`: of the goroutines
that have something to do one does not wait for the lock, unless a render that holds it asks for it again behind a
waiting setter (`Reentered`), which is the deadlock of the code.

Of SdkParts it proves `PartsAreThemselves` (a behaviour of the composition is one of each part's own specification, so that what is
proved of a part holds in the composition) and, with it and the types of the nine parts, `PartsHoldTheirTypes`.

`SpiderProofs` proves of SpiderCrawl `CachedStaysEvictable` for any site, number of calls and size of the cache. Storing
twice puts a page into the order twice, and evicting removes one of its places; the lemmas `TailKeepsTheRest`
and `AppendKeeps` say that each cached page keeps a place, and `StoringKeeps` is the step.

It also proves `CrawlsAreExact`, for any site, any limits and any number of crawls that share the cache. `CrawlInv` has four parts.
`CountsOK`: what is reported is the visited pages with text, each once, the visited pages are within the limit, and the one a crawl is at is new and still fits in. `WithinReach`: what is visited or pending at a depth is `Near` the
start in that many links. `ByDepth`: the queue is in order of depth and spans two depths at most, so that a page is first taken by a shortest
way. `NothingForgotten`: without a failed fetch each link of a visited page is itself visited, or pending at a depth that is small enough.
The third is what the fourth needs (a page skipped as visited was visited no later), and is what a crawl in another order
breaks. When the queue is empty nothing is pending, and `NothingNearIsLeft` concludes, distance by distance, that all of
`Near[MaxDepth]` was visited. `NearIsStepwise` and `NewLinksAreTheRest` say what the two recursive functions compute. The
library's induction theorems cannot be used here; the proofs go by the least number that fails (`CountingUp`, from the
well-foundedness of the numbers), and `StepByStep` shows that a function with the recursive equation exists.

`ToolProofs` proves of InfoGathering `AnswersStayInStep` for any number of questions and calls. The data at the
platform is in step because all data about is: `GatherInv` says so of the calls under way and of
the answers not merged yet, and `OneMoreAnswer` is the step.

Of AgentSkills it proves `SkillsAndToolsInStep` (`SkillsTypeOK` and `SkillToolsSound`) for any number of instances, tools and
keys. `ToolsListedOnce` counts places in the list; the proof works on `ToolsListed`, the same without cardinalities (every
listed tool has a handler, every tool with a handler has a place, no two places are equal), and derives the count at the
end. `InstancesInPlace` says that an instance that was not set up found its key taken by one that was set up, and that whoever
was set up has its tool or will have it, unloaded meanwhile or not. Assumption: `SkillsAssumption`.

Of ContextFlow it proves `FlowIsJudgedRightly` for any steps, names and tools. `MapFollowsList`: what the map has is in the list, and while
no name was given twice the list has nothing the map has not, and no name twice. A removal takes out the first step of its name, whichever step the map had: the
first half is why nothing that is accepted dangles all the same, the second why nothing is refused wrongly. The list lemmas
`FirstIsThere`, `RemoveAtFacts` and `InsertAtFacts` say what `SelectInSeq`, `RemoveAt`, `RemoveFirst` and `InsertAt`
do to the places of a list (`InsertedAt` is the list with one element more). Assumption: `FlowAssumption`.

Model-checked only: the liveness properties (fairness and ENABLED are out of the prover's reach), of which
six have a proved safety half (above: nobody is left waiting for what need not come), and the four violations. Every invariant of the passing runs is proved, and
so are the three refinements and the action properties.

## Where code and words disagree

Four runs end in a counterexample:

* `connection_run_blocks`: `RunContext` "blocks until Stop is called or the context is
  cancelled" (client.go:277), but it waits for the goroutine of the first read loop,
  and that goroutine ends when its `reconnect()` has started the next one
  (client.go:1422). After the first reconnect `Run` returns nil while the client goes on,
  and its watcher of the caller's context ends with it.
* `message_race`: `SendMessage` registers the Message after the read loop has gone on
  (client.go:664), so a `messaging.state` event right behind the response finds nothing and
  is dropped; if it was the terminal one, `Wait` never returns.
* `requests_isolated`: docs/sdk_features.md says of the dynamic-config callback that the original agent is
  unchanged. The copy of `clone` shares its section maps and its ContextBuilder with the agent (agent.go:3867), so
  `PromptAddToSection`, `PromptAddSubsection`, `ResetContexts` or a new context in the callback change the agent, and
  the next request shows it. `CopiedDataIsPrivate` is what holds.
* `skill_instances`: docs/agent_guide.md says that web_search supports several instances with tool names of
  their own. `LoadSkill` asks for the key before `Setup` has read the params (skills/manager.go:59), so the second instance has the
  key of the first, is taken for a duplicate and never set up. `KnownInstanceHasTool` is what holds.

Others that the models contain, without a run of their own:

* The `OnEvent` hook runs on the read loop (client.go:1140). An `Execute` in it, which the
  comment at client.go:1133 allows, waits for a response nobody reads and returns by
  its timer. `ExecuteReturns` shows that it does return.
* `reconnect()` calls `subscribeContexts()` before the next read loop starts
  (client.go:1416), although client.go:280 says that a loop must be running: the
  resubscription waits for its timeout. See `ReconnectResubscribes`.
* `Stop` during a dial: `connect` stores `connected` after `Stop` has cleared it (client.go:758), and
  `IsConnected` stays true.
* The watchdog ends with its first detection (client.go:474) and only `RunContext` starts
  it: later connections have none. `HalfOpenDetected` therefore speaks of a running watchdog.
* `reconnect` leaves a socket whose authentication was rejected open and dials another (client.go:1407). The watchdog pings
  only `Client.conn`, so that a socket left behind is neither read, watched nor closed. `HalfOpenDetected` speaks of the
  socket the client uses; and if the client moves on just as the watchdog closes the one before, the watchdog has ended, and
  nobody watches the new one.
* `authenticate` has no read deadline, and the watcher of the caller's context starts after
  it (client.go:336, 859): cancelling the context does not end a `RunContext` whose peer
  accepts the socket and is silent.
* A leg first heard of by its "ended" event, the others having been lost with a connection, is created and kept
  (client.go:1290), and counts against the cap. `NoZombieCalls` speaks of clients that have lost no connection.
* The cap is applied to inbound calls only (client.go:1177, 1243).
* `waitForState` checks the state and registers its waiter in two lock sections (call.go:186): the
  event between them is missed. `WaitForEnded` does not check the state at all
  (call.go:153). `RegisteredWaiterReturns` is what holds.
* Collect actions have no terminal states, so a partial result completes them (action.go:48).
* `Wait` on a received message blocks: only `updateState` closes `done` (client.go:1331;
  message.go:189 says otherwise).
* A POST whose answer was lost is retried and may be carried out twice (rest/client.go:367
  says that there is nothing to duplicate). `NotRepeatedOnStatus` is what holds.
* An AbortSignal that has fired before the request is forwarded by a goroutine, so the first attempt
  may still be sent (rest/client.go:322, 344). `CancelledRequestEnds` is what holds of either source.
* A next link that does not parse ends the walk without an error (paginator.go:99). `NoPageDropped`,
  one half of `WalkIsSound`, speaks of links that parse.
* A run that cannot listen has published its server over an older one's, and clears the field when it returns
  (server.go:455): the older run serves on, and `Shutdown` does not find it. `NewestRunIsReachable` speaks of the newest.
* `AgentServer.RunContext` returns as soon as the listener is closed, while its watcher still drains the requests
  (server.go:474; its comment at server.go:408 speaks of a graceful end): a program that ends with it cuts them off.
* A signal that comes before the agent's `RunContext` has made `shutdownCh` is swallowed (agent.go:2166), and once the
  channel is closed a later run of the same agent ends as soon as it starts (agent.go:3341). `AskedRunEnds` speaks of
  runs that have begun.
* A static render holds the read lock while `Validate` takes it again through `ListToolNames` (agent.go:3175): with a setter
  waiting in between, both wait for ever, and everybody after them. `RequestsAreAnswered` excuses exactly that
  state, `Reentered`.
* Without a callback the document keeps the agent's own `globalData` map, and `OnSwmlRequest` modifications are
  written into it (agent.go:3792): they stay, for all later requests, although each request is "processed independently without shared state"
  (docs/architecture.md:605).
  `CopiedDataIsPrivate` speaks of agents with a callback.
* `HasSkill` and `RemoveSkill`, called with a skill's name, do not find an instance of a multi-instance skill, whose key is
  another (the keys `ListSkills` returns do find it); `RemoveSkill` leaves the tools, hints and data of the skill in place.
* `AddSkill` on the copy handed to the callback panics: the copy has no skill manager.
* A step name given twice leaves two steps in the list and one in the map; `Validate` then refuses flows in
  which nothing dangles once one of the two is removed. `FlowJudgedRightly` excuses those (`doubled`).
  The `valid_steps` of a whole context are never validated.
* `"next"` in the `valid_steps` of the last step is accepted (contexts.go:1001), although `completion_action` `"next_step"` is refused
  there (contexts.go:1079), and the functions of a gather question are rendered without a look at the agent's tools.
  `FlowJudgedRightly` names both (`MayDangle`).
* The comment at spider.go:66 calls the cache bounded. Two calls that miss the same page store it twice, a later
  eviction of the first place removes the page and leaves the second, and the next eviction removes nothing: the cache
  grows past `cacheMaxSize`. `CachedIsEvictable` is what holds.
* A repeated `submit_answer` whose answer comes late sets the index back (info_gatherer.go:250): questions are asked
  again, never skipped.
* `Unregister` leaves the SIP usernames of the agent mapped.

## Not modelled, and why

Within the modelled parts: the contents of the connect reply (protocol, JWT), request
parameters, event payloads beyond what routes them, log lines, delays as
numbers (a timer is an event that may come), `Retry-After`, URL and header building.
Tap, stream, fax, pay and transcribe actions set no terminal states (action.go:437), so that the first event of their type
completes them, whatever it reports, as with collect; pause, resume, volume and stop are single requests.

Of AgentServer: `Register`, `Unregister`, SIP routing and static files, each a change of a table under one lock; a run
serves the table it found. Of AgentBase: the setters one by one (each writes one field under the write lock; `SetterWrites` stands for
them), the wording of the document, SWAIG dispatch, MCP, proxy detection, authentication. Of the contexts: references between contexts, texts
and questions. Of the skills: the parallel scrape of `web_search`, whose abandoned goroutines write to a
buffered channel that nobody reads, and the templates. The other prefabs keep no state between calls. `pkg/swml`, `pkg/security`, `pkg/swaig`,
`pkg/datamap`, `pkg/pom`, `pkg/aichat`, the adapters: functions over text and JSON, for which a bounded model would be a
transliteration. More than half of the Go lines are generated code (REST resources and types, SWML verbs, protocol types) or
generators and audits of it (`cmd`, `internal`): there is nothing in them that moves.

## Plan

1. (done) RelayRpc with RpcAbstract and its proofs; RelayConnection; RelayCalls; RelayCall;
   RelayAction; RelayMessage; RestRetry; RestPaginator; the proofs of RelayAction and
   RestRetry.
2. (done) AgentServing, AgentRun, AgentRequests, AgentSkills, ContextFlow, SpiderCrawl, InfoGathering, and proofs
   of five of them.
3. (done) The proofs of RelayConnection, RelayCalls, RelayCall, RelayMessage, RestPaginator, AgentSkills and ContextFlow.
4. (done) The types of all parts and of their composition; `CrawlIsExact`; the safety halves of `StopEndsEveryGoroutine`,
   `RequestsAreAnswered`, `ServingEnds`, `AskedRunEnds`, `CompletionReleasesWait` and `TrackedWaitReturns`; Completion, and that
   actions and messages implement it.
5. Model: the sockets that failed authentication in RelayConnection; an abstract specification of a call for
   RelayCalls and RelayCall to implement; the parallel scrape of `web_search`.
