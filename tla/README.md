# A verification development for diarsaba-go

`diarsaba-go` is one Go binary with two modes. In *server* mode browsers POST
binary frames over HTTP; in *client* mode they exchange the same frames over a
WebSocket. Each frame goes to Samsara, a local store that answers on the spot,
or to a Synap2P node, which answers later, through a channel of frames. The
heart of the program is the bridge that matches those later answers to the
requests that wait for them; around it are the dispatcher, the HTTP surface, the
process and its configuration, the page of cards that is the client, and a
library of card codecs. All of them are modelled here, each on its own, and the
codecs, the page, the dispatcher and the router together.

## Inventory

| Component | Code | State | Operations | Interacts with |
|---|---|---|---|---|
| Synap2P bridge | `synap_bridge.go` | `pending` (id to waiter), `sessions`, both under `mu`; a one-place channel per HTTP request | `Request`, `DispatchToSession`, `addSession`, `removeSession`, router goroutine of `Start`, `routeFrame`, `broadcast` | node (`Process`, `Events`), HTTP handlers, WebSocket sessions |
| WebSocket sessions | `server.go` 271-307, 354-364 | the connection, `wsSession.mu` | read loop, `dispatchWebSocket`, `writeBinary`, leave | bridge, router, the browser |
| Frame dispatcher | `dispatch.go`, `errors.go` | none | `classifyFrame`, `synapResponseID`, `errorResult` | called by all handlers and the router |
| HTTP surface | `server.go` 102-269, 309-425 | none | routing by host, method and path, public reads, POST, page, logging wrapper | dispatcher, Samsara, bridge |
| Lifecycle | `main.go`, `server.go` 35-100 | context, `errCh`, listener | `NewApp`, `Run`, drain, close | everything |
| Configuration | `config.go` | the resolved configuration | file, environment, defaults, paths | lifecycle |
| Cards UI | `cards/index.html` | `pending` (id to opcode), the socket, one id per card | `sendFrame`, `inspectIncomingFrame`, reconnect | HTTP or WebSocket |
| Card codecs | `cards/js` | none | request builders and response parsers | only through the bytes: whoever uses them talks to the dispatcher |
| External | `go.mod` | | node, Samsara, gorilla/websocket, `net/http` | |

What is hard: the router races with callers that give up; answers come late,
twice or never; ids are chosen by clients and are reused; connections break or
stall while the router writes to them; everything goes through one router
goroutine; the context may be cancelled at any point. `hazards` in
`PROJECT.json` gives each of these at its line.

What makes each part correct:

* bridge: exactly one reply per request, only to its requester, no entry left
  behind, the router never stuck;
* sessions: one writer at a time, entries gone with the session, events in
  order and without gaps;
* dispatcher: every frame has one target, and an answer's id is read from where
  the node put it;
* HTTP surface: the documented routes are reachable with the documented result;
* lifecycle: the process ends, the node is closed, errors are reported;
* configuration: the documented precedence and path resolution;
* UI: each response is shown under the request it answers, and the page's table
  does not leak.

## Modules

The bridge:

| Module | What it models |
|---|---|
| `SynapBridge` | what both modes share: the pending table, `registerPending`, `removePending`, `popPending` within `routeFrame`, `Start`; the node as an environment |
| `ServerBridge` | server mode: the goroutines in `Request`, their channels and timers |
| `RequestService` | abstract: a request let in gets one truthful reply |
| `ServerService` | the refinement mapping from `ServerBridge` to `RequestService` |
| `ClientBridge` | client mode: `handleClientWebSocket`, `DispatchToSession`, `writeBinary`, `addSession`, `removeSession`, `broadcast` |

Frames, from byte to byte:

| Module | What it models |
|---|---|
| `Bytes` | byte strings, 16-bit and 32-bit numbers and where they wrap |
| `CardCommon` | `cards/js/common.js`: the cursor that reads a message, ids, cells, genomes |
| `SamsaraCards` | `cards/js/*.js`: nine operations, four functions each |
| `Synap2pCards` | `cards/js/synap2p/*.js`: thirteen operations, their responses, the events |
| `Dispatch` | `dispatch.go` and `errors.go` |
| `PageFrames` | how `cards/index.html` builds requests and takes responses apart |
| `CardExchange` | one exchange from end to end, composed of the five modules above |

The rest of the program:

| Module | What it models |
|---|---|
| `CardsPage` | the page at work: cards, its table, HTTP and WebSocket, reconnecting |
| `HttpRouting` | `routes`, hosts, paths, public reads, POST, page, upgrade, the log |
| `Config` | `config.go`: the file, the overrides, `Resolve` |
| `Lifecycle` | `main`, `NewApp`, `Run`: start, listener, signal, drain, exit |

`MC...` modules give the constants their values for TLC; `...Proofs` hold the
theorems, and `SequenceInduction` lemmas about numbers and sequences that two of
them need. A definition marked *Wrong* is a plausible bug the code does not have.
No specification uses these; each is there to check that a property notices it.

### The bridge

`SynapBridge` has no specification of its own. `routes()` makes the modes
exclusive (a server has no WebSocket, a client dispatches no frame from HTTP),
so each mode completes it in a module. How state corresponds to code:

* `pending[k]` is `b.pending[k]`; a call stands for the `pendingRequest` it made.
  A call is one invocation of `Request` or `DispatchToSession`; `frameId` is the
  normalised id of its frame, chosen freely at the start, so that any two calls
  may share an id.
* `httpPc[c]` is where the goroutine of a POST is between the calls of
  `Request`; `responseCh[c]` its channel; `reply[c]` what it returned.
* `wsPc[s]`, `turn[s]`, `locked[s]`, `conn[s]` are the goroutine of a connection,
  the frames it has read, `wsSession.mu`, and the connection as the network
  leaves it; `inbox[s]` is what the node's frames made the peer receive.
* `routerPc`, `routerFrame`, `routerTarget` are the router between its select and
  its deliveries; in client mode `routerTo`, `routerWriting` and `broadcastTo`
  are the `writeBinary` it is in and the rest of the snapshot.
* `asked` holds the calls whose frame `Process` accepted, and `events` is the
  channel of the node.
* The `id` of an answer is what `synapResponseID` reads in it, and `ReadAs[k]` the
  ids it may read in an answer to id `k`. An error envelope starts with the id it
  answers; if that begins like an opcode, the bytes four places further on are read,
  which may be the id of another request. An envelope that begins like an event is
  broadcast, and is one of the events of the node here. TLC has an id `k1` that can be
  read as `k2`; the proofs take any `ReadAs` that allows each id to be read as it is.

An action is one critical section, one channel operation or one call that can
block or fail. `registerPending` and `popPending` are one step each because the
code holds `mu` for all of each; the look-up of `routeFrame` and its delivery
are two, because it does not. `Process` failing and the `removePending` after
it are two. Reading a WebSocket frame and registering it are one step, as
nothing another goroutine sees lies between them.

The node may answer an accepted frame any number of times, at any time and in
any order; it emits events and frames too short to carry an id; it blocks while
its channel is full. It never answers a frame it refused. A frame the browser
sends is a call with an id; one that needs no node (Samsara, or rejected) is
`ReadLocal` in client mode and does not touch the bridge in server mode. Text
messages are skipped by the read loop and are no step.

### Frames

A byte is a number below `Radix`, which is 256 in the code and 128 for TLC:
2^32 is beyond TLC's integers, and nothing depends on the number but that all
opcodes and separators are below it. A text is the bytes `TextEncoder` makes of
it. A reader in `cards/js` is a list of steps over the cursor of `makeCursor`;
one that throws returns `Thrown`.

The engines are not in this repository, but their half of the format is: the
library has the readers of requests and the builders of results beside those a
client needs. `EngineReads` and the `Says...` actions use these, so that what an
engine reads and writes is what the library documents of it. The stages of an
exchange are compose, (renumber, cut), dispatch, read, answer, route and read.
`Renumber` stands for a program that uses the library and puts the opcode in by
which the dispatcher knows Samsara's requests; the library itself builds them
with Samsara's own numbers. The cards of the node export such a second opcode too
(`EXTERNAL_OPCODES`), which is one less than the number that the dispatcher, the
page and the library itself use. `RenumberSynap` is the program that puts it in all
the same: `RELAY` is refused, and each other request goes to another operation.

### The page

`card[c]` is the `state` of a card with its preview, `pending` the page's map of
ids to opcodes (an opcode stands for the card that sends it), `sends[s]` what a
click has sent and what has become of it, `socket` and `timers` the WebSocket
and the calls of `connectSocket` that `setTimeout` holds, `transport` the mode
the page is served in. The script is only interrupted at an `await` and between
events, so an action is a handler up to its next `await`: over HTTP a click and
its response are two steps, over a WebSocket a click is one. Whether an id's
fourth byte is an opcode (`Confusable`) and whether a payload has random bytes
(`SaltedCards`) is all that is kept of bytes here.

### HTTP, configuration, process

`HttpRouting` takes one request at a time from its arrival to its log line, as
no handler outside the bridge touches what another one uses. Paths are sequences
of characters, because whether a key survives two decodings is the question.
The `ServeMux` of client mode is modelled by what it does with the two patterns of
`routes`: it compares escaped paths part by part, a `ws_path` that ends in a slash
stands for all paths below it, a path that is not clean and a subtree's path without
its slash are redirected (with 301 or 307, by release of `net/http`), and two equal
patterns, or one with a space, make it panic.
What a frame does after it got in is the matter of the other modules.

`Config` has three steps, `ReadFile`, `Override` and `ResolveConfig`, each of
which may end the program. Of a text it keeps what the code tells apart.

`Lifecycle` has a clock that moves when nothing is due, `stage` for where `main`
is, the listener and the router as goroutines of their own, and for each POST
where its handler is. It sees the bridge from outside: a handler in `Request`
leaves it by an answer, as long as the router runs, or by its timer.

## Runs

| Run | Instance | Properties |
|---|---|---|
| `server_safety` | 3 calls, 2 ids, one of which can be misread, channel of 2 | `TypeOK`, `SendNeverBlocks`, `NoLeakedEntry`, `AnswersMatch`, `LostOnlyBehindOrphan` |
| `server_service` | 2 calls, 2 ids, channel of 2, 1 event | `ImplementsService`, `EveryRequestReturns`, `RouterKeepsRouting` |
| `client_safety` | 2 connections, one with 2 frames and one with 1, 2 ids, one of which can be misread | `TypeOK`, `OwnersConnected`, `EntriesAwaited`, `OneAnswerPerFrame` |
| `client_sessions` | 2 connections, 1 frame, 3 events, both peers may stall | `WriteExclusive`, `EventsWithoutGaps`, `GoneIsSwept`, `RouterFreeUnlessStalled` |
| `client_wait` | 1 connection, 1 frame | violation of `WsRequestSettles` |
| `card_exchange` | all 22 operations and 3 events, each field at its limits, whole and cut, under each opcode they may have | `ReachesItsEngine`, `RequestsSurvive`, `PartsRefused`, `AnswersFound`, `ErrorsNeverReadAsDone`, `AnswersUnderstood` |
| `cards_page` | 2 cards, 2 clicks, 4 ids, 2 texts, 2 salts, both transports | `TypeOK`, `ShownUnderItsCard`, `PendingMatchesSends`, `PreviewSentUnlessSalted`, `OneSocket`, `IdsSentAgainOnlyInFlight`, `ConnectsWhenReachable` |
| `http_routing` | hosts in all spellings, 4 methods, 4 WebSocket paths and 14 paths around them, keys of up to 3 characters | `ReadsWhatIsAsked`, `FramesOnlyWhereExposed`, `PageIsReachable` |
| `http_upgrade` | the same | violation of `Upgrades` |
| `config` | files and environments with up to two odd fields | `SourcesInOrder`, `OnlyCompleteRuns`, `PathsFollowFile` |
| `config_key_path` | the same | violation of `KeyPathFollowsFile` |
| `lifecycle` | 2 requests, drain of 2, wait of 3, signals up to time 3 | `TypeOK`, `ExitIsHonest`, `CutOnlyAfterDrain`, `ShortWaitsAnswered`, `EndsWhenAsked` |

`LostOnlyBehindOrphan` is the most delicate property of the bridge. `removePending` deletes by
id, so a call that gives up can delete the entry of a later call with the same
id. The invariant says when: only if some call with this id ended in an error
while an answer sent to it was never read. Ids that are not reused exclude it.

`ImplementsService` says that to its clients the bridge is the service of
`RequestService`: no second reply, no refusal as a duplicate without a twin
inside, no timeout of a request the node does not have, no answer the node did
not make for that id or for one that can be read as it, and a reply to every request
that is in.

`EntriesAwaited` is the counterpart in client mode of what `NoLeakedEntry` is for a
server. Nothing times out there, so that an entry may stay as long as its connection;
what it must not do is stay for a frame the node refused, whose answer nobody makes.

`client_wait` is a disagreement between code and comment.
`config.client.production.yaml` documents `request_timeout` as the longest wait
for answers of the Synap2P engine; client mode never uses it. A request the node
does not answer keeps its entry until the connection closes, and until then its
id is refused as a duplicate. The property excludes shutdown, so the
counterexample is a running program.

`http_upgrade` is a bug. The README offers `WS /ws` without a condition, but with
logging enabled the handler is wrapped in a `ResponseWriter` that hides the
`Hijacker` of the one of `net/http`, and every handshake is answered with 500.

`config_key_path` is a disagreement between code and README. The README says that relative paths start at the
directory of the configuration file. `key_path` is resolved only if `data_dir` is
blank, and a few lines above it was given its default, so that a relative `key_path` is
handed to the node as it is written. Where the node looks for it, in its data or in
the directory of the process, is not in this repository.

Some properties have an exception where the program does less than one expects.
The exception is part of the property, and exact where it can be:

* `ReadsWhatIsAsked`: `splitPublicPath` decodes a path that `net/http` has decoded
  before. A key with a percent sign may fail or give the value of another key
  (asking for `%25` reads `%`), and so may a database with a slash. The README
  documents `GET /{db}/{key}` without this.
* `FramesOnlyWhereExposed`: a `ws_path` that ends in a slash takes WebSockets on all
  paths below it.
* `OnlyCompleteRuns` is what `Resolve` promises. It lets a `ws_path` pass that
  `routes` panics on in client mode: `/`, or one with a space.
* `AnswersMatch` and `OneAnswerPerFrame` go by the id that the router reads. The answer
  of a call may have been made for another request whose id begins like an opcode.
* `PreviewSentUnlessSalted`: the page says that a card shows the exact frame its
  button sends. The payload of `diferir` draws random bytes each time it is
  built, so that the frame sent is another one.
* `ReachesItsEngine`: a Samsara request as the library builds it has Samsara's own
  opcode, which the dispatcher refuses or takes for one of the node's What a card
  of the node exports as its external opcode is the dispatcher's number of the card
  before it: the node does another thing than was asked, and the caller is told
  whether that other thing succeeded.
* `AnswersFound`: an error envelope starts with the id it answers. If that id
  starts with three zeros and an opcode, the router looks for the id four bytes
  later, and the envelope is lost, or broadcast as an event.
* `AnswersUnderstood` and `ShownUnderItsCard`: the page takes a response for a
  frame with an opcode if its fourth byte is one; about one random id in ten
  makes it so. It then looks for the id four bytes further on, so that the request
  stays in its table, unless the id is the same four bytes four times over and the
  answer that of Samsara: this id is found, under the wrong title (`Repeating`). An
  event of a peer with 2^16 bytes or more tells another peer (`TooLong`).
* `RequestsSurvive` and `PartsRefused`: a topic with a `|`, and a peer of 2^16
  bytes, leave their end to the next field. The peer's length is told modulo 2^16,
  and by what it tells a direct message that is cut is refused or read.
* `ErrorsNeverReadAsDone`: a Samsara request in the library's own opcode may be
  taken by the node for one of its own. The error it then answers with has the end
  of the id where Samsara has its status, so that an id that ends in the number 1
  makes a success of it (`StatusInId`).
* `IdsSentAgainOnlyInFlight`: over HTTP a card keeps its id until the response is
  there, and a second click sends it again. The bridge refuses the second, and the
  refusal takes the entry of the first out of the page's table.
* `PageIsReachable`: a configured host with a port is never matched, and an API host
  equal to the public one is hidden by it.
* `ShortWaitsAnswered`: a drain of 5 s is shorter than the waits of 10 or 15 s in the
  configurations, so that a shutdown may cut requests off.
* `SuccessIsTrue`, a part of `ExitIsHonest`, does not ask that no error of the
  listener was there: the select may take the cancelled context instead.

`routes` registers the path `/` twice if `ws_path` is `/`, and takes what is before a
space in it for a method. The mux panics on both; the model goes to `Panicked` then and
makes no property of it.

Bounds, and why they are enough:

* *Calls and ids.* The races need a call, a twin with its id, and at times a
  third that registers while the second gives up: three calls over two ids give
  all of them, and the second id shows that other ids are untouched, and is what the first
  may be misread as. The proofs have no such bound.
* *`SafetySpec` and `SafetyView`.* In `client_safety` the first frame of the connection
  with two has the id that can be misread, which leaves the most to follow a misreading.
  No action reads an inbox, so that states are told apart by what the properties
  of the run look for in one: in `client_safety` the ids of the answers, in
  `client_sessions` (`EventsView`) the last event and whether there was a gap. The proofs
  have neither restriction.
* *`EventsCap`.* The node's real capacity is not in this repository. The bridge
  only sees the channel as empty or not; 1 or 2 frames give both, and two let an
  answer and a repeated answer or an event be queued together.
* *`MaxEvents`.* Three events are the least for a gap between two of them.
* *`MaxFrames`, per connection.* Two frames let an id be reused in a connection.
* *`Stallable`.* Which peers may stop reading. A write may be slow in any case,
  being a step of its own; only whether it must ever end depends on this. The run that
  has no property of that kind, `client_safety`, has no such peer.
* *Messages of `card_exchange`.* All fields of a plain message have different
  lengths and contents, so that two fields in the wrong order or with the wrong
  length are noticed; then one field at a time takes each difficult value: empty,
  with separators, at and past 2^16, ids that look like opcodes, numbers at 0, -1,
  2^32 and no number, each bit of a genome. Every plain request is cut at every
  length. Fields do not influence each other except through their lengths.
* *`cards_page`.* Two clicks give twins of one id and a second click between a
  click and its response; two cards give an answer the chance to be shown under the
  other one; four ids are what two cards and two clicks can use over a WebSocket. The
  proofs have no such bound.
* *`http_routing`.* An escape has three characters. Keys of three characters over an
  alphabet of escapes have every way in which the second decoding can fail,
  change the key, or leave it. The paths around the WebSocket's are one each of below
  it, beside it, not clean in each way, and escaped.
* *`config`.* No step of `Resolve` looks at more than two fields.
* *`lifecycle`.* The drain is shorter than the wait, as in the configurations.
  `MaxTime` bounds when requests arrive and signals come; time goes on after it as
  long as something waits for it. The proofs have no bound on any of these.

Fairness. In the bridge: weak fairness of each goroutine in `Request`, of each
connection's own steps and of the router: the Go scheduler runs what can run, a
timer fires, `Process` returns. Nothing is assumed of clients, peers, node or
operator: reading a frame, an answer, an event, stalling, resuming, breaking and
cancelling are not fair. The router has weak fairness as a whole, which does not
oblige it to take the `ctx.Done` case of its select while frames keep coming; the
code does not either. `RouterFreeUnlessStalled` is therefore an implication: if
from some point on no peer is stalled, the router comes back to its select for
ever. In the page: a socket that is being opened opens or closes, a timer of
`setTimeout` fires; `ConnectsWhenReachable` assumes nothing of the network but
what it says. In the process: `main` goes on when it can, time passes, and a
timer that is due fires; clients may take for ever to send a body.

Deadlock is checked in all runs. Where the program has nothing left to do there is
a stutter for it: `Finished` in the bridge, `Over` in `CardExchange` and `Config`,
`Quiet` in the page, `Panicked` in `HttpRouting`, `Ended` and `Idle` in
`Lifecycle`.

## Proofs

TLAPS proves, for any values of the constants:

* server mode (`ServerBridgeProofs`): `TypeOK`, `SendNeverBlocks`,
  `NoLeakedEntry`, `AnswersMatch` and `LostOnlyBehindOrphan` are invariants, and
  every step is a step of `RequestService` or leaves it alone (`ServiceSimulated`);
* client mode (`ClientBridgeProofs`): `TypeOK`, `WriteExclusive`,
  `OwnersConnected`, `EntriesAwaited`, `OneAnswerPerFrame` and `EventsWithoutGaps` are
  invariants;
* an exchange (`CardExchangeProofs`), for requests with any numbers and texts of any
  length: page and library make the same bytes of the same request (`OneFormat`);
  `ReachesItsEngine`, `RequestsSurvive`, `PartsRefused`, `AnswersFound`,
  `ErrorsNeverReadAsDone` and `AnswersUnderstood` are invariants; the readers of
  Samsara's results undo its builders (`ResultRead`), and `parsePeersCsv` the join of
  the peers (`PeersSplit`);
* the dispatcher (in the same module), for frames of any length: an answer of the
  node is routed by the id `classifyFrame` read in the request; the id of an
  envelope is read right exactly unless it begins as an opcode frame; a frame that
  is too short goes to no engine; nothing that goes to one has an event's opcode;
* HTTP (`HttpRoutingProofs`): the safety properties of `http_routing`, for keys and
  paths of any length, any hosts, methods and store;
* configuration (`ConfigProofs`): the safety properties of `config`, for any files and
  environments;
* the page (`CardsPageProofs`): all its safety properties, for any cards, clicks
  and ids, and whatever the network does;
* the process (`LifecycleProofs`): all its safety properties, for any requests,
  drain, timeout and times.

The assumptions are the named ones of the modules: the value that stands for no
call, no session or no card is none, bounds and times are naturals, a call of
client mode is a pair of a connection and a number, opcodes are bytes and their
ranges are apart, and the opcodes of the cards are those the dispatcher knows
(`CardOpcodesAssumption`). Of a request `MessagesAssumption` says that it has the
fields of its operation, and that a text is a sequence of bytes shorter than 2^32; a
number may be anything, a negative one and no number included. Of an engine's
answer `ResultsAssumption` says that a success of Samsara has the status 1 and what
the builder of its result takes, with numbers below 2^32 and values of bytes, and that
a success of the node has bytes where its card returns data, or a list of peers, none
of them empty or with a comma in it. `EventsAssumption` says the same of events: they
have the fields of their builders, and an id unless they tell of a found peer. Nothing
is assumed of the lengths of ids: the builders refuse a wrong one. `ReadAsAssumption`
says that an id can be read as it is; `WSPathAssumption` that a `ws_path` begins with a
slash, as `Resolve` makes it, and has no `{` and no `%`, which `ServeMux` would read as a
wildcard and as an escape; `RequestsAssumption` that a path begins with a slash and
decodes, as `net/http` refuses any other.

Server mode. None of the invariants is inductive alone. `Inductive` adds
`EntriesLive` (a registered call is inside `Request`, under its own id, and
nothing has been popped for it), `DeliveryLive` (what the router holds is an
answer to the id of a call that has entered, with a free channel), `Fresh` (a
call that has not begun has an empty channel, one that has not returned has no
reply) and `AnswersGenuine` (every answer, wherever it is, is to a frame the node
accepted, with an id its own can be read as, and in a caller's channel with that
caller's id). A blocked send would
need an entry of a call that had already been sent to, which `EntriesLive`
excludes. For `LostOnlyBehindOrphan` the step that matters is a call that gives
up and deletes a twin's entry: as it no longer had its own entry, either its own
answer is unread in its channel, and it is the orphan now, or it had lost the
entry in the same way, behind another orphan.

`ServiceSimulated` adds `AskedInWait`: the node has a call's frame exactly from
the end of `Process` on.

Client mode. `Inductive` adds `LockHeld` (`locked[s]` says that one of the two
writers is writing), `RouterAims` (the router delivers exactly when it has a
destination), `Membership` (the bridge holds the sessions between their two calls)
and `Begun`. An entry cannot outlive its session because its goroutine registers
only inside, and leaves with its entries in one critical section. `EntriesAwaited`
is part of `Inductive` and needs `OwnersConnected`: an entry the node does not have the
frame of belongs to what its session is dispatching, and the session gets out of that
with the frame taken, or by a removal that leaves nothing under the id the entry has.

`OneAnswerPerFrame` counts. Under each id, what a peer has been sent, what the
router is about to send it, and its entry in the table together are no more than
the frames it has sent: a frame pays for an entry, an entry for one delivery, a
delivery for one message. `EventsWithoutGaps` follows the numbers of the events
along the channel: they are consecutive there, the router holds the one before
the first, and a session has been sent all events from its first up to the one
before that, or up to that one if the broadcast has passed it. A session is in the
rest of a snapshot at most once, and one that joined later is in none.

The page. `Inductive` adds that the ids of cards differ, that a preview is the
frame of what the card holds, that requests with one id are of one card, and, the
one on which the others turn, `SendOfCard`: a request whose id a card still holds
was made by this card, over HTTP, and waits. A response can then remove only its
own entry or that of a twin, and a new id is one no request has had.

The process. `Inductive` ties the stage to what has been started and closed, and
the deadline and the times at which requests began to the clock; a request that
waits has not waited longer than its time, as the clock stands still while a
timer is due.

Configuration. `Inductive` says that what `Override` leaves is
`applyEnvOverrides` of the file, and what runs is `Resolve` of that. The three
properties are then facts about these operators, which the prover finds by the
kinds of settings and not by their values.

HTTP. `FramesOnlyWhereExposed` compares decoded paths, and the mux the beginning of an
escaped one: `UnescapeFront` says that the decoding of a path begins with the decoding
of what comes before one of its slashes. `splitPublicPath` decodes a path once more than it should, and
`ReadsWhatIsAsked` is exact about what becomes of it, which takes an argument about
`PathUnescape` on texts of any length: a text without a percent sign is left as it is,
an escaped one comes back from one decoding, and decoding goes through a text
character by character or escape by escape. `PathUnescape` is a recursive function from
the end of the text to its beginning; the lemmas go along it by `StrongInduction`.

An exchange. `ExchangeInv` ties everything in flight to the request that was
composed: the frame is its bytes or a beginning of them, the verdict is
`classifyFrame` of the frame, what was read is the reader's result on it, the reply
is one the engine makes for that verdict, what is shown is what the client makes of
the reply. It is inductive by itself, once `OneFormat` has shown that what a sender
composes does not depend on who it is. The properties follow from it, by what the
builders and readers do:

* A request is laid out in pieces one behind the other (`PartsLaidOut`), and a
  reader takes them one by one. `ReadSoFar` says where its cursor is after k steps
  and what it has read; `RequestRead` goes from 0 to all of them. A length is sent
  before what it is the length of, so that a reader that has come to a piece knows
  its size, and if the message ends before the piece does, throws. `OperationReader`
  has, for each of the nine operations, the pieces of its builder and the steps of
  its reader face to face. From this come both `RequestsSurvive` (all is there) and
  `PartsRefused` (something is not), at any cut.
* The node's payloads are what is left after opcode and id (`PayloadRead`). For a
  topic and its message `BarSplit` shows that cutting at the first separator loses
  nothing and is the cut that was meant if the topic has none. For a direct message
  `EndInTwo` does the same at the length that was told.
* A genome's flags are summed bit by bit (`GenomeKept`).
* For errors the bytes where a client looks for a status are computed
  (`EnvelopeBytes`, `FailureBytes`, `NodeFailureBytes`): they are never a 1 but where
  the property says so.
* `AnswersUnderstood` is the way back. `ExchangeInv` says of a reply that an engine made
  it for the verdict, and `WholeAnswered` that this engine is the one that was meant. An
  answer of Samsara is its id, the status and the rest (`ResultLaidOut`), one of the node
  opcode, id, status and data (`NodeSuccess`, `StatusRead`); for both it is computed
  what the library reads in them (`LibraryUnderstands`) and what the page does
  (`PageUnderstands`, by whether the fourth byte of an id is an opcode). Of the texts
  between commas `PeersPlaced` says where each begins, `PeerWhole` that the reader sees
  it end where it does, and `PeersSplit` puts the list together from its end.
* For events `ExchangeInv` says nothing of what was told. `EventInv` does: the reply is
  what the builder makes of one of the `Events`, its opcode is an event's, and it has
  not gone anywhere but to everybody. It is inductive next to `ExchangeInv`, and
  `EventsRead` reads it with both readers.

The library's theorems of induction take an operator as a parameter, which these
provers cannot instantiate. `SequenceInduction` states induction of sets
(`SetInduction`, `StrongInduction`, from the theorem that a well-founded relation has
minimal elements) instead, and from it what `FlattenSeq` does to a sequence with one
more piece in front.

Only model-checked:

* the liveness properties and the liveness half of `ImplementsService`, which are
  beyond the prover;
* that the properties with expected violations are violated.

## What could follow

An abstract service of a session that `ClientBridge` implements, as
`RequestService` is for a server; `Lifecycle` with the bridge's own router in place
of the view it has of it; several pages against one bridge, to see a refused twin
from both ends.

## Not modelled

* Samsara and the node beyond their interface, the WebSocket library's control
  frames, `net/http` beyond what its handlers see of it, TLS, the contents of
  databases.
* Conversions between text, base64 and hexadecimal and bytes, in the page and in
  the library: a text is taken as the bytes it becomes.
* Content types, the list of entries on the page, its wording and its look.
* The remaining settings of the node, each copied from its field as one of the
  kinds in `Config` is.
* The deployment files: values, a systemd unit, recorded responses.
* Data races on memory do not arise in the bridge: both maps are only used under
  `mu`, and channels carry the rest.
