# User Management Service: a TLA+ verification project

The repository is a small distributed program: an API gateway (REST and
WebSocket) in front of a user service with a Postgres table, joined by a NATS
server. These modules model how a request travels through it, from its validation to
the table and back, what crashes, lost messages and timeouts do to it, what the
gateway's cache of users is worth, and what its WebSocket clients get to see. TLC
checks the models on small instances and TLAPS proves the central facts for all of
them.

Paths below are relative to `src/`. US is `user-service`, AG is `api-gateway`.

## Inventory of the system

| part | state | operations | what must hold |
|---|---|---|---|
| **users table** (`US/migrations/000001_*.up.sql`, `US/internal/db/queries/users.sql`) | rows, UNIQUE(email), generated ids | `INSERT/UPDATE/DELETE ... RETURNING`, `SELECT` | no two users with one e-mail, whatever runs concurrently |
| **user service and repository** (`US/internal/user`) | none of its own | `CreateUser`, `ListUsers`, `GetUserByID`, `UpdateUser`, `DeleteUser`: validate, run one statement, map errors | an error class is the truth about the statement |
| **command handlers** (`US/cmd/service/commands.go`) | one message per subject in hand | one callback per subject: parse, call the service, `reply`, `publishEvent` | every command answered; every commit announced, nothing else announced; updates announced in order |
| **user-service process** (`US/cmd/service/main.go`) | its subscriptions | five `Subscribe`s in order, `select {}`; deferred `Drain` | what was handed to the connection leaves it |
| **message contract** (`US/pkg/contract`) | none | subjects, envelopes, JSON | both sides agree |
| **users client** (`US/pkg/usersclient/client.go`) | calls in flight | `List Get Create Update Delete` over request/reply, 5 s timeout, errors by code | a returned result is true of the statement, also after a crash |
| **user cache** (`US/pkg/usersclient/cache.go`) | `sync.Map` id -> user | filled by answers and by `user.event.*` | converges on the table; holds only committed rows under their own ids |
| **REST handlers** (`AG/internal/httpapi`) | none | decode, validate, call the client, map the error to a status | documented status codes |
| **WebSocket handler** (`AG/internal/ws/handler_ws.go`) | one reader per connection | decode action, call the client, answer or leave the answer to the broadcast | every action ends in something the client sees |
| **WebSocket hub** (`AG/internal/ws/hub.go`) | set of clients, 64-slot broadcast channel | one goroutine: register, remove, broadcast | FIFO per client, one writer per connection, closed once, never stalled |
| **gateway process** (`AG/cmd/api/main.go`) | subscriptions, router | subscribes the cache, then the hub, then serves | no request before the cache hears events; upgrades reach the connection |
| **input validation** (`US/pkg/validation`, struct tags) | none | phone pattern, required/optional fields | nothing valid that the table refuses |
| **migrations runner, request ids, sqlc plumbing, API descriptions** | - | - | - |

How they meet. A request's goroutine in the gateway publishes a command on
`user.command.<op>` and waits on an inbox; nats.go runs one goroutine per
subscription in the service, so at most one message of each subject is being
handled and the five handlers interleave. The handler commits, answers, and
publishes `user.event.<op>`; answers and events share one write buffer and one
flusher, hence leave in the order they were handed over. Events fan out to a
subscription per event subject in every gateway, each with a goroutine that
writes the cache, while request goroutines write the same cache from their
answers. Nothing orders an answer with an event, or events of two subjects, or
the write buffer with a crash.

What is hard: those orders; the window between commit, answer and event;
calls that time out with their command still queued; a service that is
subscribed to some subjects and not yet to others; restarts of either process;
dropped messages (core NATS is at most once); a slow WebSocket client behind
one hub goroutine. `PROJECT.json` lists each hazard at its line.

## Modules

| module | models | extends |
|---|---|---|
| `UsersTable` | row, constraint and statements of the table | - |
| `Nats` | contract and bus: subject queues, subscriptions, faults | `UsersTable` |
| `UserService` | handlers, service, repository, write buffer, start and death of the process | `Nats` |
| `CommandBus` | the service under arbitrary clients | `UserService` |
| `UsersClient` | RPC client and cache, per gateway | `Nats` |
| `UserSystem` | gateways, bus and service composed | both |
| `UserDirectory` | abstract specification: a directory that changes one user per request, atomically | `UsersTable` |
| `WsHub` | the hub's goroutine, event callbacks, readers of connections and their peers | - |
| `WsSession` | the WebSocket handler over the hub: requests, silence, answers and events | `WsHub` |
| `UserInput` | validation tags, phone pattern, decoding, column widths | - |
| `Gateway` | HTTP requests: middleware, routes, handlers, the service's checks, statuses | `UserInput` |
| `CacheSubscription` | `SubscribeUserEvents` and `UnsubscribeUserEvents` | - |
| `MCUserSystem`, `MCWsSession` | symmetry for TLC | `UserSystem`, `WsSession` |
| `SequenceLemmas` | lemmas on queues | - |
| `UserServiceProofs` | lemmas on the service: its types, what it has pending, the order of its updates | `UserService` |
| `CommandBusProofs` | the theorems about the service on its own | `CommandBus`, `UserServiceProofs` |
| `UserSystemProofs` | types of client and system; order of updates; truth of results | `UserSystem`, `UserServiceProofs` |
| `UserSystemTheorems` | committed rows, coherence of the caches, refinement and what follows | `UserSystemProofs` |
| `WsSessionProofs` | the hub's invariant and the theorems about sessions | `WsSession` |
| `CacheSubscriptionProofs` | the theorems about the cache's subscriptions | `CacheSubscription` |
| `GatewayProofs` | the theorems about one request, its checks and its status | `Gateway` |

### State and actions against the code

* `table`, `clock`: Postgres. A row is an e-mail (the column with a
  constraint), a `name` (standing for the columns without one) and a `stamp`,
  the version `updated_at = NOW()` gives it. The table may hold rows already
  when the service starts. `history` and `applied` are history variables: rows
  a user ever had, requests whose statement changed something.
* `queue[op]`, `subscribed`: the subscriptions of the five command subjects.
  A process that dies takes its subscriptions with it.
* `handler[op]`: what the callback of `op` still has to send. `Ready(op)` is an
  idle goroutine with a message. `HandleCreateUser` and its siblings run the
  handler up to the end of its statement (`ReplyOnly`, `Commit`), `Respond`
  and `PublishEvent` are the two sends that follow. `Commit` has a second
  outcome: the statement took effect and the connection to Postgres broke
  before saying so. `DatabaseFailure` is any other failed query, a value too
  wide for its column included.
* `outbuf`, `Flush`, `LoseMessage`: the connection's write buffer. In
  `UserSystem`, `Deliver` flushes its oldest message to the waiting request
  (`Accept`) or to every gateway that has subscribed to it (`Distribute`). `Flush` is
  given the users about whom somebody misses the message: none in `CommandBus`.
* `Terminate`, `HandleSubscribe`: the process dies, the container restarts it
  and `main` subscribes again, one subject after the other.
* `pc[r]`, `call[r]`, `result[r]`, `left[r]`: the goroutine of a request.
  `idle -> (missed ->) waiting -> answered -> done`; `missed` separates the
  cache lookup of `Get` from its request, `answered` the arrival of the answer
  from its way into the cache, one row at a time for a list (`StoreAnswer`).
  `result` is the error class, `INTERNAL` covering timeouts, "no responders" and
  a caller that went away.
* `cache[g]`, `events[g][s]`, `ApplyCacheEvent`: the cache and its three event
  goroutines. `LoseEvent` drops an event at one gateway, `RestartGateway`
  empties a cache, ends its subscriptions and kills its calls.
* `hearing[g]`: the event subjects a gateway has subscribed to. `main` calls
  `SubscribeUserEvents` before it listens, so a gateway takes requests only when it
  hears all three (`Serving`). The gateways of `Init` are up; one that restarts
  subscribes to one subject after the other while events go on passing. An event
  on a subject it does not hear yet does no harm while it hears none, its cache
  being empty; once it hears some but not all, the event may be the one that was to
  correct what another subject has brought, and its user counts as `lost`
  (`MissedBy`).
* `faults`, `MaxFaults`: how many crashes, losses and failures may still happen.
  `lost`: users about whom an event was dropped or missed. `raced`: users whose row changed
  while an older message about them, which the new one may overtake, was in flight.

`WsHub` and `WsSession`, against `AG/internal/ws`:

* `pending[s]`: the queue of an event subscription whose callback calls
  `Hub.Broadcast`; `broadcast` is the channel, `Capacity` its 64 slots. A full
  channel disables `Broadcast(s)`: the callback waits, its queue grows.
* `clients`, `current`, `rest`, `target`: where `run` is. `Listening` is the
  select; `Register` and `Unregister` are rendezvous with a reader in
  `registering` or `leaving`, the channels being unbuffered. `Take` begins the loop
  of a message, `Visit` calls `writeText` for the next client in any order,
  `Lock` gets its mutex, `Written` or `WriteFailed` end the write.
* `reader[c]`: how far `Handle` is; `writers[c]`: who is inside a write, which
  the mutex makes at most one. `link[c]`: `up`, `gone` when the peer left (a write
  may still succeed into the kernel's buffer, or fail), `closed` by the hub.
* `feed`, `log`, `joined`, `arrived`, `closes` are history variables.
* A request (`WsSession`) is named like the event it may cause. `Ask` reads it,
  `Reject` and `Call` are the ways `process` ends, `Conclude` decides with
  `shouldWriteDirectResponse` whether to answer, `Answer` writes it. What the users
  client may return is taken from `UserDirectory`, which `UserSystem` is proved to
  implement: `Apply` and `MayReturn` are its `Apply` and `Truthful`, as far as one
  connection can tell (who else changes which user is `AskElsewhere`; that nothing
  is due after a definite answer is `Apply`'s guard on `result`). `Announce` and
  `LoseEvent` are what becomes of a change's event on its way to this gateway, each
  subject in its own order; `AskElsewhere` are changes by other callers.
* These two modules start where the upgrade has succeeded. As the gateway is
  wired today it never does (next paragraph); they say what the code of the hub
  and handler does once it does.

`Gateway` and `UserInput`, against `AG/cmd/api/main.go`, `AG/internal/httpapi`,
the tags of both programs and `US/internal/user`:

* One request at a time: `Receive`, a handler's checks in the order of the code
  (`CreateUser` ...), the service's own checks and statement (`ServiceCreates`
  ...) or a call that fails (`CallFails`), `Respond`, and the end of
  `requestLogMiddleware`. How requests interfere is `UserSystem`'s subject.
* A text is a record of what the rules ask of it: length, well-formedness, a
  leading plus, a space at its end (which Postgres cuts off where any other
  character too many is an error), a NUL character. `GatewayRules` and
  `ServiceRules` are the two copies of the tags (presence, limits, `email`, `phone`),
  `Fits` the columns.
* `Ids`: the id as the table prints it, another spelling `uuid.Parse` would read,
  junk. `cached`: the keys under which the user is cached.
* `statusRecorder`: the methods a handler may ask of its writer behind the
  middleware.

`CacheSubscription`, against `US/pkg/usersclient/cache.go` 72-124: `subsMu`,
`eventSubs`, and `live[s]`, how many subscriptions the connection serves for `s`.
The two operations are exported by a package made to be imported, and take a
mutex; the gateway itself calls the first once. They are modelled for any callers,
handle by handle. Of nats.go the model uses that `Subscribe` and `Unsubscribe` fail
on a connection that drains or is closed, and only there, and that it does not
reopen.

### The abstract specification

`UserDirectory` knows no service, bus or cache. A request asks for something
(`asked`: operation and user), which makes a change with an input of its own `due`;
the change may be applied once, to the user asked for, as its operation and input
say (`Permitted`), or be given up; and the request returns. `OK`, 400 and 404 are
true, and final: nothing is due after them. An internal error leaves the outcome
open, even to a change that happens afterwards.

`UserSystem!ImplementsDirectory` maps `asked[r]` to the call, `due[r]` to the input
of its command while that waits in a queue, and `returned[r]` to the result of a
request whose goroutine is done. It says at once that no redelivery, retry, crash or
late command applies a request twice, after a definite answer, to another user than
the one it named or with the input of another request, and that e-mails stay unique.

## Runs

| run | module | instance | what it shows |
|---|---|---|---|
| `command_bus` | `CommandBus` | 2 users, 2 e-mails, 2 commands, 1 fault | any two commands, malformed ones included: nothing is announced that was not committed, and of a user with no lost event every commit is, updates in order; a command that waits, or its answer, reaches the client in the end unless another fault happens after that moment |
| `system_races` | `MCUserSystem` | 1 gateway, 1 user, 3 requests | a stale entry has an event with the current row under way, unless the user is in `raced` |
| `system_faults` | `MCUserSystem` | 2 gateways, 2 users, 2 e-mails, 2 requests, 1 fault | truthful results, committed rows, coherence and refinement under any one crash, loss or failure, the restart of a gateway with its subscriptions included |
| `system_live` | `MCUserSystem` | 1 gateway, 1 user, 2 requests, 1 fault | every entry settles, unless its user is in `raced` or `lost`; a gateway that took requests before it was subscribed would break it; types |
| `cache_stale` | `MCUserSystem` | 1 gateway, 1 user, 2 requests | violation: `CacheUpToDate` |
| `service_stop` | `MCUserSystem` | 1 gateway, 1 user, 1 request, 1 fault | violation: `StopDrains` |
| `ws_session` | `MCWsSession` | 2 connections, 2 requests, channel of 1 | gapless feeds of whole messages, clean exits, no event lost or overtaken inside the gateway; a silent success has its event on the way; refusals are final |
| `ws_session_live` | `WsSession` | 2 connections, 1 request, channel of 1 | every request ends in an answer, an event or the end of the connection; events reach clients; readers end |
| `ws_stalled` | `WsSession` | the same, one peer may stop reading | violation: `ContinuouslyListens` |
| `gateway` | `Gateway` | all inputs at both sides of each limit | only three kinds of valid input fail in a healthy program; the two validations agree; statuses tell the truth; a deletion empties the cache |
| `ws_upgrade` | `Gateway` | one handshake | violation: `UpgradeTakesOver` |
| `cache_subscription` | `CacheSubscription` | 3 goroutines | no event applied twice, all subscriptions or none |

The four violations are disagreements between the code and what is written about it.

* **The cache does not stay up to date.** `AG/cmd/api/main.go` subscribes "to
  keep the cache up to date". TLC finds two requests after which a gateway holds
  a row the table no longer has, and nothing is on its way to correct it: a get
  misses and is answered with the old row; before its goroutine stores it, a
  delete or update commits and its event is applied; then the old row is stored
  and stays (entries never expire). The same happens among events of different
  subjects, which have goroutines of their own.
  `CacheCoherentUnlessRaced` and `CachesConverge` say what does hold: these
  races, and lost events, are the only reasons. They bound the hazards of
  overtaken and lost messages to the users in `raced` and `lost` and do not rule
  them out; nothing in the code does. Two updates never race with each
  other's events (`UpdatesApplyInOrder`).
* **`Drain` is never reached.** `US/cmd/service/main.go` defers `nc.Drain()`
  to finish pending work, but `main` ends in `select {}` and installs no signal
  handler, so a stop drops the write buffer, answers and events included.

* **The hub does not listen continuously.** The comment at `run` says it does.
  Its loop writes to the clients itself and sets no deadline, so one connected peer
  that does not read (`Stalling`) stops it for good: registrations, removals and
  broadcasts for everybody. `ws_session_live` shows that this is the only reason:
  while peers read or leave, everything else comes to its end.
* **No WebSocket handshake succeeds.** `statusRecorder` embeds the interface
  `http.ResponseWriter`, which promotes neither `Hijack` nor an `Unwrap`; the
  upgrader therefore answers 500 to each handshake that reaches it through the
  middleware, and `asyncapi.yaml`'s API is not available.

Further differences met on the way, without a run of their own: `openapi.yaml`
lists no 400 for `GET` and `DELETE /users/{id}`, which the handlers return for a
bad id; `asyncapi.yaml` says the request id is "echoed back in direct response",
and successful mutations have none; an update with an empty phone stores an empty
string where a create stores NULL; valid input of the three kinds in
`OnlyUnstorableFails` gets a 500 (a phone of a plus and 20 characters, an address
longer than 255, a NUL in a name).

Two behaviours the properties allow and a reader may not expect: after an
update's answer has been stored, an event of an *earlier* update still in the
gateway's queue may set the entry back until the later event arrives (so reads
of one's own writes are not guaranteed); and a delete that timed out but took
effect leaves the entry until its event arrives.

### Bounds

Each request is made once, so `Requests` bounds a run; three about one user are what
it takes for two changes to overlap a read, two for every pair of operations. Two
users and two e-mails let a create and an update compete for an address. Two
gateways let an event reach one and not the other. One name is enough because no
property tells unconstrained columns apart; versions differ by `stamp`. `MaxFaults =
1` admits any one fault at any moment; all theorems hold for any number. Such a
fault may be the restart of a gateway, which puts every stage of its subscriptions
beside every stage of the other gateway's requests; what `Init` leaves out, the
first start of a gateway, is the end of that restart. Ids are never reused: when all
of `Users` have existed, a create waits forever; `CommandBus!Ask` makes no more
creates than there are ids left, and in `UserSystem` such a call times out. Deadlock
is not checked: when all requests are done the system is at rest.

`Capacity = 1` makes the channel full at the second event (in `ws_session`, where
`NothingLostInside` speaks of it; `ws_session_live` has one event and never fills
it); with two connections one can be registered, written to, or leave while the
other waits for the hub, and two events are enough to be lost, swapped or
half-written (safety also held for the hub alone with three). A connection is
upgraded once: a client that comes back is a new one. The queue of a subscription is
not bounded in the model (nats.go drops from 512 k messages on: a `LoseEvent` here).
In `Gateway` lengths are one below, at and above each limit; one first name, e-mail,
phone, age and status vary together; `MaxInt32` stands for the largest int32 and
keeps its role as a limit. Its requests go on forever, so deadlock is checked there,
and in `CacheSubscription`, which nothing bounds but its callers.

### Fairness

Weak fairness, for what the Go and container runtimes schedule: callback
goroutines, the flusher and the event goroutines with work; `FetchMissed`; a
request that waits is answered or times out after 5 s (`Timeout`); an answer is
stored; `HandleSubscribe`, because the container is restarted
(`restart: unless-stopped`). None on requests being made, nor on faults.

In `WsHub`, weak fairness for goroutines that can run, strong fairness where Go
chooses among waiting ones: `select` picks a ready case at random (`Register`,
`Unregister`, `Take`), a mutex serves first the one that waited longest once it
starves (`Lock`, `ReaderLock`). A write ends because the peer reads or has left:
`Written` and `ResponseWritten` are fair for connections outside `Stalling`, a
write to a connection that is gone or closed ends for all. Nothing makes a peer send,
leave or read on.

## Proofs

* `SequenceLemmas`: elements of `Append`, `Tail`, and of short sequences.
* `UserServiceProofs`: what holds of the service whoever composes it, stated on its
  own steps: `ServiceStepTypes`; `ServiceOrder`, the order of the updates it holds;
  `LaterOnly`, that what it has let go of stays older than what it still holds.
* `CommandBusProofs`: `BusTypeCorrect`; `CommitsAreAnnounced`, from `AnnouncedInv`
  (`EveryCommitAnnounced` with `RowsRecorded`: the row a user has is one of its
  history, without which a deletion could pass for a user that never was); what is
  said of each user is what the committed rows and the table say, row by row, and
  the deletion; a commit whose acknowledgement is lost, and what a dying process
  held, put their users in `lost`; and
  `AnnouncedInOrder`, from `BusOrder`: what was announced is increasing and older
  than all `ServiceOrder` speaks of.
* `UserSystemProofs!TypeCorrect`: `Spec => []TypeOK`, from one lemma per action of
  the service and the client.
* `UserSystemProofs!ResultsAreTrue`: `Spec => []DefiniteResultsAreTrue`. The
  property speaks of returned requests, while its truth is settled when the statement
  runs, so it is not inductive. `ResultsInv` adds what connects the two: a
  command still in a queue belongs to a started call of that operation, has had
  no effect, has no answer on its way and no definite result (`CommandsInv`); it is
  there once (`QueuesInv`); every answer on its way is true (`RepliesInv`); calls
  that have sent nothing have no effect (`CallsInv`). A timed-out request with its
  command still queued is the case that makes the second clause necessary: it has
  an `INTERNAL` result and may still take effect, so `INTERNAL` must claim nothing.
* `UserSystemTheorems!RowsAreCommitted`: `Spec => []OnlyCommittedRows`. `RowsInv`
  adds the places a row comes from: the table, and the answers and events that
  handlers and write buffer hold. Since `history` only grows, what was once
  true of a row stays so while the message that carries it is delayed.
* `UserSystemTheorems!CachesAreCoherent`: `Spec => []CacheCoherentUnlessRaced`. The
  property speaks of what a cache holds; whether it stays true depends on all that
  is still on its way to it. `CoherenceInv` says, of users neither raced nor lost:
  an answer that will be stored carries the row as it is (`AnswersCurrent`; no
  answer comes for a call not made, by `ResultsInv`, so a new call makes no old
  answer count again); an event carries the row as it is or is an update that a
  newer one with the current row supersedes (`EventsCurrent`). That the newer one
  is applied last, and is not dropped by a gateway's restart while the older one is
  still to come, is `OrderInv`. A commit gives the row a stamp of its own
  (`TableDated`), so that it counts as a change and `raced` takes note of it.
  `HearingInv` is for gateways that start: one that hears nothing has an empty cache
  and empty queues (`HearsNothing`), so an event that passes it by is missed by
  nobody; one whose requests are under way hears everything (`HearsAll`).
* `UserSystemProofs!UpdatesAreInOrder`: `Spec => []UpdatesApplyInOrder`. `OrderInv`
  extends the pipeline at its front, by `ServiceOrder`: the event the update handler
  has yet to publish is newer than those published, all are at most `clock`, and no
  other handler publishes updates. Handing over and delivering move a message from
  the head of one sequence to the end of the next; losses and crashes only shorten
  them.
* `UserSystemTheorems!DirectoryImplemented`: `Spec => ImplementsDirectory`. A
  statement that changes a row is `Apply` of the request whose command is at the
  head of the queue, with what that command carries: there is one command of a
  request at most (`DueIs`), and it leaves the queue with the statement
  (`TakenDue`). `ResultsInv` gives that the request was not applied and has no final
  answer, `SettledInv` that it has a result from its answer on, `TableInv` that
  e-mails are unique and stamps in the past, so that an update really changes its
  row, `RowsInv` that an id never used has no row. The end of a request's goroutine
  is `Return`, true because of `ResultsInv`; a gateway's restart is `Abandon`;
  refusals, losses and the death of the service are `GiveUp`; all other steps
  stutter. From there follow `EmailsStayUnique` and two action properties, by the
  steps of the directory: `AnswersStand` (a definite answer is not taken back, and
  its request changes nothing any more) and `ChangesAreRequested` (the table changes
  one user at a time, as a request that has not changed it before has asked for).
  They add nothing the refinement does not check, so they have no run of their own.
* `WsSessionProofs!HubMoveInv`: `HubInv` is kept by every step of the hub's variables,
  whoever takes it. `MutexInv` says that whoever writes, writes alone, and that the
  hub writes only to the client it has called; so what `Written` appends is whole.
  `LoopInv`: until its loop is over the message in hand is the last one of the log.
  `ExitInv` divides connections into those not registered yet, the clients (never
  closed), and those closed exactly once; a reader that unregisters finds one of
  the last two. `FeedInv` is `FeedsAreGapless` message by message.
* `WsSessionProofs`: every step of a session is such a step (`StepIsHubMove`),
  which gives `ExitsAreAlwaysClean` and `FeedsAreAlwaysGapless`.
  `SilenceIsAlwaysAnnounced` needs four more parts. `TraceInv`: the requests that
  changed the directory are those whose event is to be announced, waits for a
  callback, is in the channel or the log, or was lost. `HandleInv`: while a reader
  reads on, it owes no answer; when it answers, it owes one. `ResultInv`: a success
  was applied, a refusal was not (also `RefusalsAreAlwaysFinal`). `OwnInv`: the event
  of a connection's request is in the log only after the connection's registration,
  for it was registered before it asked. So an applied request with no answer is on
  its way, or in the log behind `joined[c]`, where `FeedInv` says that `c` was fed
  it or that it is the message in hand.
* `WsSessionProofs!NothingIsLostInside`: `Spec => []NothingLostInside`. The way of an
  event through the gateway is one sequence, the log followed by the channel and the
  subject's queue, and the places in it of a subject's events are mapped onto its
  arrivals in order. `OrderInv` follows the places: an arrival adds the last one
  (`PlacesAppend`); a broadcast moves an event from its queue to the end of the channel,
  before events of its own subject and behind all others, which moves no event of a
  subject past another of it (`PlacesInsert`); `Take` leaves the sequence as it is.
* `CacheSubscriptionProofs`: `EventsAppliedOnce` and `SubscribedToAllOrNone` speak of
  what the connection serves, which depends on who holds handles. `LiveInv`: a
  connection that is up serves exactly the subjects of `Held`, the handles of the call
  that has the mutex, or of the cache when none has; `MutexInv` that there is no other
  call; `CallInv` that a call to subscribe only goes on when the cache had none, that
  handles are made and dropped in the order of `subjects`, and that a rollback
  only happens on a connection that has been given up.
* `GatewayProofs`: `Inv`, request by request. `Accepted`, that a request which
  reached the client passed its handler's checks, holds until the answer is sent.
  `AcceptedIsValid` concludes that the service's rules accept it (`RulesAgree`), that
  its id is the one the user is cached under, and (`ValidFits`) that a column refuses it
  only if it is of the three kinds of `OnlyUnstorableFails`. `CodeInv` says what
  each error class means for the change and the input, `AnswerInv` the same of each
  status, `CacheInv` that the user is cached under the table's spelling only.

The proofs assume of the constants only that `MaxFaults` and `Capacity` are natural
numbers, that `Stalling` is a set of connections, and that `None` is none of the
values it is told from (`MaxFaultsIsNat`, `CapacityIsNat`, `StallingAreConns`,
`NoneIsNoValue`, `NoneIsNoCode`, `NoneIsNoCall`, `NoneIsNoConn`, `NoneIsNoCaller`,
`NoneIsNoWish`, `NoneIsNoField`, `NoneIsNoAnswer`), and in `Gateway` that lengths
are natural numbers (`SizesAreNats`); the sets may be of any size, infinite ones
included. The runs evaluate all of them.

Every safety property of every passing run is proved, the refinement included.
Model-checked only is what TLAPS cannot reach, liveness: `EveryCommandAnswered`,
`CachesConverge`, `EveryRequestConcluded`, `EventsReachClients`, `ReadersFinish`.

## Not modelled, and why

* Routes that serve the documentation, and the exits of both `main`s before they
  serve: no state the properties speak of.
* The bytes of JSON messages, and payload checks of the WebSocket handler one by one
  (they are those of `Gateway`, on the same types): `valid` in `WsSession`.
* Ping, pong and close handshakes of gorilla/websocket: a peer is there or gone.
* The migrations runner (a one-shot wrapper around a library), request ids (only
  logged), sqlc plumbing (generated), OpenAPI/AsyncAPI (descriptions).
* NATS reconnection beyond its effect, lost messages and commands.

## Plan

1. Done: `UsersTable`, `Nats`, `UserService`, `CommandBus`, `UsersClient`,
   `UserDirectory`, `UserSystem`; types, truthfulness, committed rows, order of
   updates and the refinement proved.
2. Done: `WsHub`, `WsSession`, `UserInput`, `Gateway`, `CacheSubscription`.
3. Done: the safety of the hub and its sessions proved.
4. Done: the announcements of the service on the open bus proved.
5. Done: the coherence of the caches proved.
6. Done: the order of events through the hub, the cache's subscriptions, and the
   gateway's requests proved: no safety property is left to TLC alone.
